------------------------- MODULE HoloServerProofs -------------------------
(***************************************************************************)
(* The headset server for any number of messages.  Numbers says how the    *)
(* numbers of the texts follow each other through the receiving thread,    *)
(* Sent where the text has gone in the commanding one.                     *)
(***************************************************************************)
EXTENDS HoloServer, TLAPS

Numbers == /\ incoming.num = arrived
           /\ incoming.kind # "torn" /\ msg.kind # "torn"
           /\ msg.num <= arrived
           /\ arrived = 0 => incoming.kind = "short"
           /\ msg.num = 0 => msg.kind = "short"
           /\ rp = "store" => msg.num < arrived
           /\ rp # "store" => msg = incoming
           /\ raised <= msg.num
           /\ raised > 0 /\ msg.num = raised => msg.kind = "HJ"
           /\ cmd = "HJ" => raised > 0
           /\ hp = "read" => raised > 0

Sent == /\ hp \in {"test", "read"} /\ running => posd = servo /\ posd = text
        /\ hp = "servo" => posd = text
        /\ hp = "clear" => posd = servo /\ posd = text
        /\ ~running => hp = "read"

Inv == TypeOK /\ Numbers /\ Sent

LEMMA InitInv == Init => Inv
  BY DEF Init, Inv, TypeOK, Numbers, Sent, NoMessage, Message, Kind

LEMMA ReceiveKeeps ==
    ASSUME NEW kind \in Kind, Inv, running, Receive(kind)
    PROVE  Inv'
<1>1. incoming' = [num |-> arrived', kind |-> kind] /\ arrived' = arrived + 1
  BY DEF Receive
<1>2. TypeOK'
  BY <1>1 DEF Receive, Inv, TypeOK, Message, holoVars
<1>3. Numbers'
  BY <1>1 DEF Receive, Inv, TypeOK, Numbers, Message, Kind, holoVars
<1>4. Sent'
  BY DEF Receive, Inv, Sent, holoVars
<1> QED
  BY <1>2, <1>3, <1>4 DEF Inv

LEMMA ReceiverKeeps == Inv /\ Receiver => Inv'
<1> SUFFICES ASSUME Inv, Receiver PROVE Inv'
  OBVIOUS
<1>1. CASE Store
  <2>1. TypeOK'
    BY <1>1 DEF Store, Inv, TypeOK, holoVars
  <2>2. Numbers'
    BY <1>1 DEF Store, Inv, TypeOK, Numbers, Message, holoVars
  <2>3. Sent'
    BY <1>1 DEF Store, Inv, Sent, holoVars
  <2> QED
    BY <2>1, <2>2, <2>3 DEF Inv
<1>2. CASE Close
  <2>1. TypeOK'
    BY <1>2 DEF Close, Inv, TypeOK, holoVars
  <2>2. Numbers'
    BY <1>2 DEF Close, Inv, Numbers, holoVars
  <2>3. Sent'
    BY <1>2 DEF Close, Inv, Sent, holoVars
  <2> QED
    BY <2>1, <2>2, <2>3 DEF Inv
<1>3. CASE Parse
  <2>1. msg \in Message /\ msg.num \in Nat /\ arrived \in Nat
    BY DEF Inv, TypeOK, Message
  <2>2. TypeOK'
    BY <1>3, <2>1 DEF Parse, Inv, TypeOK, holoVars
  <2>3. msg.kind = "HJ" => msg.num > 0
    BY <2>1 DEF Inv, Numbers
  <2>4. Numbers'
    BY <1>3, <2>1, <2>3 DEF Parse, Inv, TypeOK, Numbers, holoVars
  <2>5. Sent'
    BY <1>3 DEF Parse, Inv, Sent, holoVars
  <2> QED
    BY <2>2, <2>4, <2>5 DEF Inv
<1> QED
  BY <1>1, <1>2, <1>3 DEF Receiver

(* What a read of the shared string may give, at the moment of the read. *)
LEMMA ReadableText ==
    ASSUME Inv, hp = "read", NEW m \in Readable
    PROVE  /\ m \in Message
           /\ m.num >= raised
           /\ m.num = raised => m.kind \in {"HJ", "torn"}
<1> USE DEF Inv, TypeOK, Numbers, Message, Kind
<1>1. CASE m = msg
  BY <1>1
<1>2. CASE rp = "store" /\ m = incoming
  BY <1>2
<1>3. CASE m = [num |-> msg.num, kind |-> "torn"]
  BY <1>3
<1> QED
  BY <1>1, <1>2, <1>3 DEF Readable

LEMMA CommanderKeeps == Inv /\ Commander => Inv'
<1> SUFFICES ASSUME Inv, Commander PROVE Inv'
  OBVIOUS
<1>1. running
  BY DEF Commander
<1>2. ASSUME NEW m \in Readable, Read(m) PROVE Inv'
  <2>1. m \in Message
    BY <1>2, ReadableText DEF Read
  <2> QED
    BY <1>1, <1>2, <2>1 DEF Read, Inv, TypeOK, Numbers, Sent, recvVars
<1>3. CASE Test
  BY <1>1, <1>3 DEF Test, Inv, TypeOK, Numbers, Sent, recvVars
<1>4. CASE SetJoint
  BY <1>1, <1>4 DEF SetJoint, Inv, TypeOK, Numbers, Sent, recvVars
<1>5. CASE SetServo
  BY <1>1, <1>5 DEF SetServo, Inv, TypeOK, Numbers, Sent, recvVars
<1>6. CASE Clear
  BY <1>1, <1>6 DEF Clear, Inv, TypeOK, Numbers, Sent, recvVars
<1> QED
  BY <1>2, <1>3, <1>4, <1>5, <1>6 DEF Commander, Reading

THEOREM Invariance == Spec => []Inv
<1>1. Inv /\ [Next]_vars => Inv'
  <2> SUFFICES ASSUME Inv, [Next]_vars PROVE Inv'
    OBVIOUS
  <2>1. CASE UNCHANGED vars
    BY <2>1 DEF vars, Inv, TypeOK, Numbers, Sent
  <2> QED
    BY <2>1, ReceiveKeeps, ReceiverKeeps, CommanderKeeps DEF Next
<1> QED
  BY InitInv, <1>1, PTL DEF Spec

(* Every variable keeps its type. *)
THEOREM Typing == Spec => []TypeOK
  BY Invariance, PTL DEF Inv

(* After each command the desired joint and the servo hold the same text,  *)
(* the last one that was read.                                             *)
THEOREM OneTargetSafety == Spec => []OneTarget
<1>1. Inv => OneTarget
  BY DEF Inv, Sent, OneTarget
<1> QED
  BY Invariance, <1>1, PTL

(* The thread never reads a text older than the one that raised the        *)
(* command, for any number of messages and every interleaving.             *)
THEOREM OwnTextSafety == Spec => OwnTextOrLater
<1>1. Inv /\ Reading => /\ text'.num >= raised
                        /\ text'.num = raised => text'.kind \in {"HJ", "torn"}
  <2> SUFFICES ASSUME Inv, NEW m \in Readable, Read(m)
               PROVE  /\ text'.num >= raised
                      /\ text'.num = raised => text'.kind \in {"HJ", "torn"}
    BY DEF Reading
  <2> QED
    BY ReadableText DEF Read
<1>2. Inv /\ [Next]_vars =>
        [Reading => /\ text'.num >= raised
                    /\ text'.num = raised => text'.kind \in {"HJ", "torn"}]_vars
  BY <1>1
<1> QED
  BY Invariance, <1>2, PTL DEF Spec, OwnTextOrLater

-----------------------------------------------------------------------------
(* The refinement.  A text the thread works with is at most one assignment   *)
(* ahead of msg, and a command that may still be read was raised by that     *)
(* text or by a later one.                                                   *)
Forward == /\ text.num > msg.num => rp = "store" /\ text = incoming
           /\ running /\ (hp = "read" \/ (hp = "test" /\ cmd = "HJ")) => raised >= text.num
           /\ hp \in {"test", "read", "joint"} => posd = servo
           /\ posd.num <= text.num /\ text.num <= arrived

LEMMA ForwardInit == Init => Forward
  BY DEF Init, Forward, NoMessage

LEMMA Nums == TypeOK => /\ msg.num \in Nat /\ incoming.num \in Nat /\ text.num \in Nat
                        /\ posd.num \in Nat /\ servo.num \in Nat
                        /\ arrived \in Nat /\ raised \in Nat
  BY DEF TypeOK, Message

LEMMA ForwardStep == Inv /\ Forward /\ [Next]_vars => Forward'
<1> SUFFICES ASSUME Inv, Forward, [Next]_vars PROVE Forward'
  OBVIOUS
<1> USE Nums DEF Inv, Numbers, Sent, Forward
<1>1. CASE UNCHANGED vars
  BY <1>1 DEF vars
<1>2. ASSUME NEW kind \in Kind, Receive(kind) PROVE Forward'
  BY <1>2 DEF Receive, holoVars
<1>3. CASE Store
  BY <1>3 DEF Store, holoVars
<1>4. CASE Close
  BY <1>4 DEF Close, holoVars
<1>5. CASE Parse
  BY <1>5 DEF Parse, holoVars
<1>6. CASE Test
  BY <1>6 DEF Test, recvVars
<1>7. ASSUME NEW m \in Readable, Read(m), running PROVE Forward'
  <2>1. hp = "read" /\ text' = m /\ UNCHANGED <<recvVars, cmd, raised, posd, servo>>
          /\ hp' \in {"read", "joint"} /\ (hp' = "read" => running' = FALSE)
    BY <1>7 DEF Read
  <2>2. m \in Message /\ m.num >= raised
    BY <2>1, ReadableText
  <2>3. m.num \in Nat
    BY <2>2 DEF Message
  <2>4. m = msg \/ (rp = "store" /\ m = incoming) \/ m.num = msg.num
    BY DEF Readable
  <2>5. posd.num <= m.num /\ m.num <= arrived
    BY <1>7, <2>1, <2>2, <2>3, <2>4
  <2>6. m.num > msg.num => rp = "store" /\ m = incoming
    BY <2>3, <2>4
  <2>7. UNCHANGED <<rp, arrived, incoming, msg>>
    BY <2>1 DEF recvVars
  <2>8. posd = servo
    BY <1>7, <2>1
  <2> QED
    BY <2>1, <2>5, <2>6, <2>7, <2>8
<1>8. CASE SetJoint
  BY <1>8 DEF SetJoint, recvVars
<1>9. CASE SetServo
  BY <1>9 DEF SetServo, recvVars
<1>10. CASE Clear
  BY <1>10 DEF Clear, recvVars
<1> QED
  BY <1>1, <1>2, <1>3, <1>4, <1>5, <1>6, <1>7, <1>8, <1>9, <1>10
  DEF Next, Receiver, Commander, Reading

(* Every step of the two threads is a step the wrist was promised, or none.  *)
LEMMA TargetStep == Inv /\ Forward /\ [Next]_vars => [Target!TNext]_Target!tvars
<1> SUFFICES ASSUME Inv, Forward, [Next]_vars PROVE [Target!TNext]_Target!tvars
  OBVIOUS
<1> USE DEF Target!TNext, Target!tvars
<1>1. ASSUME UNCHANGED <<arrived, posd, servo, running>>
      PROVE  [Target!TNext]_Target!tvars
  BY <1>1
<1>2. CASE UNCHANGED vars
  BY <1>1, <1>2 DEF vars
<1>3. ASSUME NEW kind \in Kind, Receive(kind), running PROVE Target!TNext
  BY <1>3 DEF Receive, holoVars, Target!Arrive
<1>4. CASE Store \/ Close \/ Parse
  BY <1>1, <1>4 DEF Store, Close, Parse, holoVars
<1>5. CASE Test \/ Clear
  BY <1>1, <1>5 DEF Test, Clear, recvVars
<1>6. ASSUME NEW m \in Readable, Read(m) PROVE [Target!TNext]_Target!tvars
  <2>1. UNCHANGED <<arrived, posd, servo>> /\ (running' = FALSE \/ running' = running)
    BY <1>6 DEF Read, recvVars
  <2> QED
    BY <2>1 DEF Target!Fail
<1>7. CASE SetJoint /\ running
  <2>1. posd' = text /\ posd = servo /\ UNCHANGED <<arrived, servo, running>>
    BY <1>7 DEF SetJoint, Forward, recvVars
  <2>2. posd'.num \in posd.num..arrived
    BY <2>1, Nums DEF Inv, Forward
  <2> QED
    BY <1>7, <2>1, <2>2 DEF Target!Aim
<1>8. CASE SetServo /\ running
  <2>1. servo' = posd /\ UNCHANGED <<arrived, posd, running>>
    BY <1>8 DEF SetServo, Inv, Sent, recvVars
  <2> QED
    BY <1>8, <2>1 DEF Target!Reach
<1> QED
  BY <1>2, <1>3, <1>4, <1>5, <1>6, <1>7, <1>8
  DEF Next, Receiver, Commander, Reading

(* The two threads of Hololens.cpp keep the promise of module HoloTarget:    *)
(* the wrist takes its targets from one message after the other and is never *)
(* taken back to an older one, for any number of messages and every          *)
(* interleaving of the reads and stores.                                     *)
THEOREM TargetRefinement == Spec => KeepsTarget
<1>1. Init => Target!TInit
  BY DEF Init, NoMessage, Target!TInit
<1> QED
  BY <1>1, ForwardInit, ForwardStep, TargetStep, Invariance, PTL
  DEF Spec, KeepsTarget, Target!TSpec

=============================================================================
