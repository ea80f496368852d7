---------------------------- MODULE HoloServer ----------------------------
(***************************************************************************)
(* The headset server of Hololens.cpp: a thread receives datagrams, stores *)
(* each in the shared string msg and turns it into the shared command      *)
(* HololensCmd (msg_recv, msg_fun); a second thread polls the command and  *)
(* carries out HJ, a new angle of joint 6 of arm 3 (HoloCmd).  Neither     *)
(* variable is protected.                                                  *)
(*                                                                         *)
(* Messages are numbered in the order in which recvfrom returns them, so a *)
(* network that loses, repeats or reorders datagrams is included.  A read  *)
(* of msg while it is assigned may give the old text, the new one or a     *)
(* mixture.  A message shorter than three characters makes substr(3) throw *)
(* in the second thread, which ends the program.                           *)
(***************************************************************************)
EXTENDS Naturals

CONSTANT MaxArrivals  (* bound on the number of messages received *)

ASSUME ArrivalAssumption == MaxArrivals \in Nat

VARIABLES rp,       (* where msg_recv is *)
          arrived,  (* number of messages received *)
          incoming, (* recv_buf *)
          msg,      (* the shared string *)
          open,     (* whether sock_fd is open *)
          cmd,      (* HololensCmd: HJ, another command, or none *)
          hp,       (* where HoloCmd is *)
          text,     (* the text HoloCmd works with, grPos *)
          posd,     (* what HoloCmd last put in m_Desire.posd[5] of arm 3
                       and gave to its dynamics *)
          servo,    (* the position given to the servo of the wrist *)
          running,  (* whether the program still runs *)
          raised    (* history: number of the HJ that set the command last *)

vars == <<rp, arrived, incoming, msg, open, cmd, hp, text, posd, servo, running, raised>>

recvVars == <<rp, arrived, incoming, msg, open>>

holoVars == <<hp, text, posd, servo, running>>

(* What msg_fun tells apart: HJ:, a prefix that sets another command, one  *)
(* that sets none (tool, TF: and everything unknown), a text too short for *)
(* substr(3), and close_socket.                                            *)
Kind == {"HJ", "other", "silent", "short", "close"}

Message == [num : Nat, kind : Kind \cup {"torn"}]

NoMessage == [num |-> 0, kind |-> "short"]

Init == /\ rp = "wait"
        /\ arrived = 0
        /\ incoming = NoMessage
        /\ msg = NoMessage
        /\ open = TRUE
        /\ cmd = "none"
        /\ hp = "test"
        /\ text = NoMessage
        /\ posd = NoMessage
        /\ servo = NoMessage
        /\ running = TRUE
        /\ raised = 0

(* Slip: the message is parsed before it is stored. *)
ReceiveSlip(kind) ==
    /\ rp = "wait" /\ open
    /\ arrived < MaxArrivals
    /\ arrived' = arrived + 1
    /\ incoming' = [num |-> arrived + 1, kind |-> kind]
    /\ cmd' = IF kind \in {"HJ", "other"} THEN kind ELSE cmd
    /\ raised' = IF kind = "HJ" THEN arrived + 1 ELSE raised
    /\ rp' = "store"
    /\ UNCHANGED <<msg, open, holoVars>>

(* recvfrom returns a message; on a closed socket it fails and is repeated. *)
Receive(kind) ==
    /\ rp = "wait" /\ open
    /\ arrived < MaxArrivals
    /\ arrived' = arrived + 1
    /\ incoming' = [num |-> arrived + 1, kind |-> kind]
    /\ rp' = "store"
    /\ UNCHANGED <<msg, open, cmd, raised, holoVars>>

(* The end of the assignment msg = recv_buf, which began with the receipt. *)
Store ==
    /\ rp = "store"
    /\ msg' = incoming
    /\ rp' = IF incoming.kind = "close" THEN "close" ELSE "parse"
    /\ UNCHANGED <<arrived, incoming, open, cmd, raised, holoVars>>

(* The message close_socket. *)
Close ==
    /\ rp = "close"
    /\ open' = FALSE
    /\ rp' = "wait"
    /\ UNCHANGED <<arrived, incoming, msg, cmd, raised, holoVars>>

(* msg_fun. *)
Parse ==
    /\ rp = "parse"
    /\ cmd' = IF msg.kind \in {"HJ", "other"} THEN msg.kind ELSE cmd
    /\ raised' = IF msg.kind = "HJ" THEN msg.num ELSE raised
    /\ rp' = "wait"
    /\ UNCHANGED <<arrived, incoming, msg, open, holoVars>>

(* HoloCmd finds the command. *)
Test ==
    /\ hp = "test"
    /\ cmd = "HJ"
    /\ hp' = "read"
    /\ UNCHANGED <<recvVars, cmd, raised, text, posd, servo, running>>

(* The texts a read of msg may give now. *)
Readable ==
    IF rp = "store"
    THEN {msg, incoming, [num |-> msg.num, kind |-> "torn"]}
    ELSE {msg}

(* HoloCmd reads the angle from msg. *)
Read(m) ==
    /\ hp = "read"
    /\ m \in Readable
    /\ text' = m
    /\ \/ m.kind \in {"short", "torn"} /\ running' = FALSE /\ UNCHANGED hp
       \/ m.kind # "short" /\ hp' = "joint" /\ UNCHANGED running
    /\ UNCHANGED <<recvVars, cmd, raised, posd, servo>>

(* m_Desire.posd[5] and m_dynamics.setJointPositions. *)
SetJoint ==
    /\ hp = "joint"
    /\ posd' = text
    /\ hp' = "servo"
    /\ UNCHANGED <<recvVars, cmd, raised, text, servo, running>>

(* Slip: the servo gets the angle only if the joint does not have it yet. *)
SetServoSkipSlip ==
    /\ hp = "servo"
    /\ servo' = IF posd = text THEN servo ELSE text
    /\ hp' = "clear"
    /\ UNCHANGED <<recvVars, cmd, raised, text, posd, running>>

(* dynamixels[2]->setPos. *)
SetServo ==
    /\ hp = "servo"
    /\ servo' = text
    /\ hp' = "clear"
    /\ UNCHANGED <<recvVars, cmd, raised, text, posd, running>>

(* Slip: the command is left for the next poll. *)
ClearSlip ==
    /\ hp = "clear"
    /\ hp' = "test"
    /\ UNCHANGED <<recvVars, cmd, raised, text, posd, servo, running>>

(* HololensCmd = NothingDo. *)
Clear ==
    /\ hp = "clear"
    /\ cmd' = "none"
    /\ hp' = "test"
    /\ UNCHANGED <<recvVars, raised, text, posd, servo, running>>

Receiver == running /\ (Store \/ Close \/ Parse)

Reading == \E m \in Readable : Read(m)

Commander == running /\ (Test \/ Reading \/ SetJoint \/ SetServo \/ Clear)

Next == \/ Receiver
        \/ Commander
        \/ running /\ \E kind \in Kind : Receive(kind)

Spec == Init /\ [][Next]_vars

(* Both threads are scheduled; nothing makes a message arrive. *)
FairSpec == Spec /\ WF_vars(Receiver) /\ WF_vars(Commander)

-----------------------------------------------------------------------------
(* Every variable has its type. *)
TypeOK == /\ rp \in {"wait", "store", "close", "parse"}
          /\ arrived \in Nat /\ raised \in Nat
          /\ incoming \in Message /\ msg \in Message
          /\ open \in BOOLEAN /\ running \in BOOLEAN
          /\ cmd \in {"none", "HJ", "other"}
          /\ hp \in {"test", "read", "joint", "servo", "clear"}
          /\ text \in Message /\ posd \in Message /\ servo \in Message

(* The text the second thread reads is the one that raised the command or  *)
(* one that arrived after it, never an earlier one: msg is assigned before *)
(* it is parsed.  If it is a text of another kind, it arrived after it.    *)
OwnTextOrLater ==
    [][Reading => /\ text'.num >= raised
                  /\ text'.num = raised => text'.kind \in {"HJ", "torn"}]_vars

(* Between two commands the desired joint and the servo have the same      *)
(* target, and it is the last text that was read.                          *)
OneTarget == hp = "test" => posd = servo /\ posd = text

(* The promise to the wrist, module HoloTarget.  The thread polls the       *)
(* command, reads msg while it may be half assigned, and clears the command *)
(* by a plain store (Hololens.cpp 469-479): that it never takes the wrist   *)
(* back to an older message rests on the order of these three.              *)
Target == INSTANCE HoloTarget
            WITH seen <- arrived, joint <- posd.num, servo <- servo.num, alive <- running

KeepsTarget == Target!TSpec

(* A command that is set while the second thread is at its test is carried *)
(* out with its own text, unless a later message overtakes it or ends the  *)
(* program.  One set while an earlier command is being carried out may be  *)
(* lost: Clear takes it away.                                              *)
CarriedOut ==
    \A i \in 1..MaxArrivals :
        (hp = "test" /\ cmd = "HJ" /\ raised = i /\ arrived = i /\ rp = "wait")
            ~> (servo.num = i \/ arrived > i \/ ~running)

=============================================================================
