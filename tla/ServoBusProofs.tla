--------------------------- MODULE ServoBusProofs ---------------------------
(***************************************************************************)
(* Proofs about ServoBus, for every number of servos.                      *)
(***************************************************************************)
EXTENDS ServoBus, TLAPS

Labels == {"idle", "test", "set", "write", "release", "wait"}
Writings == [op : {"none", "goal"} \cup Switching, servo : Servos, last : Servos]
Holding == {"write", "release", "wait"}

(* A switching call goes on to the last servo.                             *)
Whole == \A t \in Threads : Switches(t) => call[t].last = Gripper

(* A thread that has the port to itself has switched every servo behind it. *)
Reached ==
  \A t \in Threads : alone[t] =>
    /\ at[t] # "idle"
    /\ \A u \in Threads \ {t} : at[u] = "idle"
    /\ Switches(t) =>
         /\ at[t] # "release"
         /\ \A s \in Servos : s < call[t].servo \/ (s = call[t].servo /\ at[t] = "wait")
                                => torque[s] = (call[t].op = "on")

Inv == ServoTypeOK /\ PortFree /\ Whole /\ Reached

LEMMA ServoRange == Gripper \in Nat /\ Servos = 1..Gripper /\ 1 \in Servos
                    /\ Wrists \in Servos /\ Gripper \in Servos
BY ServoAssumption DEF Gripper, Servos

LEMMA CallTypes ==
  ASSUME NEW t \in Threads, NEW c \in Calls(t)
  PROVE  /\ c \in Writings
         /\ c.op \in Switching => c.servo = 1 /\ c.last = Gripper
<1>1. PICK what \in {"goal", "on", "off"}, from \in Servos, to \in Servos :
        c = Writes(what, from, to) /\ (what \in Switching => from = 1 /\ to = Gripper)
  BY ServoRange DEF Calls, Threads, Switching
<1> QED BY <1>1 DEF Writes, Writings, Switching

LEMMA IdlingType == Idling \in Writings /\ Idling.op \notin Switching
BY ServoRange DEF Idling, Writes, Writings, Switching

(* What NextServo does to the thread that takes it, and to the others.     *)
LEMMA NextServoEffect ==
  ASSUME ServoTypeOK, NEW t \in Threads, NextServo(t)
  PROVE  /\ call' \in [Threads -> Writings] /\ at' \in [Threads -> Labels]
         /\ alone' \in [Threads -> BOOLEAN]
         /\ \A u \in Threads \ {t} : call'[u] = call[u] /\ at'[u] = at[u]
                                     /\ alone'[u] = alone[u]
         /\ \/ /\ call[t].servo < call[t].last
               /\ at'[t] = "test" /\ alone'[t] = alone[t]
               /\ call'[t].op = call[t].op /\ call'[t].last = call[t].last
               /\ call'[t].servo = call[t].servo + 1
            \/ /\ ~(call[t].servo < call[t].last)
               /\ at'[t] = "idle" /\ alone'[t] = FALSE /\ call'[t] = Idling
<1>1. call \in [Threads -> Writings] /\ at \in [Threads -> Labels]
      /\ alone \in [Threads -> BOOLEAN]
  BY DEF ServoTypeOK, Writings, Labels
<1>2. CASE call[t].servo < call[t].last
  <2>1. /\ call' = [call EXCEPT ![t].servo = @ + 1]
        /\ at' = [at EXCEPT ![t] = "test"] /\ alone' = alone
    BY <1>2 DEF NextServo, At
  <2>2. call[t] \in Writings BY <1>1
  <2>3. call[t].servo + 1 \in Servos
    BY <2>2, <1>2, ServoRange DEF Writings
  <2>4. call'[t] = [call[t] EXCEPT !.servo = call[t].servo + 1]
    BY <2>1, <1>1
  <2>5. call'[t] \in Writings /\ call'[t].op = call[t].op /\ call'[t].last = call[t].last
        /\ call'[t].servo = call[t].servo + 1
    BY <2>2, <2>3, <2>4 DEF Writings
  <2>6. call' \in [Threads -> Writings] BY <2>1, <2>5, <1>1
  <2> QED BY <2>1, <2>5, <2>6, <1>1, <1>2 DEF Labels
<1>3. CASE ~(call[t].servo < call[t].last)
  <2>1. /\ call' = [call EXCEPT ![t] = Idling]
        /\ at' = [at EXCEPT ![t] = "idle"] /\ alone' = [alone EXCEPT ![t] = FALSE]
    BY <1>3 DEF NextServo, At
  <2> QED BY <2>1, <1>1, <1>3, IdlingType DEF Labels
<1> QED BY <1>2, <1>3

(* Leaving a servo keeps the invariant when the flag is cleared, or was    *)
(* clear, and the servo has been switched.                                 *)
LEMMA NextServoKeeps ==
  ASSUME Inv, NEW t \in Threads, NextServo(t), at[t] # "idle", torque' = torque,
         using' \in BOOLEAN, line' \subseteq Servos, input' \subseteq Servos,
         using' => \E u \in Threads \ {t} : at[u] \in Holding,
         alone[t] /\ Switches(t) => at[t] = "wait"
  PROVE  Inv'
<1> USE DEF Inv
<1>1. ServoTypeOK'
  BY NextServoEffect DEF ServoTypeOK, Writings, Labels
<1>2. PortFree'
  BY NextServoEffect DEF PortFree, Holding
<1>3. Whole'
  BY NextServoEffect, IdlingType DEF Whole, Switches
<1>4. ASSUME NEW u \in Threads, alone'[u]
      PROVE  /\ at'[u] # "idle"
             /\ \A v \in Threads \ {u} : at'[v] = "idle"
             /\ Switches(u)' =>
                  /\ at'[u] # "release"
                  /\ \A s \in Servos : s < call'[u].servo \/ (s = call'[u].servo /\ at'[u] = "wait")
                                         => torque'[s] = (call'[u].op = "on")
  <2>1. CASE u = t
    <3>1. /\ alone[t] /\ at'[t] = "test"
          /\ call'[t].op = call[t].op /\ call'[t].servo = call[t].servo + 1
      BY <2>1, <1>4, NextServoEffect
    <3>2. \A v \in Threads \ {t} : at'[v] = "idle"
      BY <3>1, NextServoEffect DEF Reached
    <3>3. ASSUME Switches(t), NEW s \in Servos, s < call[t].servo + 1
          PROVE  torque[s] = (call[t].op = "on")
      <4>1. call[t].servo \in Servos BY DEF ServoTypeOK
      <4>2. s < call[t].servo \/ s = call[t].servo BY <4>1, <3>3, ServoRange
      <4> QED BY <4>2, <3>1, <3>3 DEF Reached
    <3> QED BY <2>1, <3>1, <3>2, <3>3 DEF Switches
  <2>2. CASE u # t
    <3>1. alone[u] /\ at'[u] = at[u] /\ call'[u] = call[u]
      BY <2>2, <1>4, NextServoEffect
    <3>2. at[t] = "idle" BY <3>1, <2>2 DEF Reached
    <3> QED BY <3>2
  <2> QED BY <2>1, <2>2
<1>5. Reached' BY <1>4 DEF Reached
<1> QED BY <1>1, <1>2, <1>3, <1>5

(* A step of one thread that stays at its servo.                           *)
LEMMA StayKeeps ==
  ASSUME Inv, NEW t \in Threads, NEW label \in Labels \ {"idle"}, at[t] # "idle",
         at' = [at EXCEPT ![t] = label], call' = call,
         using' \in BOOLEAN, line' \subseteq Servos, input' \subseteq Servos,
         torque' \in [Servos -> BOOLEAN],
         \/ alone' = [u \in Threads |-> FALSE]
         \/ /\ alone' = alone
            /\ alone[t] /\ Switches(t) =>
                 /\ label # "release"
                 /\ \A s \in Servos :
                      s < call[t].servo \/ (s = call[t].servo /\ label = "wait")
                        => torque'[s] = (call[t].op = "on"),
         using' => \E u \in Threads : at'[u] \in Holding
  PROVE  Inv'
<1> USE DEF Inv
<1>1. at \in [Threads -> Labels] /\ alone \in [Threads -> BOOLEAN]
  BY DEF ServoTypeOK, Labels
<1>2. ServoTypeOK'
  <2>1. at' \in [Threads -> Labels] BY <1>1
  <2>2. alone' \in [Threads -> BOOLEAN] BY <1>1
  <2> QED BY <2>1, <2>2 DEF ServoTypeOK, Labels
<1>3. PortFree' BY DEF PortFree, Holding
<1>4. Whole' BY DEF Whole, Switches
<1>5. Reached'
  <2>1. CASE alone' = [u \in Threads |-> FALSE] BY <2>1 DEF Reached
  <2>2. CASE alone' # [u \in Threads |-> FALSE]
    <3>1. alone' = alone BY <2>2
    <3>2. ASSUME NEW u \in Threads, alone[u] PROVE u = t
      BY <3>2 DEF Reached
    <3>3. at'[t] = label /\ \A u \in Threads \ {t} : at'[u] = at[u] BY <1>1
    <3>4. Switches(t)' = Switches(t) BY DEF Switches
    <3> QED BY <2>2, <3>1, <3>2, <3>3, <3>4 DEF Reached
  <2> QED BY <2>1, <2>2
<1> QED BY <1>2, <1>3, <1>4, <1>5

(* A step that no thread takes.                                            *)
LEMMA BusKeeps ==
  ASSUME Inv, UNCHANGED <<using, at, call, torque, alone>>,
         line' \subseteq Servos, input' \subseteq Servos
  PROVE  Inv'
BY DEF Inv, ServoTypeOK, PortFree, Whole, Reached, Switches

LEMMA BeginKeeps == ASSUME Inv, NEW t \in Threads, BeginCall(t) PROVE Inv'
<1> USE DEF Inv, BeginCall
<1>1. PICK c \in Calls(t) : call' = [call EXCEPT ![t] = c] OBVIOUS
<1>2. /\ at \in [Threads -> Labels] /\ call \in [Threads -> Writings]
      /\ at' = [at EXCEPT ![t] = "test"]
  BY DEF ServoTypeOK, Labels, Writings, At
<1>3. c \in Writings /\ (c.op \in Switching => c.servo = 1 /\ c.last = Gripper)
  BY CallTypes
<1>4. /\ call'[t] = c /\ at'[t] = "test"
      /\ \A u \in Threads \ {t} : call'[u] = call[u] /\ at'[u] = at[u]
  BY <1>1, <1>2
<1>5. ServoTypeOK'
  <2>1. at' \in [Threads -> Labels] BY <1>2 DEF Labels
  <2>2. call' \in [Threads -> Writings] BY <1>1, <1>2, <1>3
  <2>3. alone' \in [Threads -> BOOLEAN] OBVIOUS
  <2> QED BY <2>1, <2>2, <2>3 DEF ServoTypeOK, Labels, Writings
<1>6. PortFree' BY <1>4 DEF PortFree
<1>7. Whole' BY <1>3, <1>4 DEF Whole, Switches
<1>8. Reached'
  <2>1. ASSUME NEW u \in Threads, alone'[u]
        PROVE  u = t /\ \A v \in Threads : at[v] = "idle"
    BY <2>1
  <2>2. \A s \in Servos : ~(s < 1) BY ServoRange
  <2> QED BY <1>3, <1>4, <2>1, <2>2 DEF Reached, Switches
<1> QED BY <1>5, <1>6, <1>7, <1>8

LEMMA Initial == ServoInit => Inv
BY IdlingType, ServoRange
   DEF ServoInit, Inv, ServoTypeOK, PortFree, Whole, Reached, Switches, Writings

LEMMA Inductive == Inv /\ [ServoNext]_servoVars => Inv'
<1> SUFFICES ASSUME Inv, [ServoNext]_servoVars PROVE Inv' OBVIOUS
<1>1. CASE UNCHANGED servoVars
  BY <1>1 DEF servoVars, Inv, ServoTypeOK, PortFree, Whole, Reached, Switches
<1>2. ASSUME NEW t \in Threads, BeginCall(t) PROVE Inv' BY <1>2, BeginKeeps
<1>3. ASSUME NEW t \in Threads, TestBusy(t) PROVE Inv'
  <2>1. ~alone[t] BY <1>3 DEF TestBusy, Inv, PortFree, Reached, Holding
  <2>2. CASE Switches(t)
    <3>1. \E u \in Threads \ {t} : at[u] \in Holding
      BY <1>3 DEF TestBusy, Inv, PortFree, Holding
    <3> QED BY <1>3, <2>1, <2>2, <3>1, NextServoKeeps DEF TestBusy, Inv, ServoTypeOK
  <2>3. CASE ~Switches(t)
    <3>1. at' = [at EXCEPT ![t] = "release"] BY <1>3, <2>3 DEF TestBusy, At
    <3>2. \E u \in Threads : at'[u] \in Holding
      BY <3>1 DEF Inv, ServoTypeOK, Holding
    <3> QED BY <1>3, <2>1, <2>3, <3>1, <3>2, StayKeeps
            DEF TestBusy, Inv, ServoTypeOK, Labels
  <2> QED BY <2>2, <2>3
<1>4. ASSUME NEW t \in Threads, TestFree(t) PROVE Inv'
  <2>1. at' = [at EXCEPT ![t] = "set"] /\ ~using' BY <1>4 DEF TestFree, At
  <2> QED BY <1>4, <2>1, StayKeeps DEF TestFree, Inv, ServoTypeOK, Labels, Reached
<1>5. ASSUME NEW t \in Threads, SetUsing(t) PROVE Inv'
  <2>1. at' = [at EXCEPT ![t] = "write"] BY <1>5 DEF SetUsing, At
  <2>2. \E u \in Threads : at'[u] \in Holding BY <2>1 DEF Inv, ServoTypeOK, Holding
  <2> QED BY <1>5, <2>1, <2>2, StayKeeps DEF SetUsing, Inv, ServoTypeOK, Labels, Reached
<1>6. ASSUME NEW t \in Threads, Write(t) PROVE Inv'
  <2> DEFINE label == IF Switches(t) THEN "wait" ELSE "release"
  <2>1. at' = [at EXCEPT ![t] = label] BY <1>6 DEF Write, At
  <2>2. \E u \in Threads : at'[u] \in Holding BY <2>1 DEF Inv, ServoTypeOK, Holding
  <2>3. call[t].servo \in Servos BY DEF Inv, ServoTypeOK
  <2>4. torque' \in [Servos -> BOOLEAN] BY <1>6, <2>3 DEF Write, Inv, ServoTypeOK
  <2>5. alone[t] /\ Switches(t) =>
          /\ label # "release"
          /\ \A s \in Servos : s < call[t].servo \/ (s = call[t].servo /\ label = "wait")
                                => torque'[s] = (call[t].op = "on")
    BY <1>6, <2>3 DEF Write, Inv, Reached, ServoTypeOK
  <2>6. line' \subseteq Servos /\ input' \subseteq Servos
    BY <1>6, <2>3 DEF Write, Inv, ServoTypeOK
  <2>7. label \in Labels \ {"idle"} BY DEF Labels
  <2>8. at[t] # "idle" /\ call' = call /\ alone' = alone /\ using' = using
    BY <1>6 DEF Write
  <2> HIDE DEF label
  <2> QED BY <2>1, <2>2, <2>4, <2>5, <2>6, <2>7, <2>8, StayKeeps DEF Inv, ServoTypeOK
<1>7. ASSUME NEW t \in Threads, LoseFrame(t) PROVE Inv'
  <2>1. PICK label \in {"release", "wait"} : at' = [at EXCEPT ![t] = label]
    BY <1>7 DEF LoseFrame, At
  <2>2. \E u \in Threads : at'[u] \in Holding BY <2>1 DEF Inv, ServoTypeOK, Holding
  <2> QED BY <1>7, <2>1, <2>2, StayKeeps DEF LoseFrame, Inv, ServoTypeOK, Labels
<1>8. ASSUME NEW t \in Threads, Release(t) PROVE Inv'
  BY <1>8, NextServoKeeps DEF Release, Inv, ServoTypeOK, Reached
<1>9. ASSUME NEW t \in Threads, ReadOwn(t) PROVE Inv'
  <2>1. input' \subseteq Servos BY <1>9 DEF ReadOwn, Inv, ServoTypeOK
  <2> QED BY <1>9, <2>1, NextServoKeeps DEF ReadOwn, Inv, ServoTypeOK
<1>10. ASSUME NEW t \in Threads, ReadOther(t) PROVE Inv'
  <2>1. input' \subseteq Servos BY <1>10 DEF ReadOther, Inv, ServoTypeOK
  <2>2. using' = FALSE /\ UNCHANGED <<at, call, line, torque, alone>> BY <1>10 DEF ReadOther
  <2> QED BY <2>1, <2>2 DEF Inv, ServoTypeOK, PortFree, Whole, Reached, Switches
<1>11. ASSUME NEW t \in Threads, Timeout(t) PROVE Inv'
  BY <1>11, NextServoKeeps DEF Timeout, Inv, ServoTypeOK
<1>12. CASE Split
  <2>1. input' \subseteq Servos BY <1>12 DEF Split, Inv, ServoTypeOK
  <2> QED BY <1>12, <2>1, BusKeeps DEF Split, Inv, ServoTypeOK
<1>13. ASSUME NEW s \in Servos, Status(s) PROVE Inv'
  <2>1. line' \subseteq Servos /\ input' \subseteq Servos
    BY <1>13 DEF Status, Inv, ServoTypeOK
  <2> QED BY <1>13, <2>1, BusKeeps DEF Status
<1> QED BY <1>1, <1>2, <1>3, <1>4, <1>5, <1>6, <1>7, <1>8, <1>9, <1>10, <1>11, <1>12, <1>13
        DEF ServoNext, Proceed

LEMMA Invariance == ServoSpec => []Inv
BY Initial, Inductive, PTL DEF ServoSpec

(* Every variable of the port and its threads keeps its type.              *)
THEOREM ServoTyping == ServoSpec => []ServoTypeOK
<1>1. Inv => ServoTypeOK BY DEF Inv
<1> QED BY <1>1, Invariance, PTL

(* The flag is_using_ is never left set by a thread that has gone on,      *)
(* however the threads race for the port.                                  *)
THEOREM PortSafety == ServoSpec => []PortFree
<1>1. Inv => PortFree BY DEF Inv
<1> QED BY <1>1, Invariance, PTL

(* A call of enableDynamixel for all servos that nobody disturbs reaches   *)
(* all of them, for every number of servos.                                *)
THEOREM SwitchSafety == ServoSpec => SwitchReaches
<1> DEFINE Done(t) == at[t] # "idle" /\ at'[t] = "idle" /\ alone[t] /\ Switches(t)
           All(t) == \A s \in Servos : torque'[s] = (call[t].op = "on")
<1>1. ASSUME Inv, ServoNext, NEW t \in Threads, Done(t) PROVE All(t)
  <2> USE DEF Inv
  <2>0. at \in [Threads -> Labels] BY <1>1 DEF ServoTypeOK, Labels
  <2>1. \A u \in Threads \ {t} : at[u] = "idle" BY <1>1 DEF Reached
  <2>2. ~ \E u \in Threads : BeginCall(u)
    BY <1>1, <2>0 DEF BeginCall, At
  <2>3. ~ Split /\ ~ \E s \in Servos : Status(s) BY <1>1 DEF Split, Status
  <2>4. PICK u \in Threads : Proceed(u) \/ Timeout(u) BY <1>1, <2>2, <2>3 DEF ServoNext
  <2>5. u = t
    BY <2>1, <2>4 DEF Proceed, Timeout, TestBusy, TestFree, SetUsing, Write, LoseFrame,
                      Release, ReadOwn, ReadOther
  <2>6. /\ at[t] = "wait" /\ NextServo(t) /\ torque' = torque
    <3>1. ~TestBusy(t)
      BY <1>1, <2>1 DEF TestBusy, PortFree
    <3>2. ~TestFree(t) BY <1>1, <2>0 DEF TestFree, At
    <3>3. ~SetUsing(t) BY <1>1, <2>0 DEF SetUsing, At
    <3>4. ~Write(t) BY <1>1, <2>0 DEF Write, At
    <3>5. ~LoseFrame(t) BY <1>1, <2>0 DEF LoseFrame, At
    <3>6. ~Release(t) BY <1>1 DEF Release, Reached
    <3>7. ~ReadOther(t) BY <1>1 DEF ReadOther
    <3> QED BY <2>4, <2>5, <3>1, <3>2, <3>3, <3>4, <3>5, <3>6, <3>7
            DEF Proceed, ReadOwn, Timeout
  <2>7. ~(call[t].servo < call[t].last) BY <1>1, <2>6, NextServoEffect
  <2>8. call[t].last = Gripper BY <1>1 DEF Whole
  <2>9. call[t].servo \in Servos BY <1>1 DEF ServoTypeOK
  <2>10. ASSUME NEW s \in Servos PROVE s < call[t].servo \/ s = call[t].servo
    BY <2>7, <2>8, <2>9, ServoRange
  <2> QED BY <1>1, <2>6, <2>10 DEF Reached
<1>2. ASSUME Inv, [ServoNext]_servoVars
      PROVE  [\A t \in Threads :
                at[t] # "idle" /\ at'[t] = "idle" /\ alone[t] /\ Switches(t)
                  => \A s \in Servos : torque'[s] = (call[t].op = "on")]_servoVars
  BY <1>1, <1>2
<1> QED BY <1>2, Invariance, PTL DEF ServoSpec, SwitchReaches

=============================================================================
