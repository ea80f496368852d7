------------------------------ MODULE ServoBus ------------------------------
(***************************************************************************)
(* The RS485 port of one arm and the Dynamixel servos on it                *)
(* (Dynamixel.cpp, with txPacket, rxPacket and txRxPacket of               *)
(* protocol2_packet_handler.cpp).  Three threads write to it without a     *)
(* lock: the control task of the arm, the keyboard and the headset.  The   *)
(* only protection is the flag is_using_ of the port, which is tested and  *)
(* set in two steps, and which writeTxOnly clears even after a refusal.    *)
(* Every result is ignored: a write that is refused or not answered is not *)
(* repeated.                                                               *)
(*                                                                         *)
(* A call writes to the servos of an interval one after the other: the     *)
(* goals with writeTxOnly, the switching of the torque with writeTxRx,     *)
(* which waits for the status of the servo.  What is written to a goal is  *)
(* left out, as are the bytes: a status is the servo it comes from, and a  *)
(* status that two threads read a part of each is lost.                    *)
(***************************************************************************)
EXTENDS Integers

CONSTANT Wrists   (* servos of the wrist; one more drives the gripper *)

ASSUME ServoAssumption == Wrists \in Nat \ {0}

Gripper == Wrists + 1
Servos == 1..Gripper

Threads == {"control", "keys", "headset"}

(* A call: what is written, from which servo, which becomes the servo it   *)
(* is at, to which.                                                        *)
Writes(what, from, to) == [op |-> what, servo |-> from, last |-> to]

Idling == Writes("none", 1, 1)

(* sendMotorCmds and the two switching blocks of the control task;         *)
(* Enable485, Disable485 and one write of the keys o and c; HoloCmd.       *)
Calls(t) ==
  CASE t = "control" -> {Writes("goal", 1, Wrists), Writes("on", 1, Gripper),
                         Writes("off", 1, Gripper)}
    [] t = "keys"    -> {Writes("goal", Gripper, Gripper), Writes("on", 1, Gripper),
                         Writes("off", 1, Gripper)}
    [] t = "headset" -> {Writes("goal", Wrists, Wrists)}

Switching == {"on", "off"}

VARIABLES
  using,   (* is_using_                                                      *)
  at,      (* where each thread is in txPacket, rxPacket or its caller       *)
  call,    (* what each thread is writing, and to which servo                *)
  line,    (* servos whose status is on its way                              *)
  input,   (* the input buffer of the port, as a set of servos               *)
  torque,  (* ADDR_PRO_TORQUE_ENABLE of each servo                           *)
  alone    (* history: no other thread was writing and nothing was lost      *)
           (* since the thread began its call                                *)

servoVars == <<using, at, call, line, input, torque, alone>>

ServoInit ==
  /\ using = FALSE
  /\ at = [t \in Threads |-> "idle"]
  /\ call = [t \in Threads |-> Idling]
  /\ line = {} /\ input = {}
  /\ torque \in [Servos -> BOOLEAN]
  /\ alone = [t \in Threads |-> FALSE]

At(t, label) == at' = [at EXCEPT ![t] = label]

Switches(t) == call[t].op \in Switching

(* The next servo of the call, or the end of it.                           *)
NextServo(t) ==
  IF call[t].servo < call[t].last
  THEN /\ call' = [call EXCEPT ![t].servo = @ + 1]
       /\ At(t, "test")
       /\ UNCHANGED alone
  ELSE /\ call' = [call EXCEPT ![t] = Idling]
       /\ At(t, "idle")
       /\ alone' = [alone EXCEPT ![t] = FALSE]

BeginCall(t) ==
  /\ at[t] = "idle"
  /\ \E c \in Calls(t) : call' = [call EXCEPT ![t] = c]
  /\ At(t, "test")
  /\ alone' = [u \in Threads |-> u = t /\ \A v \in Threads : at[v] = "idle"]
  /\ UNCHANGED <<using, line, input, torque>>

(* txPacket: COMM_PORT_BUSY, on which writeTxRx returns and writeTxOnly    *)
(* goes on to clear the flag.                                              *)
TestBusy(t) ==
  /\ at[t] = "test" /\ using
  /\ IF Switches(t) THEN NextServo(t)
                    ELSE At(t, "release") /\ UNCHANGED <<call, alone>>
  /\ UNCHANGED <<using, line, input, torque>>

TestFree(t) ==
  /\ at[t] = "test" /\ ~using
  /\ At(t, "set")
  /\ UNCHANGED <<using, call, line, input, torque, alone>>

SetUsing(t) ==
  /\ at[t] = "set"
  /\ using' = TRUE
  /\ At(t, "write")
  /\ UNCHANGED <<call, line, input, torque, alone>>

(* clearPort throws the input buffer away, writePort sends; the servo      *)
(* obeys and answers.                                                      *)
Write(t) ==
  /\ at[t] = "write"
  /\ input' = {}
  /\ torque' = IF Switches(t)
               THEN [torque EXCEPT ![call[t].servo] = call[t].op = "on"] ELSE torque
  /\ line' = line \cup {call[t].servo}
  /\ At(t, IF Switches(t) THEN "wait" ELSE "release")
  /\ UNCHANGED <<using, call, alone>>

(* The frame does not reach the servo, or writePort does not take it       *)
(* (COMM_TX_FAIL, after which the flag is cleared at once).                *)
LoseFrame(t) ==
  /\ at[t] = "write"
  /\ input' = {}
  /\ alone' = [u \in Threads |-> FALSE]
  /\ \E label \in {"release"} \cup (IF Switches(t) THEN {"wait"} ELSE {}) : At(t, label)
  /\ UNCHANGED <<using, call, line, torque>>

(* writeTxOnly: is_using_ = false.                                         *)
Release(t) ==
  /\ at[t] = "release"
  /\ using' = FALSE
  /\ NextServo(t)
  /\ UNCHANGED <<line, input, torque>>

(* rxPacket returns the status of this servo.                              *)
ReadOwn(t) ==
  /\ at[t] = "wait" /\ call[t].servo \in input
  /\ input' = input \ {call[t].servo}
  /\ using' = FALSE
  /\ NextServo(t)
  /\ UNCHANGED <<line, torque>>

(* rxPacket returns another status: the flag is cleared, and txRxPacket    *)
(* calls rxPacket again.                                                   *)
ReadOther(t) ==
  /\ at[t] = "wait"
  /\ \E s \in input \ {call[t].servo} : input' = input \ {s}
  /\ using' = FALSE
  /\ UNCHANGED <<at, call, line, torque, alone>>

(* Slip: a read that times out is begun again.                             *)
TimeoutRetrySlip(t) ==
  /\ at[t] = "wait" /\ input = {}
  /\ using' = FALSE
  /\ UNCHANGED <<at, call, line, input, torque, alone>>

(* Slip: the flag is cleared only with a status.                           *)
TimeoutSlip(t) ==
  /\ at[t] = "wait" /\ input = {}
  /\ NextServo(t)
  /\ UNCHANGED <<using, line, input, torque>>

(* rxPacket: COMM_RX_TIMEOUT, or COMM_RX_CORRUPT after a part of a status. *)
Timeout(t) ==
  /\ at[t] = "wait" /\ input = {}
  /\ using' = FALSE
  /\ NextServo(t)
  /\ UNCHANGED <<line, input, torque>>

(* Two threads in rxPacket each get a part of a status.                    *)
Split ==
  /\ \E t, u \in Threads : t # u /\ at[t] = "wait" /\ at[u] = "wait"
  /\ \E s \in input : input' = input \ {s}
  /\ UNCHANGED <<using, at, call, line, torque, alone>>

(* A status arrives or is lost.                                            *)
Status(s) ==
  /\ s \in line
  /\ line' = line \ {s}
  /\ input' \in {input, input \cup {s}}
  /\ UNCHANGED <<using, at, call, torque, alone>>

(* What thread t does once its call has begun.                             *)
Proceed(t) ==
  \/ TestBusy(t) \/ TestFree(t) \/ SetUsing(t)
  \/ Write(t) \/ LoseFrame(t) \/ Release(t)
  \/ ReadOwn(t) \/ ReadOther(t)

ServoNext ==
  \/ \E t \in Threads : BeginCall(t) \/ Proceed(t) \/ Timeout(t)
  \/ Split
  \/ \E s \in Servos : Status(s)

ServoSpec == ServoInit /\ [][ServoNext]_servoVars

(* The control task is scheduled.  Its timeout is due by the clock, so     *)
(* statuses of other servos do not put it off for ever.  Of the other      *)
(* threads nothing is assumed.                                             *)
ServoFairness ==
  WF_servoVars(Proceed("control")) /\ SF_servoVars(Timeout("control"))

-----------------------------------------------------------------------------
(* Every variable has its type.                                            *)
ServoTypeOK ==
  /\ using \in BOOLEAN
  /\ at \in [Threads -> {"idle", "test", "set", "write", "release", "wait"}]
  /\ call \in [Threads -> [op : {"none", "goal"} \cup Switching,
                           servo : Servos, last : Servos]]
  /\ line \subseteq Servos /\ input \subseteq Servos
  /\ torque \in [Servos -> BOOLEAN]
  /\ alone \in [Threads -> BOOLEAN]

(* While the port says that it is in use, some thread is still to clear    *)
(* the flag: however the threads race for it, and whatever is refused,     *)
(* lost or answered by another servo, the port is not left taken, which    *)
(* would refuse every later write (protocol2_packet_handler.cpp 268, 414,  *)
(* 836).                                                                   *)
PortFree == using => \E t \in Threads : at[t] \in {"write", "release", "wait"}

(* A call that switches the torque and has the port to itself from its     *)
(* beginning to its end, with no frame lost, reaches every servo, whatever *)
(* the calls before it have left in the flag, on the line and in the input *)
(* buffer (robot.cpp 364-370 and 382-388).                                 *)
SwitchReaches ==
  [][\A t \in Threads :
       at[t] # "idle" /\ at'[t] = "idle" /\ alone[t] /\ Switches(t)
         => \A s \in Servos : torque'[s] = (call[t].op = "on")]_servoVars

(* A servo that does not answer, or a port that is busy, delays the        *)
(* control task but does not stop it: rxPacket gives up at the timeout.    *)
CycleGoesOn == at["control"] # "idle" ~> at["control"] = "idle"

=============================================================================
