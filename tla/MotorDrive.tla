---------------------------- MODULE MotorDrive ----------------------------
(***************************************************************************)
(* One motor of an arm (class mitMotor, SRL2/mitmotor.cpp) between the     *)
(* control cycle of its arm, setZeroPos on the keyboard thread and the     *)
(* replies of the receive task.  None of the three takes a lock, so each   *)
(* test and each group of stores another thread can see is a step.         *)
(*                                                                         *)
(* A position is counted in parts of the limits it is compared with, a     *)
(* torque is a magnitude.  The speed and torque readings of a reply are    *)
(* the choice that the motor is over a limit; which handler asks for what  *)
(* (module ArmControl) is a choice too.                                    *)
(***************************************************************************)
EXTENDS Integers

CONSTANTS
  Positions,  (* the positions that are measured and asked for             *)
  Torques,    (* the torques the force-controlled motions ask for          *)
  Step,       (* cmdspeed_limit times 0.005, 4 degrees                     *)
  Track,      (* pos_limit, 6 degrees                                      *)
  TorLimit    (* tor_limit                                                 *)

ASSUME DriveAssumption ==
  /\ Positions \subseteq Int /\ 0 \in Positions
  /\ Torques \subseteq Nat /\ 0 \in Torques
  /\ Step \in Nat \ {0}
  /\ Track \in Nat \ {0}
  /\ TorLimit \in Nat \ {0}

VARIABLES
  want,      (* m_SM.action, as far as it switches the motors              *)
  armed,     (* m_MotorsEnabled                                            *)
  enabled,   (* m_ctrl.enabled                                             *)
  tripped,   (* one of the static flags back[i] of protect is set          *)
  pcmd,      (* m_cmd.pcmd                                                 *)
  pcmdLast,  (* m_cmd.pcmd_last                                            *)
  tcmd,      (* m_cmd.tcmd                                                 *)
  posr,      (* posr                                                       *)
  sent,      (* the last frame given to canTx                              *)
  power,     (* the motor itself is on: the last switching frame said so   *)
  tpc,       (* the next step of the control cycle                         *)
  zpc        (* the next step of setZeroPos                                *)

cmdVars == <<pcmd, pcmdLast, tcmd>>
busVars == <<sent, power>>
vars == <<want, armed, enabled, tripped, pcmd, pcmdLast, tcmd, posr, sent,
          power, tpc, zpc>>

(* The torques sendCMD type 3 puts on the bus.                               *)
Accepted == {t \in Torques : t < TorLimit}

(* pack_cmd of sendCMD type 1 and fetchState, of sendCMD type 3, and the     *)
(* frames of enableMotor.                                                    *)
Frames == [kind : {"pos"}, p : Positions, t : Torques]
            \cup [kind : {"tor"}, t : Accepted]
            \cup [kind : {"on", "off"}]
None   == [kind |-> "none"]

CycleSteps == {"protect", "cut", "cutTx", "mail", "on", "onTx", "off", "offTx",
               "run", "askPos", "askTor", "check", "send", "keep", "sendTor", "follow"}

Dist(x, y) == IF x > y THEN x - y ELSE y - x

Init ==
  /\ want = "NONE" /\ armed = FALSE /\ enabled = FALSE /\ tripped = FALSE
  /\ pcmd = 0 /\ pcmdLast = 0 /\ tcmd = 0 /\ posr = 0
  /\ sent = None /\ power = FALSE
  /\ tpc = "protect" /\ zpc = "idle"

Goto(from, to) == tpc = from /\ tpc' = to

-----------------------------------------------------------------------------
(* The control cycle.                                                        *)

(* protect(1), on this motor (its tracking error, or over: its speed or its  *)
(* torque) and on the others (other).  Whoever set a flag, and whenever,     *)
(* every motor is switched off.                                              *)
Protect ==
  /\ \E over, other \in BOOLEAN :
       LET trip == armed /\ (Dist(pcmd, posr) >= Track \/ over) IN
       /\ tripped' = (tripped \/ trip \/ (armed /\ other))
       /\ enabled' = (enabled /\ ~trip)
       /\ Goto("protect", IF armed /\ tripped' THEN "cut" ELSE "mail")
  /\ UNCHANGED <<want, armed, cmdVars, posr, busVars, zpc>>

(* enableMotor: its stores, then its frame.                                  *)
Stores(flag) == enabled' = flag /\ pcmd' = posr /\ tcmd' = 0

SwitchFrame(flag) ==
  /\ sent' = [kind |-> IF flag THEN "on" ELSE "off"]
  /\ power' = flag

Set(flag, from, to) ==
  /\ Goto(from, to)
  /\ Stores(flag)
  /\ UNCHANGED <<want, armed, tripped, pcmdLast, posr, busVars, zpc>>

Tx(flag, from, to) ==
  /\ Goto(from, to)
  /\ SwitchFrame(flag)
  /\ UNCHANGED <<want, armed, enabled, tripped, cmdVars, posr, zpc>>

(* The mailbox, in one step (module ArmControl has its single reads and      *)
(* stores).  Both blocks return at their end.                                *)
Mail ==
  /\ Goto("mail", CASE want = "ENABLE_MOTORS"  -> "on"
                    [] want = "DISABLE_MOTORS" -> "off"
                    [] OTHER                   -> "run")
  /\ armed' = IF want = "NONE" THEN armed ELSE want = "ENABLE_MOTORS"
  /\ want' = "NONE"
  /\ UNCHANGED <<enabled, tripped, cmdVars, posr, busVars, zpc>>

(* Slip: a trip in a torque motion only clears the switch of the object and  *)
(* sets no flag that a later cycle would find.                               *)
RunSlip ==
  /\ \/ \E to \in {"off", "check", "protect"} \cup (IF enabled THEN {"askPos"} ELSE {}) :
          Goto("run", to) /\ UNCHANGED <<enabled, tripped>>
     \/ /\ \E over \in BOOLEAN :
             tripped' = tripped /\ enabled' = (enabled /\ ~over)
        /\ Goto("run", IF enabled' THEN "askTor" ELSE "protect")
  /\ UNCHANGED <<want, armed, cmdVars, posr, busVars, zpc>>

(* Slip: protect(3) stores the result of its tests in the switch of the      *)
(* object, so a motor within its limits is on again.                         *)
RunOnSlip ==
  /\ \/ \E to \in {"off", "check", "protect"} \cup (IF enabled THEN {"askPos"} ELSE {}) :
          Goto("run", to) /\ UNCHANGED <<enabled, tripped>>
     \/ /\ \E over \in BOOLEAN :
             tripped' = (tripped \/ over) /\ enabled' = ~over
        /\ Goto("run", IF enabled' THEN "askTor" ELSE "protect")
  /\ UNCHANGED <<want, armed, cmdVars, posr, busVars, zpc>>

(* What the handler of the motion does with the motor: a position motion     *)
(* calls sendCMD type 1; a torque motion protect(3), which switches this     *)
(* motor off in the object alone, then sendCMD type 3; a torque motion at a  *)
(* joint limit switches off first; an arm at rest calls fetchState, whether  *)
(* it is enabled or not.  sendCMD returns at once when disabled, and         *)
(* sendMotorCmds does not call it for a position beyond cmdpos_limit.        *)
Run ==
  /\ \/ \E to \in {"off", "check", "protect"} \cup (IF enabled THEN {"askPos"} ELSE {}) :
          Goto("run", to) /\ UNCHANGED <<enabled, tripped>>
     \/ /\ \E over \in BOOLEAN :
             tripped' = (tripped \/ over) /\ enabled' = (enabled /\ ~over)
        /\ Goto("run", IF enabled' THEN "askTor" ELSE "protect")
  /\ UNCHANGED <<want, armed, cmdVars, posr, busVars, zpc>>

(* sendCMD type 1.  Its torque is 0, so the test of the torque never fails.  *)
AskPosition ==
  /\ Goto("askPos", "check")
  /\ pcmd' \in Positions
  /\ tcmd' = 0
  /\ UNCHANGED <<want, armed, enabled, tripped, pcmdLast, posr, busVars, zpc>>

(* Slip: the limit is compared with the measured position.                   *)
CheckSlip ==
  /\ Goto("check", IF Dist(pcmd, posr) >= Step THEN "protect" ELSE "send")
  /\ UNCHANGED <<want, armed, enabled, tripped, cmdVars, posr, busVars, zpc>>

(* The end of sendCMD type 1 and of fetchState.  A refused command stays in  *)
(* pcmd.                                                                     *)
Check ==
  /\ Goto("check", IF Dist(pcmd, pcmdLast) >= Step THEN "protect" ELSE "send")
  /\ UNCHANGED <<want, armed, enabled, tripped, cmdVars, posr, busVars, zpc>>

Send ==
  /\ Goto("send", "keep")
  /\ sent' = [kind |-> "pos", p |-> pcmd, t |-> tcmd]
  /\ UNCHANGED <<want, armed, enabled, tripped, cmdVars, posr, power, zpc>>

Keep ==
  /\ Goto("keep", "protect")
  /\ pcmdLast' = pcmd
  /\ UNCHANGED <<want, armed, enabled, tripped, pcmd, tcmd, posr, busVars, zpc>>

(* sendCMD type 3.  A refused torque stays in tcmd.                          *)
AskTorque ==
  /\ tcmd' \in Torques
  /\ Goto("askTor", IF tcmd' >= TorLimit THEN "protect" ELSE "sendTor")
  /\ UNCHANGED <<want, armed, enabled, tripped, pcmd, pcmdLast, posr, busVars, zpc>>

SendTorque ==
  /\ Goto("sendTor", "follow")
  /\ sent' = [kind |-> "tor", t |-> tcmd]
  /\ UNCHANGED <<want, armed, enabled, tripped, cmdVars, posr, power, zpc>>

Follow ==
  /\ Goto("follow", "keep")
  /\ pcmd' = posr
  /\ UNCHANGED <<want, armed, enabled, tripped, pcmdLast, tcmd, posr, busVars, zpc>>

Cycle ==
  \/ Protect
  \/ Set(FALSE, "cut", "cutTx") \/ Tx(FALSE, "cutTx", "mail")
  \/ Mail
  \/ Set(TRUE, "on", "onTx")    \/ Tx(TRUE, "onTx", "protect")
  \/ Set(FALSE, "off", "offTx") \/ Tx(FALSE, "offTx", "protect")
  \/ Run \/ AskPosition \/ Check \/ Send \/ Keep
  \/ AskTorque \/ SendTorque \/ Follow

-----------------------------------------------------------------------------
(* The keyboard thread.                                                      *)

Key ==
  /\ zpc = "idle"
  /\ want' \in {"ENABLE_MOTORS", "DISABLE_MOTORS"}
  /\ UNCHANGED <<armed, enabled, tripped, cmdVars, posr, busVars, tpc, zpc>>

(* Slip: setZeroPos waits for the mailbox alone.                             *)
SleptSlip == want = "NONE"

(* setZeroPos sleeps twice for 10 ms before it switches the motors off: four *)
(* cycles, in which a command that waits in the mailbox is carried out.      *)
Slept == want = "NONE" /\ tpc \notin {"on", "onTx"}

ZeroOff ==
  /\ zpc = "idle" /\ zpc' = "tx"
  /\ Slept
  /\ Stores(FALSE)
  /\ UNCHANGED <<want, armed, tripped, pcmdLast, posr, busVars, tpc>>

ZeroTx ==
  /\ zpc = "tx" /\ zpc' = "zero"
  /\ SwitchFrame(FALSE)
  /\ UNCHANGED <<want, armed, enabled, tripped, cmdVars, posr, tpc>>

ZeroLast ==
  /\ zpc = "zero" /\ zpc' = "idle"
  /\ pcmdLast' = posr
  /\ UNCHANGED <<want, armed, enabled, tripped, pcmd, tcmd, posr, busVars, tpc>>

Zero == ZeroOff \/ ZeroTx \/ ZeroLast

(* A reply of the motor, which a person may also move by hand.               *)
Reply ==
  /\ posr' \in Positions
  /\ UNCHANGED <<want, armed, enabled, tripped, cmdVars, busVars, tpc, zpc>>

Next == Cycle \/ Key \/ Zero \/ Reply

Spec == Init /\ [][Next]_vars

(* The cycle is periodic and setZeroPos, once begun, is carried out.  No key *)
(* and no reply is owed.                                                     *)
FairSpec == Spec /\ WF_vars(Cycle) /\ WF_vars(ZeroTx \/ ZeroLast)

-----------------------------------------------------------------------------
TypeOK ==
  /\ want \in {"NONE", "ENABLE_MOTORS", "DISABLE_MOTORS"}
  /\ armed \in BOOLEAN /\ enabled \in BOOLEAN /\ tripped \in BOOLEAN
  /\ pcmd \in Positions /\ pcmdLast \in Positions /\ posr \in Positions
  /\ tcmd \in Torques
  /\ sent \in Frames \cup {None}
  /\ power \in BOOLEAN
  /\ tpc \in CycleSteps
  /\ zpc \in {"idle", "tx", "zero"}

(* Two position frames that follow each other on the bus are less than a     *)
(* step apart, whatever the motions ask for and whoever else writes pcmd and *)
(* pcmd_last (mitmotor.cpp 227, 392).  The one exception is the instant in   *)
(* which setZeroPos has stored the measured position over the command and    *)
(* has not sent its switching frame yet.                                     *)
StepBounded ==
  [][(sent # sent' /\ sent.kind = "pos" /\ sent'.kind = "pos" /\ zpc # "tx")
       => Dist(sent'.p, sent.p) < Step]_vars

(* A motor that is off for the program is switched off on the bus as well:   *)
(* protect(3) only clears m_ctrl.enabled, the frame follows from the static  *)
(* flag in the next cycle (mitmotor.cpp 156-196, robot.cpp 319-339).         *)
SwitchedOff == (power /\ ~enabled) ~> (~power \/ enabled)

(* What SwitchedOff rests on, at every instant.  A motor that is on for the  *)
(* program is on, or its frame is the next thing the cycle sends; a motor    *)
(* that is on and off for the program has its switching off still before it: *)
(* a frame that setZeroPos or the cycle is about to send, a disable just     *)
(* taken, or a static flag that the next protect(1) of an enabled arm finds  *)
(* (mitmotor.cpp 156-196, 407-431; robot.cpp 319-339).                       *)
SwitchesAgree ==
  /\ enabled => power \/ tpc = "onTx"
  /\ power /\ ~enabled =>
       \/ zpc = "tx" \/ tpc \in {"cutTx", "offTx"}
       \/ armed /\ tripped
       \/ ~armed /\ tpc = "off"

(* The motor as an arm that never moves (module ArmSession) and has two      *)
(* switches to drive, m_ctrl.enabled and its own power.  The enable and the  *)
(* disable happen when the mailbox is taken, ahead of the stores and of the  *)
(* frame that enableMotor still owes; nothing else in the interleaving of    *)
(* the cycle, setZeroPos and protect may turn either switch on, nor leave    *)
(* one on behind a disable (robot.cpp 319-372, mitmotor.cpp 407-431).        *)
SwitchOn ==
  {s \in {"object", "bus"} :
     \/ tpc = "on"
     \/ s = "object" /\ enabled /\ (armed \/ tpc # "off")
     \/ s = "bus" /\ tpc = "onTx"
     \/ s = "bus" /\ power /\ (armed \/ tpc \notin {"off", "offTx"})}

Session == INSTANCE ArmSession WITH
  Arms <- {"arm"}, Kinds <- {}, Stop <- "stop", Nothing <- "nothing",
  Motors <- {"object", "bus"},
  motion <- [a \in {"arm"} |-> "stop"],
  armed <- [a \in {"arm"} |-> armed],
  drive <- [a \in {"arm"} |-> SwitchOn]

KeepsSession == Session!SSpec

(* The refusal "over cmd torque_limit" (mitmotor.cpp 286): no torque at or   *)
(* above the limit is put on the bus.                                        *)
TorqueRefused ==
  [][(sent # sent' /\ sent'.kind \in {"pos", "tor"}) => sent'.t < TorLimit]_vars

(* The first test of protect(1) is the "position tracking error protection"  *)
(* (the comment at mitmotor.cpp 162): when it trips a motor, the motor is    *)
(* off the target it was sent.                                               *)
TripMeansTrackingError ==
  [][(~enabled' /\ enabled /\ tpc = "protect" /\ Dist(pcmd, posr) >= Track
        /\ zpc = "idle" /\ sent.kind = "pos")
       => Dist(sent.p, posr) >= Track]_vars

=============================================================================
