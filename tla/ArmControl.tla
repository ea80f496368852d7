----------------------------- MODULE ArmControl -----------------------------
(***************************************************************************)
(* The state machine of class robotArm (SRL2/robot.cpp, ctrlStateMachine)  *)
(* and the threads that command it.                                        *)
(*                                                                         *)
(* Each arm has a real-time task that runs one control cycle every 5 ms    *)
(* and a one-slot mailbox m_SM.action.  Commander threads (keyscan,        *)
(* state_change in main.cpp) write the mailbox and the list of path        *)
(* points with plain stores: there is no lock anywhere, so a cycle and a   *)
(* command are modelled as sequences of steps that interleave freely.      *)
(*                                                                         *)
(* Data is abstracted to what the control depends on: a path point is the  *)
(* thread that added it and its number, a motor is on or off, and the      *)
(* limits a cycle compares with are a choice of the motors that exceed     *)
(* them.                                                                   *)
(***************************************************************************)
EXTENDS Naturals, Sequences, FiniteSets

CONSTANTS
  Arms,        (* the arms under control: arms[0] and arms[3] in main.cpp    *)
  Commanders,  (* the threads that issue commands                            *)
  Keyboards,   (* those of them that read a key into the global cmd: keyscan *)
  Motions,     (* the motion types the commanders ask for                    *)
  Ops,         (* what else keyscan asks for: enable, disable, stop, zero    *)
  NMotors,     (* m_mitmotor_num                                             *)
  MaxPoints,   (* bound: points a commander adds to one path                 *)
  MaxIdx,      (* bound: idx reached by a task that reads outside its path   *)
  Task,        (* m_task_state, the work scene chosen with the '+' key       *)
  Paced        (* a commander waits until the mailbox of the arm is empty    *)

(* MOTION_TYPE, the types ctrlStateMachine knows how to begin, by the way    *)
(* they end: a path ends after its last point, a timed motion when its clock *)
(* runs out, a leaving one on cmd == 'l', the others only on STOP_MOTION.    *)
Path    == {"JOINT_RML"}
Timed   == {"JOINT_Planing", "JOINT_Error"}
Leaving == {"G_Blance", "SUPPORT"}
Endless == {"BIRDHEAD", "BIRDHEAD_Rod", "BIRDHEAD_Planing", "GRIPPER_Open",
            "GRIPPER_Close", "Identify", "G_Blance_Xuangua"}
Known   == Path \cup Timed \cup Leaving \cup Endless

(* A first cycle differs from the later ones in what it may do: it cannot    *)
(* end the motion.                                                           *)
HasFirst == Timed \cup Leaving

(* Types beginMotion accepts and BEGIN_MOTION does not match.                *)
Unknown == {"none", "CARTESIAN_RML_6D"}

ASSUME ArmControlAssumption ==
  /\ Keyboards \subseteq Commanders
  /\ Motions \subseteq Known \cup Unknown
  /\ Ops \subseteq {"ENABLE_MOTORS", "DISABLE_MOTORS", "STOP_MOTION", "zero"}
  /\ NMotors \in Nat \ {0}
  /\ MaxPoints \in Nat \ {0}
  /\ MaxIdx \in Nat
  /\ Task \in 0..5
  /\ Paced \in BOOLEAN

Motors  == 1..NMotors
Actions == {"NONE", "ENABLE_MOTORS", "DISABLE_MOTORS", "BEGIN_MOTION", "STOP_MOTION"}
Points  == (Commanders \cup Arms) \X Nat

(* What a commander asks of an arm: enableMotors, stopMotion, setZeroPos, or *)
(* a motion function, which for a path also gives the number of its points.  *)
Jobs ==
  [op : Ops, arm : Arms]
    \cup {j \in [op : {"move"}, arm : Arms, motion : Motions, size : 0..MaxPoints] :
            j.motion \in Path <=> j.size > 0}
NoJob == [op |-> "none"]

VARIABLES
  action,   (* m_SM.action, the mailbox                                      *)
  state,    (* m_SM.state                                                    *)
  type,     (* m_SM.motiontype                                               *)
  on,       (* the motions whose onoff is true                               *)
  first,    (* the motions of HasFirst whose firsttime is true               *)
  idx,      (* m_RMLMotion.idx                                               *)
  substep,  (* m_RMLMotion.substep                                           *)
  ps,       (* m_RMLMotion.ps                                                *)
  armed,    (* m_MotorsEnabled                                               *)
  drive,    (* the motors whose m_ctrl.enabled is true                       *)
  tripped,  (* the arms a motor of which has set a flag back[i] of protect.  *)
            (* The flags are static: the code only knows whether one is set, *)
            (* by whichever motor of whichever arm                           *)
  turn,     (* the motors the enable or disable block has already switched   *)
  cmd,      (* the global char cmd: 'l', 'w' or a command key                *)
  tpc,      (* the next step of each arm's control task                      *)
  cpc,      (* the next step of each commander                               *)
  job,      (* the command each commander is carrying out                    *)
  count,    (* points already added, or motors already switched off          *)
  health    (* "garbage": a path was read outside its bounds and the task    *)
            (* went on with what was there; "crashed": it did not go on      *)

mailVars == <<action, type>>
runVars  == <<state, on, first, idx, substep>>
driveVars == <<armed, drive, tripped, turn>>
userVars == <<cpc, job, count>>
vars == <<action, state, type, on, first, idx, substep, ps, armed, drive,
          tripped, turn, cmd, tpc, cpc, job, count, health>>

TaskSteps == {"protect", "enable", "doEnable", "disable", "doDisable",
              "motors", "begin", "doBegin", "stop", "doStop", "run"}
UserSteps == {"idle", "switch", "check", "clear", "add", "begin",
              "store", "storeType", "storeAction", "zero"}

Init ==
  /\ action  = [a \in Arms |-> "NONE"]
  /\ state   = [a \in Arms |-> "STOPPED"]
  /\ type    = [a \in Arms |-> "none"]
  /\ on      = [a \in Arms |-> {}]
  /\ first   = [a \in Arms |-> {}]
  /\ idx     = [a \in Arms |-> 0]
  /\ substep = [a \in Arms |-> 0]
  /\ ps      = [a \in Arms |-> <<>>]
  /\ armed   = [a \in Arms |-> FALSE]
  /\ drive   = [a \in Arms |-> {}]
  /\ tripped = {}
  /\ turn    = [a \in Arms |-> 0]
  /\ cmd     = "w"
  /\ tpc     = [a \in Arms |-> "protect"]
  /\ cpc     = [c \in Commanders |-> "idle"]
  /\ job     = [c \in Commanders |-> NoJob]
  /\ count   = [c \in Commanders |-> 0]
  /\ health  = "ok"

-----------------------------------------------------------------------------
(* The control task: ctrlStateMachine, one cycle from "protect" to "run".    *)
(* Every test of m_SM.action is a read of its own, and the block a test      *)
(* guards is a later step, so a commander may write in between.              *)

Goto(a, from, to) == tpc[a] = from /\ tpc' = [tpc EXCEPT ![a] = to]

Test(a, at, cond, then, else) ==
  /\ Goto(a, at, IF cond THEN then ELSE else)
  /\ UNCHANGED <<mailVars, runVars, ps, driveVars, cmd, userVars, health>>

(* The arms that motors over the limits add to tripped.                      *)
Trips(a, over) == IF over = {} THEN {} ELSE {a}

(* Definitions whose name ends in Slip are faulty variants of the one that   *)
(* follows; no action uses them, they show what the properties would catch.  *)

(* Slip: the flags are local to one call of protect.                         *)
ProtectSlip(a) ==
  /\ Goto(a, "protect", "enable")
  /\ IF armed[a]
     THEN \E over \in SUBSET Motors :
            /\ tripped' = Trips(a, over)
            /\ drive' = [drive EXCEPT ![a] = IF tripped' # {} THEN {} ELSE @]
     ELSE UNCHANGED <<tripped, drive>>
  /\ UNCHANGED <<mailVars, runVars, ps, armed, turn, cmd, userVars, health>>

(* Slip: the motors are switched off once, when a motor trips.               *)
ProtectOnceSlip(a) ==
  /\ Goto(a, "protect", "enable")
  /\ IF armed[a]
     THEN \E over \in SUBSET Motors :
            /\ tripped' = tripped \cup Trips(a, over)
            /\ drive' = [drive EXCEPT ![a] = IF tripped' # tripped THEN {} ELSE @]
     ELSE UNCHANGED <<tripped, drive>>
  /\ UNCHANGED <<mailVars, runVars, ps, armed, turn, cmd, userVars, health>>

(* protect(1) on every motor, then enableMotor(false) on all of them once a  *)
(* flag is set.  The flags are static and nothing clears them.  Line 329     *)
(* compares m_SM.action with STOP_MOTION and assigns nothing.                *)
Protect(a) ==
  /\ Goto(a, "protect", "enable")
  /\ IF armed[a]
     THEN \E over \in SUBSET Motors :
            /\ tripped' = tripped \cup Trips(a, over)
            /\ drive' = [drive EXCEPT ![a] = IF tripped' # {} THEN {} ELSE @]
     ELSE UNCHANGED <<tripped, drive>>
  /\ UNCHANGED <<mailVars, runVars, ps, armed, turn, cmd, userVars, health>>

(* Slips: disable only at rest; begin without the test of STOPPED; stop only *)
(* an arm that has stopped.                                                  *)
TestDisableSlip(a) == Test(a, "disable", action[a] = "DISABLE_MOTORS" /\ state[a] = "STOPPED",
                           "doDisable", "begin")
TestBeginSlip(a) == Test(a, "begin", action[a] = "BEGIN_MOTION", "doBegin", "stop")
TestStopSlip(a)  == Test(a, "stop", action[a] = "STOP_MOTION" /\ state[a] = "STOPPED",
                         "doStop", "run")

TestEnable(a)  == Test(a, "enable", action[a] = "ENABLE_MOTORS", "doEnable", "disable")
TestDisable(a) == Test(a, "disable", action[a] = "DISABLE_MOTORS", "doDisable", "begin")
TestBegin(a)   == Test(a, "begin", action[a] = "BEGIN_MOTION" /\ state[a] = "STOPPED",
                       "doBegin", "stop")
TestStop(a)    == Test(a, "stop", action[a] = "STOP_MOTION" /\ state[a] = "RUNNING",
                       "doStop", "run")

(* m_SM.action = NONE and m_MotorsEnabled = flag, before the first motor is  *)
(* switched.                                                                 *)
SetMotors(a, flag) ==
  /\ action' = [action EXCEPT ![a] = "NONE"]
  /\ armed'  = [armed EXCEPT ![a] = flag]
  /\ turn'   = [turn EXCEPT ![a] = 0]
  /\ UNCHANGED <<type, runVars, ps, drive, tripped, cmd, userVars, health>>

DoEnable(a)  == Goto(a, "doEnable", "motors") /\ SetMotors(a, TRUE)
DoDisable(a) == Goto(a, "doDisable", "motors") /\ SetMotors(a, FALSE)

(* The loop of both blocks: enableMotor on one motor after the other, while  *)
(* setZeroPos of another thread may be switching the same motors off.  Both  *)
(* blocks return: the cycle ends without running the motion.                 *)
SwitchNext(a, last) ==
  LET m == turn[a] + 1 IN
  /\ Goto(a, "motors", IF last THEN "protect" ELSE "motors")
  /\ turn'  = [turn EXCEPT ![a] = IF last THEN 0 ELSE m]
  /\ drive' = [drive EXCEPT ![a] = IF armed[a] THEN @ \cup {m} ELSE @ \ {m}]
  /\ UNCHANGED <<mailVars, runVars, ps, armed, tripped, cmd, userVars, health>>

(* Slip: the loop of the disable block ends one motor early.                 *)
SwitchMotorSlip(a) ==
  SwitchNext(a, turn[a] + (IF armed[a] THEN 1 ELSE 2) >= NMotors)

SwitchMotor(a) == SwitchNext(a, turn[a] + 1 = NMotors)

(* BEGIN_MOTION: set the flags of the motion, next goes into the mailbox.    *)
Begin(a, next, kinds) ==
  /\ Goto(a, "doBegin", "stop")
  /\ action' = [action EXCEPT ![a] = next]
  /\ state'  = [state EXCEPT ![a] = "RUNNING"]
  /\ on'     = [on EXCEPT ![a] = @ \cup ({type[a]} \cap kinds)]
  /\ first'  = [first EXCEPT ![a] = @ \cup ({type[a]} \cap HasFirst)]
  /\ IF type[a] \in Path
     THEN idx' = [idx EXCEPT ![a] = 0] /\ substep' = [substep EXCEPT ![a] = 1]
     ELSE UNCHANGED <<idx, substep>>
  /\ UNCHANGED <<type, ps, driveVars, cmd, userVars, health>>

(* Slip: the request stays in the mailbox.                                   *)
DoBeginTwice(a) == Begin(a, "BEGIN_MOTION", Known)

DoBegin(a) == Begin(a, "NONE", Known)

(* Slip: the flag of the path motion is not among those cleared.             *)
DoStopSlip(a) ==
  /\ Goto(a, "doStop", "run")
  /\ action' = [action EXCEPT ![a] = "NONE"]
  /\ state'  = [state EXCEPT ![a] = "STOPPED"]
  /\ on'     = [on EXCEPT ![a] = @ \cap Path]
  /\ UNCHANGED <<type, first, idx, substep, ps, driveVars, cmd, userVars, health>>

DoStop(a) ==
  /\ Goto(a, "doStop", "run")
  /\ action' = [action EXCEPT ![a] = "NONE"]
  /\ state'  = [state EXCEPT ![a] = "STOPPED"]
  /\ on'     = [on EXCEPT ![a] = {}]
  /\ UNCHANGED <<type, first, idx, substep, ps, driveVars, cmd, userVars, health>>

-----------------------------------------------------------------------------
(* The last part of a cycle: one handler per kind of motion.                 *)

Running(a, m) == state[a] = "RUNNING" /\ m \in on[a] /\ Goto(a, "run", "protect")

(* state = STOPPED and onoff = false of the motion that ends.                *)
EndMotion(a, m) ==
  /\ state' = [state EXCEPT ![a] = "STOPPED"]
  /\ on'    = [on EXCEPT ![a] = @ \ {m}]

(* Slips: one point too few; one point too many.                             *)
RmlNextEarlySlip(a) ==
  /\ Running(a, "JOINT_RML")
  /\ substep[a] = 1
  /\ substep' = [substep EXCEPT ![a] = IF idx[a] + 1 = Len(ps[a]) THEN 4 ELSE 2]
  /\ UNCHANGED <<mailVars, state, on, first, idx, ps, driveVars, cmd, userVars, health>>

RmlNextSlip(a) ==
  /\ Running(a, "JOINT_RML")
  /\ substep[a] = 1
  /\ substep' = [substep EXCEPT ![a] = IF idx[a] > Len(ps[a]) THEN 4 ELSE 2]
  /\ UNCHANGED <<mailVars, state, on, first, idx, ps, driveVars, cmd, userVars, health>>

(* Substep 1: the path is finished when idx equals the number of points.     *)
RmlNext(a) ==
  /\ Running(a, "JOINT_RML")
  /\ substep[a] = 1
  /\ substep' = [substep EXCEPT ![a] = IF idx[a] = Len(ps[a]) THEN 4 ELSE 2]
  /\ UNCHANGED <<mailVars, state, on, first, idx, ps, driveVars, cmd, userVars, health>>

(* ps[idx] read in substeps 2 and 3.  idx is not compared with the size.     *)
ReadPoint(a) ==
  IF idx[a] < Len(ps[a])
  THEN UNCHANGED health
  ELSE health' \in (IF idx[a] < MaxIdx THEN {"garbage", "crashed"} ELSE {"crashed"})

(* Substep 2 plans the move to the point.                                    *)
RmlPlan(a) ==
  /\ Running(a, "JOINT_RML")
  /\ substep[a] = 2
  /\ ReadPoint(a)
  /\ substep' = [substep EXCEPT ![a] = 3]
  /\ UNCHANGED <<mailVars, state, on, first, idx, ps, driveVars, cmd, userVars>>

(* Substep 3 while rmlStep reports that the target is not reached yet.       *)
RmlMove(a) ==
  /\ Running(a, "JOINT_RML")
  /\ substep[a] = 3
  /\ ReadPoint(a)
  /\ UNCHANGED <<mailVars, runVars, ps, driveVars, cmd, userVars>>

(* Slip: idx is not advanced.                                                *)
RmlReachedSlip(a) ==
  /\ Running(a, "JOINT_RML")
  /\ substep[a] = 3
  /\ ReadPoint(a)
  /\ substep' = [substep EXCEPT ![a] = 1]
  /\ UNCHANGED <<mailVars, state, on, first, idx, ps, driveVars, cmd, userVars>>

(* Substep 3 when the point is reached.                                      *)
RmlReached(a) ==
  /\ Running(a, "JOINT_RML")
  /\ substep[a] = 3
  /\ ReadPoint(a)
  /\ idx'     = [idx EXCEPT ![a] = @ + 1]
  /\ substep' = [substep EXCEPT ![a] = 1]
  /\ UNCHANGED <<mailVars, state, on, first, ps, driveVars, cmd, userVars>>

(* Slip: the end of a path stores NONE like the end of a timed motion.       *)
RmlDoneSlip(a) ==
  /\ Running(a, "JOINT_RML")
  /\ substep[a] = 4
  /\ substep' = [substep EXCEPT ![a] = 0]
  /\ EndMotion(a, "JOINT_RML")
  /\ action' = [action EXCEPT ![a] = "NONE"]
  /\ UNCHANGED <<type, first, idx, ps, driveVars, cmd, userVars, health>>

(* Substep 4: the motion is over.                                            *)
RmlDone(a) ==
  /\ Running(a, "JOINT_RML")
  /\ substep[a] = 4
  /\ substep' = [substep EXCEPT ![a] = 0]
  /\ EndMotion(a, "JOINT_RML")
  /\ UNCHANGED <<mailVars, first, idx, ps, driveVars, cmd, userVars, health>>

(* Cycles of an endless motion, of a timed one before its end, and the first *)
(* cycle of a leaving one.                                                   *)
Continue(a) ==
  /\ \E m \in (Timed \cup Leaving \cup Endless) :
       /\ Running(a, m)
       /\ m \in Leaving => m \in first[a]
       /\ first' = [first EXCEPT ![a] = @ \ {m}]
  /\ UNCHANGED <<mailVars, state, on, idx, substep, ps, driveVars, cmd, userVars, health>>

(* The clock of a timed motion ran out.  action = NONE drops a command that  *)
(* is waiting in the mailbox.                                                *)
TimeUp(a) ==
  /\ \E m \in Timed :
       /\ Running(a, m)
       /\ m \notin first[a]
       /\ EndMotion(a, m)
  /\ action' = [action EXCEPT ![a] = "NONE"]
  /\ UNCHANGED <<type, first, idx, substep, ps, driveVars, cmd, userVars, health>>

(* jointMove(..., TORMODE): protect(3) switches off only the motor that      *)
(* exceeds a limit and sets a flag.  G_Blance also switches every motor   *)
(* off at a joint limit.                                                     *)
TorqueMove(a, m) ==
  \E over \in SUBSET Motors, atLimit \in BOOLEAN :
    /\ atLimit => m = "G_Blance"
    /\ tripped' = tripped \cup Trips(a, over)
    /\ drive' = [drive EXCEPT ![a] = IF atLimit THEN {} ELSE @ \ over]

(* SUPPORT in scene 1 sets cmd = 'l' itself when the force has ramped down.  *)
RampedDown(m) == IF m = "SUPPORT" /\ Task = 1 THEN BOOLEAN ELSE {FALSE}

(* A force-controlled cycle that does not find cmd == 'l'.                   *)
ForceCycle(a) ==
  /\ \E m \in Leaving : Running(a, m) /\ m \notin first[a] /\ TorqueMove(a, m)
  /\ cmd # "l"
  /\ UNCHANGED <<mailVars, runVars, ps, armed, turn, cmd, userVars, health>>

(* A force-controlled cycle that finds cmd == 'l', set by a key or by its    *)
(* own ramp.  SUPPORT in scenes 0 and 1 asks for the motion back itself.     *)
ForceLeave(a) ==
  /\ \E m \in Leaving :
       /\ Running(a, m)
       /\ m \notin first[a]
       /\ TorqueMove(a, m)
       /\ \E ramped \in RampedDown(m) :
            /\ ramped \/ cmd = "l"
            /\ EndMotion(a, m)
            /\ IF m = "SUPPORT" /\ Task \in {0, 1}
               THEN /\ ps'     = [ps EXCEPT ![a] = << <<a, 1>> >>]
                    /\ action' = [action EXCEPT ![a] = "BEGIN_MOTION"]
                    /\ type'   = [type EXCEPT ![a] = "JOINT_RML"]
                    /\ cmd'    = "w"
               ELSE /\ action' = [action EXCEPT ![a] = "NONE"]
                    /\ cmd' = IF ramped THEN "l" ELSE cmd
                    /\ UNCHANGED <<ps, type>>
  /\ UNCHANGED <<first, idx, substep, armed, turn, userVars, health>>

(* STOPPED, or RUNNING with no motion switched on: states are only fetched.  *)
Fetch(a) ==
  /\ Goto(a, "run", "protect")
  /\ state[a] = "STOPPED" \/ on[a] = {}
  /\ UNCHANGED <<mailVars, runVars, ps, driveVars, cmd, userVars, health>>

Run(a) ==
  \/ RmlNext(a) \/ RmlPlan(a) \/ RmlMove(a) \/ RmlReached(a) \/ RmlDone(a)
  \/ Continue(a) \/ TimeUp(a) \/ ForceCycle(a) \/ ForceLeave(a) \/ Fetch(a)

Cycle(a) ==
  \/ Protect(a) \/ TestEnable(a) \/ DoEnable(a) \/ TestDisable(a) \/ DoDisable(a)
  \/ SwitchMotor(a) \/ TestBegin(a) \/ DoBegin(a) \/ TestStop(a) \/ DoStop(a) \/ Run(a)

-----------------------------------------------------------------------------
(* The commanders: one call on one arm at a time.  A key that commands both  *)
(* arms (main.cpp 2831-2960) is two such calls in a row.                     *)

Move(c, from, to) ==
  /\ cpc[c] = from
  /\ cpc' = [cpc EXCEPT ![c] = to]
  /\ job' = IF to = "idle" THEN [job EXCEPT ![c] = NoJob] ELSE job

(* The first step of the call a commander has decided on.                    *)
Entry(j) == CASE j.op = "move" -> "check"
              [] j.op = "zero" -> "zero"
              [] OTHER         -> "store"

(* A mailbox nothing is waiting in: a STOP_MOTION for a stopped arm is       *)
(* never taken and is overwritten by the next command.                       *)
Drained(a) == action[a] = "NONE" \/ (action[a] = "STOP_MOTION" /\ state[a] = "STOPPED")

(* keyscan blocks in cin >> cmd, then looks at cmd again in its switch.  The *)
(* other commander, state_change, only asks for motions.                     *)
Issue(c) ==
  \E j \in Jobs :
    /\ c \in Keyboards \/ j.op = "move"
    /\ Paced => Drained(j.arm)
    /\ cpc[c] = "idle"
    /\ cpc' = [cpc EXCEPT ![c] = IF c \in Keyboards THEN "switch" ELSE Entry(j)]
    /\ job' = [job EXCEPT ![c] = j]
    /\ cmd' = IF c \in Keyboards THEN "key" ELSE cmd
    /\ UNCHANGED <<mailVars, runVars, ps, driveVars, tpc, count, health>>

(* The 'l' key has no case of its own: it only leaves cmd at 'l'.            *)
LeaveKey(c) ==
  /\ c \in Keyboards
  /\ Move(c, "idle", "idle")
  /\ cmd' = "l"
  /\ UNCHANGED <<mailVars, runVars, ps, driveVars, tpc, count, health>>

(* A control task may have written 'l' or 'w' over the key meanwhile.        *)
KeySwitch(c) ==
  /\ Move(c, "switch", IF cmd = "key" THEN Entry(job[c]) ELSE "idle")
  /\ UNCHANGED <<mailVars, runVars, ps, driveVars, cmd, tpc, count, health>>

(* gohome, initpos, supporting, action2, ...: getMotionState() == STOPPED.   *)
CheckStopped(c) ==
  /\ Move(c, "check", IF state[job[c].arm] # "STOPPED" THEN "idle"
                      ELSE IF job[c].motion \in Path THEN "clear" ELSE "begin")
  /\ UNCHANGED <<mailVars, runVars, ps, driveVars, cmd, tpc, count, health>>

(* Slip: the points are added behind those of the path before.               *)
ClearRmlPointsSlip(c) ==
  /\ Move(c, "clear", "add")
  /\ UNCHANGED <<mailVars, runVars, ps, driveVars, cmd, tpc, count, health>>

ClearRmlPoints(c) ==
  /\ Move(c, "clear", "add")
  /\ ps' = [ps EXCEPT ![job[c].arm] = <<>>]
  /\ UNCHANGED <<mailVars, runVars, driveVars, cmd, tpc, count, health>>

AddRmlPoint(c) ==
  LET last == count[c] + 1 = job[c].size IN
  /\ Move(c, "add", IF last THEN "begin" ELSE "add")
  /\ ps' = [ps EXCEPT ![job[c].arm] = Append(@, <<c, count[c] + 1>>)]
  /\ count' = [count EXCEPT ![c] = IF last THEN 0 ELSE @ + 1]
  /\ UNCHANGED <<mailVars, runVars, driveVars, cmd, tpc, health>>

(* beginMotion: refused unless the arm is stopped.                           *)
BeginMotion(c) ==
  /\ Move(c, "begin", IF state[job[c].arm] = "STOPPED" THEN "store" ELSE "idle")
  /\ UNCHANGED <<mailVars, runVars, ps, driveVars, cmd, tpc, count, health>>

(* The store to m_SM.action.  beginMotion also stores m_SM.motiontype; the   *)
(* two are unordered for another thread.                                     *)
StoreAction(c) ==
  LET j == job[c] IN
  /\ \/ Move(c, "store", IF j.op = "move" THEN "storeType" ELSE "idle")
     \/ Move(c, "storeAction", "idle")
  /\ action' = [action EXCEPT ![j.arm] = IF j.op = "move" THEN "BEGIN_MOTION" ELSE j.op]
  /\ UNCHANGED <<type, runVars, ps, driveVars, cmd, tpc, count, health>>

StoreType(c) ==
  /\ job[c].op = "move"
  /\ Move(c, "store", "storeAction") \/ Move(c, "storeType", "idle")
  /\ type' = [type EXCEPT ![job[c].arm] = job[c].motion]
  /\ UNCHANGED <<action, runVars, ps, driveVars, cmd, tpc, count, health>>

(* setZeroPos switches the motors off one after the other, whatever the arm  *)
(* is doing.                                                                 *)
ZeroMotor(c) ==
  LET last == count[c] + 1 = NMotors IN
  /\ Move(c, "zero", IF last THEN "idle" ELSE "zero")
  /\ drive' = [drive EXCEPT ![job[c].arm] = @ \ {count[c] + 1}]
  /\ count' = [count EXCEPT ![c] = IF last THEN 0 ELSE @ + 1]
  /\ UNCHANGED <<mailVars, runVars, ps, armed, tripped, turn, cmd, tpc, health>>

Proceed(c) ==
  \/ KeySwitch(c) \/ CheckStopped(c) \/ ClearRmlPoints(c) \/ AddRmlPoint(c)
  \/ BeginMotion(c) \/ StoreAction(c) \/ StoreType(c) \/ ZeroMotor(c)

Command(c) == Issue(c) \/ LeaveKey(c) \/ Proceed(c)

-----------------------------------------------------------------------------
Next ==
  /\ health # "crashed"
  /\ \/ \E a \in Arms : Cycle(a)
     \/ \E c \in Commanders : Command(c)

Spec == Init /\ [][Next]_vars

(* The control tasks are periodic, a thread finishes the call it has begun,  *)
(* and the trajectory generator reaches a target in finite time, so it       *)
(* cannot report "not yet" for ever.  No key is ever owed.                   *)
Fairness ==
  /\ \A a \in Arms : WF_vars(Cycle(a)) /\ SF_vars(RmlReached(a))
  /\ \A c \in Commanders : WF_vars(Proceed(c))

FairSpec == Spec /\ Fairness

-----------------------------------------------------------------------------
(* Properties.  The first group holds for any number of commanders writing   *)
(* at any time, the second when the mailbox is given time to drain.          *)

TypeOK ==
  /\ action  \in [Arms -> Actions]
  /\ state   \in [Arms -> {"STOPPED", "RUNNING"}]
  /\ type    \in [Arms -> Known \cup Unknown]
  /\ on      \in [Arms -> SUBSET Known]
  /\ first   \in [Arms -> SUBSET HasFirst]
  /\ idx     \in [Arms -> Nat]
  /\ substep \in [Arms -> 0..4]
  /\ ps      \in [Arms -> Seq(Points)]
  /\ armed   \in [Arms -> BOOLEAN]
  /\ drive   \in [Arms -> SUBSET Motors]
  /\ tripped \in SUBSET Arms
  /\ turn    \in [Arms -> 0..(NMotors - 1)]
  /\ cmd     \in {"l", "w", "key"}
  /\ tpc     \in [Arms -> TaskSteps]
  /\ cpc     \in [Commanders -> UserSteps]
  /\ job     \in [Commanders -> Jobs \cup {NoJob}]
  /\ count   \in [Commanders -> Nat]
  /\ health  \in {"ok", "garbage", "crashed"}

(* The handlers of the motions are tested one after the other in a cycle and *)
(* nothing in them excludes the others: an arm follows one motion at a time, *)
(* and none when it is stopped, only because every way a motion ends clears  *)
(* its own flag and BEGIN_MOTION waits for STOPPED (robot.cpp 391-1556).     *)
OneMotion ==
  \A a \in Arms :
    /\ state[a] = "STOPPED" => on[a] = {}
    /\ \A m1, m2 \in on[a] : m1 = m2

(* The motors an enable or disable block has still to switch.                *)
Pending(a) == IF tpc[a] = "motors" THEN (turn[a] + 1)..NMotors ELSE {}

(* A motor is driven only on an arm whose motors were enabled and not        *)
(* disabled since, but for those a DISABLE_MOTORS is just about to reach,    *)
(* although DISABLE_MOTORS, the protection, the torque handlers and          *)
(* setZeroPos of another thread all switch motors.                           *)
DriveNeedsArm == \A a \in Arms : ~armed[a] => drive[a] \subseteq Pending(a)

(* An arm that has tripped moves no more: ENABLE_MOTORS switches its motors  *)
(* on again, and the motion it follows goes on, but no cycle gets as far as  *)
(* a motion with a motor driven.  It rests on the order of the blocks of a   *)
(* cycle: the block that enables returns, the protection comes before the    *)
(* next command, and a torque handler that trips is the last step of its     *)
(* cycle (robot.cpp 319-390, 826-1492).                                      *)
TrippedStands ==
  \A a \in tripped : tpc[a] \notin {"motors", "protect"} => drive[a] = {}

(* The protection flags are shared by the motors of both arms and never      *)
(* cleared: once one motor of one arm has tripped, every enabled arm loses   *)
(* its drive, again after every later ENABLE_MOTORS.                         *)
TripSpreads == \A a \in Arms : (tripped # {} /\ armed[a]) ~> (drive[a] = {})

(* A path is never read outside its points.  Nothing in substeps 2 and 3     *)
(* compares idx with the size; the commands that rewrite the points look     *)
(* only at m_SM.state, which is still STOPPED while a BEGIN_MOTION waits.    *)
PathInRange == health = "ok"

(* The points of a path that is being executed do not change under it.       *)
PathFrozenWhileRunning ==
  [][\A a \in Arms :
       ("JOINT_RML" \in on[a] /\ "JOINT_RML" \in on'[a]) => ps'[a] = ps[a]]_vars

(* A BEGIN_MOTION waits only for a stopped arm: it is taken by the next      *)
(* cycle and never left behind to start a motion later, when another one     *)
(* ends.                                                                     *)
NoDeferredBegin ==
  \A a \in Arms : action[a] = "BEGIN_MOTION" => state[a] = "STOPPED"

(* A path that is followed is one whole command: the points of one call, in  *)
(* their order and from the first, none of an earlier path among them, none  *)
(* still to come.  A request that is about to be stored has put all of its   *)
(* points there (clearRmlPoints and addRmlPoint, robot.cpp 1874-1888, and    *)
(* the motion functions that call them).                                     *)
WholePath ==
  /\ \A a \in Arms : "JOINT_RML" \in on[a] =>
       /\ \E c \in Commanders : \A k \in DOMAIN ps[a] : ps[a][k] = <<c, k>>
       /\ \A c \in Commanders : cpc[c] \in {"clear", "add"} => job[c].arm # a
  /\ \A c \in Commanders :
       (cpc[c] \in {"begin", "store", "storeType", "storeAction"}
          /\ job[c].op = "move" /\ job[c].motion \in Path)
         => Len(ps[job[c].arm]) = job[c].size

(* A path is followed from its first point, one point after the other, and   *)
(* is left only after the last or by a STOP_MOTION that waited for it:       *)
(* neither another motion, nor a later command, nor a cycle that returns     *)
(* early for ENABLE or DISABLE skips a point or cuts the path short          *)
(* (robot.cpp 391-467, 484-740).                                             *)
PathCompleted ==
  [][\A a \in Arms :
       /\ "JOINT_RML" \in on'[a] \ on[a] => idx'[a] = 0
       /\ "JOINT_RML" \in on'[a] \cap on[a] =>
            \/ idx'[a] = idx[a]
            \/ idx'[a] = idx[a] + 1 /\ idx[a] < Len(ps[a]) /\ substep[a] = 3
       /\ "JOINT_RML" \in on[a] \ on'[a] =>
            idx[a] = Len(ps[a]) \/ (action[a] = "STOP_MOTION" /\ state'[a] = "STOPPED")]_vars

(* A command that waits in the mailbox stays there until a cycle carries it  *)
(* out.  The one way it is lost is the end of a timed or a force-controlled  *)
(* motion, which stores NONE over whatever waits (robot.cpp 912, 1022, 1183-1225,    *)
(* 1492).                                                                    *)
CarriesOut(a) ==
  CASE action[a] = "ENABLE_MOTORS"  -> tpc[a] = "doEnable" /\ armed'[a]
    [] action[a] = "DISABLE_MOTORS" -> tpc[a] = "doDisable" /\ ~armed'[a]
    [] action[a] = "BEGIN_MOTION"   -> tpc[a] = "doBegin" /\ state'[a] = "RUNNING"
    [] action[a] = "STOP_MOTION"    -> state'[a] = "STOPPED"

MailKept ==
  [][\A a \in Arms :
       action[a] # "NONE" /\ action'[a] # action[a] =>
         CarriesOut(a) \/ \E m \in HasFirst : m \in on[a] \ on'[a]]_vars

(* A stop asked of a running arm stops it.  Every handler that ends a motion *)
(* and every later command overwrite the same mailbox.                       *)
StopHonoured ==
  \A a \in Arms :
    (action[a] = "STOP_MOTION" /\ state[a] = "RUNNING") ~> (state[a] = "STOPPED")

(* The 'm' key takes effect while the arm stands, follows a path or a motion *)
(* that only a stop ends.  A timed or a force-controlled motion that ends    *)
(* between the test and its own store of NONE drops the command (robot.cpp   *)
(* 912, 1022, 1204, 1492), and that is the only way it comes to nothing.     *)
CommandTaken ==
  \A a \in Arms :
    LET Undropped == on[a] \cap HasFirst = {} IN
    /\ (action[a] = "ENABLE_MOTORS" /\ Undropped) ~> armed[a]
    /\ (action[a] = "DISABLE_MOTORS" /\ Undropped) ~> ~armed[a]
    /\ (action[a] = "ENABLE_MOTORS") ~> (armed[a] \/ state[a] = "STOPPED")
    /\ (action[a] = "DISABLE_MOTORS") ~> (~armed[a] \/ state[a] = "STOPPED")

(* A path comes to its end if commands do not keep the cycles from reaching  *)
(* their last part (an ENABLE or DISABLE taken by a cycle returns early).    *)
MotionEnds ==
  \A a \in Arms :
    <>[](action[a] = "NONE") => (("JOINT_RML" \in on[a]) ~> (state[a] = "STOPPED"))

(* The promise of an arm, module ArmSession, as this module keeps it.  To a  *)
(* session an enable or a disable is one step, that of m_MotorsEnabled.      *)
Following(a) ==
  CASE state[a] = "STOPPED" -> "stop"
    [] state[a] # "STOPPED" /\ on[a] = {} -> "nothing"
    [] OTHER -> CHOOSE m \in on[a] : TRUE

Session == INSTANCE ArmSession
  WITH Kinds <- Known, Stop <- "stop", Nothing <- "nothing",
       motion <- [a \in Arms |-> Following(a)],
       drive <- [a \in Arms |-> IF armed[a] THEN drive[a] \cup Pending(a)
                                ELSE drive[a] \ Pending(a)]

(* Every step of the control tasks and of the commanders is a step an arm    *)
(* session allows, or none: a motion is never exchanged for another, and no  *)
(* motor comes back on without ENABLE_MOTORS.                                *)
KeepsSession == Session!SSpec

(* What the message of beginMotion says, "previous motion is not finished,   *)
(* motion command is ignored!" (robot.cpp 1900): a command that is refused   *)
(* has left no point of its own in the path.                                 *)
IgnoredCommandHasNoEffect ==
  [][\A c \in Commanders :
       (cpc[c] = "begin" /\ cpc'[c] = "idle") =>
         \A k \in DOMAIN ps[job[c].arm] : ps[job[c].arm][k][1] # c]_vars

=============================================================================
