-------------------------- MODULE ArmControlProofs --------------------------
(***************************************************************************)
(* Theorems about ArmControl, for any number of arms, commanders, motors   *)
(* and points, and for every interleaving of their steps.                  *)
(***************************************************************************)
EXTENDS ArmControl, TLAPS

(* A commander that is not idle carries out a job, and is at a step of it.   *)
StepsOf(op) ==
  IF op = "move" THEN {"switch", "check", "clear", "add", "begin", "store",
                       "storeType", "storeAction"}
  ELSE IF op = "zero" THEN {"switch", "zero"}
  ELSE {"switch", "store"}

Busy ==
  \A c \in Commanders :
    cpc[c] # "idle" => job[c] \in Jobs /\ cpc[c] \in StepsOf(job[c].op)

TypeInv == TypeOK /\ Busy

LEMMA JobTypes ==
  ASSUME NEW j \in Jobs
  PROVE  /\ j.op \in {"move", "zero", "ENABLE_MOTORS", "DISABLE_MOTORS", "STOP_MOTION"}
         /\ j.arm \in Arms
         /\ j.op = "move" => j.motion \in Known \cup Unknown
<1>1. CASE j \in [op : Ops, arm : Arms]
  BY <1>1, ArmControlAssumption
<1>2. CASE j \in [op : {"move"}, arm : Arms, motion : Motions, size : 0..MaxPoints]
  BY <1>2, ArmControlAssumption
<1> QED
  BY <1>1, <1>2 DEF Jobs

LEMMA TypeInit == Init => TypeInv
<1> SUFFICES ASSUME Init PROVE TypeInv
  OBVIOUS
<1>1. action \in [Arms -> Actions] /\ type \in [Arms -> Known \cup Unknown]
  BY DEF Init, Actions, Unknown
<1>2. ps \in [Arms -> Seq(Points)]
  BY DEF Init
<1>3. /\ state \in [Arms -> {"STOPPED", "RUNNING"}]
      /\ on \in [Arms -> SUBSET Known]
      /\ first \in [Arms -> SUBSET HasFirst]
      /\ idx \in [Arms -> Nat]
      /\ substep \in [Arms -> 0..4]
  BY DEF Init
<1>4. /\ armed \in [Arms -> BOOLEAN]
      /\ drive \in [Arms -> SUBSET Motors]
      /\ tripped \in SUBSET Arms
      /\ turn \in [Arms -> 0..(NMotors - 1)]
      /\ cmd \in {"l", "w", "key"}
      /\ health \in {"ok", "garbage", "crashed"}
  BY ArmControlAssumption DEF Init
<1>5. /\ tpc \in [Arms -> TaskSteps]
      /\ cpc \in [Commanders -> UserSteps]
      /\ job \in [Commanders -> Jobs \cup {NoJob}]
      /\ count \in [Commanders -> Nat]
      /\ Busy
  BY DEF Init, TaskSteps, UserSteps, Busy
<1> QED
  BY <1>1, <1>2, <1>3, <1>4, <1>5 DEF TypeInv, TypeOK

LEMMA TypeStep == TypeInv /\ [Next]_vars => TypeOK'
<1> SUFFICES ASSUME TypeOK, Busy, [Next]_vars PROVE TypeOK'
  BY DEF TypeInv
<1> USE DEF TypeOK
<1>1. CASE UNCHANGED vars
  BY <1>1 DEF vars
<1>2. ASSUME NEW a \in Arms, Cycle(a)
      PROVE  TypeOK'
  <2> USE DEF mailVars, runVars, driveVars, userVars, Goto, TaskSteps
  <2>1. CASE Protect(a)
    <3>1. tpc' \in [Arms -> TaskSteps]
      BY <2>1 DEF Protect
    <3>2. tripped' \in SUBSET Arms /\ drive' \in [Arms -> SUBSET Motors]
      <4>1. CASE armed[a]
        <5>1. PICK over \in SUBSET Motors :
                /\ tripped' = tripped \cup Trips(a, over)
                /\ drive' = [drive EXCEPT ![a] = IF tripped' # {} THEN {} ELSE @]
          BY <2>1, <4>1 DEF Protect
        <5>2. Trips(a, over) \in SUBSET Arms
          BY DEF Trips
        <5> QED BY <5>1, <5>2
      <4>2. CASE ~armed[a]
        BY <2>1, <4>2 DEF Protect
      <4> QED BY <4>1, <4>2
    <3> QED BY <2>1, <3>1, <3>2 DEF Protect
  <2>2. CASE TestEnable(a) \/ TestDisable(a) \/ TestBegin(a) \/ TestStop(a)
    <3>1. tpc' \in [Arms -> TaskSteps]
      BY <2>2 DEF TestEnable, TestDisable, TestBegin, TestStop, Test
    <3> QED
      BY <2>2, <3>1 DEF TestEnable, TestDisable, TestBegin, TestStop, Test
  <2>3. CASE DoEnable(a) \/ DoDisable(a)
    <3>1. tpc' \in [Arms -> TaskSteps] /\ action' \in [Arms -> Actions]
      BY <2>3 DEF DoEnable, DoDisable, SetMotors, Actions
    <3>2. armed' \in [Arms -> BOOLEAN] /\ turn' \in [Arms -> 0..(NMotors - 1)]
      <4>1. PICK flag \in BOOLEAN : SetMotors(a, flag)
        BY <2>3 DEF DoEnable, DoDisable
      <4>2. armed' \in [Arms -> BOOLEAN]
        BY <4>1 DEF SetMotors
      <4>3. turn' = [turn EXCEPT ![a] = 0] /\ 0 \in 0..(NMotors - 1)
        BY <4>1, ArmControlAssumption DEF SetMotors
      <4>4. turn' \in [Arms -> 0..(NMotors - 1)]
        BY <4>3
      <4> QED BY <4>2, <4>4
    <3> QED BY <2>3, <3>1, <3>2 DEF DoEnable, DoDisable, SetMotors
  <2>16. CASE SwitchMotor(a)
    <3>1. tpc' \in [Arms -> TaskSteps]
      BY <2>16 DEF SwitchMotor, SwitchNext
    <3>2. turn[a] \in 0..(NMotors - 1) /\ NMotors \in Nat \ {0}
      BY ArmControlAssumption
    <3>3. turn' \in [Arms -> 0..(NMotors - 1)]
      BY <2>16, <3>2 DEF SwitchMotor, SwitchNext
    <3>4. turn[a] + 1 \in Motors
      BY <3>2 DEF Motors
    <3>5. drive' \in [Arms -> SUBSET Motors]
      BY <2>16, <3>4 DEF SwitchMotor, SwitchNext
    <3> QED BY <2>16, <3>1, <3>3, <3>5 DEF SwitchMotor, SwitchNext
  <2>4. CASE DoBegin(a)
    <3>1. tpc' \in [Arms -> TaskSteps] /\ action' \in [Arms -> Actions]
      BY <2>4 DEF DoBegin, Begin, Actions
    <3>2. on' \in [Arms -> SUBSET Known] /\ first' \in [Arms -> SUBSET HasFirst]
      BY <2>4 DEF DoBegin, Begin
    <3>3. idx' \in [Arms -> Nat] /\ substep' \in [Arms -> 0..4]
      <4>1. CASE type[a] \in Path
        <5>1. /\ idx' = [idx EXCEPT ![a] = 0]
              /\ substep' = [substep EXCEPT ![a] = 1]
          BY <2>4, <4>1 DEF DoBegin, Begin
        <5> QED BY <5>1
      <4>2. CASE type[a] \notin Path
        BY <2>4, <4>2 DEF DoBegin, Begin
      <4> QED BY <4>1, <4>2
    <3>4. state' \in [Arms -> {"STOPPED", "RUNNING"}]
      BY <2>4 DEF DoBegin, Begin
    <3> QED BY <2>4, <3>1, <3>2, <3>3, <3>4 DEF DoBegin, Begin
  <2>5. CASE DoStop(a)
    BY <2>5 DEF DoStop, Actions
  <2>6. CASE RmlNext(a)
    BY <2>6 DEF RmlNext, Running
  <2>7. CASE RmlPlan(a)
    BY <2>7 DEF RmlPlan, Running, ReadPoint
  <2>8. CASE RmlMove(a)
    BY <2>8 DEF RmlMove, Running, ReadPoint
  <2>9. CASE RmlReached(a)
    BY <2>9 DEF RmlReached, Running, ReadPoint
  <2>10. CASE RmlDone(a)
    BY <2>10 DEF RmlDone, Running, EndMotion
  <2>11. CASE Continue(a)
    BY <2>11 DEF Continue, Running
  <2>12. CASE TimeUp(a)
    <3>1. /\ state' \in [Arms -> {"STOPPED", "RUNNING"}]
          /\ on' \in [Arms -> SUBSET Known]
      BY <2>12 DEF TimeUp, EndMotion
    <3>2. /\ action' \in [Arms -> Actions]
          /\ tpc' \in [Arms -> TaskSteps]
      BY <2>12 DEF TimeUp, Running, Actions
    <3> QED BY <2>12, <3>1, <3>2 DEF TimeUp
  <2>13. CASE ForceCycle(a)
    BY <2>13 DEF ForceCycle, Running, TorqueMove, Trips
  <2>14. CASE ForceLeave(a)
    <3>1. << <<a, 1>> >> \in Seq(Points)
      BY DEF Points
    <3>2. ps' \in [Arms -> Seq(Points)]
      BY <2>14, <3>1 DEF ForceLeave
    <3>3. action' \in [Arms -> Actions] /\ type' \in [Arms -> Known \cup Unknown]
      <4>1. "BEGIN_MOTION" \in Actions /\ "NONE" \in Actions /\ "JOINT_RML" \in Known
        BY DEF Actions, Known, Path
      <4>2. CASE /\ action' = [action EXCEPT ![a] = "BEGIN_MOTION"]
                 /\ type' = [type EXCEPT ![a] = "JOINT_RML"]
        BY <4>1, <4>2
      <4>3. CASE /\ action' = [action EXCEPT ![a] = "NONE"]
                 /\ type' = type
        BY <4>1, <4>3
      <4> QED BY <2>14, <4>2, <4>3 DEF ForceLeave
    <3>4. /\ drive' \in [Arms -> SUBSET Motors]
          /\ tripped' \in SUBSET Arms
      BY <2>14 DEF ForceLeave, TorqueMove, Trips
    <3>5. /\ state' \in [Arms -> {"STOPPED", "RUNNING"}]
          /\ on' \in [Arms -> SUBSET Known]
          /\ tpc' \in [Arms -> TaskSteps]
          /\ cmd' \in {"l", "w", "key"}
      BY <2>14 DEF ForceLeave, Running, EndMotion
    <3> QED BY <2>14, <3>2, <3>3, <3>4, <3>5 DEF ForceLeave
  <2>15. CASE Fetch(a)
    BY <2>15 DEF Fetch
  <2> QED
    BY <1>2, <2>1, <2>2, <2>3, <2>4, <2>5, <2>6, <2>7, <2>8, <2>9, <2>10,
       <2>11, <2>12, <2>13, <2>14, <2>15, <2>16 DEF Cycle, Run
<1>3. ASSUME NEW c \in Commanders, Command(c)
      PROVE  TypeOK'
  <2> USE DEF mailVars, runVars, driveVars, Move, UserSteps
  <2>1. CASE Issue(c)
    BY <2>1 DEF Issue, Entry
  <2>2. CASE LeaveKey(c)
    BY <2>2 DEF LeaveKey
  <2>3. CASE KeySwitch(c)
    BY <2>3 DEF KeySwitch, Entry
  <2>4. CASE CheckStopped(c)
    BY <2>4 DEF CheckStopped
  <2>5. CASE ClearRmlPoints(c)
    <3>1. ps' \in [Arms -> Seq(Points)]
      <4>1. << >> \in Seq(Points)
        OBVIOUS
      <4>2. ps' = [ps EXCEPT ![job[c].arm] = << >>]
        BY <2>5 DEF ClearRmlPoints
      <4> QED BY <4>1, <4>2
    <3> QED BY <2>5, <3>1 DEF ClearRmlPoints
  <2>6. CASE AddRmlPoint(c)
    <3>1. <<c, count[c] + 1>> \in Points
      BY DEF Points
    <3>2. ps' \in [Arms -> Seq(Points)]
      <4>1. ASSUME NEW a \in Arms
            PROVE  Append(ps[a], <<c, count[c] + 1>>) \in Seq(Points)
        BY <3>1
      <4>2. ps' = [ps EXCEPT ![job[c].arm] = Append(@, <<c, count[c] + 1>>)]
        BY <2>6 DEF AddRmlPoint
      <4> QED BY <4>1, <4>2
    <3>3. /\ count' \in [Commanders -> Nat]
          /\ cpc' \in [Commanders -> UserSteps]
          /\ job' \in [Commanders -> Jobs \cup {NoJob}]
      BY <2>6 DEF AddRmlPoint
    <3> QED BY <2>6, <3>2, <3>3 DEF AddRmlPoint
  <2>7. CASE BeginMotion(c)
    BY <2>7 DEF BeginMotion
  <2>8. CASE StoreAction(c)
    <3>1. cpc[c] \in {"store", "storeAction"}
      BY <2>8 DEF StoreAction
    <3>2. job[c] \in Jobs /\ job[c].op # "zero"
      BY <3>1 DEF Busy, StepsOf
    <3>3. (IF job[c].op = "move" THEN "BEGIN_MOTION" ELSE job[c].op) \in Actions
      BY <3>2, JobTypes DEF Actions
    <3> QED BY <2>8, <3>3 DEF StoreAction
  <2>9. CASE StoreType(c)
    <3>1. job[c] \in Jobs
      BY <2>9 DEF StoreType, Busy
    <3>2. job[c].motion \in Known \cup Unknown
      BY <2>9, <3>1, JobTypes DEF StoreType
    <3> QED BY <2>9, <3>2 DEF StoreType
  <2>10. CASE ZeroMotor(c)
    <3>1. drive' \in [Arms -> SUBSET Motors]
      BY <2>10 DEF ZeroMotor
    <3>2. /\ count' \in [Commanders -> Nat]
          /\ cpc' \in [Commanders -> UserSteps]
          /\ job' \in [Commanders -> Jobs \cup {NoJob}]
      BY <2>10 DEF ZeroMotor
    <3> QED BY <2>10, <3>1, <3>2 DEF ZeroMotor
  <2> QED
    BY <1>3, <2>1, <2>2, <2>3, <2>4, <2>5, <2>6, <2>7, <2>8, <2>9, <2>10
       DEF Command, Proceed
<1> QED
  BY <1>1, <1>2, <1>3 DEF Next

LEMMA BusyStep == TypeInv /\ [Next]_vars => Busy'
<1> SUFFICES ASSUME TypeOK, Busy, [Next]_vars,
                    NEW c \in Commanders, cpc'[c] # "idle"
             PROVE  job'[c] \in Jobs /\ cpc'[c] \in StepsOf(job'[c].op)
  BY DEF TypeInv, Busy
<1> USE DEF TypeOK
<1>1. CASE UNCHANGED <<cpc, job>>
  BY <1>1 DEF Busy
<1>2. ASSUME NEW a \in Arms, Cycle(a)
      PROVE  UNCHANGED <<cpc, job>>
  BY <1>2 DEF Cycle, Protect, TestEnable, DoEnable, TestDisable, DoDisable,
       TestBegin, DoBegin, TestStop, DoStop, Test, SetMotors, SwitchMotor, SwitchNext, Begin, Run, RmlNext,
       RmlPlan, RmlMove, RmlReached, RmlDone, Continue, TimeUp, ForceCycle,
       ForceLeave, Fetch, userVars
<1>3. ASSUME NEW d \in Commanders, Command(d)
      PROVE  job'[c] \in Jobs /\ cpc'[c] \in StepsOf(job'[c].op)
  <2>1. CASE d # c
    <3>1. cpc'[c] = cpc[c] /\ job'[c] = job[c]
      BY <1>3, <2>1 DEF Command, Issue, LeaveKey, Proceed, KeySwitch, CheckStopped,
           ClearRmlPoints, AddRmlPoint, BeginMotion, StoreAction, StoreType,
           ZeroMotor, Move
    <3> QED BY <3>1 DEF Busy
  <2>2. CASE d = c /\ Issue(c)
    BY <2>2, JobTypes DEF Issue, Entry, StepsOf
  <2>3. CASE d = c /\ LeaveKey(c)
    BY <2>3 DEF LeaveKey, Move
  <2>4. CASE d = c /\ Proceed(c)
    <3>1. job'[c] = job[c] /\ cpc[c] # "idle" /\ job[c] \in Jobs
      BY <2>4 DEF Proceed, KeySwitch, CheckStopped, ClearRmlPoints, AddRmlPoint,
           BeginMotion, StoreAction, StoreType, ZeroMotor, Move, Busy
    <3>2. cpc[c] \in StepsOf(job[c].op)
      BY <3>1 DEF Busy
    <3>3. cpc'[c] \in StepsOf(job[c].op)
      BY <2>4, <3>1, <3>2, JobTypes DEF Proceed, KeySwitch, CheckStopped,
           ClearRmlPoints, AddRmlPoint, BeginMotion, StoreAction, StoreType,
           ZeroMotor, Move, Entry, StepsOf
    <3> QED BY <3>1, <3>3
  <2> QED BY <1>3, <2>1, <2>2, <2>3, <2>4 DEF Command
<1> QED
  BY <1>1, <1>2, <1>3 DEF Next, vars

THEOREM Typing == Spec => []TypeOK
<1>1. TypeInv /\ [Next]_vars => TypeInv'
  BY TypeStep, BusyStep DEF TypeInv
<1>2. Spec => []TypeInv
  BY TypeInit, <1>1, PTL DEF Spec
<1> QED
  BY <1>2, PTL DEF TypeInv

-----------------------------------------------------------------------------
(* BEGIN_MOTION switches a motion on in a step after the one that saw the    *)
(* arm stopped; in between only the arm's own task changes its state.        *)
BeginStopped == \A a \in Arms : tpc[a] = "doBegin" => state[a] = "STOPPED"

MotionInv == TypeOK /\ BeginStopped /\ OneMotion

(* What a step of a commander leaves alone.                                  *)
LEMMA CommandFrame ==
  ASSUME NEW c \in Commanders, Command(c)
  PROVE  /\ UNCHANGED <<state, on, tpc, armed, turn>>
         /\ UNCHANGED drive \/ ZeroMotor(c)
BY DEF Command, Issue, LeaveKey, Proceed, KeySwitch, CheckStopped, ClearRmlPoints,
       AddRmlPoint, BeginMotion, StoreAction, StoreType, ZeroMotor, mailVars,
       runVars, driveVars

(* What a step of a control task does to the motion of its arm.              *)
Keep(a) == UNCHANGED <<state, on>> /\ (tpc'[a] = "doBegin" => state[a] = "STOPPED")
Ends(a) == /\ state' = [state EXCEPT ![a] = "STOPPED"]
           /\ \/ on' = [on EXCEPT ![a] = {}]
              \/ \E m \in on[a] : on' = [on EXCEPT ![a] = @ \ {m}]
           /\ tpc'[a] # "doBegin"

LEMMA CycleMotion ==
  ASSUME TypeOK, NEW a \in Arms, Cycle(a)
  PROVE  /\ \A b \in Arms \ {a} : tpc'[b] = tpc[b]
         /\ DoBegin(a) \/ Keep(a) \/ Ends(a)
<1> USE DEF TypeOK, Goto, mailVars, runVars, driveVars, userVars
<1>1. CASE Protect(a) \/ DoEnable(a) \/ DoDisable(a) \/ SwitchMotor(a)
  BY <1>1 DEF Protect, DoEnable, DoDisable, SetMotors, SwitchMotor, SwitchNext, Keep
<1>2. CASE TestEnable(a) \/ TestDisable(a) \/ TestBegin(a) \/ TestStop(a)
  BY <1>2 DEF TestEnable, TestDisable, TestBegin, TestStop, Test, Keep
<1>3. CASE DoBegin(a)
  BY <1>3 DEF DoBegin, Begin
<1>4. CASE DoStop(a)
  BY <1>4 DEF DoStop, Ends
<1>5. CASE RmlNext(a) \/ RmlPlan(a) \/ RmlMove(a) \/ RmlReached(a) \/ Fetch(a)
  BY <1>5 DEF RmlNext, RmlPlan, RmlMove, RmlReached, Fetch, Running, Keep
<1>6. CASE Continue(a)
  BY <1>6 DEF Continue, Running, Keep
<1>7. CASE ForceCycle(a)
  BY <1>7 DEF ForceCycle, Running, Keep
<1>8. CASE RmlDone(a)
  BY <1>8 DEF RmlDone, Running, EndMotion, Ends
<1>9. CASE TimeUp(a)
  BY <1>9 DEF TimeUp, Running, EndMotion, Ends
<1>10. CASE ForceLeave(a)
  BY <1>10 DEF ForceLeave, Running, EndMotion, Ends
<1> QED
  BY <1>1, <1>2, <1>3, <1>4, <1>5, <1>6, <1>7, <1>8, <1>9, <1>10 DEF Cycle, Run

LEMMA MotionStep ==
  ASSUME MotionInv, [Next]_vars
  PROVE  BeginStopped' /\ OneMotion'
<1> USE DEF MotionInv, TypeOK
<1>1. CASE UNCHANGED <<state, on, tpc>>
  BY <1>1 DEF BeginStopped, OneMotion
<1>2. ASSUME NEW a \in Arms, Cycle(a)
      PROVE  BeginStopped' /\ OneMotion'
  <2>1. \A b \in Arms \ {a} : tpc'[b] = tpc[b]
    BY <1>2, CycleMotion
  <2>2. CASE DoBegin(a)
    <3>1. state[a] = "STOPPED" /\ on[a] = {}
      BY <2>2 DEF DoBegin, Begin, Goto, BeginStopped, OneMotion
    <3>2. /\ state' = [state EXCEPT ![a] = "RUNNING"]
          /\ on' = [on EXCEPT ![a] = {type[a]} \cap Known]
          /\ tpc'[a] = "stop"
      BY <2>2, <3>1 DEF DoBegin, Begin, Goto
    <3> QED BY <2>1, <3>2 DEF BeginStopped, OneMotion
  <2>3. CASE Keep(a)
    BY <2>1, <2>3 DEF Keep, BeginStopped, OneMotion
  <2>4. CASE Ends(a)
    <3>1. on' = [on EXCEPT ![a] = {}]
      BY <2>4 DEF Ends, OneMotion
    <3> QED BY <2>1, <2>4, <3>1 DEF Ends, BeginStopped, OneMotion
  <2> QED BY <1>2, <2>2, <2>3, <2>4, CycleMotion
<1>3. ASSUME NEW c \in Commanders, Command(c)
      PROVE  UNCHANGED <<state, on, tpc>>
  BY <1>3, CommandFrame
<1> QED BY <1>1, <1>2, <1>3 DEF Next, vars

(* An arm follows at most one motion, and none when it is stopped            *)
(* (robot.cpp 391-1556), however the threads interleave.                     *)
THEOREM MotionSafety == Spec => []OneMotion
<1>1. Init => BeginStopped /\ OneMotion
  BY DEF Init, BeginStopped, OneMotion
<1>2. MotionInv /\ [Next]_vars /\ TypeOK' => MotionInv'
  BY MotionStep DEF MotionInv
<1>3. MotionInv => OneMotion
  BY DEF MotionInv
<1> QED
  BY <1>1, <1>2, <1>3, Typing, TypeInit, PTL DEF Spec, MotionInv, TypeInv

-----------------------------------------------------------------------------
(* What a step does to the switches of the motors: m_MotorsEnabled is stored,*)
(* a motor is switched by the block that follows, or the drive is cut.       *)
Stores(a) == \E flag \in BOOLEAN : SetMotors(a, flag) /\ tpc' = [tpc EXCEPT ![a] = "motors"]
Cuts(a) == /\ armed' = armed
           /\ \A b \in Arms : Pending(b)' = Pending(b)
           /\ \E kept \in SUBSET drive[a] : drive' = [drive EXCEPT ![a] = kept]

LEMMA CycleDrive ==
  ASSUME TypeOK, NEW a \in Arms, Cycle(a)
  PROVE  Stores(a) \/ SwitchMotor(a) \/ Cuts(a)
<1> USE DEF TypeOK, driveVars, Goto
<1> DEFINE Idle == /\ armed' = armed /\ turn' = turn
                   /\ tpc[a] # "motors" /\ tpc'[a] # "motors"
                   /\ \A b \in Arms \ {a} : tpc'[b] = tpc[b]
<1>1. ASSUME Idle PROVE armed' = armed /\ \A b \in Arms : Pending(b)' = Pending(b)
  BY <1>1 DEF Pending
<1>2. ASSUME Idle, drive' = drive PROVE Cuts(a)
  <2>1. drive' = [drive EXCEPT ![a] = drive[a]]
    BY <1>2
  <2> QED BY <1>1, <1>2, <2>1 DEF Cuts
<1>3. CASE Protect(a)
  <2>1. drive' = [drive EXCEPT ![a] = {}] \/ drive' = drive
    BY <1>3 DEF Protect
  <2>2. drive' = [drive EXCEPT ![a] = {}] \/ drive' = [drive EXCEPT ![a] = drive[a]]
    BY <2>1
  <2>3. Idle
    BY <1>3 DEF Protect
  <2> QED BY <1>1, <2>2, <2>3 DEF Cuts
<1>4. CASE DoEnable(a) \/ DoDisable(a)
  BY <1>4 DEF DoEnable, DoDisable, Stores
<1>5. ASSUME NEW m \in Leaving, TorqueMove(a, m), Idle PROVE Cuts(a)
  <2>1. PICK over \in SUBSET Motors, atLimit \in BOOLEAN :
             drive' = [drive EXCEPT ![a] = IF atLimit THEN {} ELSE drive[a] \ over]
    BY <1>5 DEF TorqueMove
  <2>2. (IF atLimit THEN {} ELSE drive[a] \ over) \in SUBSET drive[a]
    OBVIOUS
  <2> QED BY <1>1, <1>5, <2>1, <2>2 DEF Cuts
<1>6. CASE ForceCycle(a) \/ ForceLeave(a)
  <2>1. Idle
    BY <1>6 DEF ForceCycle, ForceLeave, Running
  <2> QED BY <1>5, <1>6, <2>1 DEF ForceCycle, ForceLeave
<1>7. CASE TestEnable(a) \/ TestDisable(a) \/ TestBegin(a) \/ TestStop(a)
  <2>1. Idle /\ drive' = drive
    BY <1>7 DEF TestEnable, TestDisable, TestBegin, TestStop, Test
  <2> QED BY <1>2, <2>1
<1>8. CASE DoBegin(a) \/ DoStop(a) \/ Fetch(a)
  <2>1. Idle /\ drive' = drive
    BY <1>8 DEF DoBegin, Begin, DoStop, Fetch
  <2> QED BY <1>2, <2>1
<1>9. CASE RmlNext(a) \/ RmlPlan(a) \/ RmlMove(a) \/ RmlReached(a) \/ RmlDone(a)
             \/ Continue(a) \/ TimeUp(a)
  <2>1. Idle /\ drive' = drive
    BY <1>9 DEF RmlNext, RmlPlan, RmlMove, RmlReached, RmlDone, Continue, TimeUp, Running
  <2> QED BY <1>2, <2>1
<1> QED
  BY <1>3, <1>4, <1>6, <1>7, <1>8, <1>9 DEF Cycle, Run

(* Another thread may cut the drive of any arm, between any two steps of a   *)
(* block.                                                                    *)
LEMMA CommandDrive ==
  ASSUME TypeInv, NEW c \in Commanders, Command(c)
  PROVE  /\ UNCHANGED armed /\ \A b \in Arms : Pending(b)' = Pending(b)
         /\ UNCHANGED drive \/ \E a \in Arms : Cuts(a)
<1>1. UNCHANGED armed /\ \A b \in Arms : Pending(b)' = Pending(b)
  BY CommandFrame DEF Pending
<1>2. CASE UNCHANGED drive
  BY <1>1, <1>2
<1>3. CASE ZeroMotor(c)
  <2>1. job[c] \in Jobs
    BY <1>3 DEF ZeroMotor, Move, Busy, TypeInv
  <2>2. job[c].arm \in Arms
    BY <2>1, JobTypes
  <2>3. Cuts(job[c].arm)
    BY <1>1, <1>3 DEF ZeroMotor, Cuts
  <2> QED BY <1>1, <2>2, <2>3
<1> QED BY <1>2, <1>3, CommandFrame

(* The motors a block has still to switch: all after the store, one less     *)
(* after each turn.                                                          *)
LEMMA BlockPending ==
  ASSUME TypeOK, NEW a \in Arms
  PROVE  /\ Stores(a) => Pending(a)' = Motors
         /\ SwitchMotor(a) => /\ Pending(a) = Pending(a)' \cup {turn[a] + 1}
                              /\ turn[a] + 1 \notin Pending(a)'
         /\ Stores(a) \/ SwitchMotor(a) =>
              \A b \in Arms \ {a} : /\ Pending(b)' = Pending(b) /\ armed'[b] = armed[b]
                                    /\ drive'[b] = drive[b]
<1> USE DEF TypeOK, Goto
<1>1. ASSUME Stores(a) PROVE Pending(a)' = Motors
  <2>1. tpc'[a] = "motors" /\ turn'[a] = 0
    BY <1>1 DEF Stores, SetMotors
  <2> QED BY <2>1 DEF Pending, Motors
<1>2. ASSUME SwitchMotor(a)
      PROVE  /\ Pending(a) = Pending(a)' \cup {turn[a] + 1}
             /\ turn[a] + 1 \notin Pending(a)'
  <2>1. turn[a] \in 0..(NMotors - 1) /\ NMotors \in Nat \ {0} /\ tpc[a] = "motors"
    BY <1>2, ArmControlAssumption DEF SwitchMotor, SwitchNext
  <2>2. Pending(a) = (turn[a] + 1)..NMotors
    BY <2>1 DEF Pending
  <2>3. CASE turn[a] + 1 = NMotors
    <3>1. tpc'[a] = "protect"
      BY <1>2, <2>3 DEF SwitchMotor, SwitchNext
    <3> QED BY <2>1, <2>2, <2>3, <3>1 DEF Pending
  <2>4. CASE turn[a] + 1 # NMotors
    <3>1. tpc'[a] = "motors" /\ turn'[a] = turn[a] + 1
      BY <1>2, <2>4 DEF SwitchMotor, SwitchNext
    <3> QED BY <2>1, <2>2, <2>4, <3>1 DEF Pending
  <2> QED BY <2>3, <2>4
<1>3. ASSUME Stores(a) \/ SwitchMotor(a), NEW b \in Arms \ {a}
      PROVE  /\ Pending(b)' = Pending(b) /\ armed'[b] = armed[b]
             /\ drive'[b] = drive[b]
  BY <1>3 DEF Stores, SetMotors, SwitchMotor, SwitchNext, Pending
<1> QED BY <1>1, <1>2, <1>3

LEMMA DriveStep ==
  ASSUME TypeInv, DriveNeedsArm, [Next]_vars
  PROVE  DriveNeedsArm'
<1> USE DEF TypeInv, TypeOK
<1>1. CASE UNCHANGED <<armed, drive>> /\ \A b \in Arms : Pending(b)' = Pending(b)
  BY <1>1 DEF DriveNeedsArm
<1>2. ASSUME NEW a \in Arms, Cuts(a) PROVE DriveNeedsArm'
  BY <1>2 DEF Cuts, DriveNeedsArm
<1>3. ASSUME NEW a \in Arms, Stores(a) PROVE DriveNeedsArm'
  <2>1. Pending(a)' = Motors /\ drive'[a] \subseteq Motors
    BY <1>3, BlockPending DEF Stores, SetMotors
  <2>2. \A b \in Arms \ {a} : ~armed'[b] => drive'[b] \subseteq Pending(b)'
    BY <1>3, BlockPending DEF DriveNeedsArm
  <2> QED BY <2>1, <2>2 DEF DriveNeedsArm
<1>4. ASSUME NEW a \in Arms, SwitchMotor(a) PROVE DriveNeedsArm'
  <2>1. /\ armed'[a] = armed[a]
        /\ ~armed[a] => drive'[a] = drive[a] \ {turn[a] + 1}
    BY <1>4 DEF SwitchMotor, SwitchNext
  <2>2. ~armed'[a] => drive'[a] \subseteq Pending(a)'
    BY <1>4, <2>1, BlockPending DEF DriveNeedsArm
  <2>3. \A b \in Arms \ {a} : ~armed'[b] => drive'[b] \subseteq Pending(b)'
    BY <1>4, BlockPending DEF DriveNeedsArm
  <2> QED BY <2>2, <2>3 DEF DriveNeedsArm
<1>5. CASE \E a \in Arms : Cycle(a)
  BY <1>2, <1>3, <1>4, <1>5, CycleDrive
<1>6. CASE \E c \in Commanders : Command(c)
  BY <1>1, <1>2, <1>6, CommandDrive
<1>7. CASE UNCHANGED vars
  BY <1>1, <1>7 DEF vars, Pending
<1> QED BY <1>5, <1>6, <1>7 DEF Next

(* No motor is driven on an arm that is not enabled, although commands,      *)
(* protection, torque handlers and setZeroPos (robot.cpp 319-390, 826-918,   *)
(* 1599-1645) all switch motors at their own time.                           *)
THEOREM DriveSafety == Spec => []DriveNeedsArm
<1>1. Init => DriveNeedsArm
  BY DEF Init, DriveNeedsArm
<1>2. DriveNeedsArm /\ TypeInv /\ [Next]_vars => DriveNeedsArm'
  BY DriveStep
<1>3. TypeInv /\ [Next]_vars => TypeInv'
  BY TypeStep, BusyStep DEF TypeInv
<1> QED
  BY <1>1, <1>2, <1>3, TypeInit, PTL DEF Spec

-----------------------------------------------------------------------------
(* What a step of a cycle may do to the motors of an arm that has tripped.   *)
LEMMA CycleTrip ==
  ASSUME TypeOK, DriveNeedsArm, TrippedStands, NEW a \in Arms, Cycle(a)
  PROVE  /\ tripped' \subseteq tripped \cup {a}
         /\ a \in tripped' /\ tpc'[a] \notin {"motors", "protect"} => drive'[a] = {}
         /\ \A b \in Arms \ {a} : tpc'[b] = tpc[b] /\ drive'[b] = drive[b]
<1> USE DEF TypeOK, Goto, driveVars
<1>1. \A b \in Arms \ {a} : tpc'[b] = tpc[b] /\ drive'[b] = drive[b]
  <2>1. \A b \in Arms \ {a} : tpc'[b] = tpc[b]
    BY CycleMotion
  <2>2. CASE Cuts(a)
    <3>1. \A b \in Arms \ {a} : drive'[b] = drive[b]
      BY <2>2 DEF Cuts
    <3> QED BY <2>1, <3>1
  <2>3. CASE Stores(a) \/ SwitchMotor(a)
    <3>1. \A b \in Arms \ {a} : drive'[b] = drive[b]
      BY <2>3, BlockPending
    <3> QED BY <2>1, <3>1
  <2> QED BY <2>2, <2>3, CycleDrive
<1>2. CASE Protect(a)
  <2>1. CASE armed[a]
    <3>1. PICK over \in SUBSET Motors :
            /\ tripped' = tripped \cup Trips(a, over)
            /\ drive' = [drive EXCEPT ![a] = IF tripped' # {} THEN {} ELSE @]
      BY <1>2, <2>1 DEF Protect
    <3> QED BY <1>1, <3>1 DEF Trips
  <2>2. CASE ~armed[a]
    <3>1. UNCHANGED <<tripped, drive>> BY <1>2, <2>2 DEF Protect
    <3> QED BY <1>1, <1>2, <2>2, <3>1 DEF DriveNeedsArm, Pending, Protect
  <2> QED BY <2>1, <2>2
<1>3. CASE DoEnable(a) \/ DoDisable(a) \/ SwitchMotor(a)
  BY <1>1, <1>3 DEF DoEnable, DoDisable, SetMotors, SwitchMotor, SwitchNext
<1>4. CASE ForceCycle(a) \/ ForceLeave(a)
  BY <1>1, <1>4 DEF ForceCycle, ForceLeave, TorqueMove, Running, Trips
<1>5. CASE /\ UNCHANGED driveVars
           /\ tpc[a] \notin {"motors", "protect"} \/ tpc'[a] = "protect"
  BY <1>1, <1>5 DEF TrippedStands
<1>6. CASE TestEnable(a) \/ TestDisable(a) \/ TestBegin(a) \/ TestStop(a)
  BY <1>5, <1>6 DEF TestEnable, TestDisable, TestBegin, TestStop, Test
<1>7. CASE DoBegin(a) \/ DoStop(a) \/ Fetch(a)
  BY <1>5, <1>7 DEF DoBegin, Begin, DoStop, Fetch
<1>8. CASE RmlNext(a) \/ RmlPlan(a) \/ RmlMove(a) \/ RmlReached(a) \/ RmlDone(a)
  BY <1>5, <1>8 DEF RmlNext, RmlPlan, RmlMove, RmlReached, RmlDone, Running
<1>9. CASE Continue(a) \/ TimeUp(a)
  BY <1>5, <1>9 DEF Continue, TimeUp, Running
<1> QED
  BY <1>2, <1>3, <1>4, <1>6, <1>7, <1>8, <1>9 DEF Cycle, Run

LEMMA TripStep ==
  ASSUME TypeInv, DriveNeedsArm, TrippedStands, [Next]_vars
  PROVE  TrippedStands'
<1> USE DEF TypeInv, TypeOK
<1>1. ASSUME NEW a \in Arms, Cycle(a) PROVE TrippedStands'
  <2> SUFFICES ASSUME NEW b \in tripped', tpc'[b] \notin {"motors", "protect"}
               PROVE drive'[b] = {}
    BY DEF TrippedStands
  <2>1. CASE b = a BY <1>1, <2>1, CycleTrip
  <2>2. CASE b # a
    <3>1. b \in tripped BY <1>1, <2>2, CycleTrip
    <3> QED BY <1>1, <2>2, <3>1, CycleTrip DEF TrippedStands
  <2> QED BY <2>1, <2>2
<1>2. ASSUME NEW c \in Commanders, Command(c) PROVE TrippedStands'
  <2>1. tripped' = tripped
    BY <1>2 DEF Command, Issue, LeaveKey, Proceed, KeySwitch, CheckStopped, ClearRmlPoints,
         AddRmlPoint, BeginMotion, StoreAction, StoreType, ZeroMotor, driveVars
  <2>2. \A b \in Arms : drive'[b] \subseteq drive[b]
    BY <1>2, CommandDrive DEF Cuts
  <2> QED BY <1>2, <2>1, <2>2, CommandFrame DEF TrippedStands
<1>3. CASE UNCHANGED vars
  BY <1>3 DEF vars, TrippedStands
<1> QED BY <1>1, <1>2, <1>3 DEF Next

(* An arm that has tripped drives no motor in the part of a cycle that takes *)
(* commands and runs the motion (robot.cpp 319-390, 826-1492), whatever the  *)
(* commands and the other arms do.                                           *)
THEOREM TripSafety == Spec => []TrippedStands
<1>1. Init => TypeInv /\ DriveNeedsArm /\ TrippedStands
  BY TypeInit DEF Init, DriveNeedsArm, TrippedStands
<1>2. TypeInv /\ DriveNeedsArm /\ TrippedStands /\ [Next]_vars
        => TypeInv' /\ DriveNeedsArm' /\ TrippedStands'
  BY TypeStep, BusyStep, DriveStep, TripStep DEF TypeInv
<1> QED
  BY <1>1, <1>2, PTL DEF Spec

-----------------------------------------------------------------------------
(* The control of the arms implements ArmSession.                            *)
Motion == [a \in Arms |-> Following(a)]

(* The drive as a session sees it: a block has done its work as soon as it   *)
(* has stored m_MotorsEnabled.                                               *)
Drive == [a \in Arms |-> IF armed[a] THEN drive[a] \cup Pending(a) ELSE drive[a] \ Pending(a)]

LEMMA SessionStep ==
  ASSUME TypeInv, MotionInv, OneMotion', DriveNeedsArm, DriveNeedsArm', [Next]_vars
  PROVE  [Session!SNext]_(Session!svars)
<1> USE DEF TypeInv, TypeOK
<1>1. ASSUME UNCHANGED <<state, on>>
      PROVE  Motion' = Motion
  BY <1>1 DEF Motion, Following
<1>2. CASE Motion' = Motion /\ armed' = armed /\ Drive' = Drive
  BY <1>2 DEF Session!svars, Motion, Drive
<1>3. ASSUME NEW a \in Arms, Cuts(a)
      PROVE  armed' = armed /\ \E kept \in SUBSET Drive[a] : Drive' = [Drive EXCEPT ![a] = kept]
  <2>1. PICK kept \in SUBSET drive[a] : drive' = [drive EXCEPT ![a] = kept]
    BY <1>3 DEF Cuts
  <2> DEFINE seen == IF armed[a] THEN kept \cup Pending(a) ELSE kept \ Pending(a)
  <2>2. seen \in SUBSET Drive[a]
    BY DEF Drive
  <2>3. armed' = armed /\ \A b \in Arms : Pending(b)' = Pending(b)
    BY <1>3 DEF Cuts
  <2>4. Drive' = [Drive EXCEPT ![a] = seen]
    <3>1. Drive'[a] = seen
      BY <2>1, <2>3 DEF Drive
    <3>2. \A b \in Arms \ {a} : Drive'[b] = Drive[b]
      BY <2>1, <2>3 DEF Drive
    <3> QED BY <3>1, <3>2 DEF Drive
  <2> QED BY <2>2, <2>3, <2>4
<1>4. ASSUME NEW a \in Arms, Cuts(a), UNCHANGED <<state, on>>
      PROVE  Session!SNext
  BY <1>1, <1>3, <1>4 DEF Motion, Drive, Session!SNext, Session!Lose, Session!Cut
<1>5. ASSUME NEW a \in Arms, Stores(a)
      PROVE  Session!SNext
  <2>1. PICK flag \in BOOLEAN : SetMotors(a, flag)
    BY <1>5 DEF Stores
  <2>2. Motion' = Motion /\ armed' = [armed EXCEPT ![a] = flag]
    BY <1>1, <2>1 DEF SetMotors, runVars
  <2>3. Drive' = [Drive EXCEPT ![a] = IF flag THEN Motors ELSE {}]
    <3>1. Pending(a)' = Motors /\ drive'[a] \subseteq Motors /\ armed'[a] = flag
      BY <1>5, <2>1, BlockPending DEF SetMotors
    <3>2. Drive'[a] = IF flag THEN Motors ELSE {}
      BY <3>1 DEF Drive
    <3>3. \A b \in Arms \ {a} : Drive'[b] = Drive[b]
      BY <1>5, BlockPending DEF Drive
    <3> QED BY <3>2, <3>3 DEF Drive
  <2>4. CASE flag = TRUE
    BY <2>2, <2>3, <2>4 DEF Motion, Drive, Session!SNext, Session!Enable
  <2>5. CASE flag = FALSE
    BY <2>2, <2>3, <2>5 DEF Motion, Drive, Session!SNext, Session!Disable
  <2> QED BY <2>4, <2>5
<1>6. ASSUME NEW a \in Arms, SwitchMotor(a)
      PROVE  Motion' = Motion /\ armed' = armed /\ Drive' = Drive
  <2>1. Motion' = Motion /\ armed' = armed
    BY <1>1, <1>6 DEF SwitchMotor, SwitchNext, runVars
  <2>2. drive'[a] = IF armed[a] THEN drive[a] \cup {turn[a] + 1} ELSE drive[a] \ {turn[a] + 1}
    BY <1>6 DEF SwitchMotor, SwitchNext
  <2>3. Drive'[a] = Drive[a]
    <3>1. CASE armed[a]
      BY <1>6, <2>1, <2>2, <3>1, BlockPending DEF Drive
    <3>2. CASE ~armed[a]
      <4>1. Drive[a] = {} /\ Drive'[a] = {}
        BY <2>1, <3>2 DEF Drive, DriveNeedsArm
      <4> QED BY <4>1
    <3> QED BY <3>1, <3>2
  <2>4. \A b \in Arms \ {a} : Drive'[b] = Drive[b]
    BY <1>6, BlockPending DEF Drive
  <2> QED BY <2>1, <2>3, <2>4 DEF Drive
<1>7. ASSUME NEW a \in Arms, DoBegin(a)
      PROVE  Session!SNext
  <2>1. state[a] = "STOPPED" /\ on[a] = {}
    BY <1>7 DEF DoBegin, Begin, Goto, BeginStopped, MotionInv, OneMotion
  <2>2. /\ state' = [state EXCEPT ![a] = "RUNNING"]
        /\ on' = [on EXCEPT ![a] = {type[a]} \cap Known]
        /\ UNCHANGED <<armed, drive, turn>>
    BY <1>7, <2>1 DEF DoBegin, Begin, driveVars
  <2>3. Drive' = Drive
    <3>1. \A b \in Arms : Pending(b)' = Pending(b)
      BY <1>7, <2>2 DEF DoBegin, Begin, Goto, Pending
    <3> QED BY <2>2, <3>1 DEF Drive
  <2>4. Motion[a] = "stop"
    BY <2>1 DEF Motion, Following
  <2>5. Following(a)' \in Known \cup {"nothing"}
    BY <2>2 DEF Following
  <2>6. Motion' = [Motion EXCEPT ![a] = Following(a)']
    <3>1. \A b \in Arms \ {a} : Following(b)' = Following(b)
      BY <2>2 DEF Following
    <3> QED BY <3>1 DEF Motion
  <2> QED BY <2>2, <2>3, <2>4, <2>5, <2>6 DEF Motion, Drive, Session!SNext, Session!Begin
<1>8. ASSUME NEW a \in Arms, Ends(a), Cuts(a)
      PROVE  Session!SNext
  <2>1. Motion' = [Motion EXCEPT ![a] = "stop"]
    <3>1. Following(a)' = "stop"
      BY <1>8 DEF Ends, Following
    <3>2. ASSUME NEW b \in Arms \ {a}
          PROVE  Following(b)' = Following(b)
      <4>1. state'[b] = state[b] /\ on'[b] = on[b]
        BY <1>8 DEF Ends
      <4> QED BY <4>1 DEF Following
    <3> QED BY <3>1, <3>2 DEF Motion
  <2> QED BY <1>3, <1>8, <2>1 DEF Motion, Drive, Session!SNext, Session!End, Session!Cut
<1>9. ASSUME NEW a \in Arms, Cycle(a)
      PROVE  [Session!SNext]_(Session!svars)
  <2>1. CASE Stores(a) BY <1>5, <2>1
  <2>2. CASE SwitchMotor(a) BY <1>2, <1>6, <2>2
  <2>3. CASE Cuts(a)
    BY <1>4, <1>7, <1>8, <1>9, <2>3, CycleMotion DEF Keep
  <2> QED BY <1>9, <2>1, <2>2, <2>3, CycleDrive
<1>10. ASSUME NEW c \in Commanders, Command(c)
       PROVE  [Session!SNext]_(Session!svars)
  <2>1. UNCHANGED <<state, on>>
    BY <1>10, CommandFrame
  <2>2. CASE UNCHANGED drive
    <3>1. armed' = armed /\ Drive' = Drive
      BY <1>10, <2>2, CommandDrive DEF Drive
    <3> QED BY <1>1, <1>2, <2>1, <3>1
  <2> QED BY <1>4, <1>10, <2>1, <2>2, CommandDrive
<1>11. CASE UNCHANGED vars
  <2>1. Motion' = Motion BY <1>1, <1>11 DEF vars
  <2>2. armed' = armed /\ Drive' = Drive BY <1>11 DEF vars, Drive, Pending
  <2> QED BY <1>2, <2>1, <2>2
<1> QED BY <1>9, <1>10, <1>11 DEF Next

(* Each step of a cycle or of a command is a step of the session of an arm,  *)
(* or leaves all sessions as they are (robot.cpp 311-1566, main.cpp          *)
(* 2762-3012).                                                               *)
THEOREM SessionRefinement == Spec => KeepsSession
<1>1. Init => Session!SInit
  BY DEF Init, Session!SInit, Following, Pending
<1>2. Init => MotionInv /\ TypeInv /\ DriveNeedsArm
  BY TypeInit DEF Init, BeginStopped, OneMotion, MotionInv, TypeInv, DriveNeedsArm
<1>3. TypeInv /\ MotionInv /\ DriveNeedsArm /\ [Next]_vars
        => TypeInv' /\ MotionInv' /\ DriveNeedsArm'
  BY TypeStep, BusyStep, MotionStep, DriveStep DEF TypeInv, MotionInv
<1>4. TypeInv /\ MotionInv /\ OneMotion' /\ DriveNeedsArm /\ DriveNeedsArm' /\ [Next]_vars
        => [Session!SNext]_(Session!svars)
  BY SessionStep
<1> QED
  BY <1>1, <1>2, <1>3, <1>4, PTL DEF Spec, KeepsSession, Session!SSpec, MotionInv

-----------------------------------------------------------------------------
(* One operator who lets the mailbox drain, in a scene in which no arm asks  *)
(* for a motion itself.                                                      *)
OneOperator == Paced /\ (\E k : Commanders = {k}) /\ Task \notin {0, 1}

(* The cycle that is about to begin a motion still finds the request.        *)
BeginWaits == \A a \in Arms : tpc[a] = "doBegin" => action[a] = "BEGIN_MOTION"

(* Until the operator has stored a request, none waits for that arm; once a  *)
(* motion function has found the arm stopped, it stays stopped.              *)
Asking == {"switch", "check", "clear", "add", "begin", "store", "storeAction"}
Quiet ==
  \A c \in Commanders :
    LET a == job[c].arm IN
    /\ cpc[c] \in Asking => action[a] # "BEGIN_MOTION"
    /\ job[c].op = "move" /\ cpc[c] \in {"clear", "add", "begin", "store", "storeAction"}
         => state[a] = "STOPPED"

(* A path that is followed has a point to go to, or is about to end after    *)
(* its last.                                                                 *)
OnPath(a) ==
  "JOINT_RML" \in on[a] => /\ idx[a] <= Len(ps[a])
                           /\ substep[a] \in {2, 3} => idx[a] < Len(ps[a])
                           /\ substep[a] = 4 => idx[a] = Len(ps[a])

OperatorInv ==
  /\ TypeInv /\ MotionInv /\ BeginWaits /\ Quiet /\ NoDeferredBegin
  /\ PathInRange /\ \A a \in Arms : OnPath(a)

LEMMA CycleMail ==
  ASSUME TypeOK, OneOperator, NEW a \in Arms, Cycle(a)
  PROVE  /\ UNCHANGED <<ps, cpc, job>>
         /\ action' = action \/ action' = [action EXCEPT ![a] = "NONE"]
         /\ tpc'[a] = "doBegin" => action[a] = "BEGIN_MOTION" /\ action' = action
         /\ DoBegin(a) => action' = [action EXCEPT ![a] = "NONE"]
<1> USE DEF TypeOK, Goto, mailVars, runVars, driveVars, userVars
<1>1. CASE Protect(a) \/ DoEnable(a) \/ DoDisable(a) \/ SwitchMotor(a)
  BY <1>1 DEF Protect, DoEnable, DoDisable, SetMotors, SwitchMotor, SwitchNext, DoBegin, Begin
<1>2. CASE TestEnable(a) \/ TestDisable(a) \/ TestBegin(a) \/ TestStop(a)
  BY <1>2 DEF TestEnable, TestDisable, TestBegin, TestStop, Test, DoBegin, Begin
<1>3. CASE DoBegin(a)
  BY <1>3 DEF DoBegin, Begin
<1>4. CASE DoStop(a)
  BY <1>4 DEF DoStop, DoBegin, Begin
<1>5. CASE RmlNext(a) \/ RmlPlan(a) \/ RmlMove(a) \/ RmlReached(a) \/ RmlDone(a) \/ Fetch(a)
  BY <1>5 DEF RmlNext, RmlPlan, RmlMove, RmlReached, RmlDone, Fetch, Running, DoBegin, Begin
<1>6. CASE Continue(a)
  BY <1>6 DEF Continue, Running, DoBegin, Begin
<1>7. CASE TimeUp(a)
  BY <1>7 DEF TimeUp, Running, DoBegin, Begin
<1>8. CASE ForceCycle(a)
  BY <1>8 DEF ForceCycle, Running, DoBegin, Begin
<1>9. CASE ForceLeave(a)
  BY <1>9 DEF ForceLeave, Running, DoBegin, Begin, OneOperator
<1> QED
  BY <1>1, <1>2, <1>3, <1>4, <1>5, <1>6, <1>7, <1>8, <1>9 DEF Cycle, Run

(* A cycle keeps to the path: another arm's is not touched, its own is begun *)
(* at its first point and left after its last.                               *)
LEMMA CyclePath ==
  ASSUME OperatorInv, OneOperator, NEW a \in Arms, Cycle(a)
  PROVE  health' = "ok" /\ \A b \in Arms : OnPath(b)'
<1> USE DEF TypeOK, Goto
<1>1. TypeOK /\ OnPath(a) /\ health = "ok" /\ ps' = ps /\ ps[a] \in Seq(Points)
  BY CycleMail DEF OperatorInv, MotionInv, PathInRange
<1>2. ASSUME health' = "ok", OnPath(a)',
             \A b \in Arms \ {a} : UNCHANGED <<on[b], idx[b], substep[b]>>
      PROVE  health' = "ok" /\ \A b \in Arms : OnPath(b)'
  BY <1>1, <1>2 DEF OnPath, OperatorInv
<1>3. ASSUME UNCHANGED <<on, idx, substep, health>>
      PROVE  health' = "ok" /\ \A b \in Arms : OnPath(b)'
  BY <1>1, <1>3 DEF OnPath, OperatorInv
<1>4. CASE Protect(a) \/ DoEnable(a) \/ DoDisable(a) \/ SwitchMotor(a)
  BY <1>3, <1>4 DEF Protect, DoEnable, DoDisable, SetMotors, SwitchMotor, SwitchNext, runVars
<1>5. CASE TestEnable(a) \/ TestDisable(a) \/ TestBegin(a) \/ TestStop(a) \/ Fetch(a)
  BY <1>3, <1>5 DEF TestEnable, TestDisable, TestBegin, TestStop, Test, Fetch, runVars
<1>6. CASE DoBegin(a)
  <2>1. on[a] = {} BY <1>6 DEF DoBegin, Begin, BeginStopped, OperatorInv, MotionInv, OneMotion
  <2>2. Len(ps[a]) \in Nat BY <1>1
  <2>3. CASE type[a] \in Path
    <3>1. idx'[a] = 0 /\ substep'[a] = 1 BY <1>1, <1>6, <2>3 DEF DoBegin, Begin
    <3>2. OnPath(a)' BY <1>1, <2>2, <3>1 DEF OnPath
    <3> QED BY <1>1, <1>2, <1>6, <2>3, <3>2 DEF DoBegin, Begin
  <2>4. CASE type[a] \notin Path
    <3>1. "JOINT_RML" \notin on'[a] BY <1>1, <1>6, <2>1, <2>4 DEF DoBegin, Begin, Path
    <3> QED BY <1>1, <1>2, <1>6, <2>4, <3>1 DEF DoBegin, Begin, OnPath
  <2> QED BY <2>3, <2>4
<1>7. CASE DoStop(a) \/ TimeUp(a) \/ ForceLeave(a)
  <2>1. /\ on'[a] \subseteq on[a] /\ \A b \in Arms \ {a} : on'[b] = on[b]
        /\ UNCHANGED <<idx, substep, health>>
    BY <1>1, <1>7 DEF DoStop, TimeUp, ForceLeave, EndMotion
  <2> QED BY <1>1, <1>2, <2>1 DEF OnPath
<1>8. CASE Continue(a) \/ ForceCycle(a)
  BY <1>3, <1>8 DEF Continue, ForceCycle, runVars
<1>9. CASE RmlNext(a)
  <2>1. /\ UNCHANGED <<on, idx, health>> /\ "JOINT_RML" \in on[a]
        /\ substep' = [substep EXCEPT ![a] = IF idx[a] = Len(ps[a]) THEN 4 ELSE 2]
    BY <1>9 DEF RmlNext, Running
  <2>2. idx[a] \in Nat /\ Len(ps[a]) \in Nat /\ idx[a] <= Len(ps[a])
    BY <1>1, <2>1 DEF OnPath
  <2>3. OnPath(a)' BY <1>1, <2>1, <2>2 DEF OnPath
  <2> QED BY <1>1, <1>2, <2>1, <2>3
<1>10. CASE RmlPlan(a) \/ RmlMove(a) \/ RmlReached(a)
  <2>1. "JOINT_RML" \in on[a] /\ substep[a] \in {2, 3} /\ ReadPoint(a)
    BY <1>10 DEF RmlPlan, RmlMove, RmlReached, Running
  <2>2. idx[a] < Len(ps[a]) /\ health' = "ok" BY <1>1, <2>1 DEF OnPath, ReadPoint
  <2>3. CASE RmlPlan(a)
    <3>1. OnPath(a)' BY <1>1, <2>2, <2>3 DEF RmlPlan, OnPath
    <3> QED BY <1>1, <1>2, <2>2, <2>3, <3>1 DEF RmlPlan
  <2>4. CASE RmlMove(a) BY <1>1, <1>3, <2>2, <2>4 DEF RmlMove, runVars
  <2>5. CASE RmlReached(a)
    <3>1. idx'[a] = idx[a] + 1 /\ substep'[a] = 1 BY <1>1, <2>5 DEF RmlReached
    <3>2. Len(ps[a]) \in Nat /\ idx[a] \in Nat BY <1>1
    <3>3. OnPath(a)' BY <1>1, <2>2, <3>1, <3>2 DEF OnPath
    <3> QED BY <1>1, <1>2, <2>2, <2>5, <3>3 DEF RmlReached
  <2> QED BY <1>10, <2>3, <2>4, <2>5
<1>11. CASE RmlDone(a)
  <2>1. /\ "JOINT_RML" \notin on'[a] /\ UNCHANGED <<idx, health>>
        /\ \A b \in Arms \ {a} : on'[b] = on[b] /\ substep'[b] = substep[b]
    BY <1>1, <1>11 DEF RmlDone, EndMotion
  <2> QED BY <1>1, <1>2, <2>1 DEF OnPath
<1> QED
  BY <1>4, <1>5, <1>6, <1>7, <1>8, <1>9, <1>10, <1>11 DEF Cycle, Run

LEMMA CycleQuiet ==
  ASSUME OperatorInv, OneOperator, NEW a \in Arms, Cycle(a)
  PROVE  BeginWaits' /\ Quiet' /\ NoDeferredBegin'
<1> USE DEF OperatorInv, MotionInv, TypeOK
<1>1. /\ UNCHANGED <<cpc, job>>
      /\ \A b \in Arms : action'[b] = action[b] \/ action'[b] = "NONE"
      /\ \A b \in Arms \ {a} : action'[b] = action[b] /\ tpc'[b] = tpc[b]
      /\ tpc'[a] = "doBegin" => action'[a] = "BEGIN_MOTION"
      /\ DoBegin(a) => action'[a] = "NONE"
  BY CycleMail, CycleMotion
<1>2. BeginWaits' BY <1>1 DEF BeginWaits
<1>3. \A b \in Arms : state[b] = "STOPPED" => state'[b] = "STOPPED" \/ (b = a /\ DoBegin(a))
  BY CycleMotion DEF Keep, Ends, DoBegin, Begin
<1>4. NoDeferredBegin' BY <1>1, <1>3 DEF NoDeferredBegin
<1>5. DoBegin(a) => action[a] = "BEGIN_MOTION" BY DEF DoBegin, Begin, Goto, BeginWaits
<1>6. Quiet'
  <2> SUFFICES ASSUME NEW c \in Commanders, cpc[c] \in Asking
               PROVE  LET d == job[c].arm IN
                      /\ action'[d] # "BEGIN_MOTION"
                      /\ job[c].op = "move" /\ cpc[c] \in {"clear", "add", "begin", "store", "storeAction"}
                           => state'[d] = "STOPPED"
    BY <1>1 DEF Quiet, Asking
  <2>1. job[c] \in Jobs BY DEF TypeInv, Busy, Asking
  <2>2. job[c].arm \in Arms BY <2>1, JobTypes
  <2>3. action[job[c].arm] # "BEGIN_MOTION" BY DEF Quiet
  <2> QED BY <1>1, <1>3, <1>5, <2>2, <2>3 DEF Quiet
<1> QED BY <1>2, <1>4, <1>6

(* What a call of the operator may do to the path of an arm.                 *)
LEMMA CommandPath ==
  ASSUME OperatorInv, NEW c \in Commanders, Command(c)
  PROVE  /\ UNCHANGED <<idx, substep, health>>
         /\ \A a \in Arms : "JOINT_RML" \in on[a] => ps'[a] = ps[a]
<1> USE DEF OperatorInv, MotionInv, TypeOK, runVars
<1>1. CASE ClearRmlPoints(c) \/ AddRmlPoint(c)
  <2>1. cpc[c] \in {"clear", "add"} BY <1>1 DEF ClearRmlPoints, AddRmlPoint, Move
  <2>2. job[c] \in Jobs /\ job[c].op = "move"
    BY <2>1, JobTypes DEF TypeInv, Busy, StepsOf
  <2>3. state[job[c].arm] = "STOPPED" /\ job[c].arm \in Arms
    BY <2>1, <2>2, JobTypes DEF Quiet
  <2>4. on[job[c].arm] = {} BY <2>3 DEF OneMotion
  <2>5. \A a \in Arms \ {job[c].arm} : ps'[a] = ps[a] BY <1>1 DEF ClearRmlPoints, AddRmlPoint
  <2> QED BY <1>1, <2>4, <2>5 DEF ClearRmlPoints, AddRmlPoint
<1>2. CASE ~(ClearRmlPoints(c) \/ AddRmlPoint(c))
  BY <1>2 DEF Command, Issue, LeaveKey, Proceed, KeySwitch, CheckStopped, BeginMotion,
       StoreAction, StoreType, ZeroMotor
<1> QED BY <1>1, <1>2

LEMMA CommandQuiet ==
  ASSUME OperatorInv, OneOperator, NEW c \in Commanders, Command(c)
  PROVE  BeginWaits' /\ Quiet' /\ NoDeferredBegin'
<1> USE DEF OperatorInv, MotionInv, TypeOK
<1>1. UNCHANGED <<state, tpc>> BY CommandFrame
<1>2. Commanders = {c} BY DEF OneOperator
<1> DEFINE moved == {"clear", "add", "begin", "store", "storeAction"}
<1>3. ASSUME action' = action,
             cpc'[c] \in Asking => job'[c] \in Jobs /\ action[job'[c].arm] # "BEGIN_MOTION",
             job'[c].op = "move" /\ cpc'[c] \in moved => state[job'[c].arm] = "STOPPED"
      PROVE  BeginWaits' /\ Quiet' /\ NoDeferredBegin'
  BY <1>1, <1>2, <1>3 DEF BeginWaits, Quiet, NoDeferredBegin
<1>4. CASE Issue(c)
  <2>1. PICK j \in Jobs : /\ Drained(j.arm) /\ job' = [job EXCEPT ![c] = j] /\ action' = action
                          /\ cpc'[c] \in {"switch", Entry(j)}
    BY <1>4 DEF Issue, OneOperator, mailVars
  <2>2. job'[c] = j /\ action[j.arm] # "BEGIN_MOTION" BY <2>1 DEF Drained
  <2>3. j.op = "move" => cpc'[c] \notin moved BY <2>1 DEF Entry
  <2> QED BY <1>3, <2>1, <2>2, <2>3
<1>5. CASE LeaveKey(c)
  <2>1. action' = action /\ cpc'[c] = "idle" BY <1>5 DEF LeaveKey, Move, mailVars
  <2> QED BY <1>3, <2>1 DEF Asking
<1>6. CASE Proceed(c)
  <2>1. job[c] \in Jobs /\ job[c].arm \in Arms /\ cpc[c] \in StepsOf(job[c].op)
    <3>1. cpc[c] # "idle"
      BY <1>6 DEF Proceed, KeySwitch, CheckStopped, ClearRmlPoints, AddRmlPoint, BeginMotion,
           StoreAction, StoreType, ZeroMotor, Move
    <3> QED BY <3>1, JobTypes DEF TypeInv, Busy
  <2>2. cpc'[c] # "idle" => job'[c] = job[c]
    BY <1>6 DEF Proceed, KeySwitch, CheckStopped, ClearRmlPoints, AddRmlPoint, BeginMotion,
         StoreAction, StoreType, ZeroMotor, Move
  <2>3. CASE StoreAction(c)
    <3>1. /\ action' = [action EXCEPT ![job[c].arm] =
                          IF job[c].op = "move" THEN "BEGIN_MOTION" ELSE job[c].op]
          /\ cpc[c] \in {"store", "storeAction"} /\ cpc'[c] \in {"storeType", "idle"}
      BY <2>3 DEF StoreAction, Move
    <3>2. action[job[c].arm] # "BEGIN_MOTION" BY <3>1 DEF Quiet, Asking
    <3>3. BeginWaits' BY <1>1, <3>1, <3>2 DEF BeginWaits
    <3>4. job[c].op # "move" => job[c].op # "BEGIN_MOTION" BY <2>1, JobTypes
    <3>5. NoDeferredBegin' BY <1>1, <3>1, <3>4 DEF NoDeferredBegin, Quiet
    <3>6. Quiet' BY <1>2, <3>1 DEF Quiet, Asking
    <3> QED BY <3>3, <3>5, <3>6
  <2>4. CASE ~StoreAction(c)
    <3>1. action' = action
      BY <1>6, <2>4 DEF Proceed, KeySwitch, CheckStopped, ClearRmlPoints, AddRmlPoint,
           BeginMotion, StoreType, ZeroMotor, mailVars
    <3>2. cpc'[c] \in Asking => cpc[c] \in Asking
      BY <1>6, <2>4 DEF Proceed, KeySwitch, CheckStopped, ClearRmlPoints, AddRmlPoint,
           BeginMotion, StoreType, ZeroMotor, Move, Asking
    <3>3. job[c].op = "move" /\ cpc'[c] \in moved
            => cpc[c] \in moved \/ state[job[c].arm] = "STOPPED"
      BY <1>6, <2>4 DEF Proceed, KeySwitch, CheckStopped, ClearRmlPoints, AddRmlPoint,
           BeginMotion, StoreType, ZeroMotor, Move, Entry
    <3>4. cpc'[c] \in Asking => job'[c] = job[c] BY <2>2 DEF Asking
    <3>5. cpc'[c] \in Asking => job'[c] \in Jobs /\ action[job'[c].arm] # "BEGIN_MOTION"
      BY <2>1, <3>2, <3>4 DEF Quiet
    <3>6. job'[c].op = "move" /\ cpc'[c] \in moved => state[job'[c].arm] = "STOPPED"
      BY <2>1, <3>3, <3>4 DEF Quiet, Asking
    <3> QED BY <1>3, <3>1, <3>5, <3>6
  <2> QED BY <2>3, <2>4
<1> QED BY <1>4, <1>5, <1>6 DEF Command

LEMMA OperatorInit == Init => OperatorInv
<1> SUFFICES ASSUME Init PROVE OperatorInv OBVIOUS
<1>1. TypeInv BY TypeInit
<1>2. MotionInv BY <1>1 DEF Init, TypeInv, MotionInv, BeginStopped, OneMotion
<1>3. BeginWaits /\ NoDeferredBegin /\ PathInRange /\ \A a \in Arms : OnPath(a)
  BY DEF Init, BeginWaits, NoDeferredBegin, PathInRange, OnPath
<1>4. Quiet BY DEF Init, Quiet, Asking
<1> QED BY <1>1, <1>2, <1>3, <1>4 DEF OperatorInv

LEMMA OperatorStep == OneOperator /\ OperatorInv /\ [Next]_vars => OperatorInv'
<1> SUFFICES ASSUME OneOperator, OperatorInv, [Next]_vars PROVE OperatorInv' OBVIOUS
<1>1. TypeInv' /\ MotionInv'
  BY TypeStep, BusyStep, MotionStep DEF OperatorInv, TypeInv, MotionInv
<1>2. ASSUME NEW a \in Arms, Cycle(a) PROVE OperatorInv'
  BY <1>1, <1>2, CyclePath, CycleQuiet DEF OperatorInv, PathInRange
<1>3. ASSUME NEW c \in Commanders, Command(c) PROVE OperatorInv'
  <2>1. UNCHANGED on BY <1>3, CommandFrame
  <2>2. /\ UNCHANGED <<idx, substep, health>>
        /\ \A a \in Arms : "JOINT_RML" \in on[a] => ps'[a] = ps[a]
    BY <1>3, CommandPath
  <2>3. PathInRange' /\ \A a \in Arms : OnPath(a)'
    BY <2>1, <2>2 DEF OperatorInv, PathInRange, OnPath
  <2> QED BY <1>1, <1>3, <2>3, CommandQuiet DEF OperatorInv
<1>4. CASE UNCHANGED vars
  BY <1>1, <1>4 DEF vars, OperatorInv, BeginWaits, Quiet, NoDeferredBegin, PathInRange, OnPath
<1> QED BY <1>2, <1>3, <1>4 DEF Next

(* With one operator who lets the mailbox drain no path is read outside its  *)
(* points, for any number of arms and points (robot.cpp 546-636).            *)
THEOREM PathSafety ==
  ASSUME OneOperator
  PROVE  Spec => []PathInRange
<1>1. Init => OperatorInv BY OperatorInit
<1>2. OperatorInv /\ [Next]_vars => OperatorInv' BY OperatorStep
<1>3. OperatorInv => PathInRange BY DEF OperatorInv
<1> QED BY <1>1, <1>2, <1>3, PTL DEF Spec

(* Under the same condition no request to begin is left behind to start a    *)
(* motion later (robot.cpp 391, 1892).                                       *)
THEOREM BeginSafety ==
  ASSUME OneOperator
  PROVE  Spec => []NoDeferredBegin
<1>1. Init => OperatorInv BY OperatorInit
<1>2. OperatorInv /\ [Next]_vars => OperatorInv' BY OperatorStep
<1>3. OperatorInv => NoDeferredBegin BY DEF OperatorInv
<1> QED BY <1>1, <1>2, <1>3, PTL DEF Spec

(* Nor are the points of a path rewritten while it is followed.              *)
THEOREM FrozenSafety ==
  ASSUME OneOperator
  PROVE  Spec => PathFrozenWhileRunning
<1> DEFINE Frozen == \A a \in Arms :
             ("JOINT_RML" \in on[a] /\ "JOINT_RML" \in on'[a]) => ps'[a] = ps[a]
<1>1. Init => OperatorInv BY OperatorInit
<1>2. OperatorInv /\ [Next]_vars => OperatorInv' BY OperatorStep
<1>3. OperatorInv /\ [Next]_vars => Frozen
  <2> SUFFICES ASSUME OperatorInv, [Next]_vars PROVE Frozen OBVIOUS
  <2>1. ASSUME NEW a \in Arms, Cycle(a) PROVE ps' = ps
    BY <2>1, CycleMail DEF OperatorInv, MotionInv
  <2>2. ASSUME NEW c \in Commanders, Command(c) PROVE Frozen
    BY <2>2, CommandPath
  <2>3. CASE UNCHANGED vars BY <2>3 DEF vars
  <2> QED BY <2>1, <2>2, <2>3 DEF Next
<1>4. OperatorInv /\ [Next]_vars => [Frozen]_vars BY <1>3
<1> QED BY <1>1, <1>2, <1>4, PTL DEF Spec, PathFrozenWhileRunning

-----------------------------------------------------------------------------
(* The mailbox.  A block of the cycle still finds the command it was entered *)
(* for, and while the operator is on the way to store a command nothing      *)
(* waits.                                                                    *)
Waits ==
  \A a \in Arms :
    /\ tpc[a] = "doEnable"  => action[a] = "ENABLE_MOTORS"
    /\ tpc[a] = "doDisable" => action[a] = "DISABLE_MOTORS"
    /\ tpc[a] = "doStop"    => action[a] = "STOP_MOTION" /\ state[a] = "RUNNING"

Empty == \A c \in Commanders : cpc[c] \in Asking => Drained(job[c].arm)

MailInv == Waits /\ Empty

(* What a cycle does with a command: it takes the one it was entered for,    *)
(* or a motion ends and drops it.                                            *)
LEMMA CycleWaits ==
  ASSUME TypeOK, OneOperator, NEW a \in Arms, Cycle(a)
  PROVE  /\ tpc'[a] = "doEnable"  => action[a] = "ENABLE_MOTORS" /\ action' = action
         /\ tpc'[a] = "doDisable" => action[a] = "DISABLE_MOTORS" /\ action' = action
         /\ tpc'[a] = "doStop"    => /\ action[a] = "STOP_MOTION" /\ action' = action
                                     /\ state'[a] = "RUNNING"
         /\ \A b \in Arms \ {a} : state'[b] = state[b]
         /\ action'[a] # action[a] =>
              \/ tpc[a] = "doEnable" /\ armed'[a]
              \/ tpc[a] = "doDisable" /\ ~armed'[a]
              \/ tpc[a] = "doBegin" /\ state'[a] = "RUNNING"
              \/ tpc[a] = "doStop" /\ state'[a] = "STOPPED"
              \/ \E m \in HasFirst : m \in on[a] \ on'[a]
<1> USE DEF TypeOK, Goto, mailVars, runVars, driveVars, userVars
<1>1. CASE Protect(a) \/ DoEnable(a) \/ DoDisable(a) \/ SwitchMotor(a)
  BY <1>1 DEF Protect, DoEnable, DoDisable, SetMotors, SwitchMotor, SwitchNext
<1>2. CASE TestEnable(a) \/ TestDisable(a) \/ TestBegin(a) \/ TestStop(a)
  BY <1>2 DEF TestEnable, TestDisable, TestBegin, TestStop, Test
<1>3. CASE DoBegin(a)
  BY <1>3 DEF DoBegin, Begin
<1>4. CASE DoStop(a)
  BY <1>4 DEF DoStop
<1>5. CASE RmlNext(a) \/ RmlPlan(a) \/ RmlMove(a) \/ RmlReached(a) \/ RmlDone(a) \/ Fetch(a)
  BY <1>5 DEF RmlNext, RmlPlan, RmlMove, RmlReached, RmlDone, Fetch, Running, EndMotion
<1>6. CASE Continue(a) \/ ForceCycle(a)
  BY <1>6 DEF Continue, ForceCycle, Running
<1>7. CASE TimeUp(a)
  <2>1. PICK m \in Timed : Running(a, m) /\ EndMotion(a, m)
    BY <1>7 DEF TimeUp
  <2>2. m \in HasFirst /\ m \in on[a] \ on'[a]
    BY <2>1 DEF HasFirst, Running, EndMotion
  <2>3. /\ tpc'[a] = "protect"
        /\ \A b \in Arms \ {a} : state'[b] = state[b]
    BY <2>1 DEF Running, EndMotion
  <2> QED BY <2>2, <2>3
<1>8. CASE ForceLeave(a)
  <2>1. PICK m \in Leaving : Running(a, m) /\ EndMotion(a, m)
    BY <1>8 DEF ForceLeave
  <2>2. m \in HasFirst /\ m \in on[a] \ on'[a]
    BY <2>1 DEF HasFirst, Running, EndMotion
  <2>3. /\ tpc'[a] = "protect"
        /\ \A b \in Arms \ {a} : state'[b] = state[b]
    BY <2>1 DEF Running, EndMotion
  <2> QED BY <2>2, <2>3
<1> QED
  BY <1>1, <1>2, <1>3, <1>4, <1>5, <1>6, <1>7, <1>8 DEF Cycle, Run

(* Of the steps of the operator only the store to the mailbox changes it,    *)
(* and it finds it drained.                                                  *)
LEMMA CommandMail ==
  ASSUME OperatorInv, MailInv, NEW c \in Commanders, Command(c)
  PROVE  \/ action' = action
         \/ /\ StoreAction(c) /\ job[c].arm \in Arms /\ Drained(job[c].arm)
            /\ \A b \in Arms \ {job[c].arm} : action'[b] = action[b]
<1> USE DEF OperatorInv, MotionInv, TypeOK
<1>1. CASE StoreAction(c)
  <2>1. cpc[c] \in {"store", "storeAction"} BY <1>1 DEF StoreAction, Move
  <2>2. job[c] \in Jobs BY <2>1 DEF TypeInv, Busy
  <2>3. job[c].arm \in Arms BY <2>2, JobTypes
  <2>4. \A b \in Arms \ {job[c].arm} : action'[b] = action[b]
    BY <1>1 DEF StoreAction
  <2> QED BY <1>1, <2>1, <2>3, <2>4 DEF MailInv, Empty, Asking
<1>2. CASE ~StoreAction(c)
  BY <1>2 DEF Command, Issue, LeaveKey, Proceed, KeySwitch, CheckStopped, ClearRmlPoints,
       AddRmlPoint, BeginMotion, StoreType, ZeroMotor, mailVars
<1> QED BY <1>1, <1>2

LEMMA MailStep ==
  ASSUME OneOperator, OperatorInv, MailInv, [Next]_vars
  PROVE  MailInv'
<1> USE DEF OperatorInv, MotionInv, TypeOK
<1>1. ASSUME NEW a \in Arms, Cycle(a) PROVE MailInv'
  <2>1. /\ UNCHANGED <<cpc, job>>
        /\ \A b \in Arms \ {a} : /\ action'[b] = action[b] /\ tpc'[b] = tpc[b]
                                /\ state'[b] = state[b]
        /\ action'[a] = action[a] \/ action'[a] = "NONE"
    BY <1>1, CycleMail, CycleMotion, CycleWaits
  <2>2. Waits' BY <1>1, <2>1, CycleWaits DEF Waits, MailInv
  <2>3. \A b \in Arms : state[b] = "STOPPED" =>
          state'[b] = "STOPPED" \/ (b = a /\ DoBegin(a))
    BY <1>1, CycleMotion DEF Keep, Ends, DoBegin, Begin
  <2>4. DoBegin(a) => action[a] = "BEGIN_MOTION"
    BY DEF DoBegin, Begin, Goto, BeginWaits
  <2>5. \A b \in Arms : Drained(b) => Drained(b)'
    BY <2>1, <2>3, <2>4 DEF Drained
  <2>6. Empty'
    <3> SUFFICES ASSUME NEW c \in Commanders, cpc[c] \in Asking
                 PROVE  Drained(job[c].arm)'
      BY <2>1 DEF Empty
    <3>1. job[c].arm \in Arms BY JobTypes DEF TypeInv, Busy, Asking
    <3>2. Drained(job[c].arm) BY DEF MailInv, Empty
    <3> QED BY <2>1, <2>5, <3>1, <3>2
  <2> QED BY <2>2, <2>6 DEF MailInv
<1>2. ASSUME NEW c \in Commanders, Command(c) PROVE MailInv'
  <2>1. UNCHANGED <<state, tpc>> BY <1>2, CommandFrame
  <2>2. Commanders = {c} BY DEF OneOperator
  <2>3. Waits'
    <3>1. CASE action' = action BY <2>1, <3>1 DEF Waits, MailInv
    <3>2. CASE action' # action
      <4>1. /\ Drained(job[c].arm) /\ job[c].arm \in Arms
            /\ \A b \in Arms \ {job[c].arm} : action'[b] = action[b]
        BY <1>2, <3>2, CommandMail
      <4>2. action[job[c].arm] = "NONE" \/ state[job[c].arm] = "STOPPED"
        BY <4>1 DEF Drained
      <4>3. tpc[job[c].arm] \notin {"doEnable", "doDisable"}
        BY <4>1 DEF Waits, MailInv, Drained
      <4>4. tpc[job[c].arm] = "doStop" => FALSE
        BY <4>1, <4>2 DEF Waits, MailInv
      <4> QED BY <2>1, <4>1, <4>3, <4>4 DEF Waits, MailInv
    <3> QED BY <3>1, <3>2
  <2>4. Empty'
    <3>1. CASE Issue(c)
      <4>1. PICK j \in Jobs : Drained(j.arm) /\ job' = [job EXCEPT ![c] = j] /\ action' = action
        BY <3>1 DEF Issue, OneOperator, mailVars
      <4>2. Drained(j.arm)' /\ job'[c] = j BY <2>1, <4>1 DEF Drained
      <4> QED BY <2>2, <4>2 DEF Empty
    <3>2. CASE LeaveKey(c) BY <2>2, <3>2 DEF LeaveKey, Move, Empty, Asking
    <3>3. CASE StoreAction(c)
      BY <2>2, <3>3 DEF StoreAction, Move, Empty, Asking
    <3>4. CASE Proceed(c) /\ ~StoreAction(c)
      <4>1. action' = action
        BY <3>4 DEF Proceed, KeySwitch, CheckStopped, ClearRmlPoints, AddRmlPoint,
             BeginMotion, StoreType, ZeroMotor, mailVars
      <4>2. cpc'[c] \in Asking => cpc[c] \in Asking /\ job'[c] = job[c]
        BY <3>4 DEF Proceed, KeySwitch, CheckStopped, ClearRmlPoints, AddRmlPoint,
             BeginMotion, StoreType, ZeroMotor, Move, Asking
      <4> QED BY <2>1, <2>2, <4>1, <4>2 DEF Empty, MailInv, Drained
    <3> QED BY <1>2, <3>1, <3>2, <3>3, <3>4 DEF Command
  <2> QED BY <2>3, <2>4 DEF MailInv
<1>3. CASE UNCHANGED vars
  BY <1>3 DEF vars, MailInv, Waits, Empty, Drained
<1> QED BY <1>1, <1>2, <1>3 DEF Next

(* A command that waits stays until it is carried out, or is dropped at the  *)
(* end of a timed or force-controlled motion: the mailbox of robot.cpp       *)
(* 349-467 against the NONE of its handlers.                                 *)
THEOREM MailSafety ==
  ASSUME OneOperator
  PROVE  Spec => MailKept
<1> DEFINE Kept == \A a \in Arms :
             action[a] # "NONE" /\ action'[a] # action[a] =>
               CarriesOut(a) \/ \E m \in HasFirst : m \in on[a] \ on'[a]
<1>1. Init => OperatorInv /\ MailInv
  BY OperatorInit DEF Init, MailInv, Waits, Empty, Asking
<1>2. OperatorInv /\ MailInv /\ [Next]_vars => OperatorInv' /\ MailInv'
  BY OperatorStep, MailStep
<1>3. OperatorInv /\ MailInv /\ [Next]_vars => Kept
  <2> SUFFICES ASSUME OperatorInv, MailInv, [Next]_vars, NEW a \in Arms,
                      action[a] # "NONE", action'[a] # action[a]
               PROVE  CarriesOut(a) \/ \E m \in HasFirst : m \in on[a] \ on'[a]
    OBVIOUS
  <2>1. TypeOK BY DEF OperatorInv, MotionInv
  <2>2. action[a] \in {"ENABLE_MOTORS", "DISABLE_MOTORS", "BEGIN_MOTION", "STOP_MOTION"}
    BY <2>1 DEF TypeOK, Actions
  <2>3. ASSUME NEW b \in Arms, Cycle(b)
        PROVE  CarriesOut(a) \/ \E m \in HasFirst : m \in on[a] \ on'[a]
    <3>1. b = a BY <2>1, <2>3, CycleMail DEF TypeOK
    <3> QED BY <2>1, <2>3, <3>1, CycleWaits DEF CarriesOut, MailInv, Waits, OperatorInv, BeginWaits
  <2>4. ASSUME NEW c \in Commanders, Command(c) PROVE CarriesOut(a)
    <3>1. UNCHANGED state BY <2>4, CommandFrame
    <3>2. Drained(a) BY <2>4, CommandMail
    <3> QED BY <3>1, <3>2 DEF Drained, CarriesOut
  <2>5. ~UNCHANGED vars BY DEF vars
  <2> QED BY <2>3, <2>4, <2>5 DEF Next
<1>4. OperatorInv /\ MailInv /\ [Next]_vars => [Kept]_vars BY <1>3
<1> QED BY <1>1, <1>2, <1>4, PTL DEF Spec, MailKept

-----------------------------------------------------------------------------
(* The points of a path.  The operator counts the points it has added since  *)
(* it cleared the path, and has added all of them when it asks.              *)
Counted ==
  \A c \in Commanders :
    /\ cpc[c] \notin {"add", "zero"} => count[c] = 0
    /\ cpc[c] \in {"clear", "add"} => job[c].motion \in Path
    /\ cpc[c] = "add" => count[c] = Len(ps[job[c].arm]) /\ count[c] < job[c].size
    /\ (cpc[c] \in {"begin", "store", "storeType", "storeAction"}
          /\ job[c].op = "move" /\ job[c].motion \in Path)
         => Len(ps[job[c].arm]) = job[c].size

InOrder ==
  \A a \in Arms, c \in Commanders : \A k \in 1..Len(ps[a]) : ps[a][k] = <<c, k>>

PointInv == Counted /\ InOrder

LEMMA JobSize ==
  ASSUME NEW j \in Jobs, j.op = "move"
  PROVE  j.size \in Nat /\ (j.motion \in Path => j.size > 0)
<1>1. CASE j \in [op : Ops, arm : Arms]
  BY <1>1, ArmControlAssumption
<1>2. CASE j \in [op : {"move"}, arm : Arms, motion : Motions, size : 0..MaxPoints]
  BY <1>2, ArmControlAssumption DEF Jobs
<1> QED BY <1>1, <1>2 DEF Jobs

LEMMA PointStep ==
  ASSUME OneOperator, OperatorInv, PointInv, [Next]_vars
  PROVE  PointInv'
<1> USE DEF OperatorInv, MotionInv, TypeOK
<1>1. CASE UNCHANGED <<ps, cpc, job, count>>
  BY <1>1 DEF PointInv, Counted, InOrder
<1>2. ASSUME NEW a \in Arms, Cycle(a) PROVE UNCHANGED <<ps, cpc, job, count>>
  <2>1. UNCHANGED <<ps, cpc, job>> BY <1>2, CycleMail
  <2>2. UNCHANGED count
    BY <1>2 DEF Cycle, Protect, TestEnable, DoEnable, TestDisable, DoDisable,
         TestBegin, DoBegin, TestStop, DoStop, Test, SetMotors, SwitchMotor, SwitchNext, Begin, Run, RmlNext,
         RmlPlan, RmlMove, RmlReached, RmlDone, Continue, TimeUp, ForceCycle,
         ForceLeave, Fetch, userVars
  <2> QED BY <2>1, <2>2
<1>3. ASSUME NEW c \in Commanders, Command(c) PROVE PointInv'
  <2>1. Commanders = {c} BY DEF OneOperator
  <2>2. CASE Issue(c)
    <3>1. /\ cpc[c] = "idle" /\ UNCHANGED <<ps, count>>
          /\ \E j \in Jobs : job'[c] = j /\ cpc'[c] \in {"switch", Entry(j)}
      BY <2>2 DEF Issue
    <3>2. cpc'[c] \in {"switch", "check", "zero", "store"} /\
            (cpc'[c] = "store" => job'[c].op # "move")
      BY <3>1 DEF Entry
    <3>3. count[c] = 0 BY <3>1 DEF PointInv, Counted
    <3> QED BY <2>1, <3>1, <3>2, <3>3 DEF PointInv, Counted, InOrder
  <2>3. CASE LeaveKey(c)
    <3>1. cpc'[c] = "idle" /\ cpc[c] = "idle" /\ UNCHANGED <<ps, count>>
      BY <2>3 DEF LeaveKey, Move
    <3> QED BY <2>1, <3>1 DEF PointInv, Counted, InOrder
  <2>4. CASE Proceed(c)
    <3>1. cpc[c] # "idle" /\ (cpc'[c] # "idle" => job'[c] = job[c])
      BY <2>4 DEF Proceed, KeySwitch, CheckStopped, ClearRmlPoints, AddRmlPoint, BeginMotion,
           StoreAction, StoreType, ZeroMotor, Move
    <3>2. job[c] \in Jobs /\ job[c].arm \in Arms /\ cpc[c] \in StepsOf(job[c].op)
      BY <3>1, JobTypes DEF TypeInv, Busy
    <3>3. CASE ClearRmlPoints(c)
      <4>1. /\ cpc[c] = "clear" /\ cpc'[c] = "add" /\ count'[c] = count[c]
            /\ ps' = [ps EXCEPT ![job[c].arm] = <<>>]
        BY <3>3 DEF ClearRmlPoints, Move
      <4>2. job[c].op = "move" BY <3>2, <4>1 DEF StepsOf
      <4>3. count[c] = 0 /\ job[c].size > 0 /\ job[c].motion \in Path
        BY <3>2, <4>1, <4>2, JobSize DEF PointInv, Counted
      <4>4. Len(ps'[job[c].arm]) = 0 BY <3>2, <4>1
      <4>5. Counted' BY <2>1, <3>1, <4>1, <4>3, <4>4 DEF Counted
      <4>6. InOrder'
        <5>1. ASSUME NEW a \in Arms, NEW b \in Commanders, NEW k \in 1..Len(ps'[a])
              PROVE  ps'[a][k] = <<b, k>>
          <6>1. CASE a = job[c].arm BY <4>4, <6>1
          <6>2. CASE a # job[c].arm
            <7>1. ps'[a] = ps[a] BY <4>1, <6>2
            <7> QED BY <7>1 DEF InOrder, PointInv
          <6> QED BY <6>1, <6>2
        <5> QED BY <5>1 DEF InOrder
      <4> QED BY <4>5, <4>6 DEF PointInv
    <3>4. CASE AddRmlPoint(c)
      <4> DEFINE d == job[c].arm
      <4>1. /\ cpc[c] = "add" /\ cpc'[c] \in {"add", "begin"}
            /\ cpc'[c] = "begin" <=> count[c] + 1 = job[c].size
            /\ ps' = [ps EXCEPT ![d] = Append(@, <<c, count[c] + 1>>)]
            /\ count'[c] = IF count[c] + 1 = job[c].size THEN 0 ELSE count[c] + 1
        BY <3>4 DEF AddRmlPoint, Move
      <4>2. job[c].op = "move" BY <3>2, <4>1 DEF StepsOf
      <4>3. /\ count[c] = Len(ps[d]) /\ count[c] < job[c].size
            /\ job[c].size \in Nat /\ job[c].motion \in Path
        BY <3>2, <4>1, <4>2, JobSize DEF PointInv, Counted
      <4>4. ps'[d] = Append(ps[d], <<c, count[c] + 1>>) /\ ps[d] \in Seq(Points)
        BY <3>2, <4>1
      <4> HIDE DEF d
      <4>5. /\ Len(ps'[d]) = count[c] + 1
            /\ \A k \in 1..Len(ps[d]) : ps'[d][k] = ps[d][k]
            /\ ps'[d][count[c] + 1] = <<c, count[c] + 1>>
        BY <4>3, <4>4
      <4>6. Counted'
        BY <2>1, <3>1, <4>1, <4>3, <4>5 DEF Counted, d
      <4>7. InOrder'
        <5>1. ASSUME NEW a \in Arms, NEW k \in 1..Len(ps'[a]) PROVE ps'[a][k] = <<c, k>>
          <6>1. CASE a = d
            <7>1. k \in 1..Len(ps[d]) \/ k = count[c] + 1 BY <4>3, <4>5, <6>1
            <7> QED BY <4>5, <6>1, <7>1 DEF InOrder, PointInv
          <6>2. CASE a # d
            <7>1. ps'[a] = ps[a] BY <4>1, <6>2
            <7> QED BY <7>1 DEF InOrder, PointInv
          <6> QED BY <6>1, <6>2
        <5> QED BY <2>1, <5>1 DEF InOrder
      <4> QED BY <4>6, <4>7 DEF PointInv
    <3>5. CASE ZeroMotor(c)
      <4>1. /\ cpc[c] = "zero" /\ cpc'[c] \in {"zero", "idle"} /\ UNCHANGED ps
            /\ cpc'[c] = "idle" => count'[c] = 0
        BY <3>5 DEF ZeroMotor, Move
      <4> QED BY <2>1, <4>1 DEF PointInv, Counted, InOrder
    <3>6. CASE KeySwitch(c) \/ CheckStopped(c) \/ BeginMotion(c) \/ StoreAction(c) \/ StoreType(c)
      <4>1. /\ cpc[c] \in {"switch", "check", "begin", "store", "storeType", "storeAction"}
            /\ UNCHANGED <<ps, count>>
        BY <3>6 DEF KeySwitch, CheckStopped, BeginMotion, StoreAction, StoreType, Move
      <4>2. count[c] = 0 BY <4>1 DEF PointInv, Counted
      <4>3. /\ cpc'[c] # "add"
            /\ cpc'[c] = "clear" => job[c].motion \in Path
            /\ (cpc'[c] \in {"begin", "store", "storeType", "storeAction"}
                  /\ job[c].op = "move" /\ job[c].motion \in Path)
                 => cpc[c] \in {"begin", "store", "storeType", "storeAction"}
        BY <3>6 DEF KeySwitch, CheckStopped, BeginMotion, StoreAction, StoreType, Move, Entry
      <4> QED BY <2>1, <3>1, <4>1, <4>2, <4>3 DEF PointInv, Counted, InOrder
    <3> QED BY <2>4, <3>3, <3>4, <3>5, <3>6 DEF Proceed
  <2> QED BY <1>3, <2>2, <2>3, <2>4 DEF Command
<1> QED BY <1>1, <1>2, <1>3 DEF Next, vars

(* With one operator who lets the mailbox drain, a path that is followed is  *)
(* one whole command and a request goes with all its points: the motion      *)
(* functions of main.cpp and clearRmlPoints, addRmlPoint and beginMotion     *)
(* (robot.cpp 1874-1910), for any number of arms and points.                 *)
THEOREM WholePathSafety ==
  ASSUME OneOperator
  PROVE  Spec => []WholePath
<1>1. Init => OperatorInv /\ PointInv
  BY OperatorInit DEF Init, PointInv, Counted, InOrder
<1>2. OperatorInv /\ PointInv /\ [Next]_vars => OperatorInv' /\ PointInv'
  BY OperatorStep, PointStep
<1>3. OperatorInv /\ PointInv => WholePath
  <2> SUFFICES ASSUME OperatorInv, PointInv PROVE WholePath OBVIOUS
  <2>1. PICK c : Commanders = {c} BY DEF OneOperator
  <2>2. ASSUME NEW a \in Arms PROVE \A k \in DOMAIN ps[a] : ps[a][k] = <<c, k>>
    <3>1. ps[a] \in Seq(Points) BY DEF OperatorInv, MotionInv, TypeOK
    <3>2. DOMAIN ps[a] = 1..Len(ps[a]) BY <3>1
    <3> QED BY <2>1, <3>2 DEF PointInv, InOrder
  <2>3. ASSUME NEW a \in Arms, "JOINT_RML" \in on[a], cpc[c] \in {"clear", "add"}
        PROVE  job[c].arm # a
    <3>1. job[c].op = "move"
      BY <2>1, <2>3, JobTypes DEF OperatorInv, TypeInv, Busy, StepsOf
    <3>2. state[job[c].arm] = "STOPPED" BY <2>1, <2>3, <3>1 DEF OperatorInv, Quiet
    <3> QED BY <2>3, <3>2 DEF OperatorInv, MotionInv, OneMotion
  <2>4. \A b \in Commanders : b = c BY <2>1
  <2> QED BY <2>1, <2>2, <2>3, <2>4 DEF WholePath, PointInv, Counted
<1> QED BY <1>1, <1>2, <1>3, PTL DEF Spec
-----------------------------------------------------------------------------
(* What a step of a cycle does to the path of an arm.                        *)
Completes(a) ==
  /\ "JOINT_RML" \in on'[a] \ on[a] => idx'[a] = 0
  /\ "JOINT_RML" \in on'[a] \cap on[a] =>
       \/ idx'[a] = idx[a]
       \/ idx'[a] = idx[a] + 1 /\ idx[a] < Len(ps[a]) /\ substep[a] = 3
  /\ "JOINT_RML" \in on[a] \ on'[a] =>
       idx[a] = Len(ps[a]) \/ (action[a] = "STOP_MOTION" /\ state'[a] = "STOPPED")

LEMMA CycleCompletes ==
  ASSUME OperatorInv, MailInv, NEW a \in Arms, Cycle(a)
  PROVE  \A b \in Arms : Completes(b)
<1> USE DEF OperatorInv, MotionInv, TypeOK, Goto
<1>1. ASSUME NEW b \in Arms, on'[b] = on[b], idx'[b] = idx[b]
      PROVE  Completes(b)
  BY <1>1 DEF Completes
<1>2. ASSUME Completes(a), \A b \in Arms \ {a} : on'[b] = on[b] /\ idx'[b] = idx[b]
      PROVE  \A b \in Arms : Completes(b)
  BY <1>1, <1>2
<1>3. CASE UNCHANGED <<on, idx>>
  BY <1>1, <1>3
<1>4. CASE Protect(a) \/ DoEnable(a) \/ DoDisable(a) \/ SwitchMotor(a) \/ Fetch(a)
  BY <1>3, <1>4 DEF Protect, DoEnable, DoDisable, SetMotors, SwitchMotor, SwitchNext, Fetch, runVars
<1>5. CASE TestEnable(a) \/ TestDisable(a) \/ TestBegin(a) \/ TestStop(a)
  BY <1>3, <1>5 DEF TestEnable, TestDisable, TestBegin, TestStop, Test, runVars
<1>6. CASE Continue(a) \/ ForceCycle(a) \/ RmlNext(a) \/ RmlPlan(a) \/ RmlMove(a)
  BY <1>3, <1>6 DEF Continue, ForceCycle, RmlNext, RmlPlan, RmlMove, runVars
<1>7. CASE DoBegin(a)
  <2>1. /\ on' = [on EXCEPT ![a] = @ \cup ({type[a]} \cap Known)]
        /\ IF type[a] \in Path THEN idx' = [idx EXCEPT ![a] = 0] ELSE idx' = idx
    BY <1>7 DEF DoBegin, Begin
  <2>2. on[a] = {}
    BY <1>7 DEF DoBegin, Begin, BeginStopped, OneMotion
  <2>3. "JOINT_RML" \in on'[a] => idx'[a] = 0
    BY <2>1, <2>2 DEF Path
  <2>4. Completes(a)
    BY <2>2, <2>3 DEF Completes
  <2> QED BY <1>2, <2>1, <2>4
<1>8. CASE DoStop(a)
  <2>1. action[a] = "STOP_MOTION"
    BY <1>8 DEF DoStop, MailInv, Waits
  <2>2. on' = [on EXCEPT ![a] = {}] /\ idx' = idx /\ state'[a] = "STOPPED"
    BY <1>8 DEF DoStop
  <2>3. Completes(a)
    BY <2>1, <2>2 DEF Completes
  <2> QED BY <1>2, <2>2, <2>3
<1>9. CASE TimeUp(a) \/ ForceLeave(a)
  <2>1. PICK m \in Timed \cup Leaving : on' = [on EXCEPT ![a] = @ \ {m}]
    BY <1>9 DEF TimeUp, ForceLeave, EndMotion
  <2>2. m # "JOINT_RML"
    BY DEF Timed, Leaving
  <2>3. idx' = idx
    BY <1>9 DEF TimeUp, ForceLeave
  <2>4. Completes(a)
    BY <2>1, <2>2, <2>3 DEF Completes
  <2> QED BY <1>2, <2>1, <2>3, <2>4
<1>10. CASE RmlReached(a)
  <2>1. /\ "JOINT_RML" \in on[a] /\ substep[a] = 3 /\ on' = on
        /\ idx' = [idx EXCEPT ![a] = @ + 1]
    BY <1>10 DEF RmlReached, Running
  <2>2. idx[a] < Len(ps[a])
    BY <2>1 DEF OnPath
  <2>3. Completes(a)
    BY <2>1, <2>2 DEF Completes
  <2> QED BY <1>2, <2>1, <2>3
<1>11. CASE RmlDone(a)
  <2>1. /\ "JOINT_RML" \in on[a] /\ substep[a] = 4 /\ idx' = idx
        /\ on' = [on EXCEPT ![a] = @ \ {"JOINT_RML"}]
    BY <1>11 DEF RmlDone, Running, EndMotion
  <2>2. idx[a] = Len(ps[a])
    BY <2>1 DEF OnPath
  <2>3. Completes(a)
    BY <2>1, <2>2 DEF Completes
  <2> QED BY <1>2, <2>1, <2>3
<1> QED
  BY <1>4, <1>5, <1>6, <1>7, <1>8, <1>9, <1>10, <1>11 DEF Cycle, Run

(* With one operator who lets the mailbox drain, a path is followed from its *)
(* first point to its last, each in its turn, unless a STOP_MOTION ends it   *)
(* (robot.cpp 391-467, 484-740), for any number of arms and points.          *)
THEOREM PathCompletion ==
  ASSUME OneOperator
  PROVE  Spec => PathCompleted
<1> DEFINE Complete == \A a \in Arms : Completes(a)
<1>1. Init => OperatorInv /\ MailInv
  BY OperatorInit DEF Init, MailInv, Waits, Empty, Asking
<1>2. OperatorInv /\ MailInv /\ [Next]_vars => OperatorInv' /\ MailInv'
  BY OperatorStep, MailStep
<1>3. OperatorInv /\ MailInv /\ [Next]_vars => [Complete]_vars
  <2> SUFFICES ASSUME OperatorInv, MailInv, Next PROVE Complete OBVIOUS
  <2>1. ASSUME NEW a \in Arms, Cycle(a) PROVE Complete
    BY <2>1, CycleCompletes
  <2>2. ASSUME NEW c \in Commanders, Command(c) PROVE Complete
    <3>1. UNCHANGED <<on, idx>> BY <2>2, CommandFrame, CommandPath
    <3> QED BY <3>1 DEF Completes
  <2> QED BY <2>1, <2>2 DEF Next
<1> QED BY <1>1, <1>2, <1>3, PTL DEF Spec, PathCompleted, Completes

=============================================================================
