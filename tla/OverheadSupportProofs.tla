----------------------- MODULE OverheadSupportProofs -----------------------
(***************************************************************************)
(* Proofs about OverheadSupport, for any arms, any order in which they are *)
(* asked, any limits of the force and any length of the sleep.             *)
(***************************************************************************)
EXTENDS OverheadSupport, SequenceTheorems, FiniteSetTheorems, TLAPS

Forces == Low..High

(* The ramp stays within its limits.                                         *)
LEMMA Ramp ==
  ASSUME NEW x \in Forces
  PROVE  /\ (IF x + 1 >= High THEN High ELSE x + 1) \in Forces
         /\ (IF x - 1 <= Low THEN Low ELSE x - 1) \in Forces
BY OverheadAssumption DEF Forces

LEMMA TypeInit == Init => TypeOK
<1> SUFFICES ASSUME Init PROVE TypeOK OBVIOUS
<1>1. Low \in Low..High /\ 0 \in 0..SleepTicks /\ 0 \in 0..MaxKeys BY OverheadAssumption
<1>2. F \in [Limbs -> Low..High] BY <1>1 DEF Init
<1>3. wait \in 0..SleepTicks /\ pressed \in 0..MaxKeys BY <1>1 DEF Init
<1>4. todo \in Seq(Limbs) BY DEF Init
<1> QED BY <1>2, <1>3, <1>4 DEF Init, TypeOK, Postures

(* beginMotion is in the middle of the list of arms.                         *)
PutHasArm == spc = "put" => todo # <<>>

LEMMA PlanTypes ==
  ASSUME TypeOK, PutHasArm, StateChange
  PROVE  /\ todo' \in Seq(Limbs) /\ want' \in {"path", "force"}
         /\ spc' \in {"enter", "settle", "lower", "ask", "put", "sleep"}
         /\ stage' \in {"none", "support", "force"}
         /\ wait' \in 0..SleepTicks
         /\ mail' \in [Limbs -> {"none", "path", "force", "stop"}]
         /\ UNCHANGED <<hands, mode, apc, F, given, cmd, pressed>>
         /\ PutHasArm'
<1>1. Order \in Seq(Limbs) /\ SleepTicks \in 0..SleepTicks BY OverheadAssumption
<1>2. todo # <<>> => Tail(todo) \in Seq(Limbs) BY HeadTailProperties DEF TypeOK
<1> USE DEF TypeOK, PutHasArm, taskVars, Plan, AskBoth
<1>3. CASE TestEnter BY <1>1, <1>3 DEF TestEnter
<1>4. CASE TestSettle BY <1>1, <1>4 DEF TestSettle
<1>5. CASE TestLower BY <1>5 DEF TestLower
<1>6. CASE Ask BY <1>2, <1>6 DEF Ask
<1>7. CASE Put
  <2>1. mail' \in [Limbs -> {"none", "path", "force", "stop"}] BY <1>7 DEF Put
  <2> QED BY <1>2, <1>7, <2>1 DEF Put
<1>8. CASE Asked BY <1>1, <1>8 DEF Asked
<1>9. CASE Wake BY <1>9 DEF Wake
<1> QED BY <1>3, <1>4, <1>5, <1>6, <1>7, <1>8, <1>9 DEF StateChange

LEMMA CycleTypes ==
  ASSUME TypeOK, NEW a \in Limbs, Cycle(a)
  PROVE  /\ mail' \in [Limbs -> {"none", "path", "force", "stop"}]
         /\ mode' \in [Limbs -> {"stopped", "path", "force"}]
         /\ apc' \in [Limbs -> {"mail", "up", "down", "leave", "home", "done"}]
         /\ F' \in [Limbs -> Low..High]
         /\ given' \in [Limbs -> BOOLEAN]
         /\ cmd' \in {"w", "l", "key"}
         /\ UNCHANGED <<hands, stage, spc, want, todo, wait, pressed>>
<1> USE DEF TypeOK, planVars, Step, Become, Post
<1>1. CASE TakeBegin(a) BY <1>1 DEF TakeBegin
<1>2. CASE TakeStop(a) BY <1>2 DEF TakeStop
<1>3. CASE Follow(a) BY <1>3 DEF Follow
<1>4. CASE StartForce(a) BY <1>4 DEF StartForce
<1>5. CASE Up(a)
  <2>1. F' \in [Limbs -> Low..High] BY <1>5, Ramp DEF Up, Forces
  <2> QED BY <1>5, <2>1 DEF Up
<1>6. CASE Down(a)
  <2>1. F' \in [Limbs -> Low..High]
    <3> DEFINE lower == IF F[a] - 1 <= Low THEN Low ELSE F[a] - 1
    <3>1. F' = [F EXCEPT ![a] = lower] \/ F' = F BY <1>6 DEF Down
    <3>2. lower \in Low..High BY Ramp DEF Forces
    <3> HIDE DEF lower
    <3> QED BY <3>1, <3>2
  <2> QED BY <1>6, <2>1 DEF Down
<1>7. CASE Leave(a) BY <1>7 DEF Leave
<1>8. CASE Home(a) BY <1>8 DEF Home
<1> QED BY <1>1, <1>2, <1>3, <1>4, <1>5, <1>6, <1>7, <1>8 DEF Cycle

LEMMA TypeStep == TypeOK /\ PutHasArm /\ [Next]_vars => TypeOK' /\ PutHasArm'
<1> SUFFICES ASSUME TypeOK, PutHasArm, [Next]_vars PROVE TypeOK' /\ PutHasArm' OBVIOUS
<1>1. CASE StateChange BY <1>1, PlanTypes DEF TypeOK
<1>2. ASSUME NEW a \in Limbs, Cycle(a) PROVE TypeOK' /\ PutHasArm'
  BY <1>2, CycleTypes DEF TypeOK, PutHasArm
<1>3. CASE Tick
  <2>1. wait' \in 0..SleepTicks BY <1>3, OverheadAssumption DEF Tick, TypeOK
  <2> QED BY <1>3, <2>1 DEF Tick, TypeOK, PutHasArm
<1>4. CASE Hands BY <1>4 DEF Hands, TypeOK, PutHasArm, planVars, taskVars
<1>5. CASE Key
  <2>1. pressed' \in 0..MaxKeys BY <1>5, OverheadAssumption DEF Key, TypeOK
  <2>2. /\ mail' \in [Limbs -> {"none", "path", "force", "stop"}]
        /\ cmd' \in {"w", "l", "key"}
        /\ UNCHANGED <<hands, stage, spc, want, todo, wait, mode, apc, F, given>>
    BY <1>5 DEF Key, TypeOK, planVars
  <2> QED BY <2>1, <2>2 DEF TypeOK, PutHasArm
<1>6. CASE UNCHANGED vars BY <1>6 DEF vars, planVars, taskVars, TypeOK, PutHasArm
<1> QED BY <1>1, <1>2, <1>3, <1>4, <1>5, <1>6 DEF Next

(* Every variable keeps its type; in particular the force of an arm never    *)
(* leaves its limits, in however many sessions.                              *)
THEOREM SupportTyping == Spec => []TypeOK
<1>1. Init => TypeOK /\ PutHasArm BY TypeInit DEF Init, PutHasArm
<1> QED BY <1>1, TypeStep, PTL DEF Spec

-----------------------------------------------------------------------------
(* The sleep of state_change outlasts the ramp of every arm.  Each key and   *)
(* each arm that goes home may write cmd once while an arm waits for its     *)
(* 'l', and each time that costs the arm a period; one period goes by before *)
(* a request is taken and one may be half over when the sleep begins.        *)
Outlasts ==
  /\ IsFiniteSet(Limbs)
  /\ Undisturbed
  /\ SleepTicks >= (High - Low) + MaxKeys + Cardinality(Limbs) + 2

(* What the sleep is longer than it has to be.                               *)
Spare == SleepTicks - ((High - Low) + MaxKeys + Cardinality(Limbs) + 2)

(* The arms that are in the force control, are about to be, or have just     *)
(* left it.                                                                  *)
Restless == {a \in Limbs : mode[a] = "force" \/ mail[a] = "force" \/ apc[a] = "home"}

Count == Cardinality(Restless)

(* The periods that arm a may still need to leave the force control, and     *)
(* those that are to spare.                                                  *)
Budget(a) == (F[a] - Low) + (MaxKeys - pressed) + Count + 1 + Spare

InForce == \A a \in Limbs : apc[a] \in {"up", "down", "leave"} => mode[a] = "force"

AtRest == \A a \in Limbs : mail[a] = "force" \/ apc[a] = "home" => mode[a] = "stopped"

Asking ==
  /\ spc = "put" => todo # <<>> /\ mode[Head(todo)] = "stopped"
  /\ spc \in {"ask", "put"} => stage = (IF want = "path" THEN "none" ELSE "force")
  /\ spc = "sleep" => stage = "none"

NoForceYet == stage = "support" => Restless = {}

Given ==
  \A a \in Limbs : /\ apc[a] = "down" => given[a] \/ stage = "none"
                   /\ apc[a] = "leave" => given[a]

(* What is left of the sleep is enough for arm a.                            *)
InTime(a) ==
  /\ mode[a] = "force" =>
       /\ apc[a] # "done" => wait >= Budget(a) - 1
       /\ apc[a] = "leave" => cmd = "l" \/ wait >= Budget(a)
       /\ apc[a] = "done" => wait >= Budget(a)
  /\ mail[a] = "force" =>
       /\ apc[a] = "mail" => wait >= Budget(a)
       /\ apc[a] = "done" => wait >= Budget(a) + 1
  /\ apc[a] = "home" => wait >= 1 + Spare

AllInTime == spc = "sleep" => \A a \in Limbs : InTime(a)

RampEnded == stage = "none" /\ \E b \in Limbs : F[b] = Low

(* Without a key, cmd = 'l' means that an arm has come down and that one is  *)
(* about to act on it.                                                       *)
Cause ==
  pressed = 0 => /\ cmd = "l" => RampEnded /\ \E b \in Limbs : apc[b] \in {"leave", "home"}
                 /\ \A a \in Limbs : apc[a] = "home" => RampEnded

Inv == /\ TypeOK /\ InForce /\ AtRest /\ Asking
       /\ NoForceYet /\ Given /\ AllInTime /\ Cause

LEMMA SpareType == Outlasts => Spare \in Nat
<1> SUFFICES ASSUME Outlasts PROVE Spare \in Nat OBVIOUS
<1>1. Cardinality(Limbs) \in Nat BY FS_CardinalityType DEF Outlasts
<1> QED BY <1>1, OverheadAssumption DEF Outlasts, Spare

LEMMA Counts ==
  ASSUME IsFiniteSet(Limbs)
  PROVE  /\ Count \in Nat /\ Count <= Cardinality(Limbs)
         /\ Cardinality(Limbs) \in Nat
         /\ \A a \in Restless : Count >= 1
<1>1. Restless \in SUBSET Limbs BY DEF Restless
<1>2. IsFiniteSet(Restless) /\ Count <= Cardinality(Limbs)
  BY <1>1, FS_Subset DEF Count
<1>3. Count \in Nat /\ Cardinality(Limbs) \in Nat
  BY <1>2, FS_CardinalityType DEF Count
<1>4. ASSUME NEW a \in Restless PROVE Count >= 1
  <2>1. Count # 0 BY <1>2, FS_EmptySet DEF Count
  <2> QED BY <2>1, <1>3
<1> QED BY <1>2, <1>3, <1>4

LEMMA CountFalls ==
  ASSUME IsFiniteSet(Limbs), Restless' \subseteq Restless
  PROVE  /\ Count \in Nat /\ Count' \in Nat
         /\ Count' <= Count
         /\ Restless' # Restless => Count' <= Count - 1
<1>1. Restless \in SUBSET Limbs /\ Restless' \in SUBSET Restless BY DEF Restless
<1>2. IsFiniteSet(Restless) BY <1>1, FS_Subset
<1>3. IsFiniteSet(Restless') /\ Count' <= Count /\ (Count' = Count => Restless = Restless')
  BY <1>1, <1>2, FS_Subset DEF Count
<1>4. Count \in Nat /\ Count' \in Nat BY <1>2, <1>3, FS_CardinalityType DEF Count
<1> QED BY <1>3, <1>4

(* At the end of the sleep no arm is restless.                               *)
LEMMA Rested ==
  ASSUME Inv, Outlasts, spc = "sleep", wait = 0
  PROVE  Restless = {}
<1> SUFFICES ASSUME NEW a \in Restless PROVE FALSE OBVIOUS
<1>1. a \in Limbs /\ InTime(a) BY DEF Restless, Inv, AllInTime
<1>2. Budget(a) \in Int /\ Budget(a) >= 2 /\ Spare \in Nat
  <2>1. Count \in Nat /\ Count >= 1 /\ Spare \in Nat BY Counts, SpareType DEF Outlasts
  <2>2. F[a] \in Low..High /\ pressed \in 0..MaxKeys /\ Low \in Int /\ High \in Int /\ MaxKeys \in Nat
    BY <1>1, OverheadAssumption DEF Inv, TypeOK
  <2> QED BY <2>1, <2>2 DEF Budget
<1>3. CASE mode[a] = "force" BY <1>1, <1>2, <1>3 DEF InTime
<1>4. CASE mail[a] = "force" /\ mode[a] # "force"
  <2>1. apc[a] \in {"mail", "done", "home"} BY <1>1, <1>4 DEF Inv, TypeOK, InForce
  <2> QED BY <1>1, <1>2, <1>4, <2>1 DEF InTime
<1>5. CASE apc[a] = "home" BY <1>1, <1>2, <1>5 DEF InTime
<1> QED BY <1>3, <1>4, <1>5 DEF Restless

LEMMA InvInit == Outlasts /\ Init => Inv
<1> SUFFICES ASSUME Outlasts, Init PROVE Inv OBVIOUS
<1>1. TypeOK BY TypeInit
<1>2. InForce /\ AtRest /\ Asking /\ NoForceYet /\ Given /\ AllInTime /\ Cause
  BY DEF Init, InForce, AtRest, Asking, NoForceYet, Given, AllInTime, Cause
<1> QED BY <1>1, <1>2 DEF Inv

(* When the sleep begins, every arm has the whole of it.                     *)
LEMMA SleepBegins ==
  ASSUME Inv, Outlasts, Asked, want = "path"
  PROVE  AllInTime'
<1> SUFFICES ASSUME NEW a \in Limbs PROVE InTime(a)' BY DEF AllInTime
<1>1. wait' = SleepTicks /\ UNCHANGED <<mail, mode, apc, F, cmd, pressed>>
  BY DEF Asked, taskVars
<1>2. Restless' = Restless BY <1>1 DEF Restless
<1>3. Count \in Nat /\ Count' = Count /\ Count <= Cardinality(Limbs) /\ Cardinality(Limbs) \in Nat
  BY <1>2, Counts DEF Outlasts, Count
<1>4. F[a] \in Low..High /\ pressed \in 0..MaxKeys /\ Low \in Int /\ High \in Int /\ MaxKeys \in Nat
      /\ SleepTicks \in Nat
  BY OverheadAssumption DEF Inv, TypeOK
<1>5. Budget(a)' \in Int /\ SleepTicks >= Budget(a)' + 1 /\ SleepTicks >= 1 + Spare
  BY <1>1, <1>3, <1>4 DEF Budget, Spare, Outlasts
<1> QED BY <1>1, <1>4, <1>5 DEF InTime

LEMMA PlanStep ==
  ASSUME Inv, Outlasts, StateChange
  PROVE  Inv'
<1>1. /\ TypeOK'
      /\ UNCHANGED <<hands, mode, apc, F, given, cmd, pressed>>
  <2>1. PutHasArm BY DEF Inv, Asking, PutHasArm
  <2> QED BY <2>1, PlanTypes DEF Inv, TypeOK
<1>2. InForce' BY <1>1 DEF Inv, InForce
<1> USE DEF Plan, AskBoth, taskVars
<1>3. CASE TestEnter
  <2>1. UNCHANGED <<stage, mail>> /\ Restless' = Restless /\ spc' \in {"ask", "settle"}
    BY <1>1, <1>3 DEF TestEnter, Restless
  <2>2. AtRest' /\ NoForceYet' /\ Given' /\ Cause'
    BY <1>1, <2>1 DEF Inv, AtRest, NoForceYet, Given, Cause, RampEnded
  <2>3. Asking' /\ AllInTime' BY <1>3, <2>1 DEF TestEnter, Asking, AllInTime
  <2> QED BY <1>1, <1>2, <2>2, <2>3 DEF Inv
<1>4. CASE TestSettle
  <2>1. UNCHANGED mail /\ Restless' = Restless /\ spc' \in {"ask", "lower"}
    BY <1>1, <1>4 DEF TestSettle, Restless
  <2>2. stage' = stage \/ (stage = "support" /\ stage' = "force") BY <1>4 DEF TestSettle
  <2>3. stage = "support" => \A a \in Limbs : apc[a] \notin {"up", "down", "leave"}
    BY DEF Inv, NoForceYet, Restless, InForce
  <2>4. AtRest' /\ NoForceYet' BY <1>1, <2>1, <2>2 DEF Inv, AtRest, NoForceYet
  <2>5. Given' BY <1>1, <2>2, <2>3 DEF Inv, Given
  <2>6. Cause' BY <1>1, <2>2 DEF Inv, Cause, RampEnded
  <2>7. Asking' /\ AllInTime' BY <1>4, <2>1 DEF TestSettle, Asking, AllInTime
  <2> QED BY <1>1, <1>2, <2>4, <2>5, <2>6, <2>7 DEF Inv
<1>5. CASE TestLower
  <2>1. UNCHANGED mail /\ Restless' = Restless /\ spc' = "enter"
    BY <1>1, <1>5 DEF TestLower, Restless
  <2>2. stage' = stage \/ stage' = "none" BY <1>5 DEF TestLower
  <2>3. AtRest' /\ NoForceYet' /\ Given' /\ Cause'
    BY <1>1, <2>1, <2>2 DEF Inv, AtRest, NoForceYet, Given, Cause, RampEnded
  <2>4. Asking' /\ AllInTime' BY <2>1 DEF Asking, AllInTime
  <2> QED BY <1>1, <1>2, <2>3, <2>4 DEF Inv
<1>6. CASE Ask
  <2>1. UNCHANGED <<stage, want, mail>> /\ Restless' = Restless /\ spc = "ask" /\ spc' \in {"ask", "put"}
    BY <1>1, <1>6 DEF Ask, Restless
  <2>2. AtRest' /\ NoForceYet' /\ Given' /\ Cause'
    BY <1>1, <2>1 DEF Inv, AtRest, NoForceYet, Given, Cause, RampEnded
  <2>3. Asking' /\ AllInTime' BY <1>1, <1>6, <2>1 DEF Inv, Ask, Asking, AllInTime
  <2> QED BY <1>1, <1>2, <2>2, <2>3 DEF Inv
<1>7. CASE Put
  <2>1. UNCHANGED <<stage, want>> /\ spc = "put" /\ spc' = "ask"
        /\ mail' = [mail EXCEPT ![Head(todo)] = want]
    BY <1>7 DEF Put
  <2>2. stage # "support" BY <2>1 DEF Inv, Asking, TypeOK
  <2>3. AtRest' BY <1>1, <2>1 DEF Inv, TypeOK, AtRest, Asking
  <2>4. NoForceYet' /\ Given' /\ Cause'
    BY <1>1, <2>1, <2>2 DEF Inv, NoForceYet, Given, Cause, RampEnded
  <2>5. Asking' /\ AllInTime' BY <2>1 DEF Inv, Asking, AllInTime
  <2> QED BY <1>1, <1>2, <2>3, <2>4, <2>5 DEF Inv
<1>8. CASE Asked
  <2>1. UNCHANGED <<stage, want, mail>> /\ Restless' = Restless /\ spc = "ask"
    BY <1>1, <1>8 DEF Asked, Restless
  <2>2. AtRest' /\ NoForceYet' /\ Given' /\ Cause'
    BY <1>1, <2>1 DEF Inv, AtRest, NoForceYet, Given, Cause, RampEnded
  <2>3. Asking' BY <1>8, <2>1 DEF Inv, Asked, Asking
  <2>4. AllInTime'
    <3>1. CASE want = "path" BY <3>1, <1>8, SleepBegins
    <3>2. CASE want # "path" BY <3>2, <1>8 DEF Asked, AllInTime
    <3> QED BY <3>1, <3>2
  <2> QED BY <1>1, <1>2, <2>2, <2>3, <2>4 DEF Inv
<1>9. CASE Wake
  <2>1. spc = "sleep" /\ wait = 0 /\ stage' = "support" /\ spc' = "settle" /\ UNCHANGED mail
    BY <1>9 DEF Wake
  <2>2. Restless = {} /\ Restless' = {}
    BY <2>1, <1>1, Rested DEF Restless
  <2>3. \A a \in Limbs : apc[a] \notin {"up", "down", "leave", "home"}
    BY <2>2 DEF Inv, InForce, Restless
  <2>4. AtRest' /\ NoForceYet' /\ Asking' /\ AllInTime'
    BY <1>1, <2>1, <2>2 DEF Inv, AtRest, NoForceYet, Asking, AllInTime
  <2>5. Given' BY <1>1, <2>3 DEF Given
  <2>6. Cause' BY <1>1, <2>3 DEF Inv, Cause
  <2> QED BY <1>1, <1>2, <2>4, <2>5, <2>6 DEF Inv
<1> QED BY <1>3, <1>4, <1>5, <1>6, <1>7, <1>8, <1>9 DEF StateChange

(* The types behind the comparisons of InTime.                               *)
LEMMA BudgetTypes ==
  ASSUME Inv, Outlasts, NEW a \in Limbs
  PROVE  /\ Low \in Int /\ High \in Int /\ MaxKeys \in Nat
         /\ F[a] \in Low..High /\ pressed \in 0..MaxKeys
         /\ Count \in Nat /\ wait \in Nat
         /\ Budget(a) \in Int
         /\ Spare \in Nat
         /\ a \in Restless => Budget(a) >= 2 + Spare
<1>1. Low \in Int /\ High \in Int /\ MaxKeys \in Nat /\ SleepTicks \in Nat BY OverheadAssumption
<1>2. F[a] \in Low..High /\ pressed \in 0..MaxKeys /\ wait \in Nat BY <1>1 DEF Inv, TypeOK
<1>3. Count \in Nat /\ (a \in Restless => Count >= 1) /\ Spare \in Nat
  BY Counts, SpareType DEF Outlasts
<1> QED BY <1>1, <1>2, <1>3 DEF Budget

(* What others do costs an arm no time: a store into cmd that is not 'l'     *)
(* uses up a key or an arm that is restless.                                 *)
LEMMA UndisturbedArm ==
  ASSUME Inv, Outlasts, NEW b \in Limbs, InTime(b),
         UNCHANGED <<wait, mode[b], apc[b], F[b]>>,
         mail'[b] = mail[b] \/ mail'[b] # "force",
         Restless' \subseteq Restless,
         pressed' \in Nat, pressed' >= pressed,
         \/ cmd' = cmd \/ cmd' = "l"
         \/ pressed' >= pressed + 1 \/ Restless' # Restless
  PROVE  InTime(b)'
<1>1. /\ F[b] \in Low..High /\ Low \in Int /\ High \in Int /\ MaxKeys \in Nat
      /\ pressed \in 0..MaxKeys /\ wait \in Nat /\ Budget(b) \in Int /\ Spare \in Nat
  BY BudgetTypes
<1>2. /\ Count \in Nat /\ Count' \in Nat /\ Count' <= Count
      /\ Restless' # Restless => Count' <= Count - 1
  BY CountFalls DEF Outlasts
<1>3. Budget(b)' \in Int /\ Budget(b)' <= Budget(b) BY <1>1, <1>2 DEF Budget
<1>4. pressed' >= pressed + 1 \/ Restless' # Restless => Budget(b)' <= Budget(b) - 1
  BY <1>1, <1>2 DEF Budget
<1>5. wait' = wait /\ mode'[b] = mode[b] /\ apc'[b] = apc[b] OBVIOUS
<1>6. mode[b] = "force" /\ apc[b] = "leave" => cmd' = "l" \/ wait >= Budget(b)'
  <2> SUFFICES ASSUME mode[b] = "force", apc[b] = "leave", cmd' # "l"
               PROVE  wait >= Budget(b)'
    OBVIOUS
  <2>1. CASE cmd' = cmd BY <1>1, <1>3, <2>1 DEF InTime
  <2>2. CASE pressed' >= pressed + 1 \/ Restless' # Restless
    BY <1>1, <1>3, <1>4, <2>2 DEF InTime
  <2> QED BY <2>1, <2>2
<1>7. mode[b] = "force" => /\ apc[b] # "done" => wait >= Budget(b)' - 1
                           /\ apc[b] = "done" => wait >= Budget(b)'
  BY <1>1, <1>3 DEF InTime
<1>8. mail[b] = "force" => /\ apc[b] = "mail" => wait >= Budget(b)'
                           /\ apc[b] = "done" => wait >= Budget(b)' + 1
  BY <1>1, <1>3 DEF InTime
<1>9. apc[b] = "home" => wait >= 1 + Spare BY DEF InTime
<1> QED BY <1>5, <1>6, <1>7, <1>8, <1>9 DEF InTime

(* A cycle of arm a changes nothing of another arm.                          *)
LEMMA OtherArms ==
  ASSUME Inv, Outlasts, NEW a \in Limbs, Cycle(a), NEW b \in Limbs, b # a
  PROVE  /\ UNCHANGED <<mail[b], mode[b], apc[b], F[b], given[b]>>
         /\ b \in Restless' <=> b \in Restless
<1> USE DEF Inv, TypeOK, planVars, Step, Become, Post
<1>1. UNCHANGED <<mail[b], mode[b], apc[b], F[b], given[b]>>
  <2>1. CASE TakeBegin(a) BY <2>1 DEF TakeBegin
  <2>2. CASE TakeStop(a) BY <2>2 DEF TakeStop
  <2>3. CASE Follow(a) BY <2>3 DEF Follow
  <2>4. CASE StartForce(a) BY <2>4 DEF StartForce
  <2>5. CASE Up(a) BY <2>5 DEF Up
  <2>6. CASE Down(a) BY <2>6 DEF Down
  <2>7. CASE Leave(a) BY <2>7 DEF Leave
  <2>8. CASE Home(a) BY <2>8 DEF Home
  <2> QED BY <2>1, <2>2, <2>3, <2>4, <2>5, <2>6, <2>7, <2>8 DEF Cycle
<1> QED BY <1>1 DEF Restless

(* It is enough to look at arm a and at what its cycle does to cmd.          *)
LEMMA ArmStep ==
  ASSUME Inv, Outlasts, NEW a \in Limbs, Cycle(a),
         a \in Restless' => a \in Restless,
         cmd' = cmd \/ cmd' = "l" \/ (a \in Restless /\ a \notin Restless'),
         spc = "sleep" /\ InTime(a) => InTime(a)',
         apc'[a] \in {"up", "down", "leave"} => mode'[a] = "force",
         mail'[a] = "force" \/ apc'[a] = "home" => mode'[a] = "stopped",
         mode[a] = "stopped" => mode'[a] = "stopped" \/ (spc = "put" => Head(todo) # a),
         apc'[a] = "down" => given'[a] \/ stage = "none",
         apc'[a] = "leave" => given'[a],
         Cause'
  PROVE  Inv'
<1>1. TypeOK' /\ UNCHANGED <<hands, stage, spc, want, todo, wait, pressed>>
  BY CycleTypes DEF Inv, TypeOK
<1>2. \A b \in Limbs \ {a} : /\ UNCHANGED <<mail[b], mode[b], apc[b], F[b], given[b]>>
                             /\ b \in Restless' <=> b \in Restless
  BY OtherArms
<1>3. Restless' \subseteq Restless BY <1>2 DEF Restless
<1>4. InForce' BY <1>2 DEF Inv, InForce
<1>5. AtRest' BY <1>2 DEF Inv, AtRest
<1>6. NoForceYet' BY <1>1, <1>3 DEF Inv, NoForceYet
<1>7. Given' BY <1>1, <1>2 DEF Inv, Given
<1>8. Asking'
  <2>1. spc = "put" => mode'[Head(todo)] = "stopped"
    <3> SUFFICES ASSUME spc = "put" PROVE mode'[Head(todo)] = "stopped" OBVIOUS
    <3>1. todo # <<>> /\ mode[Head(todo)] = "stopped" /\ Head(todo) \in Limbs
      BY HeadTailProperties DEF Inv, Asking, TypeOK
    <3> QED BY <3>1, <1>2
  <2> QED BY <1>1, <2>1 DEF Inv, Asking
<1>9. AllInTime'
  <2> SUFFICES ASSUME spc = "sleep", NEW b \in Limbs PROVE InTime(b)'
    BY <1>1 DEF AllInTime
  <2>1. InTime(b) BY DEF Inv, AllInTime
  <2>2. CASE b = a BY <2>1, <2>2
  <2>3. CASE b # a
    <3>1. pressed \in Nat /\ pressed' \in Nat /\ pressed' >= pressed
      BY <1>1, OverheadAssumption DEF Inv, TypeOK
    <3>2. cmd' = cmd \/ cmd' = "l" \/ Restless' # Restless OBVIOUS
    <3> QED BY <1>1, <1>2, <1>3, <2>1, <2>3, <3>1, <3>2, UndisturbedArm
  <2> QED BY <2>2, <2>3
<1> QED BY <1>1, <1>4, <1>5, <1>6, <1>7, <1>8, <1>9 DEF Inv

(* Nothing that Cause looks at is changed for the worse.                     *)
LEMMA CauseKept ==
  ASSUME Inv, Outlasts, NEW a \in Limbs, Cycle(a), F' = F,
         cmd' = cmd, apc[a] \in {"mail", "up"}, apc'[a] # "home"
  PROVE  Cause'
<1>1. UNCHANGED <<stage, pressed>> BY CycleTypes DEF Inv, TypeOK
<1>2. \A b \in Limbs : b # a => apc'[b] = apc[b] BY OtherArms
<1>3. RampEnded' = RampEnded BY <1>1 DEF RampEnded
<1> QED BY <1>1, <1>2, <1>3 DEF Inv, Cause

(* A cycle that leaves the count as it is gives the arm its new place.       *)
LEMMA SameBudget ==
  ASSUME Inv, Outlasts, NEW a \in Limbs, Cycle(a), F'[a] <= F[a], F'[a] \in Low..High,
         a \in Restless' => a \in Restless
  PROVE  /\ Budget(a)' \in Int /\ Budget(a)' <= Budget(a)
         /\ F'[a] < F[a] => Budget(a)' <= Budget(a) - 1
         /\ wait' = wait
<1>1. /\ F[a] \in Low..High /\ Low \in Int /\ High \in Int /\ MaxKeys \in Nat
      /\ pressed \in 0..MaxKeys /\ Spare \in Nat
  BY BudgetTypes
<1>2. Restless' \subseteq Restless BY OtherArms DEF Restless
<1>3. Count \in Nat /\ Count' \in Nat /\ Count' <= Count BY <1>2, CountFalls DEF Outlasts
<1>4. pressed' = pressed /\ wait' = wait BY CycleTypes DEF Inv, TypeOK
<1> QED BY <1>1, <1>3, <1>4 DEF Budget

LEMMA TakeStep ==
  ASSUME Inv, Outlasts, NEW a \in Limbs, Cycle(a),
         ~(spc = "put" /\ Head(todo) = a),
         TakeBegin(a) \/ TakeStop(a) \/ Follow(a) \/ StartForce(a)
  PROVE  Inv'
<1> USE DEF planVars, Step, Become, Post
<1>1. /\ mail[a] \in {"none", "path", "force", "stop"} /\ mode[a] \in {"stopped", "path", "force"}
      /\ DOMAIN apc = Limbs /\ DOMAIN mail = Limbs /\ DOMAIN mode = Limbs /\ DOMAIN given = Limbs
      /\ F[a] \in Low..High
      /\ mail[a] = "force" => mode[a] = "stopped"
  BY DEF Inv, TypeOK, AtRest
<1>2. cmd' = cmd /\ F' = F /\ apc[a] = "mail" /\ apc'[a] \in {"done", "up"}
  BY <1>1 DEF TakeBegin, TakeStop, Follow, StartForce
<1>3. Cause' BY <1>2, CauseKept
<1>4. a \in Restless' => a \in Restless
  BY <1>1 DEF Restless, TakeBegin, TakeStop, Follow, StartForce
<1>5. Budget(a)' \in Int /\ Budget(a)' <= Budget(a) /\ wait' = wait
  BY <1>1, <1>2, <1>4, SameBudget, BudgetTypes
<1>6. Budget(a) \in Int /\ wait \in Nat BY BudgetTypes
<1>7. InTime(a) => InTime(a)'
  <2> SUFFICES ASSUME InTime(a) PROVE InTime(a)' OBVIOUS
  <2>1. CASE TakeBegin(a)
    <3>1. apc'[a] = "done" /\ mail'[a] = "none" /\ mode'[a] = mail[a] /\ mail[a] \in {"path", "force"}
      BY <1>1, <2>1 DEF TakeBegin
    <3>2. mail[a] = "force" => wait >= Budget(a) BY <1>2 DEF InTime
    <3> QED BY <1>5, <1>6, <3>1, <3>2 DEF InTime
  <2>2. CASE TakeStop(a)
    <3>1. apc'[a] = "done" /\ mail'[a] = "none" /\ mode'[a] = "stopped" BY <1>1, <2>2 DEF TakeStop
    <3> QED BY <3>1 DEF InTime
  <2>3. CASE Follow(a)
    <3>1. apc'[a] = "done" /\ mail'[a] # "force" /\ mode'[a] # "force"
      BY <1>1, <2>3 DEF Follow
    <3> QED BY <3>1 DEF InTime
  <2>4. CASE StartForce(a)
    <3>1. apc'[a] = "up" /\ mail'[a] # "force" /\ mode[a] = "force" BY <1>1, <2>4 DEF StartForce
    <3>2. wait >= Budget(a) - 1 BY <1>2, <3>1 DEF InTime
    <3> QED BY <1>5, <1>6, <3>1, <3>2 DEF InTime
  <2> QED BY <2>1, <2>2, <2>3, <2>4
<1>8. /\ apc'[a] = "up" => mode'[a] = "force"
      /\ mail'[a] = "force" => mode'[a] = "stopped"
  BY <1>1 DEF TakeBegin, TakeStop, Follow, StartForce
<1> QED BY <1>2, <1>3, <1>4, <1>7, <1>8, ArmStep

LEMMA UpStep ==
  ASSUME Inv, Outlasts, NEW a \in Limbs, Cycle(a), Up(a)
  PROVE  Inv'
<1> USE DEF planVars, Step
<1>1. /\ F[a] \in Low..High /\ DOMAIN apc = Limbs /\ DOMAIN given = Limbs /\ F \in [Limbs -> Low..High]
      /\ Low \in Int /\ High \in Int
      /\ stage \in {"none", "support", "force"}
      /\ mode[a] = "force" /\ mail[a] # "force" /\ stage # "support"
  BY OverheadAssumption DEF Inv, TypeOK, Up, InForce, AtRest, NoForceYet, Restless
<1>2. apc[a] = "up" /\ apc'[a] = "down" /\ UNCHANGED <<mail, mode, cmd>> BY <1>1 DEF Up
<1>3. given'[a] \/ stage = "none" BY <1>1 DEF Up
<1>4. a \in Restless' => a \in Restless BY <1>1 DEF Restless
<1>5. Cause'
  <2>1. CASE stage = "force"
    <3>1. UNCHANGED <<stage, pressed>> BY CycleTypes DEF Inv, TypeOK
    <3>2. \A b \in Limbs : apc'[b] = "home" => apc[b] = "home" BY <1>2, OtherArms
    <3> QED BY <2>1, <3>1, <3>2, <1>2 DEF Inv, Cause, RampEnded
  <2>2. CASE stage # "force" BY <1>2, <2>2, CauseKept DEF Up
  <2> QED BY <2>1, <2>2
<1>6. ASSUME spc = "sleep", InTime(a) PROVE InTime(a)'
  <2>1. stage = "none" BY <1>6 DEF Inv, Asking
  <2>2. F' = F BY <2>1 DEF Up
  <2>3. Budget(a)' \in Int /\ Budget(a)' <= Budget(a) /\ wait' = wait
    BY <1>1, <1>4, <2>2, SameBudget
  <2>4. Budget(a) \in Int /\ wait \in Nat BY BudgetTypes
  <2>5. wait >= Budget(a) - 1 BY <1>1, <1>2, <1>6 DEF InTime
  <2> QED BY <1>1, <1>2, <2>3, <2>4, <2>5 DEF InTime
<1> QED BY <1>1, <1>2, <1>3, <1>4, <1>5, <1>6, ArmStep

LEMMA DownStep ==
  ASSUME Inv, Outlasts, NEW a \in Limbs, Cycle(a), Down(a)
  PROVE  Inv'
<1> USE DEF planVars, Step
<1>1. /\ F[a] \in Low..High /\ DOMAIN apc = Limbs /\ DOMAIN given = Limbs /\ F \in [Limbs -> Low..High]
      /\ Low \in Int /\ High \in Int
      /\ mode[a] = "force" /\ mail[a] # "force"
      /\ F'[a] \in Low..High
  BY OverheadAssumption, CycleTypes DEF Inv, TypeOK, Down, InForce, AtRest
<1>2. apc[a] = "down" /\ apc'[a] = "leave" /\ UNCHANGED <<mail, mode, stage, pressed>>
  BY <1>1 DEF Down
<1>3. given'[a] BY <1>1, <1>2 DEF Down, Inv, Given
<1>4. cmd' = cmd \/ cmd' = "l" BY DEF Down
<1>5. a \in Restless' => a \in Restless BY <1>1 DEF Restless
<1>6. /\ F'[a] <= F[a]
      /\ stage = "none" => (cmd' = "l" /\ F'[a] = Low) \/ (F'[a] < F[a] /\ cmd' = cmd)
      /\ stage # "none" => F' = F /\ cmd' = cmd
  BY <1>1 DEF Down
<1>7. \A b \in Limbs : b # a => F'[b] = F[b] /\ apc'[b] = apc[b] BY OtherArms
<1>8. Cause'
  <2> SUFFICES ASSUME pressed = 0 PROVE Cause' BY <1>2 DEF Cause
  <2>1. RampEnded => RampEnded'
    <3> SUFFICES ASSUME stage = "none", NEW b \in Limbs, F[b] = Low PROVE F'[b] = Low
      BY <1>2 DEF RampEnded
    <3>1. CASE b = a BY <1>1, <1>6, <3>1
    <3>2. CASE b # a BY <1>7, <3>2
    <3> QED BY <3>1, <3>2
  <2>2. ASSUME cmd' = "l" PROVE RampEnded'
    <3>1. CASE cmd = "l" BY <2>1, <3>1 DEF Inv, Cause
    <3>2. CASE cmd # "l" BY <1>1, <1>2, <1>6, <2>2, <3>2 DEF RampEnded
    <3> QED BY <3>1, <3>2
  <2>3. ASSUME NEW b \in Limbs, apc'[b] = "home" PROVE RampEnded'
    BY <1>2, <1>7, <2>1, <2>3 DEF Inv, Cause
  <2> QED BY <1>2, <2>2, <2>3 DEF Cause
<1>9. ASSUME spc = "sleep", InTime(a) PROVE InTime(a)'
  <2>1. stage = "none" BY <1>9 DEF Inv, Asking
  <2>2. /\ Budget(a)' \in Int /\ Budget(a)' <= Budget(a) /\ wait' = wait
        /\ F'[a] < F[a] => Budget(a)' <= Budget(a) - 1
    BY <1>1, <1>5, <1>6, SameBudget
  <2>3. Budget(a) \in Int /\ wait \in Nat BY BudgetTypes
  <2>4. wait >= Budget(a) - 1 BY <1>1, <1>2, <1>9 DEF InTime
  <2>5. cmd' = "l" \/ wait' >= Budget(a)' BY <1>6, <2>1, <2>2, <2>3, <2>4
  <2> QED BY <1>1, <1>2, <2>2, <2>3, <2>4, <2>5 DEF InTime
<1> QED BY <1>1, <1>2, <1>3, <1>4, <1>5, <1>8, <1>9, ArmStep

LEMMA LeaveStep ==
  ASSUME Inv, Outlasts, NEW a \in Limbs, Cycle(a), Leave(a)
  PROVE  Inv'
<1> USE DEF planVars, Step, Become, Post
<1>1. /\ DOMAIN apc = Limbs /\ DOMAIN mode = Limbs /\ DOMAIN mail = Limbs
      /\ apc[a] = "leave" /\ mode[a] = "force" /\ mail[a] # "force"
      /\ UNCHANGED <<F, cmd, stage, pressed>>
  BY DEF Inv, TypeOK, InForce, AtRest, Leave
<1>2. a \in Restless BY <1>1 DEF Restless
<1>3. \A b \in Limbs : b # a => apc'[b] = apc[b] BY OtherArms
<1>4. RampEnded' = RampEnded BY <1>1 DEF RampEnded
<1>5. CASE cmd = "l"
  <2>1. apc'[a] = "home" /\ mode'[a] = "stopped" /\ mail'[a] = "none"
    BY <1>1, <1>5 DEF Leave
  <2>2. Cause' BY <1>1, <1>3, <1>4, <1>5, <2>1 DEF Inv, Cause
  <2>3. ASSUME InTime(a) PROVE InTime(a)'
    <3>1. wait >= Budget(a) - 1 BY <1>1, <2>3 DEF InTime
    <3>2. wait \in Nat /\ Budget(a) \in Int /\ Spare \in Nat /\ Budget(a) >= 2 + Spare
      BY <1>2, BudgetTypes
    <3>3. wait' = wait BY CycleTypes DEF Inv, TypeOK
    <3> QED BY <2>1, <3>1, <3>2, <3>3 DEF InTime
  <2> QED BY <1>1, <1>2, <2>1, <2>2, <2>3, ArmStep
<1>6. CASE cmd # "l"
  <2>1. apc'[a] = "done" /\ mode' = mode /\ mail' = mail BY <1>1, <1>6 DEF Leave
  <2>2. Cause' BY <1>1, <1>3, <1>4, <1>6, <2>1 DEF Inv, Cause
  <2>3. ASSUME InTime(a) PROVE InTime(a)'
    <3>1. wait >= Budget(a) BY <1>1, <1>6, <2>3 DEF InTime
    <3>2. Budget(a)' \in Int /\ Budget(a)' <= Budget(a) /\ wait' = wait
      BY <1>1, <1>2, SameBudget, BudgetTypes
    <3>3. wait \in Nat /\ Budget(a) \in Int BY BudgetTypes
    <3> QED BY <1>1, <2>1, <3>1, <3>2, <3>3 DEF InTime
  <2> QED BY <1>1, <1>2, <2>1, <2>2, <2>3, ArmStep
<1> QED BY <1>5, <1>6

LEMMA HomeStep ==
  ASSUME Inv, Outlasts, NEW a \in Limbs, Cycle(a), Home(a)
  PROVE  Inv'
<1> USE DEF planVars, Step, Post
<1>1. /\ apc[a] = "home" /\ mode[a] = "stopped" /\ UNCHANGED <<mode, F, stage, pressed>>
      /\ apc'[a] = "done" /\ mail'[a] = "path" /\ cmd' = "w"
  BY DEF Inv, TypeOK, AtRest, Home
<1>2. a \in Restless /\ a \notin Restless' BY <1>1 DEF Restless
<1>3. InTime(a)' BY <1>1 DEF InTime
<1>4. Cause'
  <2>1. \A b \in Limbs : apc'[b] = "home" => apc[b] = "home" BY <1>1, OtherArms
  <2> QED BY <1>1, <2>1 DEF Inv, Cause, RampEnded
<1> QED BY <1>1, <1>2, <1>3, <1>4, ArmStep

LEMMA TickStep ==
  ASSUME Inv, Outlasts, Tick
  PROVE  Inv'
<1>1. TypeOK' BY TypeStep DEF Inv, Asking, PutHasArm, Next
<1>2. /\ UNCHANGED <<stage, spc, want, todo, mail, mode, F, given, cmd, pressed>>
      /\ \A a \in Limbs : apc[a] = "done" /\ apc'[a] = "mail"
      /\ Restless' = Restless
  BY DEF Tick, Restless
<1>3. InForce' /\ AtRest' /\ Asking' /\ NoForceYet' /\ Given'
  BY <1>2 DEF Inv, InForce, AtRest, Asking, NoForceYet, Given
<1>4. Cause' BY <1>2 DEF Inv, Cause, RampEnded
<1>5. ASSUME spc = "sleep", NEW a \in Limbs PROVE InTime(a)'
  <2>1. InTime(a) BY <1>5 DEF Inv, AllInTime
  <2>2. Budget(a)' = Budget(a) BY <1>2 DEF Budget, Count
  <2>3. /\ wait \in Nat /\ Budget(a) \in Int /\ Spare \in Nat
        /\ a \in Restless => Budget(a) >= 2 + Spare
    BY BudgetTypes
  <2>4. wait > 0 => wait' = wait - 1 BY DEF Tick
  <2>5. mode[a] = "force" => wait >= Budget(a) /\ wait' >= Budget(a) - 1
    BY <1>2, <2>1, <2>3, <2>4 DEF InTime, Restless
  <2>6. mail[a] = "force" => wait' >= Budget(a)
    BY <1>2, <2>1, <2>3, <2>4 DEF InTime, Restless
  <2> QED BY <1>2, <2>2, <2>5, <2>6 DEF InTime
<1> QED BY <1>1, <1>2, <1>3, <1>4, <1>5 DEF Inv, AllInTime

LEMMA KeyStep ==
  ASSUME Inv, Outlasts, Key
  PROVE  Inv'
<1>1. TypeOK' BY TypeStep DEF Inv, Asking, PutHasArm, Next
<1>2. UNCHANGED <<stage, spc, want, todo, wait, mode, apc, F, given>> /\ pressed' = pressed + 1
  BY DEF Key, planVars
<1>3. \A a \in Limbs : mail'[a] = mail[a] \/ mail'[a] # "force" BY DEF Key
<1>4. Restless' \subseteq Restless BY <1>2, <1>3 DEF Restless
<1>5. InForce' /\ AtRest' /\ Asking' /\ NoForceYet' /\ Given'
  BY <1>2, <1>3, <1>4 DEF Inv, InForce, AtRest, Asking, NoForceYet, Given
<1>6. pressed \in Nat /\ pressed' \in Nat /\ pressed' >= pressed + 1 /\ pressed' # 0
  BY <1>2, OverheadAssumption DEF Inv, TypeOK
<1>7. Cause' BY <1>6 DEF Cause
<1>8. ASSUME spc = "sleep", NEW a \in Limbs PROVE InTime(a)'
  <2>1. InTime(a) BY <1>8 DEF Inv, AllInTime
  <2>2. UNCHANGED <<wait, mode[a], apc[a], F[a]>> BY <1>2
  <2>3. mail'[a] = mail[a] \/ mail'[a] # "force" BY <1>3
  <2> QED BY <1>4, <1>6, <2>1, <2>2, <2>3, UndisturbedArm
<1> QED BY <1>1, <1>2, <1>5, <1>7, <1>8 DEF Inv, AllInTime

LEMMA InvStep == Outlasts /\ Inv /\ [Next]_vars => Inv'
<1> SUFFICES ASSUME Outlasts, Inv, [Next]_vars PROVE Inv' OBVIOUS
<1>1. CASE StateChange BY <1>1, PlanStep
<1>2. ASSUME NEW a \in Limbs, Cycle(a) PROVE Inv'
  <2>1. ~(spc = "put" /\ Head(todo) = a) BY <1>2 DEF Cycle, Outlasts
  <2>2. CASE Up(a) BY <1>2, <2>2, UpStep
  <2>3. CASE Down(a) BY <1>2, <2>3, DownStep
  <2>4. CASE Leave(a) BY <1>2, <2>4, LeaveStep
  <2>5. CASE Home(a) BY <1>2, <2>5, HomeStep
  <2>6. CASE TakeBegin(a) \/ TakeStop(a) \/ Follow(a) \/ StartForce(a)
    BY <1>2, <2>1, <2>6, TakeStep
  <2> QED BY <1>2, <2>2, <2>3, <2>4, <2>5, <2>6 DEF Cycle
<1>3. CASE Tick BY <1>3, TickStep
<1>4. CASE Key BY <1>4, KeyStep
<1>5. CASE Hands \/ UNCHANGED vars
  <2>1. UNCHANGED <<planVars, taskVars, cmd, pressed>> BY <1>5 DEF Hands, vars
  <2>2. TypeOK' BY TypeStep DEF Inv, Asking, PutHasArm
  <2>3. Restless' = Restless BY <2>1 DEF taskVars, Restless
  <2>4. InForce' /\ AtRest' /\ Asking' /\ NoForceYet' /\ Given' /\ Cause'
    BY <2>1, <2>3 DEF planVars, taskVars, Inv, InForce, AtRest, Asking, NoForceYet, Given,
                     Cause, RampEnded
  <2>5. \A a \in Limbs : InTime(a)' = InTime(a)
    BY <2>1, <2>3 DEF planVars, taskVars, InTime, Budget, Count
  <2> QED BY <2>1, <2>2, <2>4, <2>5 DEF planVars, Inv, AllInTime
<1> QED BY <1>1, <1>2, <1>3, <1>4, <1>5 DEF Next

(* No torque of the force control is computed from a force that the cycle    *)
(* has not set, provided the sleep of state_change outlasts the ramp         *)
(* (robot.cpp 1410-1443, main.cpp 2781).                                     *)
THEOREM ForceSafety ==
  ASSUME Outlasts
  PROVE  Spec => []ForceIsGiven
<1>1. Init => Inv BY InvInit
<1>2. Inv /\ [Next]_vars => Inv' BY InvStep
<1>3. Inv => ForceIsGiven BY DEF Inv, Given, ForceIsGiven
<1> QED BY <1>1, <1>2, <1>3, PTL DEF Spec

(* When the sleep of state_change is over both arms are out of the force     *)
(* control, under the same condition (main.cpp 2781-2782).                   *)
THEOREM ForceOver ==
  ASSUME Outlasts
  PROVE  Spec => []ForceIsOver
<1>1. Init => Inv BY InvInit
<1>2. Inv /\ [Next]_vars => Inv' BY InvStep
<1>3. Inv => ForceIsOver BY DEF Inv, NoForceYet, Restless, ForceIsOver
<1> QED BY <1>1, <1>2, <1>3, PTL DEF Spec

(* Without a key an arm leaves the force control only at the low end of the  *)
(* ramp and only while the hands are lowered (robot.cpp 1438, 1489, 1549).   *)
THEOREM LeaveSafety ==
  ASSUME Outlasts
  PROVE  Spec => []LeaveHasCause
<1>1. Init => Inv BY InvInit
<1>2. Inv /\ [Next]_vars => Inv' BY InvStep
<1>3. Inv => LeaveHasCause BY DEF Inv, Cause, LeaveHasCause, RampEnded
<1> QED BY <1>1, <1>2, <1>3, PTL DEF Spec

-----------------------------------------------------------------------------
(* The requests for a path.  One waits only for a stopped arm, is gone when  *)
(* the sleep of state_change is over, and none waits for an arm that is      *)
(* still to be asked for the force control.                                  *)
EachOnce(s) == \A i, j \in 1..Len(s) : s[i] = s[j] => i = j

PathWaits ==
  \A a \in Limbs : mail[a] = "path" =>
    /\ mode[a] = "stopped" /\ stage # "support"
    /\ spc = "sleep" => wait >= (IF apc[a] = "mail" THEN 1 ELSE 2)

Unasked ==
  /\ EachOnce(todo)
  /\ spc \in {"ask", "put"} /\ want = "force" =>
       \A i \in 1..Len(todo) : todo[i] \notin Restless /\ mail[todo[i]] # "path"

PathInv == PathWaits /\ Unasked

LEMMA TailOnce ==
  ASSUME NEW s \in Seq(Limbs), s # <<>>
  PROVE  /\ Head(s) = s[1] /\ Head(s) \in Limbs /\ Len(s) \in Nat
         /\ \A i \in 1..Len(Tail(s)) : /\ i + 1 \in 1..Len(s) /\ i + 1 # 1
                                       /\ Tail(s)[i] = s[i + 1]
         /\ EachOnce(s) => EachOnce(Tail(s))
<1>1. /\ Head(s) = s[1] /\ Head(s) \in Limbs
      /\ Len(Tail(s)) = Len(s) - 1 /\ Len(s) \in Nat \ {0}
      /\ \A i \in 1..Len(Tail(s)) : Tail(s)[i] = s[i + 1]
  BY HeadTailProperties
<1>2. \A i \in 1..Len(Tail(s)) : i + 1 \in 1..Len(s) /\ i + 1 # 1
  BY <1>1
<1>3. ASSUME EachOnce(s) PROVE EachOnce(Tail(s))
  <2> SUFFICES ASSUME NEW i \in 1..Len(Tail(s)), NEW j \in 1..Len(Tail(s)),
                      Tail(s)[i] = Tail(s)[j]
               PROVE  i = j
    BY DEF EachOnce
  <2>1. i + 1 = j + 1 BY <1>1, <1>2, <1>3 DEF EachOnce
  <2> QED BY <2>1
<1> QED BY <1>1, <1>2, <1>3

(* What a cycle does to the request that waits for its arm.                  *)
LEMMA CycleRequest ==
  ASSUME Inv, Outlasts, Spare >= 1, PathWaits, NEW a \in Limbs, Cycle(a)
  PROVE  /\ mail'[a] = "path" => /\ mode'[a] = "stopped" /\ stage # "support"
                                 /\ spc = "sleep" => wait >= 2
         /\ a \notin Restless /\ mail[a] # "path" => a \notin Restless' /\ mail'[a] # "path"
         /\ mail[a] = "path" /\ mail'[a] # "path" => mode[a] = "stopped" /\ mode'[a] = "path"
<1> USE DEF Step, Become, Post
<1>1. /\ mail \in [Limbs -> {"none", "path", "force", "stop"}]
      /\ mode \in [Limbs -> {"stopped", "path", "force"}]
      /\ apc \in [Limbs -> {"mail", "up", "down", "leave", "home", "done"}]
  BY DEF Inv, TypeOK
<1>2. mail[a] = "path" => mode[a] = "stopped" BY DEF PathWaits
<1>3. apc[a] \in {"up", "down", "leave"} => mode[a] = "force" BY DEF Inv, InForce
<1>4. CASE TakeBegin(a) \/ TakeStop(a) \/ Follow(a) \/ StartForce(a)
  BY <1>1, <1>2, <1>4 DEF TakeBegin, TakeStop, Follow, StartForce, Restless
<1>5. CASE Up(a) \/ Down(a) \/ Leave(a)
  BY <1>1, <1>2, <1>3, <1>5 DEF Up, Down, Leave, Restless
<1>6. CASE Home(a)
  <2>1. apc[a] = "home" /\ mail'[a] = "path" /\ mode' = mode BY <1>1, <1>6 DEF Home
  <2>2. a \in Restless /\ mode[a] = "stopped" BY <2>1 DEF Restless, Inv, AtRest
  <2>3. stage # "support" BY <2>2 DEF Inv, NoForceYet
  <2>4. spc = "sleep" => wait >= 1 + Spare BY <2>1 DEF Inv, AllInTime, InTime
  <2>5. wait \in Nat /\ Spare \in Nat BY BudgetTypes
  <2> QED BY <2>1, <2>2, <2>3, <2>4, <2>5
<1> QED BY <1>4, <1>5, <1>6 DEF Cycle

LEMMA PlanRequest ==
  ASSUME Inv, Outlasts, Spare >= 1, EachOnce(Order), PathInv, StateChange
  PROVE  /\ PathInv'
         /\ \A a \in Limbs : mail[a] = "path" => mail'[a] = "path"
<1>1. UNCHANGED <<mode, apc>>
  <2>1. PutHasArm BY DEF Inv, Asking, PutHasArm
  <2> QED BY <2>1, PlanTypes DEF Inv
<1>2. todo \in Seq(Limbs) /\ wait \in Nat /\ mail \in [Limbs -> {"none", "path", "force", "stop"}]
      /\ want \in {"path", "force"} /\ Order \in Seq(Limbs)
  BY OverheadAssumption DEF Inv, TypeOK
<1>3. ASSUME mail' = mail
      PROVE  Restless' = Restless /\ \A a \in Limbs : mail[a] = "path" => mail'[a] = "path"
  BY <1>1, <1>3 DEF Restless
<1> USE DEF Plan, AskBoth, taskVars
<1>4. CASE TestEnter
  BY <1>1, <1>3, <1>4 DEF TestEnter, PathInv, PathWaits, Unasked
<1>5. CASE TestSettle
  <2>1. stage = "support" => Restless = {} BY DEF Inv, NoForceYet
  <2>2. stage = "support" => \A a \in Limbs : mail[a] # "path" BY DEF PathInv, PathWaits
  <2>3. \A i \in 1..Len(Order) : Order[i] \in Limbs BY <1>2
  <2>4. /\ mail' = mail /\ spc' \in {"ask", "lower"}
        /\ stage' = stage \/ stage' = "force"
    BY <1>5 DEF TestSettle
  <2>5. PathWaits' BY <1>1, <2>4 DEF PathInv, PathWaits
  <2>6. CASE stage = "support" /\ hands = "steady"
    <3>1. todo' = Order BY <1>5, <2>6 DEF TestSettle
    <3> QED BY <1>3, <2>1, <2>2, <2>3, <2>4, <2>5, <2>6, <3>1 DEF PathInv, Unasked
  <2>7. CASE ~(stage = "support" /\ hands = "steady")
    <3>1. spc' = "lower" /\ todo' = todo BY <1>5, <2>7 DEF TestSettle
    <3> QED BY <1>3, <2>4, <2>5, <3>1 DEF PathInv, Unasked
  <2> QED BY <2>6, <2>7
<1>6. CASE TestLower
  BY <1>1, <1>3, <1>6 DEF TestLower, PathInv, PathWaits, Unasked
<1>7. CASE Ask
  <2>1. /\ todo # <<>> /\ UNCHANGED <<mail, stage, want>> /\ spc = "ask"
        /\ \/ spc' = "put" /\ todo' = todo
           \/ spc' = "ask" /\ todo' = Tail(todo)
    BY <1>7 DEF Ask
  <2>2. PathWaits' BY <1>1, <2>1 DEF PathInv, PathWaits
  <2>3. Unasked'
    <3>1. CASE todo' = todo
      BY <1>3, <2>1, <3>1 DEF PathInv, Unasked
    <3>2. CASE todo' = Tail(todo) /\ spc' = "ask"
      <4>1. EachOnce(todo') BY <1>2, <2>1, <3>2, TailOnce DEF PathInv, Unasked
      <4>2. \A i \in 1..Len(todo') : i + 1 \in 1..Len(todo) /\ todo'[i] = todo[i + 1]
        BY <1>2, <2>1, <3>2, TailOnce
      <4> QED BY <1>3, <2>1, <3>2, <4>1, <4>2 DEF PathInv, Unasked
    <3> QED BY <2>1, <3>1, <3>2
  <2> QED BY <1>3, <2>1, <2>2, <2>3 DEF PathInv
<1>8. CASE Put
  <2>1. /\ spc = "put" /\ spc' = "ask" /\ UNCHANGED <<stage, want>>
        /\ mail' = [mail EXCEPT ![Head(todo)] = want] /\ todo' = Tail(todo)
    BY <1>8 DEF Put
  <2>2. todo # <<>> /\ mode[Head(todo)] = "stopped"
        /\ stage = (IF want = "path" THEN "none" ELSE "force")
    BY <2>1 DEF Inv, Asking
  <2>3. Head(todo) = todo[1] /\ 1 \in 1..Len(todo) /\ Head(todo) \in Limbs
    BY <1>2, <2>2, TailOnce
  <2>4. PathWaits' BY <1>1, <1>2, <2>1, <2>2, <2>3 DEF PathInv, PathWaits
  <2>5. Unasked'
    <3>1. EachOnce(todo') BY <1>2, <2>1, <2>2, TailOnce DEF PathInv, Unasked
    <3>2. ASSUME want = "force", NEW i \in 1..Len(todo')
          PROVE  todo'[i] \notin Restless' /\ mail'[todo'[i]] # "path"
      <4>1. i + 1 \in 1..Len(todo) /\ i + 1 # 1 /\ todo'[i] = todo[i + 1]
        BY <1>2, <2>1, <2>2, <3>2, TailOnce
      <4>2. todo[i + 1] # Head(todo) BY <2>3, <4>1 DEF PathInv, Unasked, EachOnce
      <4>3. todo[i + 1] \in Limbs BY <1>2, <4>1
      <4>4. todo[i + 1] \notin Restless /\ mail[todo[i + 1]] # "path"
        BY <2>1, <3>2, <4>1 DEF PathInv, Unasked
      <4>5. mail'[todo[i + 1]] = mail[todo[i + 1]] BY <2>1, <4>2, <4>3, <1>2
      <4> QED BY <1>1, <4>1, <4>3, <4>4, <4>5 DEF Restless
    <3> QED BY <2>1, <3>1, <3>2 DEF Unasked
  <2>6. ASSUME NEW a \in Limbs, mail[a] = "path" PROVE mail'[a] = "path"
    <3>1. CASE a = Head(todo)
      <4>1. want = "path" BY <1>2, <2>1, <2>3, <2>6, <3>1 DEF PathInv, Unasked
      <4> QED BY <1>2, <2>1, <2>3, <3>1, <4>1
    <3>2. CASE a # Head(todo) BY <1>2, <2>1, <2>6, <3>2
    <3> QED BY <3>1, <3>2
  <2> QED BY <2>4, <2>5, <2>6 DEF PathInv
<1>9. CASE Asked
  <2>1. /\ UNCHANGED <<mail, stage, todo>> /\ spc' \in {"sleep", "lower"}
        /\ spc' = "sleep" => wait' = SleepTicks
    BY <1>9 DEF Asked
  <2>2. SleepTicks \in Nat /\ SleepTicks >= 2
    <3>1. Cardinality(Limbs) \in Nat BY FS_CardinalityType DEF Outlasts
    <3> QED BY <3>1, OverheadAssumption DEF Outlasts
  <2>3. PathWaits' BY <1>1, <2>1, <2>2 DEF PathInv, PathWaits
  <2> QED BY <1>3, <2>1, <2>3 DEF PathInv, Unasked
<1>10. CASE Wake
  <2>1. /\ spc = "sleep" /\ wait = 0 /\ spc' = "settle" /\ UNCHANGED <<mail, todo>>
    BY <1>10 DEF Wake
  <2>2. \A a \in Limbs : mail[a] # "path" BY <2>1 DEF PathInv, PathWaits
  <2> QED BY <1>3, <2>1, <2>2 DEF PathInv, PathWaits, Unasked
<1> QED BY <1>4, <1>5, <1>6, <1>7, <1>8, <1>9, <1>10 DEF StateChange

LEMMA RequestStep ==
  ASSUME Inv, Outlasts, Spare >= 1, EachOnce(Order), PathInv, [Next]_vars
  PROVE  /\ PathInv'
         /\ \A a \in Limbs : mail[a] = "path" /\ mail'[a] # "path" /\ pressed' = pressed =>
              mode[a] = "stopped" /\ mode'[a] = "path"
<1>1. todo \in Seq(Limbs) /\ wait \in Nat /\ (\A i \in 1..Len(todo) : todo[i] \in Limbs)
  BY OverheadAssumption DEF Inv, TypeOK
<1>2. CASE StateChange BY <1>2, PlanRequest
<1>3. ASSUME NEW a \in Limbs, Cycle(a)
      PROVE  /\ PathInv'
             /\ \A b \in Limbs : mail[b] = "path" /\ mail'[b] # "path" =>
                  mode[b] = "stopped" /\ mode'[b] = "path"
  <2>1. UNCHANGED <<stage, spc, want, todo, wait>> BY <1>3, CycleTypes DEF Inv, TypeOK
  <2>2. \A b \in Limbs \ {a} : /\ mail'[b] = mail[b] /\ mode'[b] = mode[b] /\ apc'[b] = apc[b]
                               /\ b \in Restless' <=> b \in Restless
    BY <1>3, OtherArms
  <2>3. PathWaits BY DEF PathInv
  <2>4. PathWaits'
    <3> SUFFICES ASSUME NEW b \in Limbs, mail'[b] = "path"
                 PROVE  /\ mode'[b] = "stopped" /\ stage' # "support"
                        /\ spc' = "sleep" => wait' >= (IF apc'[b] = "mail" THEN 1 ELSE 2)
      BY DEF PathWaits
    <3>1. CASE b = a BY <1>1, <1>3, <2>1, <2>3, <3>1, CycleRequest
    <3>2. CASE b # a BY <2>1, <2>2, <2>3, <3>2 DEF PathWaits
    <3> QED BY <3>1, <3>2
  <2>5. Unasked'
    <3> SUFFICES ASSUME spc \in {"ask", "put"}, want = "force", NEW i \in 1..Len(todo)
                 PROVE  todo[i] \notin Restless' /\ mail'[todo[i]] # "path"
      BY <2>1 DEF Unasked, PathInv
    <3>1. todo[i] \in Limbs /\ todo[i] \notin Restless /\ mail[todo[i]] # "path"
      BY <1>1 DEF Unasked, PathInv
    <3>2. CASE todo[i] = a BY <1>3, <2>3, <3>1, <3>2, CycleRequest
    <3>3. CASE todo[i] # a BY <2>2, <3>1, <3>3
    <3> QED BY <3>2, <3>3
  <2>6. ASSUME NEW b \in Limbs, mail[b] = "path", mail'[b] # "path"
        PROVE  mode[b] = "stopped" /\ mode'[b] = "path"
    <3>1. b = a BY <2>2, <2>6
    <3> QED BY <1>3, <2>3, <2>6, <3>1, CycleRequest
  <2> QED BY <2>4, <2>5, <2>6 DEF PathInv
<1>4. CASE Tick
  <2>1. /\ UNCHANGED <<stage, spc, want, todo, mail, mode>> /\ Restless' = Restless
        /\ \A a \in Limbs : apc[a] = "done" /\ apc'[a] = "mail"
        /\ wait > 0 => wait' = wait - 1
    BY <1>4 DEF Tick, Restless
  <2>2. PathWaits' BY <1>1, <2>1 DEF PathInv, PathWaits
  <2> QED BY <2>1, <2>2 DEF PathInv, Unasked
<1>5. CASE Key
  <2>1. /\ UNCHANGED <<stage, spc, want, todo, wait, mode, apc>>
        /\ \A a \in Limbs : mail'[a] = mail[a] \/ mail'[a] = "stop"
        /\ pressed' = pressed + 1
    BY <1>5 DEF Key, planVars
  <2>2. pressed' # pressed
    BY <2>1, OverheadAssumption DEF Inv, TypeOK
  <2>3. Restless' \subseteq Restless BY <2>1 DEF Restless
  <2>4. PathWaits' BY <2>1 DEF PathInv, PathWaits
  <2>5. Unasked' BY <1>1, <2>1, <2>3 DEF PathInv, Unasked
  <2> QED BY <2>2, <2>4, <2>5 DEF PathInv
<1>6. CASE Hands \/ UNCHANGED vars
  <2>1. UNCHANGED <<planVars, taskVars>> BY <1>6 DEF Hands, vars
  <2>2. Restless' = Restless BY <2>1 DEF taskVars, Restless
  <2> QED BY <2>1, <2>2 DEF planVars, taskVars, PathInv, PathWaits, Unasked
<1> QED BY <1>2, <1>3, <1>4, <1>5, <1>6 DEF Next

(* A request for a path stays in the mailbox until the arm follows it or a   *)
(* key is pressed, provided that state_change asks each arm once and that    *)
(* its sleep is longer than the ramp needs by a period: the last arm home    *)
(* takes that period to find its request (main.cpp 2769-2799, robot.cpp      *)
(* 1489-1556).                                                               *)
THEOREM RequestSafety ==
  ASSUME Outlasts, Spare >= 1, EachOnce(Order)
  PROVE  Spec => PathRequestKept
<1> DEFINE Kept == \A a \in Limbs :
             mail[a] = "path" /\ mail'[a] # "path" /\ pressed' = pressed =>
               mode[a] = "stopped" /\ mode'[a] = "path"
<1>1. Init => Inv /\ PathInv
  BY InvInit DEF Init, PathInv, PathWaits, Unasked, EachOnce
<1>2. Inv /\ PathInv /\ [Next]_vars => Inv' /\ PathInv'
  BY InvStep, RequestStep
<1>3. Inv /\ PathInv /\ [Next]_vars => [Kept]_vars
  BY RequestStep
<1> QED BY <1>1, <1>2, <1>3, PTL DEF Spec, PathRequestKept

=============================================================================
