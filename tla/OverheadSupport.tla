--------------------------- MODULE OverheadSupport ---------------------------
(***************************************************************************)
(* The overhead support scene (m_task_state = 1): state_change of main.cpp *)
(* watches the hands of the person and drives both arms to the support     *)
(* posture, into force control and out of it again, and the SUPPORT        *)
(* handler of each arm (robot.cpp 1338-1559) raises and lowers its force   *)
(* by what state_change has stored in state_support.                       *)
(*                                                                         *)
(* Three threads, two shared variables (state_support and cmd) and a real  *)
(* time dependence: usleep(6000000) has to outlast the ramp of the force.  *)
(* Time is counted in control periods: every arm runs one cycle per Tick.  *)
(* The stores of one request and the path that an arm follows are those of *)
(* ArmControl, here reduced to one store and one motion.                   *)
(***************************************************************************)
EXTENDS Integers, Sequences

CONSTANTS
  Limbs,       (* arms[0] and arms[3]                                        *)
  Order,       (* the sequence in which state_change commands them           *)
  Low, High,   (* the limits of m_Support.F, in steps of 0.05: 8 N and 40 N  *)
  SleepTicks,  (* usleep(6000000), in control periods                        *)
  Keys,        (* the keys that may be pressed: 'l', "stop", "other"         *)
  MaxKeys,     (* bound: how many times a key is pressed                     *)
  Undisturbed  (* no cycle of an arm falls between the test of its state in  *)
               (* beginMotion and the store of the request                   *)

ASSUME OverheadAssumption ==
  /\ Order \in Seq(Limbs)
  /\ Low \in Int /\ High \in Int /\ Low < High
  /\ SleepTicks \in Nat
  /\ Keys \subseteq {"l", "stop", "other"}
  /\ MaxKeys \in Nat
  /\ Undisturbed \in BOOLEAN

(* What the tests of flag_p, flag_vxy and flag_vz tell apart: hands above    *)
(* 0.23 m and moving sideways, above and still, below -0.4 m and still.      *)
Postures == {"raised", "steady", "lowered", "other"}

VARIABLES
  hands,   (* Hand_End_P, Hand_End_P1 and the mean speeds                    *)
  stage,   (* state_support                                                  *)
  spc,     (* the next step of state_change                                  *)
  want,    (* the motion it asks for ...                                     *)
  todo,    (* ... and the arms still to be asked                             *)
  wait,    (* what is left of usleep(6000000)                                *)
  mail,    (* the mailbox of each arm: m_SM.action and m_SM.motiontype       *)
  mode,    (* what each arm does: m_SM.state and the onoff flags             *)
  apc,     (* the next step of the cycle of each arm, "done" when it is over *)
  F,       (* m_Support.F of each arm                                        *)
  given,   (* the vector F of the cycle has been given a value               *)
  cmd,     (* the global char cmd                                            *)
  pressed  (* keys pressed so far                                            *)

taskVars == <<mail, mode, apc, F, given>>
planVars == <<stage, spc, want, todo, wait>>
vars == <<hands, planVars, taskVars, cmd, pressed>>

Init ==
  /\ hands = "other"
  /\ stage = "none" /\ spc = "enter" /\ want = "path" /\ todo = <<>> /\ wait = 0
  /\ mail  = [a \in Limbs |-> "none"]
  /\ mode  = [a \in Limbs |-> "stopped"]
  /\ apc   = [a \in Limbs |-> "mail"]
  /\ F     = [a \in Limbs |-> Low]
  /\ given = [a \in Limbs |-> FALSE]
  /\ cmd = "w" /\ pressed = 0

-----------------------------------------------------------------------------
(* state_change: three tests in a row, for ever.                             *)

Plan(from, to) == spc = from /\ spc' = to

(* Ask both arms for motion m.                                               *)
AskBoth(m) == want' = m /\ todo' = Order

TestEnter ==
  /\ IF stage = "none" /\ hands = "raised"
     THEN Plan("enter", "ask") /\ AskBoth("path")
     ELSE Plan("enter", "settle") /\ UNCHANGED <<want, todo>>
  /\ UNCHANGED <<hands, stage, wait, taskVars, cmd, pressed>>

TestSettle ==
  /\ IF stage = "support" /\ hands = "steady"
     THEN Plan("settle", "ask") /\ AskBoth("force") /\ stage' = "force"
     ELSE Plan("settle", "lower") /\ UNCHANGED <<want, todo, stage>>
  /\ UNCHANGED <<hands, wait, taskVars, cmd, pressed>>

TestLower ==
  /\ Plan("lower", "enter")
  /\ stage' = IF stage = "force" /\ hands = "lowered" THEN "none" ELSE stage
  /\ UNCHANGED <<hands, want, todo, wait, taskVars, cmd, pressed>>

(* Slip: an arm is asked whatever it is doing.                               *)
AskSlip ==
  /\ todo # <<>>
  /\ Plan("ask", "put")
  /\ UNCHANGED <<hands, stage, want, todo, wait, taskVars, cmd, pressed>>

(* supporting and support_force: an arm that is not stopped is left out.     *)
Ask ==
  /\ todo # <<>>
  /\ IF mode[Head(todo)] = "stopped"
     THEN Plan("ask", "put") /\ UNCHANGED todo
     ELSE spc = "ask" /\ todo' = Tail(todo) /\ UNCHANGED spc
  /\ UNCHANGED <<hands, stage, want, wait, taskVars, cmd, pressed>>

(* beginMotion, after its test of m_SM.state.                                *)
Put ==
  /\ Plan("put", "ask")
  /\ mail' = [mail EXCEPT ![Head(todo)] = want]
  /\ todo' = Tail(todo)
  /\ UNCHANGED <<hands, stage, want, wait, mode, apc, F, given, cmd, pressed>>

(* Slip: state_support is stored before the sleep.                           *)
AskedSlip ==
  /\ todo = <<>>
  /\ IF want = "path"
     THEN Plan("ask", "sleep") /\ wait' = SleepTicks /\ stage' = "support"
     ELSE Plan("ask", "lower") /\ UNCHANGED <<wait, stage>>
  /\ UNCHANGED <<hands, want, todo, taskVars, cmd, pressed>>

(* Both arms are asked: after supporting the thread sleeps, after            *)
(* support_force it goes on.                                                 *)
Asked ==
  /\ todo = <<>>
  /\ IF want = "path"
     THEN Plan("ask", "sleep") /\ wait' = SleepTicks
     ELSE Plan("ask", "lower") /\ UNCHANGED wait
  /\ UNCHANGED <<hands, stage, want, todo, taskVars, cmd, pressed>>

(* usleep sleeps at least as long as it was told to.                         *)
Wake ==
  /\ wait = 0
  /\ Plan("sleep", "settle")
  /\ stage' = "support"
  /\ UNCHANGED <<hands, want, todo, wait, taskVars, cmd, pressed>>

StateChange == TestEnter \/ TestSettle \/ TestLower \/ Ask \/ Put \/ Asked \/ Wake

-----------------------------------------------------------------------------
(* One cycle of the control task of an arm.                                  *)

Step(a, from, to) == apc[a] = from /\ apc' = [apc EXCEPT ![a] = to]
Become(a, m) == mode' = [mode EXCEPT ![a] = m]
Post(a, m)   == mail' = [mail EXCEPT ![a] = m]

(* BEGIN_MOTION of a stopped arm; the first cycle of the force control runs  *)
(* at once and only clears firsttime.                                        *)
TakeBegin(a) ==
  /\ Step(a, "mail", "done")
  /\ mode[a] = "stopped" /\ mail[a] \in {"path", "force"}
  /\ Become(a, mail[a]) /\ Post(a, "none")
  /\ UNCHANGED <<hands, planVars, F, given, cmd, pressed>>

TakeStop(a) ==
  /\ Step(a, "mail", "done")
  /\ mode[a] # "stopped" /\ mail[a] = "stop"
  /\ Become(a, "stopped") /\ Post(a, "none")
  /\ UNCHANGED <<hands, planVars, F, given, cmd, pressed>>

(* A cycle that follows a path, its last one included, or does nothing.      *)
Follow(a) ==
  /\ Step(a, "mail", "done")
  /\ mode[a] = "stopped" => mail[a] \in {"none", "stop"}
  /\ mode[a] # "stopped" => mail[a] # "stop"
  /\ mode[a] # "force"
  /\ Become(a, mode[a]) \/ Become(a, "stopped")
  /\ UNCHANGED <<hands, planVars, mail, F, given, cmd, pressed>>

(* The local vector F of a force cycle is declared without a value.          *)
StartForce(a) ==
  /\ Step(a, "mail", "up")
  /\ mode[a] = "force" /\ mail[a] # "stop"
  /\ given' = [given EXCEPT ![a] = FALSE]
  /\ UNCHANGED <<hands, planVars, mail, mode, F, cmd, pressed>>

Up(a) ==
  /\ Step(a, "up", "down")
  /\ IF stage = "force"
     THEN /\ F' = [F EXCEPT ![a] = IF @ + 1 >= High THEN High ELSE @ + 1]
          /\ given' = [given EXCEPT ![a] = TRUE]
     ELSE UNCHANGED <<F, given>>
  /\ UNCHANGED <<hands, planVars, mail, mode, cmd, pressed>>

(* Slip: the arm leaves when the force has just become Low, and only then.   *)
DownOnce(a) ==
  /\ Step(a, "down", "leave")
  /\ IF stage = "none"
     THEN /\ F' = [F EXCEPT ![a] = IF @ - 1 <= Low THEN Low ELSE @ - 1]
          /\ given' = [given EXCEPT ![a] = TRUE]
          /\ cmd' = IF F[a] - 1 = Low THEN "l" ELSE cmd
     ELSE UNCHANGED <<F, given, cmd>>
  /\ UNCHANGED <<hands, planVars, mail, mode, pressed>>

(* The second test reads state_support again.                                *)
Down(a) ==
  /\ Step(a, "down", "leave")
  /\ IF stage = "none"
     THEN /\ F' = [F EXCEPT ![a] = IF @ - 1 <= Low THEN Low ELSE @ - 1]
          /\ given' = [given EXCEPT ![a] = TRUE]
          /\ cmd' = IF F[a] - 1 <= Low THEN "l" ELSE cmd
     ELSE UNCHANGED <<F, given, cmd>>
  /\ UNCHANGED <<hands, planVars, mail, mode, pressed>>

(* jointMove sends the torque that balances F, then cmd decides.             *)
Leave(a) ==
  /\ IF cmd = "l"
     THEN Step(a, "leave", "home") /\ Become(a, "stopped") /\ Post(a, "none")
     ELSE Step(a, "leave", "done") /\ UNCHANGED <<mode, mail>>
  /\ UNCHANGED <<hands, planVars, F, given, cmd, pressed>>

(* Slips: cmd is left as it is; the path home is refused.                    *)
HomeKeepsCmd(a) ==
  /\ Step(a, "home", "done")
  /\ Post(a, "path")
  /\ UNCHANGED <<hands, planVars, mode, F, given, cmd, pressed>>

HomeSlip(a) ==
  /\ Step(a, "home", "done")
  /\ cmd' = "w"
  /\ UNCHANGED <<hands, planVars, mail, mode, F, given, pressed>>

(* The path back to the work position; cmd is reset for both arms.           *)
Home(a) ==
  /\ Step(a, "home", "done")
  /\ Post(a, "path")
  /\ cmd' = "w"
  /\ UNCHANGED <<hands, planVars, mode, F, given, pressed>>

Cycle(a) ==
  /\ Undisturbed => ~(spc = "put" /\ Head(todo) = a)
  /\ \/ TakeBegin(a) \/ TakeStop(a) \/ Follow(a) \/ StartForce(a)
     \/ Up(a) \/ Down(a) \/ Leave(a) \/ Home(a)

-----------------------------------------------------------------------------
(* The next control period.                                                  *)
Tick ==
  /\ \A a \in Limbs : apc[a] = "done"
  /\ apc' = [a \in Limbs |-> "mail"]
  /\ wait' = IF wait > 0 THEN wait - 1 ELSE 0
  /\ UNCHANGED <<hands, stage, spc, want, todo, mail, mode, F, given, cmd, pressed>>

(* The person.                                                               *)
Hands ==
  /\ hands' \in Postures \ {hands}
  /\ UNCHANGED <<planVars, taskVars, cmd, pressed>>

(* keyscan: every key lands in cmd; 's' also goes to both mailboxes.         *)
Key ==
  /\ pressed < MaxKeys
  /\ pressed' = pressed + 1
  /\ \E k \in Keys :
       /\ cmd' = IF k = "l" THEN "l" ELSE "key"
       /\ mail' = IF k = "stop" THEN [a \in Limbs |-> "stop"] ELSE mail
  /\ UNCHANGED <<hands, planVars, mode, apc, F, given>>

Next ==
  \/ StateChange
  \/ \E a \in Limbs : Cycle(a)
  \/ Tick \/ Hands \/ Key

Spec == Init /\ [][Next]_vars

(* The threads run and time passes; the person and the keys owe nothing.     *)
Fairness == WF_vars(StateChange) /\ WF_vars(Tick) /\ \A a \in Limbs : WF_vars(Cycle(a))

FairSpec == Spec /\ Fairness

-----------------------------------------------------------------------------
TypeOK ==
  /\ hands \in Postures
  /\ stage \in {"none", "support", "force"}
  /\ spc \in {"enter", "settle", "lower", "ask", "put", "sleep"}
  /\ want \in {"path", "force"}
  /\ todo \in Seq(Limbs)
  /\ wait \in 0..SleepTicks
  /\ mail \in [Limbs -> {"none", "path", "force", "stop"}]
  /\ mode \in [Limbs -> {"stopped", "path", "force"}]
  /\ apc \in [Limbs -> {"mail", "up", "down", "leave", "home", "done"}]
  /\ F \in [Limbs -> Low..High]
  /\ given \in [Limbs -> BOOLEAN]
  /\ cmd \in {"w", "l", "key"}
  /\ pressed \in 0..MaxKeys

(* Every torque of the force control is computed from a force that the cycle *)
(* has set.  The handler declares F without a value and has no branch for    *)
(* state_support = support (robot.cpp 1410-1443): what keeps it out is that  *)
(* the 6 s of state_change outlast the ramp, and that force is stored before *)
(* the arms are asked.                                                       *)
ForceIsGiven == \A a \in Limbs : apc[a] = "leave" => given[a]

(* When state_change wakes up and stores support, no arm is still in the     *)
(* force control of the session before, on the way home from it or about to  *)
(* enter it: both have left it within the sleep, although each Home takes    *)
(* back the cmd the other leaves on.  The handler has no branch for support  *)
(* (main.cpp 2781-2782, robot.cpp 1410-1556).                                *)
ForceIsOver ==
  stage = "support" =>
    \A a \in Limbs : mode[a] # "force" /\ mail[a] # "force" /\ apc[a] # "home"

(* If no key is pressed, an arm leaves the force control only because one of *)
(* the arms has come down to the low end of its ramp: no cmd = 'l' survives  *)
(* the session it was written in and ends the next one as it begins          *)
(* (robot.cpp 1438, 1489, 1549).                                             *)
LeaveHasCause ==
  \A a \in Limbs : (apc[a] = "home" /\ pressed = 0) =>
                     stage = "none" /\ \E b \in Limbs : F[b] = Low

(* When the person has lowered the hands, each arm comes out of the force    *)
(* control, though the other arm resets the cmd both leave on (1549).        *)
BothLeave ==
  \A a \in Limbs : (stage = "none" /\ mode[a] = "force") ~> (mode[a] # "force")

(* The request for a path, home or to the support posture, waits until the   *)
(* arm follows it: state_change, which writes the same mailbox, never puts a *)
(* request for the force control in its place, and an arm that leaves the    *)
(* force control never clears it.  Only a key, the stop, does (main.cpp      *)
(* 2769-2799, robot.cpp 1489-1556).                                          *)
PathRequestKept ==
  [][\A a \in Limbs :
       mail[a] = "path" /\ mail'[a] # "path" /\ pressed' = pressed =>
         mode[a] = "stopped" /\ mode'[a] = "path"]_vars

(* An arm that has left the force control goes on to its path home, although *)
(* state_change writes the same mailbox; only a key, which may be the stop,  *)
(* can keep it from that.                                                    *)
LeaveGoesHome ==
  \A a \in Limbs : (apc[a] = "home") ~> (mode[a] = "path" \/ pressed > 0)

=============================================================================
