------------------------- MODULE MotorDriveProofs -------------------------
(***************************************************************************)
(* Proofs about module MotorDrive, for every set of positions and torques  *)
(* and every limit.                                                        *)
(***************************************************************************)
EXTENDS MotorDrive, TLAPS

(* A torque about to be sent is one sendCMD type 3 has accepted.             *)
TorqueKept == tpc = "sendTor" => tcmd \in Accepted

TypeInv == TypeOK /\ TorqueKept

LEMMA InitTyped == Init => TypeInv
  BY DriveAssumption DEF Init, TypeInv, TypeOK, TorqueKept, CycleSteps, Frames, None

(* Every step keeps the types.                                               *)
LEMMA NextTyped == TypeInv /\ [Next]_vars => TypeInv'
  <1> SUFFICES ASSUME TypeInv, [Next]_vars PROVE TypeInv'
    OBVIOUS
  <1>1. CASE Protect
    BY <1>1, DriveAssumption DEF Protect, Goto, TypeInv, TypeOK, TorqueKept, CycleSteps, Frames, Accepted, cmdVars, busVars
  <1>2. CASE Set(FALSE, "cut", "cutTx")
    BY <1>2, DriveAssumption DEF Set, Stores, Goto, TypeInv, TypeOK, TorqueKept, CycleSteps, Frames, Accepted, cmdVars, busVars
  <1>3. CASE Tx(FALSE, "cutTx", "mail")
    BY <1>3, DriveAssumption DEF Tx, SwitchFrame, Goto, TypeInv, TypeOK, TorqueKept, CycleSteps, Frames, Accepted, cmdVars, busVars
  <1>4. CASE Mail
    BY <1>4, DriveAssumption DEF Mail, Goto, TypeInv, TypeOK, TorqueKept, CycleSteps, Frames, Accepted, cmdVars, busVars
  <1>5. CASE Set(TRUE, "on", "onTx")
    BY <1>5, DriveAssumption DEF Set, Stores, Goto, TypeInv, TypeOK, TorqueKept, CycleSteps, Frames, Accepted, cmdVars, busVars
  <1>6. CASE Tx(TRUE, "onTx", "protect")
    BY <1>6, DriveAssumption DEF Tx, SwitchFrame, Goto, TypeInv, TypeOK, TorqueKept, CycleSteps, Frames, Accepted, cmdVars, busVars
  <1>7. CASE Set(FALSE, "off", "offTx")
    BY <1>7, DriveAssumption DEF Set, Stores, Goto, TypeInv, TypeOK, TorqueKept, CycleSteps, Frames, Accepted, cmdVars, busVars
  <1>8. CASE Tx(FALSE, "offTx", "protect")
    BY <1>8, DriveAssumption DEF Tx, SwitchFrame, Goto, TypeInv, TypeOK, TorqueKept, CycleSteps, Frames, Accepted, cmdVars, busVars
  <1>9. CASE Run
    BY <1>9, DriveAssumption DEF Run, Goto, TypeInv, TypeOK, TorqueKept, CycleSteps, Frames, Accepted, cmdVars, busVars
  <1>10. CASE AskPosition
    BY <1>10, DriveAssumption DEF AskPosition, Goto, TypeInv, TypeOK, TorqueKept, CycleSteps, Frames, Accepted, cmdVars, busVars
  <1>11. CASE Check
    BY <1>11, DriveAssumption DEF Check, Goto, TypeInv, TypeOK, TorqueKept, CycleSteps, Frames, Accepted, cmdVars, busVars
  <1>12. CASE Send
    BY <1>12, DriveAssumption DEF Send, Goto, TypeInv, TypeOK, TorqueKept, CycleSteps, Frames, Accepted, cmdVars, busVars
  <1>13. CASE Keep
    BY <1>13, DriveAssumption DEF Keep, Goto, TypeInv, TypeOK, TorqueKept, CycleSteps, Frames, Accepted, cmdVars, busVars
  <1>14. CASE AskTorque
    BY <1>14, DriveAssumption DEF AskTorque, Goto, TypeInv, TypeOK, TorqueKept, CycleSteps, Frames, Accepted, cmdVars, busVars
  <1>15. CASE SendTorque
    BY <1>15, DriveAssumption DEF SendTorque, Goto, TypeInv, TypeOK, TorqueKept, CycleSteps, Frames, Accepted, cmdVars, busVars
  <1>16. CASE Follow
    BY <1>16, DriveAssumption DEF Follow, Goto, TypeInv, TypeOK, TorqueKept, CycleSteps, Frames, Accepted, cmdVars, busVars
  <1>17. CASE Key
    BY <1>17, DriveAssumption DEF Key, TypeInv, TypeOK, TorqueKept, CycleSteps, Frames, Accepted, cmdVars, busVars
  <1>18. CASE ZeroOff
    <2>1. 0 \in Accepted
      BY DriveAssumption DEF Accepted
    <2>2. pcmd' = posr /\ tcmd' = 0 /\ enabled' = FALSE /\ zpc' = "tx"
            /\ UNCHANGED <<want, armed, tripped, pcmdLast, posr, sent, power, tpc>>
      BY <1>18 DEF ZeroOff, Stores, busVars
    <2> QED
      BY <2>1, <2>2, DriveAssumption DEF TypeInv, TypeOK, TorqueKept
  <1>19. CASE ZeroTx
    BY <1>19, DriveAssumption DEF ZeroTx, SwitchFrame, TypeInv, TypeOK, TorqueKept, CycleSteps, Frames, Accepted, cmdVars, busVars
  <1>20. CASE ZeroLast
    BY <1>20, DriveAssumption DEF ZeroLast, TypeInv, TypeOK, TorqueKept, CycleSteps, Frames, Accepted, cmdVars, busVars
  <1>21. CASE Reply
    BY <1>21, DriveAssumption DEF Reply, TypeInv, TypeOK, TorqueKept, CycleSteps, Frames, Accepted, cmdVars, busVars
  <1>22. CASE UNCHANGED vars
    BY <1>22 DEF vars, cmdVars, busVars, TypeInv, TypeOK, TorqueKept, CycleSteps, Frames, Accepted, cmdVars, busVars
  <1> QED
    BY <1>1, <1>2, <1>3, <1>4, <1>5, <1>6, <1>7, <1>8, <1>9, <1>10, <1>11, <1>12, <1>13, <1>14, <1>15, <1>16, <1>17, <1>18, <1>19, <1>20, <1>21, <1>22 DEF Next, Cycle, Zero

(* Every variable of the drive keeps its type, and a torque frame carries a  *)
(* torque below the limit: sendCMD type 3 (mitmotor.cpp 262-297).            *)
THEOREM DriveTyping == Spec => []TypeOK
  <1>1. TypeInv => TypeOK
    BY DEF TypeInv
  <1> QED
    BY <1>1, InitTyped, NextTyped, PTL DEF Spec

-----------------------------------------------------------------------------
(* The inductive invariant.  While setZeroPos runs, nothing enables the      *)
(* motor.                                                                    *)
ZeroAlone ==
  zpc # "idle" => want = "NONE" /\ ~enabled /\ tpc \notin {"on", "onTx"}

(* A switching frame is about to be sent by the cycle.                       *)
Switching == tpc \in {"cutTx", "onTx", "offTx"}

(* The last frame is a position frame that no switching has overtaken.       *)
Holding == sent.kind = "pos" /\ zpc # "tx" /\ ~Switching

(* Then pcmd_last is its position, or setZeroPos has changed pcmd_last       *)
(* after it and pcmd, which cannot change while the motor is off, still is.  *)
Remembered ==
  Holding =>
    IF tpc = "keep"
    THEN pcmd = sent.p
    ELSE \/ pcmdLast = sent.p
         \/ ~enabled /\ pcmd = sent.p /\ tpc # "askPos"

(* A position frame sent after the switching frame of setZeroPos.            *)
AfterOff == Holding /\ zpc = "zero" => pcmd = sent.p /\ tpc # "askPos"

(* What Check has established when the frame is sent.                        *)
Checked == Holding /\ tpc = "send" => Dist(pcmd, sent.p) < Step

Followed == tpc = "follow" => sent.kind # "pos"

StepInv == ZeroAlone /\ Remembered /\ AfterOff /\ Checked /\ Followed


LEMMA InitSteps == Init => StepInv
  BY DEF Init, StepInv, ZeroAlone, Remembered, AfterOff, Checked, Followed, Holding, None

(* Every step keeps the invariant.                                           *)
LEMMA NextSteps == TypeOK /\ StepInv /\ [Next]_vars => StepInv'
  <1> SUFFICES ASSUME TypeOK, StepInv, [Next]_vars PROVE StepInv'
    OBVIOUS
  <1>1. CASE Protect
    BY <1>1, DriveAssumption DEF Protect, Goto, StepInv, ZeroAlone, Remembered, AfterOff, Checked, Followed, Holding, Switching, TypeOK, Dist, cmdVars, busVars
  <1>2. CASE Set(FALSE, "cut", "cutTx")
    BY <1>2, DriveAssumption DEF Set, Stores, Goto, StepInv, ZeroAlone, Remembered, AfterOff, Checked, Followed, Holding, Switching, TypeOK, Dist, cmdVars, busVars
  <1>3. CASE Tx(FALSE, "cutTx", "mail")
    BY <1>3, DriveAssumption DEF Tx, SwitchFrame, Goto, StepInv, ZeroAlone, Remembered, AfterOff, Checked, Followed, Holding, Switching, TypeOK, Dist, cmdVars, busVars
  <1>4. CASE Mail
    BY <1>4, DriveAssumption DEF Mail, Goto, StepInv, ZeroAlone, Remembered, AfterOff, Checked, Followed, Holding, Switching, TypeOK, Dist, cmdVars, busVars
  <1>5. CASE Set(TRUE, "on", "onTx")
    BY <1>5, DriveAssumption DEF Set, Stores, Goto, StepInv, ZeroAlone, Remembered, AfterOff, Checked, Followed, Holding, Switching, TypeOK, Dist, cmdVars, busVars
  <1>6. CASE Tx(TRUE, "onTx", "protect")
    BY <1>6, DriveAssumption DEF Tx, SwitchFrame, Goto, StepInv, ZeroAlone, Remembered, AfterOff, Checked, Followed, Holding, Switching, TypeOK, Dist, cmdVars, busVars
  <1>7. CASE Set(FALSE, "off", "offTx")
    BY <1>7, DriveAssumption DEF Set, Stores, Goto, StepInv, ZeroAlone, Remembered, AfterOff, Checked, Followed, Holding, Switching, TypeOK, Dist, cmdVars, busVars
  <1>8. CASE Tx(FALSE, "offTx", "protect")
    BY <1>8, DriveAssumption DEF Tx, SwitchFrame, Goto, StepInv, ZeroAlone, Remembered, AfterOff, Checked, Followed, Holding, Switching, TypeOK, Dist, cmdVars, busVars
  <1>9. CASE Run
    BY <1>9, DriveAssumption DEF Run, Goto, StepInv, ZeroAlone, Remembered, AfterOff, Checked, Followed, Holding, Switching, TypeOK, Dist, cmdVars, busVars
  <1>10. CASE AskPosition
    BY <1>10, DriveAssumption DEF AskPosition, Goto, StepInv, ZeroAlone, Remembered, AfterOff, Checked, Followed, Holding, Switching, TypeOK, Dist, cmdVars, busVars
  <1>11. CASE Check
    BY <1>11, DriveAssumption DEF Check, Goto, StepInv, ZeroAlone, Remembered, AfterOff, Checked, Followed, Holding, Switching, TypeOK, Dist, cmdVars, busVars
  <1>12. CASE Send
    BY <1>12, DriveAssumption DEF Send, Goto, StepInv, ZeroAlone, Remembered, AfterOff, Checked, Followed, Holding, Switching, TypeOK, Dist, cmdVars, busVars
  <1>13. CASE Keep
    BY <1>13, DriveAssumption DEF Keep, Goto, StepInv, ZeroAlone, Remembered, AfterOff, Checked, Followed, Holding, Switching, TypeOK, Dist, cmdVars, busVars
  <1>14. CASE AskTorque
    BY <1>14, DriveAssumption DEF AskTorque, Goto, StepInv, ZeroAlone, Remembered, AfterOff, Checked, Followed, Holding, Switching, TypeOK, Dist, cmdVars, busVars
  <1>15. CASE SendTorque
    BY <1>15, DriveAssumption DEF SendTorque, Goto, StepInv, ZeroAlone, Remembered, AfterOff, Checked, Followed, Holding, Switching, TypeOK, Dist, cmdVars, busVars
  <1>16. CASE Follow
    BY <1>16, DriveAssumption DEF Follow, Goto, StepInv, ZeroAlone, Remembered, AfterOff, Checked, Followed, Holding, Switching, TypeOK, Dist, cmdVars, busVars
  <1>17. CASE Key
    BY <1>17, DriveAssumption DEF Key, StepInv, ZeroAlone, Remembered, AfterOff, Checked, Followed, Holding, Switching, TypeOK, Dist, cmdVars, busVars
  <1>18. CASE ZeroOff
    BY <1>18, DriveAssumption DEF ZeroOff, Stores, Slept, StepInv, ZeroAlone, Remembered, AfterOff, Checked, Followed, Holding, Switching, TypeOK, Dist, cmdVars, busVars
  <1>19. CASE ZeroTx
    BY <1>19, DriveAssumption DEF ZeroTx, SwitchFrame, StepInv, ZeroAlone, Remembered, AfterOff, Checked, Followed, Holding, Switching, TypeOK, Dist, cmdVars, busVars
  <1>20. CASE ZeroLast
    BY <1>20, DriveAssumption DEF ZeroLast, StepInv, ZeroAlone, Remembered, AfterOff, Checked, Followed, Holding, Switching, TypeOK, Dist, cmdVars, busVars
  <1>21. CASE Reply
    BY <1>21, DriveAssumption DEF Reply, StepInv, ZeroAlone, Remembered, AfterOff, Checked, Followed, Holding, Switching, TypeOK, Dist, cmdVars, busVars
  <1>22. CASE UNCHANGED vars
    BY <1>22 DEF vars, cmdVars, busVars, StepInv, ZeroAlone, Remembered, AfterOff, Checked, Followed, Holding, Switching, TypeOK, Dist, cmdVars, busVars
  <1> QED
    BY <1>1, <1>2, <1>3, <1>4, <1>5, <1>6, <1>7, <1>8, <1>9, <1>10, <1>11, <1>12, <1>13, <1>14, <1>15, <1>16, <1>17, <1>18, <1>19, <1>20, <1>21, <1>22 DEF Next, Cycle, Zero

(* Two position frames that follow each other on the bus are less than a     *)
(* step apart: sendCMD type 1 and fetchState (mitmotor.cpp 205-256, 387-405) *)
(* against every other writer of pcmd and pcmd_last.                         *)
THEOREM StepSafety == Spec => StepBounded
  <1> DEFINE Bounded ==
        (sent # sent' /\ sent.kind = "pos" /\ sent'.kind = "pos" /\ zpc # "tx")
          => Dist(sent'.p, sent.p) < Step
  <1>1. StepInv /\ [Next]_vars => [Bounded]_vars
    <2> SUFFICES ASSUME StepInv, Next, sent # sent', sent.kind = "pos",
                        sent'.kind = "pos", zpc # "tx"
                 PROVE  Dist(sent'.p, sent.p) < Step
      OBVIOUS
    <2>1. CASE Send
      BY <2>1 DEF Send, Goto, StepInv, Checked, Holding, Switching
    <2>2. ASSUME NEW flag \in BOOLEAN, SwitchFrame(flag) PROVE FALSE
      <3>1. sent'.kind # "pos"
        BY <2>2 DEF SwitchFrame
      <3> QED
        BY <3>1
    <2>3. CASE SendTorque
      <3>1. sent'.kind = "tor"
        BY <2>3 DEF SendTorque
      <3> QED
        BY <3>1
    <2>4. CASE UNCHANGED sent
      BY <2>4
    <2>5. Send \/ SendTorque \/ SwitchFrame(TRUE) \/ SwitchFrame(FALSE) \/ UNCHANGED sent
      BY DEF Next, Cycle, Zero, Protect, Set, Tx, Mail, Run, AskPosition, Check, Keep,
             AskTorque, Follow, Key, ZeroOff, ZeroTx, ZeroLast, Reply, busVars
    <2> QED
      BY <2>1, <2>2, <2>3, <2>4, <2>5
  <1> QED
    BY <1>1, InitTyped, NextTyped, InitSteps, NextSteps, PTL DEF Spec, TypeInv, StepBounded

-----------------------------------------------------------------------------
(* The switches.  Only an armed arm is on the way to switch on or is cut by  *)
(* a trip, and an arm that is not armed has its switching off before it.     *)
Armed ==
  /\ tpc \in {"cut", "cutTx", "on", "onTx"} => armed
  /\ tpc = "onTx" => enabled
  /\ tpc \in {"cutTx", "offTx"} => ~enabled
  /\ ~armed /\ enabled => tpc = "off"
  /\ ~armed /\ power => tpc \in {"off", "offTx"}

SwitchInv == ZeroAlone /\ SwitchesAgree /\ Armed

LEMMA InitSwitches == Init => SwitchInv
  BY DEF Init, SwitchInv, ZeroAlone, SwitchesAgree, Armed

(* Every step keeps the switches in line.                                    *)
LEMMA NextSwitches == TypeOK /\ SwitchInv /\ [Next]_vars => SwitchInv'
  <1> SUFFICES ASSUME TypeOK, SwitchInv, [Next]_vars PROVE SwitchInv'
    OBVIOUS
  <1>1. CASE Protect
    BY <1>1 DEF Protect, Goto, SwitchInv, ZeroAlone, SwitchesAgree, Armed, TypeOK, CycleSteps, cmdVars, busVars
  <1>2. CASE Set(FALSE, "cut", "cutTx")
    BY <1>2 DEF Set, Stores, Goto, SwitchInv, ZeroAlone, SwitchesAgree, Armed, TypeOK, CycleSteps, cmdVars, busVars
  <1>3. CASE Tx(FALSE, "cutTx", "mail")
    BY <1>3 DEF Tx, SwitchFrame, Goto, SwitchInv, ZeroAlone, SwitchesAgree, Armed, TypeOK, CycleSteps, cmdVars, busVars
  <1>4. CASE Mail
    BY <1>4 DEF Mail, Goto, SwitchInv, ZeroAlone, SwitchesAgree, Armed, TypeOK, CycleSteps, cmdVars, busVars
  <1>5. CASE Set(TRUE, "on", "onTx")
    BY <1>5 DEF Set, Stores, Goto, SwitchInv, ZeroAlone, SwitchesAgree, Armed, TypeOK, CycleSteps, cmdVars, busVars
  <1>6. CASE Tx(TRUE, "onTx", "protect")
    BY <1>6 DEF Tx, SwitchFrame, Goto, SwitchInv, ZeroAlone, SwitchesAgree, Armed, TypeOK, CycleSteps, cmdVars, busVars
  <1>7. CASE Set(FALSE, "off", "offTx")
    BY <1>7 DEF Set, Stores, Goto, SwitchInv, ZeroAlone, SwitchesAgree, Armed, TypeOK, CycleSteps, cmdVars, busVars
  <1>8. CASE Tx(FALSE, "offTx", "protect")
    BY <1>8 DEF Tx, SwitchFrame, Goto, SwitchInv, ZeroAlone, SwitchesAgree, Armed, TypeOK, CycleSteps, cmdVars, busVars
  <1>9. CASE Run
    BY <1>9 DEF Run, Goto, SwitchInv, ZeroAlone, SwitchesAgree, Armed, TypeOK, CycleSteps, cmdVars, busVars
  <1>10. CASE AskPosition
    BY <1>10 DEF AskPosition, Goto, SwitchInv, ZeroAlone, SwitchesAgree, Armed, TypeOK, CycleSteps, cmdVars, busVars
  <1>11. CASE Check
    BY <1>11 DEF Check, Goto, SwitchInv, ZeroAlone, SwitchesAgree, Armed, TypeOK, CycleSteps, cmdVars, busVars
  <1>12. CASE Send
    BY <1>12 DEF Send, Goto, SwitchInv, ZeroAlone, SwitchesAgree, Armed, TypeOK, CycleSteps, cmdVars, busVars
  <1>13. CASE Keep
    BY <1>13 DEF Keep, Goto, SwitchInv, ZeroAlone, SwitchesAgree, Armed, TypeOK, CycleSteps, cmdVars, busVars
  <1>14. CASE AskTorque
    BY <1>14 DEF AskTorque, Goto, SwitchInv, ZeroAlone, SwitchesAgree, Armed, TypeOK, CycleSteps, cmdVars, busVars
  <1>15. CASE SendTorque
    BY <1>15 DEF SendTorque, Goto, SwitchInv, ZeroAlone, SwitchesAgree, Armed, TypeOK, CycleSteps, cmdVars, busVars
  <1>16. CASE Follow
    BY <1>16 DEF Follow, Goto, SwitchInv, ZeroAlone, SwitchesAgree, Armed, TypeOK, CycleSteps, cmdVars, busVars
  <1>17. CASE Key
    BY <1>17 DEF Key, SwitchInv, ZeroAlone, SwitchesAgree, Armed, TypeOK, CycleSteps, cmdVars, busVars
  <1>18. CASE ZeroOff
    BY <1>18 DEF ZeroOff, Stores, Slept, SwitchInv, ZeroAlone, SwitchesAgree, Armed, TypeOK, CycleSteps, cmdVars, busVars
  <1>19. CASE ZeroTx
    BY <1>19 DEF ZeroTx, SwitchFrame, SwitchInv, ZeroAlone, SwitchesAgree, Armed, TypeOK, CycleSteps, cmdVars, busVars
  <1>20. CASE ZeroLast
    BY <1>20 DEF ZeroLast, SwitchInv, ZeroAlone, SwitchesAgree, Armed, TypeOK, CycleSteps, cmdVars, busVars
  <1>21. CASE Reply
    BY <1>21 DEF Reply, SwitchInv, ZeroAlone, SwitchesAgree, Armed, TypeOK, CycleSteps, cmdVars, busVars
  <1>22. CASE UNCHANGED vars
    BY <1>22 DEF vars, SwitchInv, ZeroAlone, SwitchesAgree, Armed, TypeOK, CycleSteps, cmdVars, busVars
  <1> QED
    BY <1>1, <1>2, <1>3, <1>4, <1>5, <1>6, <1>7, <1>8, <1>9, <1>10, <1>11,
       <1>12, <1>13, <1>14, <1>15, <1>16, <1>17, <1>18, <1>19, <1>20, <1>21, <1>22
    DEF Next, Cycle, Zero

LEMMA Switches == Spec => [](TypeOK /\ SwitchInv)
  <1>1. TypeInv => TypeOK
    BY DEF TypeInv
  <1> QED
    BY <1>1, InitTyped, NextTyped, InitSwitches, NextSwitches, PTL DEF Spec

(* enableMotor (mitmotor.cpp 407-431) called by the cycle and by setZeroPos, *)
(* and protect, which clears m_ctrl.enabled alone: a motor that is on for    *)
(* the program is on, and a motor that is on and off for the program has its *)
(* switching off still before it.                                            *)
THEOREM SwitchAgreement == Spec => []SwitchesAgree
  <1>1. SwitchInv => SwitchesAgree
    BY DEF SwitchInv
  <1> QED
    BY <1>1, Switches, PTL

-----------------------------------------------------------------------------
(* The refinement.  Taking the mailbox enables or disables; the frames and   *)
(* the stores that follow change nothing of it; everything else cuts.        *)
Driven == [a \in {"arm"} |-> SwitchOn]
Still  == [a \in {"arm"} |-> "stop"]
Enabled == [a \in {"arm"} |-> armed]

(* Switches that go off one by one are the arm losing its drive.             *)
LEMMA Losing ==
  ASSUME UNCHANGED armed, SwitchOn' \subseteq SwitchOn
  PROVE  Session!SNext
  <1>1. Driven'["arm"] \in SUBSET Driven["arm"]
    BY DEF Driven
  <1>2. Driven' = [Driven EXCEPT !["arm"] = Driven'["arm"]]
    BY DEF Driven
  <1>3. Enabled' = Enabled /\ Still' = Still
    BY DEF Enabled, Still
  <1>4. Session!Lose("arm")
    BY <1>1, <1>2, <1>3 DEF Session!Lose, Session!Cut, Driven, Still, Enabled
  <1> QED
    BY <1>4 DEF Session!SNext

(* The mailbox with a command in it switches the whole arm.                  *)
LEMMA Taking == TypeOK /\ SwitchInv /\ Mail => [Session!SNext]_Session!svars
  <1> SUFFICES ASSUME TypeOK, SwitchInv, Mail PROVE [Session!SNext]_Session!svars
    OBVIOUS
  <1>1. CASE want = "ENABLE_MOTORS"
    <2>1. armed' = TRUE /\ tpc' = "on"
      BY <1>1 DEF Mail, Goto
    <2>2. SwitchOn' = {"object", "bus"}
      BY <2>1 DEF SwitchOn
    <2>3. Enabled' = [Enabled EXCEPT !["arm"] = TRUE]
            /\ Driven' = [Driven EXCEPT !["arm"] = {"object", "bus"}]
            /\ Still' = Still
      BY <2>1, <2>2 DEF Enabled, Driven, Still
    <2>4. Session!Enable("arm")
      BY <2>3 DEF Session!Enable, Driven, Still, Enabled
    <2> QED
      BY <2>4 DEF Session!SNext
  <1>2. CASE want = "DISABLE_MOTORS"
    <2>1. armed' = FALSE /\ tpc' = "off" /\ tpc = "mail"
      BY <1>2 DEF Mail, Goto
    <2>2. SwitchOn' = {}
      BY <2>1 DEF SwitchOn
    <2>3. Enabled' = [Enabled EXCEPT !["arm"] = FALSE]
            /\ Driven' = [Driven EXCEPT !["arm"] = {}]
            /\ Still' = Still
      BY <2>1, <2>2 DEF Enabled, Driven, Still
    <2>4. Session!Disable("arm")
      BY <2>3 DEF Session!Disable, Driven, Still, Enabled
    <2> QED
      BY <2>4 DEF Session!SNext
  <1>3. CASE want = "NONE"
    <2>1. UNCHANGED <<armed, enabled, power>> /\ tpc = "mail" /\ tpc' = "run"
      BY <1>3 DEF Mail, Goto, busVars
    <2>2. SwitchOn' \subseteq SwitchOn
      BY <2>1 DEF SwitchOn
    <2> QED
      BY <2>1, <2>2, Losing
  <1> QED
    BY <1>1, <1>2, <1>3 DEF TypeOK

(* Every step of the motor is a step of the session or leaves it unchanged.  *)
LEMMA NextSession ==
  TypeOK /\ SwitchInv /\ [Next]_vars => [Session!SNext]_Session!svars
  <1> SUFFICES ASSUME TypeOK, SwitchInv, [Next]_vars
               PROVE  [Session!SNext]_Session!svars
    OBVIOUS
  <1>1. ASSUME UNCHANGED armed, SwitchOn' \subseteq SwitchOn
        PROVE  [Session!SNext]_Session!svars
    BY <1>1, Losing
  <1>2. CASE Set(FALSE, "cut", "cutTx")
    <2>1. UNCHANGED armed /\ SwitchOn' \subseteq SwitchOn
      BY <1>2 DEF Set, Stores, Goto, SwitchOn, SwitchInv, Armed, ZeroAlone, TypeOK, CycleSteps, cmdVars, busVars
    <2> QED
      BY <2>1, <1>1
  <1>3. CASE Tx(FALSE, "cutTx", "mail")
    <2>1. UNCHANGED armed /\ SwitchOn' \subseteq SwitchOn
      BY <1>3 DEF Tx, SwitchFrame, Goto, SwitchOn, SwitchInv, Armed, ZeroAlone, TypeOK, CycleSteps, cmdVars, busVars
    <2> QED
      BY <2>1, <1>1
  <1>4. CASE Set(TRUE, "on", "onTx")
    <2>1. UNCHANGED armed /\ SwitchOn' \subseteq SwitchOn
      BY <1>4 DEF Set, Stores, Goto, SwitchOn, SwitchInv, Armed, ZeroAlone, TypeOK, CycleSteps, cmdVars, busVars
    <2> QED
      BY <2>1, <1>1
  <1>5. CASE Tx(TRUE, "onTx", "protect")
    <2>1. UNCHANGED armed /\ SwitchOn' \subseteq SwitchOn
      BY <1>5 DEF Tx, SwitchFrame, Goto, SwitchOn, SwitchInv, Armed, ZeroAlone, TypeOK, CycleSteps, cmdVars, busVars
    <2> QED
      BY <2>1, <1>1
  <1>6. CASE Set(FALSE, "off", "offTx")
    <2>1. UNCHANGED armed /\ SwitchOn' \subseteq SwitchOn
      BY <1>6 DEF Set, Stores, Goto, SwitchOn, SwitchInv, Armed, ZeroAlone, TypeOK, CycleSteps, cmdVars, busVars
    <2> QED
      BY <2>1, <1>1
  <1>7. CASE Tx(FALSE, "offTx", "protect")
    <2>1. UNCHANGED armed /\ SwitchOn' \subseteq SwitchOn
      BY <1>7 DEF Tx, SwitchFrame, Goto, SwitchOn, SwitchInv, Armed, ZeroAlone, TypeOK, CycleSteps, cmdVars, busVars
    <2> QED
      BY <2>1, <1>1
  <1>8. CASE Protect
    <2>1. UNCHANGED armed /\ SwitchOn' \subseteq SwitchOn
      BY <1>8 DEF Protect, Goto, SwitchOn, SwitchInv, Armed, ZeroAlone, TypeOK, CycleSteps, cmdVars, busVars
    <2> QED
      BY <2>1, <1>1
  <1>9. CASE Run
    <2>1. UNCHANGED armed /\ SwitchOn' \subseteq SwitchOn
      BY <1>9 DEF Run, Goto, SwitchOn, SwitchInv, Armed, ZeroAlone, TypeOK, CycleSteps, cmdVars, busVars
    <2> QED
      BY <2>1, <1>1
  <1>10. CASE AskPosition
    <2>1. UNCHANGED armed /\ SwitchOn' \subseteq SwitchOn
      BY <1>10 DEF AskPosition, Goto, SwitchOn, SwitchInv, Armed, ZeroAlone, TypeOK, CycleSteps, cmdVars, busVars
    <2> QED
      BY <2>1, <1>1
  <1>11. CASE Check
    <2>1. UNCHANGED armed /\ SwitchOn' \subseteq SwitchOn
      BY <1>11 DEF Check, Goto, SwitchOn, SwitchInv, Armed, ZeroAlone, TypeOK, CycleSteps, cmdVars, busVars
    <2> QED
      BY <2>1, <1>1
  <1>12. CASE Send
    <2>1. UNCHANGED armed /\ SwitchOn' \subseteq SwitchOn
      BY <1>12 DEF Send, Goto, SwitchOn, SwitchInv, Armed, ZeroAlone, TypeOK, CycleSteps, cmdVars, busVars
    <2> QED
      BY <2>1, <1>1
  <1>13. CASE Keep
    <2>1. UNCHANGED armed /\ SwitchOn' \subseteq SwitchOn
      BY <1>13 DEF Keep, Goto, SwitchOn, SwitchInv, Armed, ZeroAlone, TypeOK, CycleSteps, cmdVars, busVars
    <2> QED
      BY <2>1, <1>1
  <1>14. CASE AskTorque
    <2>1. UNCHANGED armed /\ SwitchOn' \subseteq SwitchOn
      BY <1>14 DEF AskTorque, Goto, SwitchOn, SwitchInv, Armed, ZeroAlone, TypeOK, CycleSteps, cmdVars, busVars
    <2> QED
      BY <2>1, <1>1
  <1>15. CASE SendTorque
    <2>1. UNCHANGED armed /\ SwitchOn' \subseteq SwitchOn
      BY <1>15 DEF SendTorque, Goto, SwitchOn, SwitchInv, Armed, ZeroAlone, TypeOK, CycleSteps, cmdVars, busVars
    <2> QED
      BY <2>1, <1>1
  <1>16. CASE Follow
    <2>1. UNCHANGED armed /\ SwitchOn' \subseteq SwitchOn
      BY <1>16 DEF Follow, Goto, SwitchOn, SwitchInv, Armed, ZeroAlone, TypeOK, CycleSteps, cmdVars, busVars
    <2> QED
      BY <2>1, <1>1
  <1>17. CASE Key
    <2>1. UNCHANGED armed /\ SwitchOn' \subseteq SwitchOn
      BY <1>17 DEF Key, SwitchOn, SwitchInv, Armed, ZeroAlone, TypeOK, CycleSteps, cmdVars, busVars
    <2> QED
      BY <2>1, <1>1
  <1>18. CASE ZeroOff
    <2>1. UNCHANGED armed /\ SwitchOn' \subseteq SwitchOn
      BY <1>18 DEF ZeroOff, Stores, Slept, SwitchOn, SwitchInv, Armed, ZeroAlone, TypeOK, CycleSteps, cmdVars, busVars
    <2> QED
      BY <2>1, <1>1
  <1>19. CASE ZeroTx
    <2>1. UNCHANGED armed /\ SwitchOn' \subseteq SwitchOn
      BY <1>19 DEF ZeroTx, SwitchFrame, SwitchOn, SwitchInv, Armed, ZeroAlone, TypeOK, CycleSteps, cmdVars, busVars
    <2> QED
      BY <2>1, <1>1
  <1>20. CASE ZeroLast
    <2>1. UNCHANGED armed /\ SwitchOn' \subseteq SwitchOn
      BY <1>20 DEF ZeroLast, SwitchOn, SwitchInv, Armed, ZeroAlone, TypeOK, CycleSteps, cmdVars, busVars
    <2> QED
      BY <2>1, <1>1
  <1>21. CASE Reply
    <2>1. UNCHANGED armed /\ SwitchOn' \subseteq SwitchOn
      BY <1>21 DEF Reply, SwitchOn, SwitchInv, Armed, ZeroAlone, TypeOK, CycleSteps, cmdVars, busVars
    <2> QED
      BY <2>1, <1>1
  <1>22. CASE Mail
    BY <1>22, Taking
  <1>23. CASE UNCHANGED vars
    <2>1. UNCHANGED armed /\ SwitchOn' \subseteq SwitchOn
      BY <1>23 DEF vars, busVars, SwitchOn
    <2> QED
      BY <2>1, <1>1
  <1> QED
    BY <1>2, <1>3, <1>4, <1>5, <1>6, <1>7, <1>8, <1>9, <1>10, <1>11, <1>12,
       <1>13, <1>14, <1>15, <1>16, <1>17, <1>18, <1>19, <1>20, <1>21, <1>22, <1>23
    DEF Next, Cycle, Zero

(* The motor keeps the session of module ArmSession, seen from both of its   *)
(* switches: the mailbox blocks of robot.cpp 319-383 turn both on or both    *)
(* off, and protect, the handlers and setZeroPos, in any interleaving with   *)
(* them, only ever turn one off.                                             *)
THEOREM DriveSession == Spec => KeepsSession
  <1>1. Init => Session!SInit
    <2> SUFFICES ASSUME Init PROVE Session!SInit
      OBVIOUS
    <2>1. SwitchOn = {} /\ armed = FALSE
      BY DEF Init, SwitchOn
    <2> QED
      BY <2>1 DEF Session!SInit
  <1> QED
    BY <1>1, NextSession, Switches, PTL DEF Spec, KeepsSession, Session!SSpec

=============================================================================
