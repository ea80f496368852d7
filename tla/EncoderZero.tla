---------------------------- MODULE EncoderZero ----------------------------
(***************************************************************************)
(* The magnetic encoders of one arm and the key z: setZeroPos of robot.cpp *)
(* asks the encoders for their angles and takes them as the zero of the    *)
(* joints; canrx (rtcan.cpp 71-164) unpacks what they answer               *)
(* (magneticencoder.cpp 20-126).                                           *)
(*                                                                         *)
(* There are two kinds of encoder.  One hears the frame of its own         *)
(* identifier and answers with eight bytes, an angle in hundredths of a    *)
(* degree; the other hears 0x600 + id and answers with four, a count of    *)
(* 16384 to the turn.  setZeroPos waits for the answers of the first kind  *)
(* only: it asks the second kind in the statement before it takes their    *)
(* angles.                                                                 *)
(*                                                                         *)
(* Angles are integers, 256000 to the degree, so that neither kind is      *)
(* rounded; pos_init is left in degrees.  An answer is unpacked before the *)
(* arm has moved on, and within the sleeps of setZeroPos, or it is lost.   *)
(***************************************************************************)
EXTENDS Integers

CONSTANTS
  First, Last,   (* identifiers of the encoders, 7 and 10                    *)
  AngleInit,     (* sensor_angle_init                                        *)
  Readings       (* what an encoder of each kind may read                    *)

Encoders == First..Last
Kinds == {"angle", "count"}

Degree == 256000
Turn == 360 * Degree
Half == 180 * Degree

(* What a reading of 1 stands for: a hundredth of a degree, a 16384th of a   *)
(* turn.                                                                     *)
AngleSteps == 36000
CountSteps == 16384
AngleUnit == Turn \div AngleSteps
CountUnit == Turn \div CountSteps

ASSUME EncoderAssumption ==
  /\ First \in 7..10 /\ Last \in 7..10 /\ First <= Last
  /\ AngleInit \in [Encoders -> -Half..Half]
  /\ Readings \in [Kinds -> SUBSET Nat]
  /\ Readings["angle"] \subseteq 0..AngleSteps - 1
  /\ Readings["count"] \subseteq 0..CountSteps - 1

(* Slip: the angle is wrapped on one side only.                              *)
WrapSlip(x) == IF x < -Half THEN x + Turn ELSE x

Wrap(x) == IF x > Half THEN x - Turn ELSE IF x < -Half THEN x + Turn ELSE x

(* The encoders whose sign is changed.                                       *)
Reversed(k) == IF k = "angle" THEN {9, 10} ELSE {7, 8}

(* unpack_reply and unpack_reply1: the angle that encoder e of kind k means  *)
(* by the reading r.                                                         *)
Unpacked(e, k, r) ==
  LET sum == IF k = "angle" THEN r * AngleUnit + AngleInit[e]
                            ELSE r * CountUnit - AngleInit[e]
  IN  IF e \in Reversed(k) THEN -Wrap(sum) ELSE Wrap(sum)

(* A float that has no value yet.                                            *)
Unset == 2 * Turn

VARIABLES
  kind,        (* the kind of each encoder                                   *)
  shaft,       (* what each encoder reads now                                *)
  pending,     (* the encoders that have been asked and have not answered    *)
  pos,         (* pos of each encoder                                        *)
  posInit,     (* pos_init of each encoder                                   *)
  step,        (* the next step of setZeroPos                                *)
  i,           (* its loop variable, as an identifier                        *)
  undisturbed, (* history: nothing moved and no answer was lost since it     *)
               (* began                                                      *)
  presses      (* history: how often z has been carried out since then, to 2 *)

joints == <<kind, shaft>>
zeroing == <<step, i, undisturbed, presses>>
encVars == <<joints, pending, pos, posInit, zeroing>>

Of(k) == {e \in Encoders : kind[e] = k}

EncInit ==
  /\ kind \in [Encoders -> Kinds]
  /\ shaft \in [Encoders -> Readings["angle"] \cup Readings["count"]]
  /\ \A e \in Encoders : shaft[e] \in Readings[kind[e]]
  /\ pending = {}
  /\ pos = [e \in Encoders |-> Unset] /\ posInit = [e \in Encoders |-> Unset]
  /\ step = "idle" /\ i = First
  /\ undisturbed = FALSE /\ presses = 0

Disturb == undisturbed' = FALSE /\ presses' = 0

(* The arm is moved, by a motion or by hand.                                 *)
Move(e) ==
  /\ \E r \in Readings[kind[e]] : shaft' = [shaft EXCEPT ![e] = r]
  /\ Disturb
  /\ UNCHANGED <<kind, pending, pos, posInit, step, i>>

(* canrx of an answer.                                                       *)
CanrxEncoder(e) ==
  /\ e \in pending
  /\ pending' = pending \ {e}
  /\ pos' = [pos EXCEPT ![e] = Unpacked(e, kind[e], shaft[e])]
  /\ UNCHANGED <<joints, posInit, zeroing>>

(* A question or its answer is lost.                                         *)
Lose(e) ==
  /\ e \in pending
  /\ pending' = pending \ {e}
  /\ Disturb
  /\ UNCHANGED <<joints, pos, posInit, step, i>>

(* The first cycle of a path asks the first three encoders too.              *)
PathBegins ==
  /\ pending' = pending \cup (Of("angle") \ {10})
  /\ UNCHANGED <<joints, pos, posInit, zeroing>>

(* setZeroPos: canTx(i+7) for every encoder, then usleep(10000).             *)
AskAngles ==
  /\ step = "idle"
  /\ step' = "sleep"
  /\ pending' = pending \cup Of("angle")
  /\ undisturbed' = TRUE
  /\ UNCHANGED <<joints, pos, posInit, i, presses>>

Wake ==
  /\ step = "sleep" /\ pending = {}
  /\ step' = "ask"
  /\ UNCHANGED <<joints, pending, pos, posInit, i, undisturbed, presses>>

(* Slip: the identifier is decimal, as in lines 955 and 1126.                *)
AskCountSlip ==
  /\ step = "ask"
  /\ step' = "take"
  /\ UNCHANGED <<joints, pending, pos, posInit, i, undisturbed, presses>>

(* canTx(i+0x607), which an encoder of the first kind does not hear.         *)
AskCount ==
  /\ step = "ask"
  /\ step' = "take"
  /\ pending' = pending \cup ({i} \cap Of("count"))
  /\ UNCHANGED <<joints, pos, posInit, i, undisturbed, presses>>

(* encoders[i]->setZeroPos(), whether or not the encoder has answered.       *)
Take ==
  /\ step = "take"
  /\ posInit' = [posInit EXCEPT ![i] = pos[i]]
  /\ IF i < Last THEN step' = "ask" /\ i' = i + 1
                 ELSE step' = "settle" /\ i' = First
  /\ UNCHANGED <<joints, pending, pos, undisturbed, presses>>

(* The second usleep(10000), after which setZeroPos is done with the         *)
(* encoders.                                                                 *)
Settle ==
  /\ step = "settle" /\ pending = {}
  /\ step' = "idle"
  /\ presses' = IF ~undisturbed THEN 0 ELSE IF presses = 0 THEN 1 ELSE 2
  /\ UNCHANGED <<joints, pending, pos, posInit, i, undisturbed>>

SetZeroPos == AskAngles \/ Wake \/ AskCount \/ Take \/ Settle

EncNext ==
  \/ SetZeroPos
  \/ PathBegins
  \/ \E e \in Encoders : Move(e) \/ CanrxEncoder(e) \/ Lose(e)

EncSpec == EncInit /\ [][EncNext]_encVars

-----------------------------------------------------------------------------
(* Every variable has its type.                                              *)
EncTypeOK ==
  /\ kind \in [Encoders -> Kinds]
  /\ shaft \in [Encoders -> Nat]
  /\ \A e \in Encoders : shaft[e] \in Readings[kind[e]]
  /\ pending \subseteq Encoders
  /\ pos \in [Encoders -> Int] /\ posInit \in [Encoders -> Int]
  /\ step \in {"idle", "sleep", "ask", "take", "settle"}
  /\ i \in Encoders
  /\ undisturbed \in BOOLEAN /\ presses \in 0..2

(* x is, up to whole turns, the angle of the joint when encoder e reads r.   *)
SameAngle(x, e, r) ==
  LET sum == IF kind[e] = "angle" THEN r * AngleUnit + AngleInit[e]
                                  ELSE r * CountUnit - AngleInit[e]
      ahead == IF e \in Reversed(kind[e]) THEN -x ELSE x
  IN  \E n \in -1..1 : ahead = sum + n * Turn

(* An angle that canrx stores lies within half a turn of zero and is the     *)
(* angle of the joint: one correction by a turn is enough for every reading  *)
(* and every zero of the two kinds (magneticencoder.cpp 29-36, 104-111), and *)
(* the sign is changed after it.                                             *)
AngleTrue ==
  [][\A e \in Encoders :
       pos'[e] # pos[e] => /\ -Half <= pos'[e] /\ pos'[e] <= Half
                           /\ SameAngle(pos'[e], e, shaft[e])]_encVars

(* While the arm stands still and no answer is lost, one press of z gives    *)
(* every encoder of the first kind its zero, and two presses do it for the   *)
(* second kind too, whose angle each press takes from the press before       *)
(* (robot.cpp 1604-1614).                                                    *)
ZeroTrue ==
  \A e \in Encoders :
    presses >= (IF kind[e] = "angle" THEN 1 ELSE 2)
      => posInit[e] = Unpacked(e, kind[e], shaft[e])

=============================================================================
