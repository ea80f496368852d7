------------------------- MODULE EncoderZeroProofs -------------------------
(***************************************************************************)
(* Proofs about EncoderZero, for every choice of encoders, zeros and       *)
(* readings that EncoderAssumption allows.                                 *)
(***************************************************************************)
EXTENDS EncoderZero, TLAPS

Meant(e) == Unpacked(e, kind[e], shaft[e])

(* The sizes of the angles, of which the provers need no more than this.     *)
LEMMA Sizes ==
  /\ Half \in Int /\ Half > 0 /\ Turn = 2 * Half /\ Turn \in Int
  /\ \A r \in 0..AngleSteps - 1 : r * AngleUnit \in 0..Turn
  /\ \A r \in 0..CountSteps - 1 : r * CountUnit \in 0..Turn
<1>1. Degree = 256000 BY DEF Degree
<1>2. Half = 46080000 BY <1>1, SMTT(10) DEF Half
<1>3. Turn = 92160000 BY <1>1, SMTT(10) DEF Turn
<1>4. AngleSteps = 36000 /\ CountSteps = 16384 BY DEF AngleSteps, CountSteps
<1>5. AngleUnit = 2560 BY <1>3, <1>4, SMTT(10) DEF AngleUnit
<1>6. CountUnit = 5625 BY <1>3, <1>4, SMTT(10) DEF CountUnit
<1>7. Half \in Int /\ Half > 0 /\ Turn = 2 * Half /\ Turn \in Int BY <1>2, <1>3, SMTT(10)
<1>8. ASSUME NEW r \in 0..AngleSteps - 1 PROVE r * AngleUnit \in 0..Turn
  <2>1. r \in Int /\ 0 <= r /\ r <= 35999 BY <1>4, SMTT(10)
  <2>2. r * 2560 \in Int /\ 0 <= r * 2560 /\ r * 2560 <= 92160000 BY <2>1, SMTT(10)
  <2>3. r * AngleUnit = r * 2560 BY <1>5
  <2>4. r * AngleUnit \in Int /\ 0 <= r * AngleUnit /\ r * AngleUnit <= Turn BY <2>2, <2>3, <1>3
  <2> QED BY <2>4, <1>7
<1>9. ASSUME NEW r \in 0..CountSteps - 1 PROVE r * CountUnit \in 0..Turn
  <2>1. r \in Int /\ 0 <= r /\ r <= 16383 BY <1>4, SMTT(10)
  <2>2. r * 5625 \in Int /\ 0 <= r * 5625 /\ r * 5625 <= 92160000 BY <2>1, SMTT(10)
  <2>3. r * CountUnit = r * 5625 BY <1>6
  <2>4. r * CountUnit \in Int /\ 0 <= r * CountUnit /\ r * CountUnit <= Turn BY <2>2, <2>3, <1>3
  <2> QED BY <2>4, <1>7
<1> QED BY <1>7, <1>8, <1>9, SMTT(10)
(* One correction by a turn is enough.                                       *)
LEMMA WrapOnce ==
  ASSUME NEW x \in Int, -3 * Half <= x, x <= 3 * Half
  PROVE  /\ Wrap(x) \in Int
         /\ -Half <= Wrap(x) /\ Wrap(x) <= Half
         /\ \E n \in -1..1 : Wrap(x) = x + n * Turn
<1> DEFINE w == Wrap(x)
<1>1. CASE x > Half
  <2>1. w = x + (-1) * Turn /\ w \in Int /\ -Half <= w /\ w <= Half
    BY <1>1, Sizes, SMTT(10) DEF Wrap
  <2> QED BY <2>1
<1>2. CASE x < -Half
  <2>1. w = x + 1 * Turn /\ w \in Int /\ -Half <= w /\ w <= Half
    BY <1>2, Sizes, SMTT(10) DEF Wrap
  <2> QED BY <2>1
<1>3. CASE -Half <= x /\ x <= Half
  <2>1. w = x + 0 * Turn /\ w \in Int /\ -Half <= w /\ w <= Half
    BY <1>3, Sizes, SMTT(10) DEF Wrap
  <2> QED BY <2>1
<1> QED BY <1>1, <1>2, <1>3, Sizes, SMTT(10)

(* What an encoder answers is an angle of its joint.                         *)
LEMMA UnpackedTrue ==
  ASSUME NEW e \in Encoders, NEW k \in Kinds, NEW r \in Readings[k], kind[e] = k
  PROVE  /\ Unpacked(e, k, r) \in Int
         /\ -Half <= Unpacked(e, k, r) /\ Unpacked(e, k, r) <= Half
         /\ SameAngle(Unpacked(e, k, r), e, r)
<1>1. AngleInit[e] \in Int /\ -Half <= AngleInit[e] /\ AngleInit[e] <= Half
  <2>1. AngleInit \in [Encoders -> -Half..Half] BY EncoderAssumption
  <2>2. AngleInit[e] \in -Half..Half BY <2>1
  <2> QED BY <2>2, Sizes
<1>2. CASE k = "angle"
  <2> DEFINE x == r * AngleUnit + AngleInit[e]
             w == Wrap(x)
             back == e \in Reversed(k)
  <2>1. r \in 0..AngleSteps - 1
    <3>1. Readings["angle"] \subseteq 0..AngleSteps - 1 BY EncoderAssumption
    <3> QED BY <3>1, <1>2
  <2>2. r * AngleUnit \in Int /\ 0 <= r * AngleUnit /\ r * AngleUnit <= Turn BY <2>1, Sizes
  <2>3. x \in Int /\ -3 * Half <= x /\ x <= 3 * Half
    <3> DEFINE y == r * AngleUnit
    <3>1. y \in Int /\ 0 <= y /\ y <= Turn BY <2>2
    <3> HIDE DEF y
    <3>2. y + AngleInit[e] \in Int /\ -3 * Half <= y + AngleInit[e] /\ y + AngleInit[e] <= 3 * Half
      BY <3>1, <1>1, Sizes
    <3> QED BY <3>2 DEF y
  <2>4. Unpacked(e, k, r) = IF back THEN -w ELSE w BY <1>2 DEF Unpacked
  <2>5. \A v : SameAngle(v, e, r) <=> \E n \in -1..1 : (IF back THEN -v ELSE v) = x + n * Turn
    BY <1>2 DEF SameAngle
  <2> HIDE DEF x, w, back
  <2>6. w \in Int /\ -Half <= w /\ w <= Half BY <2>3, WrapOnce DEF w
  <2>7. PICK n \in -1..1 : w = x + n * Turn BY <2>3, WrapOnce DEF w
  <2>8. CASE back
    <3>1. -(-w) = w /\ -w \in Int /\ -Half <= -w /\ -w <= Half BY <2>6, Sizes
    <3>2. SameAngle(-w, e, r) BY <2>5, <2>7, <2>8, <3>1
    <3> QED BY <2>4, <2>8, <3>1, <3>2
  <2>9. CASE ~back
    <3>1. SameAngle(w, e, r) BY <2>5, <2>7, <2>9
    <3> QED BY <2>4, <2>6, <2>9, <3>1
  <2> QED BY <2>8, <2>9
<1>3. CASE k = "count"
  <2> DEFINE x == r * CountUnit - AngleInit[e]
             w == Wrap(x)
             back == e \in Reversed(k)
  <2>1. r \in 0..CountSteps - 1
    <3>1. Readings["count"] \subseteq 0..CountSteps - 1 BY EncoderAssumption
    <3> QED BY <3>1, <1>3
  <2>2. r * CountUnit \in Int /\ 0 <= r * CountUnit /\ r * CountUnit <= Turn BY <2>1, Sizes
  <2>3. x \in Int /\ -3 * Half <= x /\ x <= 3 * Half
    <3> DEFINE y == r * CountUnit
    <3>1. y \in Int /\ 0 <= y /\ y <= Turn BY <2>2
    <3> HIDE DEF y
    <3>2. y - AngleInit[e] \in Int /\ -3 * Half <= y - AngleInit[e] /\ y - AngleInit[e] <= 3 * Half
      BY <3>1, <1>1, Sizes
    <3> QED BY <3>2 DEF y
  <2>4. Unpacked(e, k, r) = IF back THEN -w ELSE w BY <1>3 DEF Unpacked
  <2>5. \A v : SameAngle(v, e, r) <=> \E n \in -1..1 : (IF back THEN -v ELSE v) = x + n * Turn
    BY <1>3 DEF SameAngle
  <2> HIDE DEF x, w, back
  <2>6. w \in Int /\ -Half <= w /\ w <= Half BY <2>3, WrapOnce DEF w
  <2>7. PICK n \in -1..1 : w = x + n * Turn BY <2>3, WrapOnce DEF w
  <2>8. CASE back
    <3>1. -(-w) = w /\ -w \in Int /\ -Half <= -w /\ -w <= Half BY <2>6, Sizes
    <3>2. SameAngle(-w, e, r) BY <2>5, <2>7, <2>8, <3>1
    <3> QED BY <2>4, <2>8, <3>1, <3>2
  <2>9. CASE ~back
    <3>1. SameAngle(w, e, r) BY <2>5, <2>7, <2>9
    <3> QED BY <2>4, <2>6, <2>9, <3>1
  <2> QED BY <2>8, <2>9
<1> QED BY <1>2, <1>3 DEF Kinds

-----------------------------------------------------------------------------
(* The type invariant is inductive.                                          *)
LEMMA Bounds ==
  /\ Encoders \subseteq Int /\ First \in Encoders
  /\ \A n \in Encoders : n < Last => n + 1 \in Encoders
<1>1. First \in 7..10 /\ Last \in 7..10 /\ First <= Last BY EncoderAssumption
<1> QED BY <1>1 DEF Encoders

LEMMA ReadingIsNat == \A k \in Kinds : Readings[k] \subseteq Nat
<1>1. Readings \in [Kinds -> SUBSET Nat] BY EncoderAssumption
<1> QED BY <1>1

LEMMA TypeInit == EncInit => EncTypeOK
<1> SUFFICES ASSUME EncInit PROVE EncTypeOK OBVIOUS
<1>1. Unset \in Int BY DEF Unset, Turn, Degree
<1>2. pos \in [Encoders -> Int] /\ posInit \in [Encoders -> Int] BY <1>1 DEF EncInit
<1>3. i \in Encoders BY Bounds DEF EncInit
<1>4. kind \in [Encoders -> Kinds] /\ \A e \in Encoders : shaft[e] \in Readings[kind[e]]
  BY DEF EncInit
<1>5. shaft \in [Encoders -> Nat]
  <2>1. shaft \in [Encoders -> Readings["angle"] \cup Readings["count"]] BY DEF EncInit
  <2>2. Readings["angle"] \subseteq Nat /\ Readings["count"] \subseteq Nat
    BY ReadingIsNat DEF Kinds
  <2> QED BY <2>1, <2>2
<1>6. presses \in 0..2 BY DEF EncInit
<1>7. pending \subseteq Encoders /\ step = "idle" /\ undisturbed \in BOOLEAN BY DEF EncInit
<1> QED BY <1>2, <1>3, <1>4, <1>5, <1>6, <1>7 DEF EncTypeOK

LEMMA TypeStep == EncTypeOK /\ [EncNext]_encVars => EncTypeOK'
<1> SUFFICES ASSUME EncTypeOK, [EncNext]_encVars PROVE EncTypeOK' OBVIOUS
<1> USE DEF EncTypeOK, joints, zeroing
<1>1. CASE AskAngles BY <1>1 DEF AskAngles, Of
<1>2. CASE Wake BY <1>2 DEF Wake
<1>3. CASE AskCount BY <1>3 DEF AskCount, Of
<1>4. CASE Take
  <2>1. i' \in Encoders /\ step' \in {"ask", "settle"} BY <1>4, Bounds DEF Take
  <2>2. posInit' \in [Encoders -> Int] BY <1>4 DEF Take
  <2>3. UNCHANGED <<kind, shaft, pending, pos, undisturbed, presses>> BY <1>4 DEF Take
  <2> QED BY <2>1, <2>2, <2>3
<1>5. CASE Settle
  <2>1. presses' \in 0..2 BY <1>5 DEF Settle
  <2>2. step' = "idle" /\ UNCHANGED <<kind, shaft, pending, pos, posInit, i, undisturbed>>
    BY <1>5 DEF Settle
  <2> QED BY <2>1, <2>2
<1>6. CASE PathBegins BY <1>6 DEF PathBegins, Of
<1>7. 0 \in 0..2 OBVIOUS
<1>8. ASSUME NEW e \in Encoders, Move(e) PROVE EncTypeOK'
  <2>1. PICK r \in Readings[kind[e]] : shaft' = [shaft EXCEPT ![e] = r] BY <1>8 DEF Move
  <2>2. r \in Nat BY <2>1, ReadingIsNat
  <2>3. shaft' \in [Encoders -> Nat] BY <2>1, <2>2
  <2>4. /\ undisturbed' = FALSE /\ presses' = 0
        /\ UNCHANGED <<kind, pending, pos, posInit, step, i>>
    BY <1>8 DEF Move, Disturb
  <2>5. \A f \in Encoders : shaft'[f] \in Readings[kind'[f]] BY <2>1, <2>4
  <2> QED BY <1>7, <2>3, <2>4, <2>5
<1>9. ASSUME NEW e \in Encoders, CanrxEncoder(e) PROVE EncTypeOK'
  <2>1. Meant(e) \in Int BY UnpackedTrue DEF Meant
  <2>2. pos' \in [Encoders -> Int] BY <1>9, <2>1 DEF CanrxEncoder, Meant
  <2>3. UNCHANGED <<kind, shaft, posInit, step, i, undisturbed, presses>>
    BY <1>9 DEF CanrxEncoder
  <2>4. pending' \subseteq Encoders BY <1>9 DEF CanrxEncoder
  <2> QED BY <2>2, <2>3, <2>4
<1>10. ASSUME NEW e \in Encoders, Lose(e) PROVE EncTypeOK'
  <2>1. /\ undisturbed' = FALSE /\ presses' = 0 /\ pending' \subseteq Encoders
        /\ UNCHANGED <<kind, shaft, pos, posInit, step, i>>
    BY <1>10 DEF Lose, Disturb
  <2> QED BY <1>7, <2>1
<1>11. CASE UNCHANGED encVars BY <1>11 DEF encVars
<1> QED
  BY <1>1, <1>2, <1>3, <1>4, <1>5, <1>6, <1>8, <1>9, <1>10, <1>11 DEF EncNext, SetZeroPos

(* Every variable keeps its type: the loop of setZeroPos stays within the    *)
(* encoders and every angle is a number.                                     *)
THEOREM EncTyping == EncSpec => []EncTypeOK
BY TypeInit, TypeStep, PTL DEF EncSpec

(* Every angle canrx stores is the angle of the joint within half a turn,    *)
(* whatever the zeros and the readings: the wrap of magneticencoder.cpp      *)
(* needs no second correction.                                               *)
THEOREM AngleSafety == EncSpec => AngleTrue
<1> DEFINE Good(e) == pos'[e] # pos[e] => /\ -Half <= pos'[e] /\ pos'[e] <= Half
                                          /\ SameAngle(pos'[e], e, shaft[e])
<1>1. ASSUME EncTypeOK, [EncNext]_encVars PROVE [\A e \in Encoders : Good(e)]_encVars
  <2>1. ASSUME NEW f \in Encoders, CanrxEncoder(f), NEW e \in Encoders PROVE Good(e)
    <3>1. CASE e = f
      <4>1. pos'[e] = Unpacked(e, kind[e], shaft[e])
        BY <2>1, <3>1, <1>1 DEF CanrxEncoder, EncTypeOK
      <4>2. kind[e] \in Kinds /\ shaft[e] \in Readings[kind[e]] BY <1>1 DEF EncTypeOK
      <4> QED BY <4>1, <4>2, UnpackedTrue
    <3>2. CASE e # f BY <2>1, <3>2, <1>1 DEF CanrxEncoder, EncTypeOK
    <3> QED BY <3>1, <3>2
  <2>2. CASE UNCHANGED pos BY <2>2
  <2>3. ASSUME NEW e \in Encoders, Move(e) \/ Lose(e) PROVE UNCHANGED pos
    BY <2>3 DEF Move, Lose
  <2>4. CASE SetZeroPos \/ PathBegins
    BY <2>2, <2>4 DEF SetZeroPos, PathBegins, AskAngles, Wake, AskCount, Take, Settle
  <2>5. CASE UNCHANGED encVars BY <2>5
  <2> QED BY <1>1, <2>1, <2>2, <2>3, <2>4, <2>5 DEF EncNext
<1> QED BY <1>1, EncTyping, PTL DEF EncSpec, AngleTrue

-----------------------------------------------------------------------------
(* The invariant behind ZeroTrue.  A joint is fresh while what canrx last    *)
(* stored is what its encoder reads; only a movement ends that.              *)
Fresh(e) == pos[e] = Meant(e)
Zeroed(e) == posInit[e] = Meant(e)

(* What the presses that are over have left behind.                          *)
Remembered ==
  /\ presses >= 1 => \A e \in Encoders : Fresh(e) /\ (kind[e] = "angle" => Zeroed(e))
  /\ presses >= 2 => \A e \in Encoders : Zeroed(e)
  /\ presses >= 1 /\ step # "idle" => undisturbed

Passed(e) == step = "settle" \/ (step \in {"ask", "take"} /\ e < i)

LoopReset == step \notin {"ask", "take"} => i = First

(* What the press that goes on has done so far.                              *)
Underway ==
  undisturbed =>
    \A e \in Encoders :
      /\ step = "sleep" /\ kind[e] = "angle" => Fresh(e) \/ e \in pending
      /\ step \in {"ask", "take", "settle"} /\ kind[e] = "angle" => Fresh(e)
      /\ Passed(e) \/ (step = "take" /\ e = i) => Fresh(e) \/ e \in pending
      /\ Passed(e) /\ (kind[e] = "angle" \/ presses >= 1) => Zeroed(e)

ZeroInv == EncTypeOK /\ LoopReset /\ Remembered /\ Underway

LEMMA ZeroInvInit == EncInit => ZeroInv
<1> SUFFICES ASSUME EncInit PROVE ZeroInv OBVIOUS
<1>1. EncTypeOK BY TypeInit
<1>2. presses = 0 /\ undisturbed = FALSE BY DEF EncInit
<1>3. Remembered BY <1>2 DEF Remembered
<1>4. Underway BY <1>2 DEF Underway
<1>5. LoopReset BY DEF EncInit, LoopReset
<1> QED BY <1>1, <1>3, <1>4, <1>5 DEF ZeroInv

(* A movement or a lost answer ends what both invariants speak of.           *)
LEMMA DisturbStep == ASSUME Disturb PROVE Remembered' /\ Underway'
<1>1. presses' = 0 /\ undisturbed' = FALSE BY DEF Disturb
<1> QED BY <1>1 DEF Remembered, Underway

(* An answer: the joint becomes fresh, and no other joint changes.           *)
LEMMA AnswerStep ==
  ASSUME ZeroInv, NEW f \in Encoders, CanrxEncoder(f)
  PROVE  Remembered' /\ Underway'
<1>1. UNCHANGED <<kind, shaft, posInit, step, i, undisturbed, presses>>
  BY DEF CanrxEncoder, joints, zeroing
<1>2. \A e \in Encoders : Meant(e)' = Meant(e) BY <1>1 DEF Meant
<1>3. \A e \in Encoders : pos'[e] = IF e = f THEN Meant(f) ELSE pos[e]
  BY DEF CanrxEncoder, Meant, ZeroInv, EncTypeOK
<1>4. pending' = pending \ {f} BY DEF CanrxEncoder
<1>5. \A e \in Encoders : Fresh(e) => Fresh(e)' BY <1>2, <1>3 DEF Fresh
<1>6. \A e \in Encoders : Fresh(e) \/ e \in pending => Fresh(e)' \/ e \in pending'
  BY <1>2, <1>3, <1>4, <1>5 DEF Fresh
<1>7. \A e \in Encoders : Zeroed(e)' = Zeroed(e) BY <1>1, <1>2 DEF Zeroed
<1>8. \A e \in Encoders : Passed(e)' = Passed(e) BY <1>1 DEF Passed
<1>9. Remembered' BY <1>1, <1>5, <1>7 DEF Remembered, ZeroInv
<1>10. Underway' BY <1>1, <1>5, <1>6, <1>7, <1>8 DEF Underway, ZeroInv
<1> QED BY <1>9, <1>10

(* A step that changes neither the arm nor what is stored of it.             *)
LEMMA StoredKept ==
  ASSUME UNCHANGED <<kind, shaft, pos, posInit>>
  PROVE  \A e \in Encoders : Fresh(e)' = Fresh(e) /\ Zeroed(e)' = Zeroed(e)
BY DEF Fresh, Zeroed, Meant

LEMMA PathBeginsStep == ASSUME ZeroInv, PathBegins PROVE Remembered' /\ Underway'
<1>1. /\ UNCHANGED <<kind, shaft, pos, posInit, step, i, undisturbed, presses>>
      /\ pending \subseteq pending'
  BY DEF PathBegins, joints, zeroing
<1>2. \A e \in Encoders : Passed(e)' = Passed(e) BY <1>1 DEF Passed
<1>3. Remembered' BY <1>1, StoredKept DEF Remembered, ZeroInv
<1>4. Underway' BY <1>1, <1>2, StoredKept DEF Underway, ZeroInv
<1> QED BY <1>3, <1>4

LEMMA AskAnglesStep == ASSUME ZeroInv, AskAngles PROVE Remembered' /\ Underway'
<1>1. /\ UNCHANGED <<kind, shaft, pos, posInit, i, presses>>
      /\ step' = "sleep" /\ undisturbed' = TRUE
      /\ pending' = pending \cup Of("angle")
  BY DEF AskAngles, joints
<1>2. Remembered' BY <1>1, StoredKept DEF Remembered, ZeroInv
<1>3. \A e \in Encoders : kind[e] = "angle" => e \in pending' BY <1>1 DEF Of
<1>4. \A e \in Encoders : ~Passed(e)' BY <1>1 DEF Passed
<1>5. Underway' BY <1>1, <1>3, <1>4 DEF Underway
<1> QED BY <1>2, <1>5

LEMMA WakeStep == ASSUME ZeroInv, Wake PROVE Remembered' /\ Underway'
<1>1. /\ UNCHANGED <<kind, shaft, pending, pos, posInit, i, undisturbed, presses>>
      /\ step = "sleep" /\ step' = "ask" /\ pending = {}
  BY DEF Wake, joints
<1>2. Remembered' BY <1>1, StoredKept DEF Remembered, ZeroInv
<1>3. \A e \in Encoders : ~Passed(e)'
  <2>1. i' = First BY <1>1 DEF ZeroInv, LoopReset
  <2>2. \A e \in Encoders : ~(e < First) BY EncoderAssumption DEF Encoders
  <2> QED BY <1>1, <2>1, <2>2 DEF Passed
<1>4. undisturbed => \A e \in Encoders : kind[e] = "angle" => Fresh(e)
  BY <1>1 DEF Underway, ZeroInv
<1>5. Underway' BY <1>1, <1>3, <1>4, StoredKept DEF Underway
<1> QED BY <1>2, <1>5

LEMMA AskCountStep == ASSUME ZeroInv, AskCount PROVE Remembered' /\ Underway'
<1>1. /\ UNCHANGED <<kind, shaft, pos, posInit, i, undisturbed, presses>>
      /\ step = "ask" /\ step' = "take" /\ pending' = pending \cup ({i} \cap Of("count"))
  BY DEF AskCount, joints
<1>2. Remembered' BY <1>1, StoredKept DEF Remembered, ZeroInv
<1>3. \A e \in Encoders : Passed(e)' = Passed(e) BY <1>1 DEF Passed
<1>4. undisturbed => \A e \in Encoders :
        /\ kind[e] = "angle" => Fresh(e)
        /\ Passed(e) => Fresh(e) \/ e \in pending
        /\ Passed(e) /\ (kind[e] = "angle" \/ presses >= 1) => Zeroed(e)
  BY <1>1 DEF Underway, ZeroInv
<1>5. kind[i] = "count" => i \in pending' BY <1>1 DEF Of, ZeroInv, EncTypeOK
<1>6. \A e \in Encoders : kind[e] = "angle" \/ kind[e] = "count"
  BY DEF ZeroInv, EncTypeOK, Kinds
<1>7. Underway' BY <1>1, <1>3, <1>4, <1>5, <1>6, StoredKept DEF Underway
<1> QED BY <1>2, <1>7

(* The angle is taken: it is right if the joint is fresh.                    *)
LEMMA TakeStep == ASSUME ZeroInv, Take PROVE Remembered' /\ Underway'
<1>1. /\ UNCHANGED <<kind, shaft, pending, pos, undisturbed, presses>>
      /\ step = "take" /\ posInit' = [posInit EXCEPT ![i] = pos[i]]
  BY DEF Take, joints
<1>2. i \in Encoders /\ posInit \in [Encoders -> Int] BY DEF ZeroInv, EncTypeOK
<1>3. \A e \in Encoders : posInit'[e] = IF e = i THEN pos[e] ELSE posInit[e] BY <1>1, <1>2
<1>4. \A e \in Encoders : Meant(e)' = Meant(e) BY <1>1 DEF Meant
<1>5. \A e \in Encoders : Fresh(e)' = Fresh(e) BY <1>1, <1>4 DEF Fresh
<1>6. \A e \in Encoders : Zeroed(e)' = IF e = i THEN Fresh(e) ELSE Zeroed(e)
  BY <1>3, <1>4 DEF Fresh, Zeroed
<1>7. Remembered'
  <2>1. presses >= 1 => undisturbed /\ \A e \in Encoders : Fresh(e)
    BY <1>1 DEF Remembered, ZeroInv
  <2>2. presses >= 2 => presses >= 1 BY DEF ZeroInv, EncTypeOK
  <2> QED BY <1>1, <1>5, <1>6, <2>1, <2>2 DEF Remembered, ZeroInv
<1>8. step' \in {"ask", "settle"} BY DEF Take
<1>9. \A e \in Encoders : Passed(e)' => Passed(e) \/ e = i
  <2>1. CASE i < Last
    <3>1. step' = "ask" /\ i' = i + 1 BY <2>1 DEF Take
    <3>2. \A e \in Encoders : e < i + 1 => e < i \/ e = i BY <1>2, Bounds
    <3> QED BY <1>1, <3>1, <3>2 DEF Passed
  <2>2. CASE ~(i < Last)
    <3>1. \A e \in Encoders : e < i \/ e = i
      BY <1>2, <2>2, EncoderAssumption DEF Encoders
    <3> QED BY <1>1, <3>1 DEF Passed
  <2> QED BY <2>1, <2>2
<1>10. undisturbed => \A e \in Encoders :
         /\ kind[e] = "angle" => Fresh(e)
         /\ Passed(e) \/ e = i => Fresh(e) \/ e \in pending
         /\ Passed(e) /\ (kind[e] = "angle" \/ presses >= 1) => Zeroed(e)
  BY <1>1 DEF Underway, ZeroInv
<1>11. presses >= 1 => \A e \in Encoders : Fresh(e) BY DEF Remembered, ZeroInv
<1>12. Underway' BY <1>1, <1>5, <1>6, <1>8, <1>9, <1>10, <1>11 DEF Underway
<1> QED BY <1>7, <1>12

(* The press is over: all its answers have come.                             *)
LEMMA SettleStep == ASSUME ZeroInv, Settle PROVE Remembered' /\ Underway'
<1>1. /\ UNCHANGED <<kind, shaft, pending, pos, posInit, i, undisturbed>>
      /\ step = "settle" /\ step' = "idle" /\ pending = {}
      /\ presses' = IF ~undisturbed THEN 0 ELSE IF presses = 0 THEN 1 ELSE 2
  BY DEF Settle, joints
<1>2. \A e \in Encoders : Passed(e) BY <1>1 DEF Passed
<1>3. undisturbed => \A e \in Encoders :
        /\ Fresh(e)
        /\ kind[e] = "angle" \/ presses >= 1 => Zeroed(e)
  BY <1>1, <1>2 DEF Underway, ZeroInv
<1>4. presses \in 0..2 BY DEF ZeroInv, EncTypeOK
<1>5. (presses' >= 1 => undisturbed) /\ (presses' >= 2 => presses >= 1) BY <1>1, <1>4
<1>6. presses' >= 2 => presses' >= 1 BY <1>1
<1>7. Remembered' BY <1>1, <1>3, <1>5, <1>6, StoredKept DEF Remembered
<1>8. \A e \in Encoders : ~Passed(e)' BY <1>1 DEF Passed
<1>9. Underway' BY <1>1, <1>8 DEF Underway
<1> QED BY <1>7, <1>9

LEMMA LoopResetStep == ASSUME ZeroInv, [EncNext]_encVars PROVE LoopReset'
<1> USE DEF LoopReset, ZeroInv
<1>1. CASE UNCHANGED <<step, i>> BY <1>1
<1>2. CASE AskAngles BY <1>2 DEF AskAngles
<1>3. CASE Wake BY <1>3 DEF Wake
<1>4. CASE AskCount BY <1>4 DEF AskCount
<1>5. CASE Take BY <1>5 DEF Take
<1>6. CASE Settle BY <1>6 DEF Settle
<1>7. CASE PathBegins BY <1>1, <1>7 DEF PathBegins, zeroing
<1>8. ASSUME NEW e \in Encoders, Move(e) \/ CanrxEncoder(e) \/ Lose(e) PROVE LoopReset'
  BY <1>1, <1>8 DEF Move, CanrxEncoder, Lose, zeroing
<1>9. CASE UNCHANGED encVars BY <1>1, <1>9 DEF encVars, zeroing
<1> QED BY <1>2, <1>3, <1>4, <1>5, <1>6, <1>7, <1>8, <1>9 DEF EncNext, SetZeroPos

LEMMA ZeroInvStep == ZeroInv /\ [EncNext]_encVars => ZeroInv'
<1> SUFFICES ASSUME ZeroInv, [EncNext]_encVars PROVE ZeroInv' OBVIOUS
<1>1. EncTypeOK' BY TypeStep DEF ZeroInv
<1>2. LoopReset' BY LoopResetStep
<1>3. CASE SetZeroPos
  BY <1>3, AskAnglesStep, WakeStep, AskCountStep, TakeStep, SettleStep, <1>1, <1>2
  DEF SetZeroPos, ZeroInv
<1>4. CASE PathBegins BY <1>1, <1>2, <1>4, PathBeginsStep DEF ZeroInv
<1>5. ASSUME NEW e \in Encoders, Move(e) \/ Lose(e) PROVE ZeroInv'
  <2>1. Disturb BY <1>5 DEF Move, Lose
  <2> QED BY <1>1, <1>2, <2>1, DisturbStep DEF ZeroInv
<1>6. ASSUME NEW e \in Encoders, CanrxEncoder(e) PROVE ZeroInv'
  BY <1>1, <1>2, <1>6, AnswerStep DEF ZeroInv
<1>7. CASE UNCHANGED encVars
  <2>1. UNCHANGED <<kind, shaft, pending, pos, posInit, step, i, undisturbed, presses>>
    BY <1>7 DEF encVars, joints, zeroing
  <2>2. \A e \in Encoders : Passed(e)' = Passed(e) BY <2>1 DEF Passed
  <2>3. Remembered' BY <2>1, StoredKept DEF Remembered, ZeroInv
  <2>4. Underway' BY <2>1, <2>2, StoredKept DEF Underway, ZeroInv
  <2> QED BY <1>1, <1>2, <2>3, <2>4 DEF ZeroInv
<1> QED BY <1>3, <1>4, <1>5, <1>6, <1>7 DEF EncNext

(* While the arm stands still and no answer is lost, one press of z gives    *)
(* the encoders of the first kind their zeros, and two presses all of them,  *)
(* for any number of encoders of each kind and whenever the paths of the arm *)
(* ask the same encoders.                                                    *)
THEOREM ZeroSafety == EncSpec => []ZeroTrue
<1>1. ZeroInv => ZeroTrue
  <2> SUFFICES ASSUME ZeroInv, NEW e \in Encoders,
                      presses >= (IF kind[e] = "angle" THEN 1 ELSE 2)
               PROVE  Zeroed(e)
    BY DEF ZeroTrue, Zeroed, Meant
  <2>1. CASE kind[e] = "angle" BY <2>1 DEF ZeroInv, Remembered
  <2>2. CASE kind[e] # "angle" BY <2>2 DEF ZeroInv, Remembered
  <2> QED BY <2>1, <2>2
<1> QED BY <1>1, ZeroInvInit, ZeroInvStep, PTL DEF EncSpec

=============================================================================
