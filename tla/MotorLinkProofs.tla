--------------------------- MODULE MotorLinkProofs ---------------------------
(***************************************************************************)
(* Theorems about MotorLink: for every value a command can carry, inside   *)
(* the limits or not, and every reply of every motor of a bus.             *)
(***************************************************************************)
EXTENDS MotorLink, TLAPS

(* A limited value lies within the limits.                                   *)
LEMMA LimitRange ==
  ASSUME NEW x \in Int, NEW lo \in Int, NEW hi \in Int, lo < hi
  PROVE  Limit(x, lo, hi) \in lo..hi
BY DEF Limit

(* The definition of division, in the form the lemmas below need.            *)
LEMMA Division ==
  ASSUME NEW a \in Nat, NEW b \in Nat \ {0}
  PROVE  /\ a \div b \in Nat
         /\ 0 <= a - (a \div b) * b
         /\ a - (a \div b) * b < b
OBVIOUS

(* FloatToUint gives the last of the top steps that does not exceed x.       *)
LEMMA Quantised ==
  ASSUME NEW lo \in Int, NEW hi \in Int, lo < hi,
         NEW top \in Nat \ {0}, NEW x \in lo..hi
  PROVE  /\ FloatToUint(x, lo, hi, top) \in 0..top
         /\ Stands(FloatToUint(x, lo, hi, top), x, lo, hi, top)
<1> DEFINE a == (x - lo) * top
           b == hi - lo
           n == a \div b
<1>1. a \in Nat /\ b \in Nat \ {0}
  OBVIOUS
<1> HIDE DEF a, b
<1>2. /\ n \in Nat
      /\ 0 <= a - n * b
      /\ a - n * b < b
  BY <1>1, Division
<1>3. n <= top
  <2>1. a <= top * b
    BY DEF a, b
  <2>2. SUFFICES ASSUME n >= top + 1 PROVE FALSE
    BY <1>2
  <2>3. n * b >= (top + 1) * b
    BY <1>1, <1>2, <2>2
  <2> QED BY <1>1, <1>2, <2>1, <2>3
<1> QED
  BY <1>2, <1>3 DEF FloatToUint, Stands, a, b

(* A 12-bit number that is not the highest.                                  *)
Below == 0..Top12 - 1

(* A 12-bit number in the two ways it is cut.                                *)
LEMMA Cut8 ==
  ASSUME NEW x \in Raw12
  PROVE  x \div 256 \in 0..15 /\ x % 256 \in 0..255 /\ (x \div 256) * 256 + (x % 256) = x
BY DEF Raw12, Top12

LEMMA Cut4 ==
  ASSUME NEW x \in Raw12
  PROVE  x \div 16 \in 0..255 /\ x % 16 \in 0..15 /\ (x \div 16) * 16 + (x % 16) = x
BY DEF Raw12, Top12

(* What the motor reads from the bytes of a command are its fields.          *)
LEMMA RoundTrip ==
  ASSUME NEW p \in Raw16, NEW v \in Raw12, NEW kp \in Raw12,
         NEW kd \in Raw12, NEW t \in Raw12
  PROVE  Received(Pack([p |-> p, v |-> v, kp |-> kp, kd |-> kd, t |-> t]))
           = [p |-> p, v |-> v, kp |-> kp, kd |-> kd, t |-> t]
<1>1. (p \div 256) * 256 + (p % 256) = p
  BY DEF Raw16, Top16
<1>2. /\ v % 16 \in 0..15 /\ (v \div 16) * 16 + (v % 16) = v
      /\ kd % 16 \in 0..15 /\ (kd \div 16) * 16 + (kd % 16) = kd
  BY Cut4
<1>3. /\ kp \div 256 \in 0..15 /\ (kp \div 256) * 256 + (kp % 256) = kp
      /\ t \div 256 \in 0..15 /\ (t \div 256) * 256 + (t % 256) = t
  BY Cut8
<1>4. /\ ((v % 16) * 16 + kp \div 256) \div 16 = v % 16
      /\ ((v % 16) * 16 + kp \div 256) % 16 = kp \div 256
  <2>1. PICK h \in 0..15 : h = v % 16
    BY <1>2
  <2>2. PICK l \in 0..15 : l = kp \div 256
    BY <1>3
  <2>3. (h * 16 + l) \div 16 = h /\ (h * 16 + l) % 16 = l
    OBVIOUS
  <2> QED BY <2>1, <2>2, <2>3
<1>5. /\ ((kd % 16) * 16 + t \div 256) \div 16 = kd % 16
      /\ ((kd % 16) * 16 + t \div 256) % 16 = t \div 256
  <2>1. PICK h \in 0..15 : h = kd % 16
    BY <1>2
  <2>2. PICK l \in 0..15 : l = t \div 256
    BY <1>3
  <2>3. (h * 16 + l) \div 16 = h /\ (h * 16 + l) % 16 = l
    OBVIOUS
  <2> QED BY <2>1, <2>2, <2>3
<1> QED
  BY <1>1, <1>2, <1>3, <1>4, <1>5 DEF Received, Pack

(* A command whose kp is not at its maximum is not a frame of enableMotor.   *)
LEMMA CommandIsNoSwitch ==
  ASSUME NEW p \in Raw16, NEW v \in Raw12, NEW kp \in Below,
         NEW kd \in Raw12, NEW t \in Raw12, NEW flag \in BOOLEAN
  PROVE  Pack([p |-> p, v |-> v, kp |-> kp, kd |-> kd, t |-> t]) # Switch(flag)
<1> DEFINE d == Pack([p |-> p, v |-> v, kp |-> kp, kd |-> kd, t |-> t])
<1>1. d[4] = (v % 16) * 16 + kp \div 256 /\ d[5] = kp % 256
  BY DEF Pack
<1>2. ~((v % 16) * 16 + kp \div 256 = 255 /\ kp % 256 = 255)
  BY DEF Raw12, Below, Top12
<1>3. Switch(flag)[4] = 255 /\ Switch(flag)[5] = 255
  BY DEF Switch
<1> QED
  BY <1>1, <1>2, <1>3

-----------------------------------------------------------------------------
(* Every command quantises into the ranges of its fields, and a kp below its *)
(* limit into one below the highest.                                         *)
LEMMA FieldsInRange ==
  ASSUME NEW p \in Int, NEW v \in Int, NEW kp \in Int, NEW kd \in Int, NEW t \in Int,
         NEW f, f = Fields(p, v, kp, kd, t)
  PROVE  /\ f.p \in Raw16 /\ Stands(f.p, Limit(p, -PMax, PMax), -PMax, PMax, Top16)
         /\ f.v \in Raw12 /\ Stands(f.v, Limit(v, -VMax, VMax), -VMax, VMax, Top12)
         /\ f.kp \in Raw12 /\ Stands(f.kp, Limit(kp, 0, KPMax), 0, KPMax, Top12)
         /\ f.kd \in Raw12 /\ Stands(f.kd, Limit(kd, 0, KDMax), 0, KDMax, Top12)
         /\ f.t \in Raw12 /\ Stands(f.t, Limit(t, -TMax, TMax), -TMax, TMax, Top12)
<1>1. ASSUME NEW x \in Int, NEW m \in Nat \ {0}, NEW top \in Nat \ {0}
      PROVE  /\ FloatToUint(Limit(x, -m, m), -m, m, top) \in 0..top
             /\ Stands(FloatToUint(Limit(x, -m, m), -m, m, top), Limit(x, -m, m), -m, m, top)
  <2>1. -m \in Int /\ m \in Int /\ -m < m
    OBVIOUS
  <2>2. Limit(x, -m, m) \in -m..m
    BY <2>1, LimitRange
  <2> QED BY <2>1, <2>2, Quantised
<1>2. ASSUME NEW x \in Int, NEW m \in Nat \ {0}, NEW top \in Nat \ {0}
      PROVE  /\ FloatToUint(Limit(x, 0, m), 0, m, top) \in 0..top
             /\ Stands(FloatToUint(Limit(x, 0, m), 0, m, top), Limit(x, 0, m), 0, m, top)
  <2>1. 0 \in Int /\ m \in Int /\ 0 < m
    OBVIOUS
  <2>2. Limit(x, 0, m) \in 0..m
    BY <2>1, LimitRange
  <2> QED BY <2>1, <2>2, Quantised
<1>3. /\ PMax \in Nat \ {0} /\ VMax \in Nat \ {0} /\ KPMax \in Nat \ {0}
      /\ KDMax \in Nat \ {0} /\ TMax \in Nat \ {0}
      /\ Top16 \in Nat \ {0} /\ Top12 \in Nat \ {0}
  BY DEF PMax, VMax, KPMax, KDMax, TMax, Top16, Top12
<1>4. Raw16 = 0..Top16 /\ Raw12 = 0..Top12
  BY DEF Raw16, Raw12
<1>5. /\ f.p = FloatToUint(Limit(p, -PMax, PMax), -PMax, PMax, Top16)
      /\ f.v = FloatToUint(Limit(v, -VMax, VMax), -VMax, VMax, Top12)
      /\ f.kp = FloatToUint(Limit(kp, 0, KPMax), 0, KPMax, Top12)
      /\ f.kd = FloatToUint(Limit(kd, 0, KDMax), 0, KDMax, Top12)
      /\ f.t = FloatToUint(Limit(t, -TMax, TMax), -TMax, TMax, Top12)
  BY DEF Fields
<1>6. f.p \in 0..Top16 /\ Stands(f.p, Limit(p, -PMax, PMax), -PMax, PMax, Top16)
  BY <1>1, <1>3, <1>5, Zenon
<1>7. f.v \in 0..Top12 /\ Stands(f.v, Limit(v, -VMax, VMax), -VMax, VMax, Top12)
  BY <1>1, <1>3, <1>5, Zenon
<1>8. f.kp \in 0..Top12 /\ Stands(f.kp, Limit(kp, 0, KPMax), 0, KPMax, Top12)
  BY <1>2, <1>3, <1>5, Zenon
<1>9. f.kd \in 0..Top12 /\ Stands(f.kd, Limit(kd, 0, KDMax), 0, KDMax, Top12)
  BY <1>2, <1>3, <1>5, Zenon
<1>10. f.t \in 0..Top12 /\ Stands(f.t, Limit(t, -TMax, TMax), -TMax, TMax, Top12)
  BY <1>1, <1>3, <1>5, Zenon
<1> QED
  BY <1>4, <1>6, <1>7, <1>8, <1>9, <1>10, Zenon

LEMMA GainBelowTop ==
  ASSUME NEW kp \in 0..KPMax - 1
  PROVE  FloatToUint(Limit(kp, 0, KPMax), 0, KPMax, Top12) \in Below
<1>1. Limit(kp, 0, KPMax) = kp
  BY DEF Limit, KPMax
<1>2. kp \in 0..49999
  BY DEF KPMax
<1>3. ((kp - 0) * 4095) \div (50000 - 0) \in 0..4094
  BY <1>2
<1>4. FloatToUint(kp, 0, KPMax, Top12) \in Below
  BY <1>3 DEF FloatToUint, KPMax, Top12, Below
<1> QED
  BY <1>1, <1>4, Zenon

(* What the motor reads is what Fields made of the command.                  *)
LEMMA CommandRead ==
  ASSUME NEW p \in Int, NEW v \in Int, NEW kp \in Int, NEW kd \in Int, NEW t \in Int
  PROVE  Received(Pack(Fields(p, v, kp, kd, t))) = Fields(p, v, kp, kd, t)
<1>1. PICK f : f = Fields(p, v, kp, kd, t)
  OBVIOUS
<1>2. PICK a \in Raw16, b \in Raw12, c \in Raw12, d \in Raw12, e \in Raw12 :
        a = f.p /\ b = f.v /\ c = f.kp /\ d = f.kd /\ e = f.t
  BY <1>1, FieldsInRange, Zenon
<1>3. f = [p |-> a, v |-> b, kp |-> c, kd |-> d, t |-> e]
  BY <1>1, <1>2 DEF Fields
<1>4. Received(Pack([p |-> a, v |-> b, kp |-> c, kd |-> d, t |-> e]))
        = [p |-> a, v |-> b, kp |-> c, kd |-> d, t |-> e]
  BY RoundTrip
<1> QED
  BY <1>1, <1>3, <1>4, Zenon

LEMMA AskedInt ==
  ASSUME NEW p \in Positions, NEW v \in Velocities, NEW kp \in Gains,
         NEW kd \in Dampings, NEW t \in Torques
  PROVE  /\ kp \in 0..KPMax - 1
         /\ p \in Int /\ v \in Int /\ kp \in Int /\ kd \in Int /\ t \in Int
<1>1. kp \in 0..KPMax - 1
  BY LinkAssumption, Zenon
<1>2. kp \in Int
  BY <1>1
<1>3. p \in Int /\ v \in Int /\ kd \in Int /\ t \in Int
  BY LinkAssumption, Zenon
<1> QED
  BY <1>1, <1>2, <1>3, Zenon

-----------------------------------------------------------------------------
Commands == [p : Int, v : Int, kp : Int, kd : Int, t : Int]

(* The invariant of CommandArrives: each motor holds the fields of its last  *)
(* command.                                                                  *)
HoldsCommand ==
  /\ asked \in [Motors -> Commands]
  /\ target = [m \in Motors |->
                 Fields(asked[m].p, asked[m].v, asked[m].kp, asked[m].kd, asked[m].t)]

LEMMA HoldsCommandInit == Init => HoldsCommand
BY DEF Init, HoldsCommand, Rest, Commands

LEMMA HoldsCommandStep == HoldsCommand /\ [Next]_vars => HoldsCommand'
<1> SUFFICES ASSUME HoldsCommand, [Next]_vars PROVE HoldsCommand'
  OBVIOUS
<1>1. ASSUME NEW m \in Motors, NEW p \in Positions, NEW v \in Velocities,
             NEW kp \in Gains, NEW kd \in Dampings, NEW t \in Torques,
             Command(m, p, v, kp, kd, t)
      PROVE  HoldsCommand'
  <2>1. /\ asked' = [asked EXCEPT ![m] = [p |-> p, v |-> v, kp |-> kp, kd |-> kd, t |-> t]]
        /\ target' = [target EXCEPT ![m] = Received(Pack(Fields(p, v, kp, kd, t)))]
    BY <1>1, Zenon DEF Command
  <2>2. p \in Int /\ v \in Int /\ kp \in Int /\ kd \in Int /\ t \in Int
    BY AskedInt
  <2>3. PICK c \in Commands : c = [p |-> p, v |-> v, kp |-> kp, kd |-> kd, t |-> t]
    BY <2>2 DEF Commands
  <2>4. PICK f : f = Fields(p, v, kp, kd, t)
    OBVIOUS
  <2>5. target' = [target EXCEPT ![m] = f]
    <3>1. Received(Pack(Fields(p, v, kp, kd, t))) = Fields(p, v, kp, kd, t)
      BY <2>2, CommandRead
    <3> QED BY <2>1, <2>4, <3>1
  <2>6. c.p = p /\ c.v = v /\ c.kp = kp /\ c.kd = kd /\ c.t = t
    BY <2>3
  <2>7. f = Fields(c.p, c.v, c.kp, c.kd, c.t)
    BY <2>4, <2>6, Zenon
  <2>8. asked' = [asked EXCEPT ![m] = c]
    BY <2>1, <2>3, Zenon
  <2> HIDE DEF Commands
  <2> QED
    BY <2>5, <2>7, <2>8 DEF HoldsCommand
<1>2. ASSUME NEW m \in Motors, EnableMotor(m) \/ Canrx(m) PROVE HoldsCommand'
  BY <1>2 DEF EnableMotor, Canrx, HoldsCommand
<1>3. CASE UNCHANGED vars
  BY <1>3 DEF vars, HoldsCommand
<1> QED
  BY <1>1, <1>2, <1>3, Zenon DEF Next

LEMMA HoldsCommandArrives == HoldsCommand => CommandArrives
<1> SUFFICES ASSUME HoldsCommand, NEW m \in Motors
             PROVE /\ Stands(target[m].p, Limit(asked[m].p, -PMax, PMax), -PMax, PMax, Top16)
                   /\ Stands(target[m].v, Limit(asked[m].v, -VMax, VMax), -VMax, VMax, Top12)
                   /\ Stands(target[m].kp, Limit(asked[m].kp, 0, KPMax), 0, KPMax, Top12)
                   /\ Stands(target[m].kd, Limit(asked[m].kd, 0, KDMax), 0, KDMax, Top12)
                   /\ Stands(target[m].t, Limit(asked[m].t, -TMax, TMax), -TMax, TMax, Top12)
  BY Zenon DEF CommandArrives
<1>1. PICK c \in Commands : c = asked[m]
  BY DEF HoldsCommand
<1>2. c.p \in Int /\ c.v \in Int /\ c.kp \in Int /\ c.kd \in Int /\ c.t \in Int
  BY DEF Commands
<1>3. target[m] = Fields(c.p, c.v, c.kp, c.kd, c.t)
  BY <1>1 DEF HoldsCommand
<1>4. PICK f : f = Fields(c.p, c.v, c.kp, c.kd, c.t)
  OBVIOUS
<1>5. /\ Stands(f.p, Limit(c.p, -PMax, PMax), -PMax, PMax, Top16)
      /\ Stands(f.v, Limit(c.v, -VMax, VMax), -VMax, VMax, Top12)
      /\ Stands(f.kp, Limit(c.kp, 0, KPMax), 0, KPMax, Top12)
      /\ Stands(f.kd, Limit(c.kd, 0, KDMax), 0, KDMax, Top12)
      /\ Stands(f.t, Limit(c.t, -TMax, TMax), -TMax, TMax, Top12)
  BY <1>2, <1>4, FieldsInRange, Zenon
<1> QED
  BY <1>1, <1>3, <1>4, <1>5, Zenon

(* For every command, what the motor reads from the frame is the command     *)
(* within the limits, rounded down by less than one step (pack_cmd).         *)
THEOREM CommandSafety == Spec => []CommandArrives
BY HoldsCommandInit, HoldsCommandStep, HoldsCommandArrives, PTL DEF Spec

-----------------------------------------------------------------------------
(* The invariant of OnlyEnableSwitches.                                      *)
ModeTold == power \in [Motors -> BOOLEAN] /\ told \in [Motors -> BOOLEAN] /\ power = told

LEMMA CommandKeepsMode ==
  ASSUME NEW p \in Positions, NEW v \in Velocities, NEW kp \in Gains,
         NEW kd \in Dampings, NEW t \in Torques, NEW old
  PROVE  Mode(Pack(Fields(p, v, kp, kd, t)), old) = old
<1>1. p \in Int /\ v \in Int /\ kp \in Int /\ kd \in Int /\ t \in Int /\ kp \in 0..KPMax - 1
  BY AskedInt, Zenon
<1>2. PICK f : f = Fields(p, v, kp, kd, t)
  OBVIOUS
<1>3. f.kp \in Below
  <2>1. FloatToUint(Limit(kp, 0, KPMax), 0, KPMax, Top12) \in Below
    BY <1>1, GainBelowTop
  <2>2. f.kp = FloatToUint(Limit(kp, 0, KPMax), 0, KPMax, Top12)
    BY <1>2 DEF Fields
  <2> QED BY <2>1, <2>2, Zenon
<1>4. PICK a \in Raw16, b \in Raw12, c \in Below, d \in Raw12, e \in Raw12 :
        a = f.p /\ b = f.v /\ c = f.kp /\ d = f.kd /\ e = f.t
  BY <1>1, <1>2, <1>3, FieldsInRange, Zenon
<1>5. f = [p |-> a, v |-> b, kp |-> c, kd |-> d, t |-> e]
  BY <1>2, <1>4 DEF Fields
<1>6. ASSUME NEW flag \in BOOLEAN PROVE Pack(f) # Switch(flag)
  <2>1. Pack([p |-> a, v |-> b, kp |-> c, kd |-> d, t |-> e]) # Switch(flag)
    BY CommandIsNoSwitch
  <2> QED BY <2>1, <1>5, Zenon
<1> QED
  BY <1>2, <1>6, Zenon DEF Mode

LEMMA SwitchSwitches ==
  ASSUME NEW flag \in BOOLEAN, NEW old PROVE Mode(Switch(flag), old) = flag
<1>1. PICK on : on = Switch(TRUE)
  OBVIOUS
<1>2. PICK off : off = Switch(FALSE)
  OBVIOUS
<1>3. Switch(TRUE) # Switch(FALSE)
  <2>1. on[8] = 252
    BY <1>1 DEF Switch
  <2>2. off[8] = 253
    BY <1>2 DEF Switch
  <2>3. on # off
    BY <2>1, <2>2
  <2> QED BY <2>3, <1>1, <1>2, Zenon
<1> QED
  BY <1>3, Zenon DEF Mode

LEMMA ModeToldStep == ModeTold /\ [Next]_vars => ModeTold'
<1> SUFFICES ASSUME ModeTold, [Next]_vars PROVE ModeTold'
  OBVIOUS
<1>1. ASSUME NEW m \in Motors, NEW p \in Positions, NEW v \in Velocities,
             NEW kp \in Gains, NEW kd \in Dampings, NEW t \in Torques,
             Command(m, p, v, kp, kd, t)
      PROVE  ModeTold'
  <2>1. power' = [power EXCEPT ![m] = Mode(Pack(Fields(p, v, kp, kd, t)), @)]
    BY <1>1, Zenon DEF Command
  <2>2. Mode(Pack(Fields(p, v, kp, kd, t)), power[m]) = power[m]
    BY CommandKeepsMode
  <2>3. told' = told
    BY <1>1, Zenon DEF Command
  <2> QED BY <2>1, <2>2, <2>3 DEF ModeTold
<1>2. ASSUME NEW m \in Motors, EnableMotor(m) PROVE ModeTold'
  <2>1. PICK flag \in BOOLEAN :
          /\ told' = [told EXCEPT ![m] = flag]
          /\ power' = [power EXCEPT ![m] = Mode(Switch(flag), power[m])]
    BY <1>2, Zenon DEF EnableMotor
  <2>2. power' = [power EXCEPT ![m] = flag]
    BY <2>1, SwitchSwitches, Zenon
  <2> QED BY <2>1, <2>2 DEF ModeTold
<1>3. ASSUME NEW m \in Motors, Canrx(m) PROVE ModeTold'
  BY <1>3 DEF Canrx, ModeTold
<1>4. CASE UNCHANGED vars
  BY <1>4 DEF vars, ModeTold
<1> QED
  BY <1>1, <1>2, <1>3, <1>4, Zenon DEF Next

(* No command is taken for a frame that switches the motor, because kp stays *)
(* below its maximum: a motor runs exactly when enableMotor last said so.    *)
THEOREM SwitchSafety == Spec => []OnlyEnableSwitches
<1>1. Init => ModeTold
  BY DEF Init, ModeTold
<1>2. ModeTold => OnlyEnableSwitches
  BY DEF ModeTold, OnlyEnableSwitches
<1> QED
  BY <1>1, <1>2, ModeToldStep, PTL DEF Spec

-----------------------------------------------------------------------------
(* What unpack_reply takes from an answer is what the motor measured.        *)
LEMMA ReplyRead ==
  ASSUME NEW m \in Motors, NEW p \in Raw16, NEW v \in Raw12, NEW i \in Raw12
  PROVE  LET s == [p |-> p, v |-> v, i |-> i]
         IN  Unpack(Answer(m, s)) = s /\ Answer(m, s)[1] = Id[m]
<1>1. (p \div 256) * 256 + (p % 256) = p
  BY DEF Raw16, Top16
<1>2. v % 16 \in 0..15 /\ (v \div 16) * 16 + (v % 16) = v
  BY Cut4
<1>3. i \div 256 \in 0..15 /\ (i \div 256) * 256 + (i % 256) = i
  BY Cut8
<1>4. /\ ((v % 16) * 16 + i \div 256) \div 16 = v % 16
      /\ ((v % 16) * 16 + i \div 256) % 16 = i \div 256
  <2>1. PICK h \in 0..15 : h = v % 16
    BY <1>2
  <2>2. PICK l \in 0..15 : l = i \div 256
    BY <1>3
  <2>3. (h * 16 + l) \div 16 = h /\ (h * 16 + l) % 16 = l
    OBVIOUS
  <2> QED BY <2>1, <2>2, <2>3
<1> QED
  BY <1>1, <1>2, <1>3, <1>4 DEF Unpack, Answer

(* The invariant of ReplyArrives.                                            *)
SensedNow == now = sensed /\ now \in [Motors -> [p : Raw16, v : Raw12, i : Raw12]]

LEMMA SensedNowStep == SensedNow /\ [Next]_vars => SensedNow'
<1> SUFFICES ASSUME SensedNow, [Next]_vars PROVE SensedNow'
  OBVIOUS
<1>1. ASSUME NEW m \in Motors, Canrx(m) PROVE SensedNow'
  <2>1. PICK s \in Senses :
          /\ sensed' = [sensed EXCEPT ![m] = s]
          /\ now' = [n \in Motors |-> IF Id[n] = Answer(m, s)[1]
                                       THEN Unpack(Answer(m, s)) ELSE now[n]]
    BY <1>1, Zenon DEF Canrx
  <2>2. s \in [p : Raw16, v : Raw12, i : Raw12]
    BY LinkAssumption, Zenon
  <2>3. PICK p \in Raw16, v \in Raw12, i \in Raw12 : s = [p |-> p, v |-> v, i |-> i]
    BY <2>2
  <2>4. Unpack(Answer(m, s)) = s /\ Answer(m, s)[1] = Id[m]
    BY <2>3, ReplyRead
  <2>5. ASSUME NEW n \in Motors PROVE (Id[n] = Id[m]) <=> (n = m)
    BY LinkAssumption, Zenon
  <2>6. now' = [now EXCEPT ![m] = s]
    BY <2>1, <2>4, <2>5 DEF SensedNow
  <2> QED
    BY <2>1, <2>2, <2>6 DEF SensedNow
<1>2. ASSUME NEW m \in Motors, NEW p \in Positions, NEW v \in Velocities,
             NEW kp \in Gains, NEW kd \in Dampings, NEW t \in Torques,
             Command(m, p, v, kp, kd, t)
      PROVE  SensedNow'
  BY <1>2, Zenon DEF Command, SensedNow
<1>3. ASSUME NEW m \in Motors, EnableMotor(m) PROVE SensedNow'
  BY <1>3, Zenon DEF EnableMotor, SensedNow
<1>4. CASE UNCHANGED vars
  BY <1>4, Zenon DEF vars, SensedNow
<1> QED
  BY <1>1, <1>2, <1>3, <1>4, Zenon DEF Next

(* Every measurement reaches the motor object it belongs to, although the    *)
(* replies of all motors of a bus carry one identifier (canrx), because the  *)
(* CAN identifiers of the motors differ.                                     *)
THEOREM ReplySafety == Spec => []ReplyArrives
<1>1. Init => SensedNow
  BY DEF Init, SensedNow, Zero, Raw16, Raw12, Top16, Top12
<1>2. SensedNow => ReplyArrives
  BY DEF SensedNow, ReplyArrives
<1> QED
  BY <1>1, <1>2, SensedNowStep, PTL DEF Spec

=============================================================================
