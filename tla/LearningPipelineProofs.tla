---------------------- MODULE LearningPipelineProofs ----------------------
(***************************************************************************)
(* The offline motion, for all ratios, starts, targets and requested       *)
(* speeds: it keeps the speed it was given and arrives.  The invariant     *)
(* Progress says where the arm is after k steps, and Log what has been     *)
(* recorded of them.  First come the transmission and its inverse, which   *)
(* are the same in robot.cpp.                                              *)
(***************************************************************************)
EXTENDS LearningPipeline, SequenceTheorems, TLAPS

(* An integer multiple divided by its positive factor is the other factor. *)
LEMMA DivideBack ==
    ASSUME NEW a \in Int, NEW b \in Nat \ {0}
    PROVE  (a * b) \div b = a
<1>1. /\ a * b \in Int
      /\ a * b = b * a + 0
  OBVIOUS
<1> QED
  BY <1>1, SMTT(30)

LEMMA MotorChannels ==
    ASSUME NEW j \in Vector
    PROVE  /\ Motor1(j) \in Int /\ Motor2(j) \in Int /\ Motor3(j) \in Int
           /\ Motor1(j) = j[1] * I1
           /\ Motor2(j) + Motor3(j) = j[2] * (2 * I2)
           /\ Motor2(j) - Motor3(j) = j[3] * (2 * I3)
<1>1. /\ j[1] \in Int /\ j[2] \in Int /\ j[3] \in Int
      /\ I1 \in Int /\ I2 \in Int /\ I3 \in Int
  BY RatioAssumption DEF Vector, Channel
<1>2. /\ I1 * j[1] \in Int
      /\ I2 * j[2] \in Int
      /\ I3 * j[3] \in Int
  BY <1>1
<1>3. /\ Motor2(j) + Motor3(j) = 2 * (I2 * j[2])
      /\ Motor2(j) - Motor3(j) = 2 * (I3 * j[3])
  BY <1>2 DEF Motor2, Motor3
<1>4. /\ 2 * (I2 * j[2]) = j[2] * (2 * I2)
      /\ 2 * (I3 * j[3]) = j[3] * (2 * I3)
      /\ I1 * j[1] = j[1] * I1
  BY <1>1, SMTT(30)
<1> QED
  BY <1>2, <1>3, <1>4 DEF Motor1, Motor2, Motor3

(* A joint position sent through the transmission and recovered from the   *)
(* motor positions is the position that was sent, in the three channels    *)
(* the code recovers (robot.cpp jointToMotor and motorToJoint, the same    *)
(* pair in joint_motor_mapper.py).                                         *)
THEOREM PositionRoundTrip ==
    ASSUME NEW j \in Vector
    PROVE  Arm(JointPositions(MotorPositions(j))) = Arm(j)
<1> DEFINE m == MotorPositions(j)
<1>1. /\ j[1] \in Int /\ j[2] \in Int /\ j[3] \in Int
      /\ I1 \in Nat \ {0} /\ 2 * I2 \in Nat \ {0} /\ 2 * I3 \in Nat \ {0}
  BY RatioAssumption DEF Vector, Channel
<1>2. /\ m[1] = Motor1(j) /\ m[2] = Motor2(j) /\ m[3] = Motor3(j)
  BY DEF MotorPositions
<1>3. /\ m[1] \div I1 = j[1]
      /\ (m[2] + m[3]) \div (2 * I2) = j[2]
      /\ (m[2] - m[3]) \div (2 * I3) = j[3]
  BY <1>1, <1>2, MotorChannels, DivideBack
<1>4. Arm(JointPositions(m)) =
        <<m[1] \div I1, (m[2] + m[3]) \div (2 * I2), (m[2] - m[3]) \div (2 * I3)>>
  BY DEF Arm, JointPositions
<1> QED
  BY <1>3, <1>4 DEF Arm

(* Torques sent to the motors come back as the same joint torques, in the  *)
(* unit of MotorTorques (robot.cpp, motorToJoint of jointToMotor).         *)
THEOREM TorqueRoundTrip ==
    ASSUME NEW t \in Vector
    PROVE  \A i \in {1, 2, 3} :
               JointTorques(MotorTorques(t))[i] = TorqueUnit * t[i]
<1> DEFINE m == MotorTorques(t)
<1>1. /\ t[1] \in Int /\ t[2] \in Int /\ t[3] \in Int
      /\ I1 \in Int /\ I2 \in Int /\ I3 \in Int
  BY RatioAssumption DEF Vector, Channel
<1>2. /\ m[1] = 2 * I2 * I3 * t[1]
      /\ m[2] = I1 * (I3 * t[2] + I2 * t[3])
      /\ m[3] = I1 * (I3 * t[2] - I2 * t[3])
  BY DEF MotorTorques
<1>3. I1 * m[1] = TorqueUnit * t[1]
  BY <1>1, <1>2, SMTT(30) DEF TorqueUnit
<1>4. I2 * m[2] + I2 * m[3] = TorqueUnit * t[2]
  BY <1>1, <1>2, SMTT(30) DEF TorqueUnit
<1>5. I3 * m[2] - I3 * m[3] = TorqueUnit * t[3]
  BY <1>1, <1>2, SMTT(30) DEF TorqueUnit
<1> QED
  BY <1>3, <1>4, <1>5 DEF JointTorques

(* The transmission neither gains nor loses power: the motors deliver what *)
(* the joints were asked for, in the unit of MotorTorques.                 *)
THEOREM PowerBalance ==
    ASSUME NEW t \in Vector, NEW v \in Vector
    PROVE  Power(MotorTorques(t), MotorVelocities(v)) = TorqueUnit * Power(t, v)
<1>1. /\ t[1] \in Int /\ t[2] \in Int /\ t[3] \in Int
      /\ v[1] \in Int /\ v[2] \in Int /\ v[3] \in Int
      /\ I1 \in Int /\ I2 \in Int /\ I3 \in Int
  BY RatioAssumption DEF Vector, Channel
<1> DEFINE m1 == (2 * I2 * I3 * t[1]) * (I1 * v[1])
           m2 == (I1 * (I3 * t[2] + I2 * t[3])) * (I2 * v[2] + I3 * v[3])
           m3 == (I1 * (I3 * t[2] - I2 * t[3])) * (I2 * v[2] - I3 * v[3])
           j1 == TorqueUnit * (t[1] * v[1])
           j2 == TorqueUnit * (t[2] * v[2])
           j3 == TorqueUnit * (t[3] * v[3])
<1>2. Power(MotorTorques(t), MotorVelocities(v)) = m1 + m2 + m3
  BY DEF Power, MotorTorques, MotorVelocities, Motor1, Motor2, Motor3
<1>3. m1 = j1
  BY <1>1, SMTT(30) DEF TorqueUnit
<1>4. m2 + m3 = j2 + j3
  BY <1>1, SMTT(60) DEF TorqueUnit
<1>5. TorqueUnit * Power(t, v) = j1 + j2 + j3
  BY <1>1, SMTT(60) DEF Power, TorqueUnit
<1>6. /\ m1 \in Int /\ m2 \in Int /\ m3 \in Int
      /\ j1 \in Int /\ j2 \in Int /\ j3 \in Int
  BY <1>1 DEF TorqueUnit
<1> HIDE DEF m1, m2, m3, j1, j2, j3
<1> QED
  BY <1>2, <1>3, <1>4, <1>5, <1>6

-----------------------------------------------------------------------------
(* The position of step i of a motion of n steps. *)
At(i) == [c \in Channel |-> n * start[c] + (target[c] - start[c]) * i]

(* The displacement of one step, scaled by n as all positions are. *)
Go == Difference(target, start)

Typed == /\ start \in Vector /\ target \in Vector
         /\ limit \in Nat \ {0}
         /\ n \in Nat /\ k \in 0..n
         /\ pos \in Vector /\ vel \in Vector /\ acc \in Vector
         /\ cached \in [1..6 -> Int]

Progress == /\ \A c \in Channel : Distance(start[c], target[c]) <= limit * n
            /\ k > 0 => pos = At(k) /\ cached = Joints(pos)
            /\ vel = IF k <= 1 THEN Zero ELSE Go
            /\ acc = IF k = 2 THEN Go ELSE Zero

(* The velocity reported with step i. *)
Speed(i) == IF i = 1 THEN Zero ELSE Go

Entry(i) == [step     |-> i - 1,
             position |-> MotorPositions(At(i)),
             velocity |-> MotorVelocities(Speed(i))]

Log == commands = [i \in 1..k |-> Entry(i)]

Inv == Typed /\ Progress /\ Log

(* Rounding up covers the distance. *)
LEMMA CeilingCovers ==
    ASSUME NEW d \in Nat, NEW v \in Nat \ {0}
    PROVE  /\ StepCount(d, v) \in Nat \ {0}
           /\ d <= v * StepCount(d, v)
<1>1. CASE d = 0
  BY <1>1 DEF StepCount
<1>2. CASE d # 0
  <2> DEFINE q == (d + v - 1) \div v
             r == (d + v - 1) % v
  <2>1. /\ d + v - 1 \in Nat
        /\ d + v - 1 >= v
    BY <1>2
  <2>2. /\ q \in Int /\ r \in 0..(v - 1)
        /\ d + v - 1 = v * q + r
    BY <2>1, SMTT(30)
  <2>3. d <= v * q
    <3>1. v * q \in Int
      BY <2>2
    <3> HIDE DEF q, r
    <3> QED
      BY <2>2, <3>1
  <2>4. q \in Nat \ {0}
    <3>1. SUFFICES ASSUME q <= 0 PROVE FALSE
      BY <2>2
    <3>2. v * q <= 0
      BY <2>2, <3>1, SMTT(30)
    <3> QED
      <4>1. v * q \in Int
        BY <2>2
      <4> HIDE DEF q, r
      <4> QED
        BY <1>2, <2>3, <3>2, <4>1
  <2> QED
    BY <1>2, <2>3, <2>4 DEF StepCount, Ceiling
<1> QED
  BY <1>1, <1>2

LEMMA InitInv == Init => Inv
<1> SUFFICES ASSUME Init PROVE Inv
  OBVIOUS
<1>1. Zero \in Vector
  BY DEF Zero, Vector
<1>2. Typed
  BY <1>1, MotionAssumption DEF Init, Typed, Joints, Zero, Channel
<1>3. Progress
  BY MotionAssumption DEF Init, Progress, Zero, Channel, Distance, Magnitude
<1>4. Log
  BY DEF Init, Log
<1> QED
  BY <1>2, <1>3, <1>4 DEF Inv

LEMMA PlanKeeps ==
    ASSUME NEW s \in Starts, NEW t \in Targets, NEW request \in Requests,
           NEW d, Inv, Plan(s, t, request, d)
    PROVE  Inv'
<1>1. /\ s \in Vector /\ t \in Vector /\ request \in Int
      /\ DefaultLimit \in Nat \ {0} /\ FloorLimit \in Nat \ {0}
  BY MotionAssumption
<1>2. SpeedOf(request) \in Nat \ {0}
  BY <1>1 DEF SpeedOf
<1>3. d \in Nat
  BY <1>1 DEF Plan, Distance, Magnitude, Vector
<1>4. /\ n' \in Nat \ {0}
      /\ d <= limit' * n'
  BY <1>2, <1>3, CeilingCovers DEF Plan
<1>5. Zero \in Vector
  BY DEF Zero, Vector
<1>6. Typed'
  <2>1. Scale(n', s) \in Vector
    BY <1>1, <1>4 DEF Scale, Vector
  <2> QED
    BY <1>1, <1>2, <1>4, <1>5, <2>1 DEF Plan, Typed, Joints, Vector, Channel
<1>7. Progress'
  <2>1. \A c \in Channel : Distance(s[c], t[c]) <= limit' * n'
    <3> TAKE c \in Channel
    <3>1. Distance(s[c], t[c]) \in Nat /\ Distance(s[c], t[c]) <= d
      BY <1>1 DEF Plan, Distance, Magnitude, Vector
    <3>2. limit' * n' \in Nat
      BY <1>2, <1>4 DEF Plan
    <3> QED
      BY <1>3, <1>4, <3>1, <3>2
  <2> QED
    BY <2>1 DEF Plan, Progress
<1>8. Log'
  BY DEF Plan, Log
<1> QED
  BY <1>6, <1>7, <1>8 DEF Inv

(* The step of the planner: the last one is no exception, it only takes    *)
(* the target without computing it.                                        *)
LEMMA PlannedIsAt ==
    ASSUME Typed, ~Idle
    PROVE  /\ Planned(k + 1) = At(k + 1)
           /\ At(k + 1) \in Vector
           /\ k \in Nat /\ n \in Nat /\ k < n
<1>1. k \in Nat /\ n \in Nat /\ k < n
  BY DEF Typed, Idle
<1>2. At(k + 1) \in Vector
  BY <1>1 DEF Typed, At, Vector
<1>3. CASE k + 1 >= n
  <2>1. k + 1 = n
    BY <1>1, <1>3
  <2>2. \A c \in Channel :
            n * start[c] + (target[c] - start[c]) * n = n * target[c]
    <3> TAKE c \in Channel
    <3>1. start[c] \in Int /\ target[c] \in Int
      BY DEF Typed, Vector
    <3> QED
      BY <1>1, <3>1, SMTT(30)
  <2> QED
    BY <1>1, <1>2, <1>3, <2>1, <2>2 DEF Planned, At, Scale
<1>4. CASE ~(k + 1 >= n)
  BY <1>1, <1>2, <1>4 DEF Planned, At
<1> QED
  BY <1>3, <1>4

LEMMA StepIsGo ==
    ASSUME Typed, NEW i \in Nat
    PROVE  Difference(At(i + 1), At(i)) = Go
<1>1. \A c \in Channel : At(i + 1)[c] - At(i)[c] = target[c] - start[c]
  <2> TAKE c \in Channel
  <2>1. start[c] \in Int /\ target[c] \in Int /\ n \in Nat
    BY DEF Typed, Vector
  <2>2. /\ At(i + 1)[c] = n * start[c] + (target[c] - start[c]) * (i + 1)
        /\ At(i)[c] = n * start[c] + (target[c] - start[c]) * i
    BY DEF At
  <2> DEFINE b == n * start[c]
             g == target[c] - start[c]
  <2>3. b \in Int /\ g \in Int
    BY <2>1
  <2> HIDE DEF b, g
  <2>4. (b + g * (i + 1)) - (b + g * i) = g
    BY <2>3, SMTT(30)
  <2> QED
    BY <2>2, <2>4 DEF b, g
<1> QED
  BY <1>1 DEF Difference, Go

LEMMA AppendNext ==
    ASSUME NEW m \in Nat, NEW f, f = [i \in 1..(m + 1) |-> f[i]]
    PROVE  Append([i \in 1..m |-> f[i]], f[m + 1]) = f
<1> DEFINE S == {f[i] : i \in 1..(m + 1)}
           g == [i \in 1..m |-> f[i]]
<1>1. g \in Seq(S) /\ Len(g) = m /\ f[m + 1] \in S
  <2>1. \A i \in 1..(m + 1) : f[i] \in S
    OBVIOUS
  <2>2. g \in [1..m -> S]
    BY <2>1
  <2>3. g \in Seq(S)
    BY <2>2, SeqDef
  <2>4. Len(g) = m
    BY <2>2, <2>3
  <2> QED
    BY <2>1, <2>3, <2>4
<1>2. /\ Append(g, f[m + 1]) \in Seq(S)
      /\ Len(Append(g, f[m + 1])) = m + 1
      /\ \A i \in 1..m : Append(g, f[m + 1])[i] = g[i]
      /\ Append(g, f[m + 1])[m + 1] = f[m + 1]
  BY <1>1, AppendProperties
<1> QED
  BY <1>2

LEMMA CycleKeeps == Inv /\ Cycle => Inv'
<1> SUFFICES ASSUME Inv, Cycle PROVE Inv'
  OBVIOUS
<1>1. /\ Planned(k + 1) = At(k + 1)
      /\ At(k + 1) \in Vector
      /\ k \in Nat /\ n \in Nat /\ k < n
  BY PlannedIsAt DEF Inv, Cycle
<1>2. /\ k' = k + 1 /\ n' = n /\ start' = start /\ target' = target
      /\ limit' = limit /\ pos' = At(k + 1) /\ cached' = Joints(pos')
  BY <1>1 DEF Cycle, Track
<1>3. Go \in Vector /\ Zero \in Vector
  BY DEF Inv, Typed, Go, Difference, Zero, Vector
<1>4. /\ vel' = IF k' <= 1 THEN Zero ELSE Go
      /\ acc' = IF k' = 2 THEN Go ELSE Zero
  <2>1. CASE k = 0
    BY <1>2, <2>1 DEF Inv, Progress, Cycle, Track
  <2>2. CASE k > 0
    <3>1. vel' = Go
      <4>1. vel' = Difference(At(k + 1), pos)
        BY <1>1, <2>2 DEF Cycle, Track
      <4>2. pos = At(k)
        BY <2>2 DEF Inv, Progress
      <4> QED
        BY <1>1, <4>1, <4>2, StepIsGo DEF Inv
    <3>2. acc' = Difference(Go, vel)
      BY <1>1, <2>2, <3>1 DEF Cycle, Track
    <3>3. CASE k = 1
      <4>1. Difference(Go, Zero) = Go
        BY <1>3 DEF Difference, Zero, Vector
      <4> QED
        BY <1>2, <3>1, <3>2, <3>3, <4>1 DEF Inv, Progress
    <3>4. CASE k > 1
      <4>1. Difference(Go, Go) = Zero
        BY <1>3 DEF Difference, Zero, Vector
      <4> QED
        BY <1>1, <1>2, <3>1, <3>2, <3>4, <4>1 DEF Inv, Progress
    <3> QED
      BY <1>1, <2>2, <3>3, <3>4
  <2> QED
    BY <1>1, <2>1, <2>2
<1>5. Typed'
  <2>1. vel' \in Vector /\ acc' \in Vector
    BY <1>3, <1>4
  <2>2. cached' \in [1..6 -> Int]
    BY <1>1, <1>2 DEF Joints, Vector, Channel
  <2> QED
    BY <1>1, <1>2, <2>1, <2>2 DEF Inv, Typed
<1>6. Progress'
  <2>1. (At(k))' = At(k + 1)
    BY <1>2 DEF At
  <2> QED
    BY <1>1, <1>2, <1>4, <2>1 DEF Inv, Progress, Go, At, Difference
<1>7. Log'
  <2> DEFINE F == [i \in 1..(k + 1) |-> Entry(i)']
  <2>1. \A i \in 1..(k + 1) : Entry(i)' = Entry(i)
    BY <1>2 DEF Entry, At, Speed, Go
  <2>2. commands = [i \in 1..k |-> F[i]]
    BY <1>1, <2>1 DEF Inv, Log
  <2>3. F[k + 1] = [step     |-> k,
                    position |-> MotorPositions(pos'),
                    velocity |-> MotorVelocities(vel')]
    <3>1. k + 1 \in 1..(k + 1) /\ (k + 1) - 1 = k
      BY <1>1
    <3>2. vel' = Speed(k + 1)
      BY <1>1, <1>2, <1>4 DEF Speed
    <3>3. F[k + 1] = Entry(k + 1)
      BY <2>1, <3>1
    <3>4. /\ MotorPositions(At(k + 1)) = MotorPositions(pos')
          /\ MotorVelocities(Speed(k + 1)) = MotorVelocities(vel')
      BY <1>2, <3>2
    <3> HIDE DEF F
    <3>5. Entry(k + 1) = [step     |-> k,
                          position |-> MotorPositions(pos'),
                          velocity |-> MotorVelocities(vel')]
      BY <3>1, <3>4 DEF Entry
    <3> QED
      BY <3>3, <3>5
  <2>4. commands' = Append(commands, F[k + 1])
    BY <2>3 DEF Cycle, Record
  <2>5. commands' = F
    <3> HIDE DEF F
    <3>1. F = [i \in 1..(k + 1) |-> F[i]]
      BY DEF F
    <3> QED
      BY <1>1, <2>2, <2>4, <3>1, AppendNext
  <2> QED
    BY <1>2, <2>5 DEF Log
<1> QED
  BY <1>5, <1>6, <1>7 DEF Inv

THEOREM Invariance == Spec => []Inv
<1>1. Inv /\ [Next]_vars => Inv'
  <2> SUFFICES ASSUME Inv, [Next]_vars PROVE Inv'
    OBVIOUS
  <2>1. ASSUME NEW s \in Starts, NEW t \in Targets, NEW r \in Requests,
               NEW d \in {Distance(s[c], t[c]) : c \in Channel}, Plan(s, t, r, d)
        PROVE  Inv'
    BY <2>1, PlanKeeps
  <2>2. CASE Cycle
    BY <2>2, CycleKeeps
  <2>3. CASE UNCHANGED vars
    BY <2>3 DEF vars, Inv, Typed, Progress, Log, At, Go, Speed, Entry
  <2> QED
    BY <2>1, <2>2, <2>3 DEF Next
<1> QED
  BY InitInv, <1>1, PTL DEF Spec

(* Every variable keeps its type, and a motion records one command a step. *)
THEOREM Typing == Spec => []TypeOK
<1>1. Inv => TypeOK
  BY DEF Inv, Typed, Log, TypeOK
<1> QED
  BY Invariance, <1>1, PTL

(* The offset of a point of the path from another one is a multiple of the *)
(* whole displacement.                                                     *)
LEMMA OnTheWay ==
    ASSUME Inv, Cycle, NEW c \in Channel
    PROVE  /\ Where[c] = n * start[c] + (target[c] - start[c]) * k
           /\ pos'[c] = n * start[c] + (target[c] - start[c]) * (k + 1)
<1>1. /\ Planned(k + 1) = At(k + 1)
      /\ k \in Nat /\ n \in Nat /\ k < n
      /\ start[c] \in Int /\ target[c] \in Int
  BY PlannedIsAt DEF Inv, Cycle, Typed, Vector
<1>2. pos'[c] = n * start[c] + (target[c] - start[c]) * (k + 1)
  BY <1>1 DEF Cycle, Track, At
<1>3. CASE k = 0
  BY <1>1, <1>2, <1>3 DEF Where, Scale
<1>4. CASE k > 0
  BY <1>1, <1>2, <1>4 DEF Where, Inv, Progress, At
<1> QED
  BY <1>1, <1>3, <1>4

(* No step is longer than the requested speed allows, for any displacement *)
(* of any channel and any speed a caller passes.                           *)
THEOREM SpeedSafety == Spec => SpeedLimit
<1>1. ASSUME Inv, Cycle, NEW c \in Channel
      PROVE  Distance(Where[c], pos'[c]) <= limit * n
  <2> DEFINE b == n * start[c]
             g == target[c] - start[c]
  <2>1. k \in Nat /\ n \in Nat /\ start[c] \in Int /\ target[c] \in Int
    BY <1>1 DEF Inv, Typed, Vector
  <2>2. b \in Int /\ g \in Int
    BY <2>1
  <2>3. Where[c] = b + g * k /\ pos'[c] = b + g * (k + 1)
    BY <1>1, OnTheWay
  <2>4. (b + g * (k + 1)) - (b + g * k) = g
    <3> HIDE DEF b, g
    <3> QED
      BY <2>1, <2>2, SMTT(30)
  <2>5. Magnitude(g) <= limit * n
    BY <1>1 DEF Inv, Progress, Distance
  <2> QED
    BY <2>3, <2>4, <2>5 DEF Distance
<1>2. Inv /\ [Next]_vars => [Cycle => \A c \in Channel :
          Distance(Where[c], pos'[c]) <= limit * n]_vars
  BY <1>1
<1> QED
  BY Invariance, <1>2, PTL DEF Spec, SpeedLimit

(* The reported velocity and acceleration never exceed the speed of the    *)
(* motion under way.                                                       *)
THEOREM BoundSafety == Spec => []Bounded
<1>1. Inv => Bounded
  <2> SUFFICES ASSUME Inv, NEW c \in Channel
               PROVE  Magnitude(vel[c]) <= limit * n /\ Magnitude(acc[c]) <= limit * n
    BY DEF Bounded
  <2>1. Magnitude(Go[c]) <= limit * n
    BY DEF Inv, Progress, Go, Difference, Distance
  <2>2. Magnitude(Zero[c]) <= limit * n
    <3>1. limit \in Nat /\ n \in Nat
      BY DEF Inv, Typed
    <3>2. limit * n \in Nat
      BY <3>1
    <3> QED
      BY <3>2 DEF Magnitude, Zero
  <2> QED
    BY <2>1, <2>2 DEF Inv, Progress
<1> QED
  BY Invariance, <1>1, PTL

(* A finished motion has recorded its steps in order and the joints        *)
(* recovered from the last motor positions are at the target.              *)
THEOREM Arrival == Spec => []ArrivesAtTarget
<1>1. Inv => ArrivesAtTarget
  <2> SUFFICES ASSUME Inv, n > 0, Idle
               PROVE  /\ \A i \in 1..Len(commands) : commands[i].step = i - 1
                      /\ Len(commands) = n
                      /\ Arm(JointPositions(commands[n].position)) = Arm(Scale(n, target))
                      /\ cached = Joints(Scale(n, target))
    BY DEF ArrivesAtTarget
  <2>1. n \in Nat \ {0} /\ k = n
    BY DEF Inv, Typed, Idle
  <2>2. At(n) = Scale(n, target)
    <3>1. ASSUME NEW c \in Channel
          PROVE  n * start[c] + (target[c] - start[c]) * n = n * target[c]
      <4>1. start[c] \in Int /\ target[c] \in Int
        BY DEF Inv, Typed, Vector
      <4> QED
        BY <2>1, <4>1, SMTT(30)
    <3> QED
      BY <3>1 DEF At, Scale
  <2>3. Scale(n, target) \in Vector
    BY <2>1 DEF Inv, Typed, Scale, Vector
  <2>4. Len(commands) = n /\ \A i \in 1..n : commands[i] = Entry(i)
    BY <2>1 DEF Inv, Log
  <2>5. commands[n].position = MotorPositions(Scale(n, target))
    BY <2>1, <2>2, <2>4 DEF Entry
  <2>6. Arm(JointPositions(commands[n].position)) = Arm(Scale(n, target))
    BY <2>3, <2>5, PositionRoundTrip
  <2>7. cached = Joints(Scale(n, target))
    BY <2>1, <2>2 DEF Inv, Progress
  <2>8. \A i \in 1..Len(commands) : commands[i].step = i - 1
    BY <2>4 DEF Entry
  <2> QED
    BY <2>4, <2>6, <2>7, <2>8
<1> QED
  BY Invariance, <1>1, PTL

(* The transmission is linear, so a difference of positions goes through   *)
(* it like a velocity.                                                     *)
LEMMA Linear ==
    ASSUME NEW x \in Vector, NEW y \in Vector
    PROVE  \A c \in {1, 2, 3} :
               MotorVelocities(Difference(x, y))[c]
                   = MotorPositions(x)[c] - MotorPositions(y)[c]
<1> DEFINE z == Difference(x, y)
<1>1. /\ x[1] \in Int /\ x[2] \in Int /\ x[3] \in Int
      /\ y[1] \in Int /\ y[2] \in Int /\ y[3] \in Int
      /\ I1 \in Int /\ I2 \in Int /\ I3 \in Int
  BY RatioAssumption DEF Vector, Channel
<1>2. z[1] = x[1] - y[1] /\ z[2] = x[2] - y[2] /\ z[3] = x[3] - y[3]
  BY DEF Difference, Channel
<1>3. /\ I1 * z[1] = I1 * x[1] - I1 * y[1]
      /\ I2 * z[2] = I2 * x[2] - I2 * y[2]
      /\ I3 * z[3] = I3 * x[3] - I3 * y[3]
  BY <1>1, <1>2, SMTT(30)
<1>4. /\ I1 * x[1] \in Int /\ I2 * x[2] \in Int /\ I3 * x[3] \in Int
      /\ I1 * y[1] \in Int /\ I2 * y[2] \in Int /\ I3 * y[3] \in Int
  BY <1>1
<1>5. /\ Motor1(z) = Motor1(x) - Motor1(y)
      /\ Motor2(z) = Motor2(x) - Motor2(y)
      /\ Motor3(z) = Motor3(x) - Motor3(y)
  <2> HIDE DEF z
  <2> QED
    BY <1>3, <1>4 DEF Motor1, Motor2, Motor3
<1> QED
  BY <1>5 DEF MotorVelocities, MotorPositions

(* The recorded velocities are the increments of the recorded positions.   *)
THEOREM Truthfulness == Spec => []VelocityTruthful
<1>1. Inv => VelocityTruthful
  <2> SUFFICES ASSUME Inv, NEW i \in 2..Len(commands), NEW c \in {1, 2, 3}
               PROVE  commands[i].velocity[c] =
                          commands[i].position[c] - commands[i - 1].position[c]
    BY DEF VelocityTruthful
  <2>1. k \in Nat /\ Len(commands) = k
    BY DEF Inv, Typed, Log
  <2>2. i \in 2..k /\ i - 1 \in 1..k /\ i \in 1..k /\ i # 1
    BY <2>1
  <2>3. commands[i] = Entry(i) /\ commands[i - 1] = Entry(i - 1)
    BY <2>2 DEF Inv, Log
  <2>4. /\ commands[i].position = MotorPositions(At(i))
        /\ commands[i - 1].position = MotorPositions(At(i - 1))
        /\ commands[i].velocity = MotorVelocities(Go)
    BY <2>2, <2>3 DEF Entry, Speed
  <2>5. Difference(At(i), At(i - 1)) = Go
    <3>1. i - 1 \in Nat /\ (i - 1) + 1 = i
      BY <2>2
    <3>2. Difference(At((i - 1) + 1), At(i - 1)) = Go
      BY <3>1, StepIsGo DEF Inv
    <3> QED
      BY <3>1, <3>2
  <2>6. At(i) \in Vector /\ At(i - 1) \in Vector
    <3>1. ASSUME NEW j \in Int PROVE At(j) \in Vector
      <4>1. n \in Int /\ \A e \in Channel : start[e] \in Int /\ target[e] \in Int
        BY DEF Inv, Typed, Vector
      <4>2. \A e \in Channel : n * start[e] + (target[e] - start[e]) * j \in Int
        BY <4>1
      <4> QED
        BY <4>2 DEF At, Vector
    <3>2. i \in Int /\ i - 1 \in Int
      BY <2>2
    <3> QED
      BY <3>1, <3>2
  <2> QED
    BY <2>4, <2>5, <2>6, Linear
<1> QED
  BY Invariance, <1>1, PTL

LEMMA Shortening ==
    ASSUME NEW g \in Int, NEW r \in Nat \ {0}
    PROVE  /\ Magnitude(g) + Magnitude(g * (r - 1)) = Magnitude(g * r)
           /\ Magnitude(g * (r - 1)) <= Magnitude(g * r)
<1>1. /\ g * (r - 1) \in Int /\ g * r \in Int
      /\ g * r = g * (r - 1) + g
  BY SMTT(30)
<1>2. CASE g >= 0
  <2>1. g * (r - 1) >= 0
    BY <1>2, SMTT(30)
  <2> QED
    BY <1>1, <1>2, <2>1 DEF Magnitude
<1>3. CASE g < 0
  <2>1. g * (r - 1) <= 0
    BY <1>3, SMTT(30)
  <2> QED
    BY <1>1, <1>3, <2>1 DEF Magnitude
<1> QED
  BY <1>2, <1>3

(* Every step brings each joint nearer to its target and none passes it.   *)
THEOREM Directness == Spec => NoOvershoot
<1>1. ASSUME Inv, Cycle, NEW c \in Channel
      PROVE  /\ Distance(pos'[c], n * target[c]) <= Distance(Where[c], n * target[c])
             /\ Distance(Where[c], pos'[c]) + Distance(pos'[c], n * target[c])
                  = Distance(Where[c], n * target[c])
  <2> DEFINE b == start[c]
             t == target[c]
             g == t - b
             r == n - k
  <2>1. /\ k \in Nat /\ n \in Nat /\ k < n
        /\ b \in Int /\ t \in Int
    BY <1>1 DEF Inv, Typed, Vector, Cycle, Idle
  <2>2. g \in Int /\ r \in Nat \ {0}
    BY <2>1
  <2>3. Where[c] = n * b + g * k /\ pos'[c] = n * b + g * (k + 1)
    BY <1>1, OnTheWay
  <2>4. /\ n * t - Where[c] = g * r
        /\ n * t - pos'[c] = g * (r - 1)
        /\ pos'[c] - Where[c] = g
    <3> HIDE DEF b, t
    <3> QED
      BY <2>1, <2>3, SMTT(30)
  <2>5. /\ Distance(Where[c], n * t) = Magnitude(g * r)
        /\ Distance(pos'[c], n * t) = Magnitude(g * (r - 1))
        /\ Distance(Where[c], pos'[c]) = Magnitude(g)
    BY <2>4 DEF Distance
  <2> HIDE DEF g, r
  <2> QED
    BY <2>2, <2>5, Shortening
<1>2. Inv /\ [Next]_vars => [Cycle => \A c \in Channel :
          /\ Distance(pos'[c], n * target[c]) <= Distance(Where[c], n * target[c])
          /\ Distance(Where[c], pos'[c]) + Distance(pos'[c], n * target[c])
               = Distance(Where[c], n * target[c])]_vars
  BY <1>1
<1> QED
  BY Invariance, <1>2, PTL DEF Spec, NoOvershoot

(* Power is conserved between motors and joints at every velocity reached. *)
THEOREM PowerSafety == Spec => []PowerKept
<1>1. Inv => PowerKept
  BY PowerBalance, MotionAssumption DEF Inv, Typed, PowerKept
<1> QED
  BY Invariance, <1>1, PTL

=============================================================================
