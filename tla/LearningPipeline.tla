------------------------- MODULE LearningPipeline -------------------------
(***************************************************************************)
(* The offline motion of srl2_learning: LearningRobotController runs one   *)
(* joint-space motion after another.  The planner interpolates from the    *)
(* start to the target, the tracker completes the position with velocity   *)
(* and acceleration, the transmission turns them into motor commands and   *)
(* the actuator records them.  One call, one motion, one thread.           *)
(*                                                                         *)
(* Within a motion of n control periods every angle is scaled by n, so     *)
(* that the interpolated positions are integers; velocities are in angle   *)
(* per period and accelerations in angle per period squared, scaled alike. *)
(* The torques of this version are zero (dynamics_service.py) and are not  *)
(* recorded here.                                                          *)
(***************************************************************************)
EXTENDS JointMotorMap, Sequences

CONSTANTS Starts,       (* joint vectors a caller may start from *)
          Targets,      (* joint vectors a caller may ask for *)
          Requests,     (* values of max_velocity a caller may pass *)
          Torques,      (* joint torques for which the power is compared *)
          DefaultLimit, (* the speed used when -1 is passed, 10.0 in the code *)
          FloorLimit    (* the lowest speed, 1e-6 in the code *)

ASSUME MotionAssumption == /\ Starts \subseteq Vector
                           /\ Targets \subseteq Vector
                           /\ Requests \subseteq Int
                           /\ Torques \subseteq Vector
                           /\ DefaultLimit \in Nat \ {0}
                           /\ FloorLimit \in Nat \ {0}

VARIABLES start,    (* start_position of the planner *)
          target,   (* target_position of the planner *)
          limit,    (* max_velocity as the planner uses it *)
          n,        (* total_step_count, 0 before the first motion *)
          k,        (* current_step_index *)
          pos,      (* the tracker: position, velocity, acceleration *)
          vel,
          acc,
          cached,   (* current_joint_positions of the dynamics service *)
          commands  (* commands of the actuator *)

vars == <<start, target, limit, n, k, pos, vel, acc, cached, commands>>

Magnitude(x) == IF x < 0 THEN -x ELSE x

Distance(a, b) == Magnitude(b - a)

(* Slip: rounded down. *)
CeilingSlip(d, v) == IF d < v THEN 1 ELSE d \div v

(* The least number of steps of at most v that cover d. *)
Ceiling(d, v) == (d + v - 1) \div v

Scale(a, x) == [c \in Channel |-> a * x[c]]

Difference(a, b) == [c \in Channel |-> a[c] - b[c]]

(* The channels that are joints of the arm: the dynamics service holds     *)
(* these only.                                                             *)
Joints(x) == [c \in 1..6 |-> x[c]]

Init == /\ start = Zero /\ target = Zero
        /\ limit = DefaultLimit
        /\ n = 0 /\ k = 0
        /\ pos = Zero /\ vel = Zero /\ acc = Zero
        /\ cached = Joints(Zero)
        /\ commands = <<>>

Idle == k = n

SpeedOf(request) ==
    LET asked == IF request = -1 THEN DefaultLimit ELSE request
    IN  IF asked < FloorLimit THEN FloorLimit ELSE asked

StepCount(d, v) == IF d = 0 THEN 1 ELSE Ceiling(d, v)

(* A caller asks for a motion: the planner counts its steps from the       *)
(* largest displacement d of a channel, and the tracker, the dynamics      *)
(* service and the recorder start afresh.                                  *)
Plan(s, t, request, d) ==
    /\ Idle
    /\ d \in {Distance(s[c], t[c]) : c \in Channel}
    /\ \A c \in Channel : Distance(s[c], t[c]) <= d
    /\ start' = s
    /\ target' = t
    /\ limit' = SpeedOf(request)
    /\ n' = StepCount(d, SpeedOf(request))
    /\ k' = 0
    /\ pos' = Zero /\ vel' = Zero /\ acc' = Zero
    /\ cached' = Joints(Scale(n', s))
    /\ commands' = <<>>

(* Slip: each channel runs at the full speed. *)
PlannedSlip(i) ==
    [c \in Channel |-> n * start[c] + n * limit * i
                          * (IF target[c] < start[c] THEN -1 ELSE 1)]

(* Slip: the progress of the step before. *)
PlannedLateSlip(i) ==
    [c \in Channel |-> n * start[c] + (target[c] - start[c]) * (i - 1)]

(* The planner's position of step i: the last one is the target itself. *)
Planned(i) ==
    IF i >= n
    THEN Scale(n, target)
    ELSE [c \in Channel |-> n * start[c] + (target[c] - start[c]) * i]

(* Slip: the first position is differentiated too. *)
TrackSlip(p) ==
    /\ pos' = p
    /\ vel' = Difference(p, pos)
    /\ acc' = Difference(vel', vel)

(* The tracker differentiates from the second position on. *)
Track(p) ==
    /\ pos' = p
    /\ IF k = 0
       THEN UNCHANGED <<vel, acc>>
       ELSE /\ vel' = Difference(p, pos)
            /\ acc' = Difference(vel', vel)

(* Slip: the velocity of the period before. *)
RecordSlip ==
    commands' = Append(commands, [step     |-> k,
                                  position |-> MotorPositions(pos'),
                                  velocity |-> MotorVelocities(vel)])

Record ==
    commands' = Append(commands, [step     |-> k,
                                  position |-> MotorPositions(pos'),
                                  velocity |-> MotorVelocities(vel')])

(* One turn of the loop of run_joint_space_motion. *)
Cycle ==
    /\ ~Idle
    /\ Track(Planned(k + 1))
    /\ k' = k + 1
    /\ cached' = Joints(pos')
    /\ Record
    /\ UNCHANGED <<start, target, limit, n>>

Next == \/ \E s \in Starts, t \in Targets, r \in Requests :
              \E d \in {Distance(s[c], t[c]) : c \in Channel} : Plan(s, t, r, d)
        \/ Cycle

Spec == Init /\ [][Next]_vars

-----------------------------------------------------------------------------
(* Every variable has its type, and a motion has no more commands than     *)
(* steps.                                                                  *)
TypeOK == /\ start \in Vector /\ target \in Vector
          /\ limit \in Nat \ {0}
          /\ n \in Nat /\ k \in 0..n
          /\ pos \in Vector /\ vel \in Vector /\ acc \in Vector
          /\ cached \in [1..6 -> Int]
          /\ Len(commands) = k

(* Where the arm is after k steps of the motion. *)
Where == IF k = 0 THEN Scale(n, start) ELSE pos

(* In no period of a motion, the first included, does a joint move further *)
(* than the speed the caller asked for allows (trajectory_planner.py,      *)
(* total_step_count is rounded up).                                        *)
SpeedLimit ==
    [][Cycle => \A c \in Channel : Distance(Where[c], pos'[c]) <= limit * n]_vars

(* Every step brings each joint nearer to its target or leaves it there:   *)
(* no joint turns back or passes its target.                               *)
NoOvershoot ==
    [][Cycle => \A c \in Channel :
           /\ Distance(pos'[c], n * target[c]) <= Distance(Where[c], n * target[c])
           /\ Distance(Where[c], pos'[c]) + Distance(pos'[c], n * target[c])
                = Distance(Where[c], n * target[c])]_vars

(* The velocity and the acceleration the tracker reports stay within the   *)
(* speed of this motion: nothing of an earlier motion or of the reset      *)
(* state leaks into them (state_tracking.py, first_time).                  *)
Bounded == \A c \in Channel : /\ Magnitude(vel[c]) <= limit * n
                              /\ Magnitude(acc[c]) <= limit * n

(* From the second command on, the recorded motor velocities of the        *)
(* coupled channels are the increments of the recorded motor positions.    *)
(* The other channels report zero on purpose (joint_motor_mapper.py 209).  *)
VelocityTruthful ==
    \A i \in 2..Len(commands) : \A c \in {1, 2, 3} :
        commands[i].velocity[c] =
            commands[i].position[c] - commands[i - 1].position[c]

(* A finished motion has recorded one command for each step, in order, and *)
(* the joints recovered from the last motor positions are at the target    *)
(* (tests/test_pipeline.py asserts both).                                  *)
ArrivesAtTarget ==
    n > 0 /\ Idle =>
        /\ \A i \in 1..Len(commands) : commands[i].step = i - 1
        /\ Len(commands) = n
        /\ Arm(JointPositions(commands[n].position)) = Arm(Scale(n, target))
        /\ cached = Joints(Scale(n, target))

(* The motors deliver the power the joints are asked for, whatever the     *)
(* torques: the torques of jointToMotor fit the velocities it computes.    *)
PowerKept ==
    \A t \in Torques :
        Power(MotorTorques(t), MotorVelocities(vel)) = TorqueUnit * Power(t, vel)

=============================================================================
