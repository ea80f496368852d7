--------------------------- MODULE JointMotorMap ---------------------------
(***************************************************************************)
(* The transmission between the joints and the motors of an arm, as both   *)
(* implementations write it: robot.cpp (jointToMotor, motorToJoint) for    *)
(* the robot and joint_motor_mapper.py for the offline pipeline.  Joint 1  *)
(* has a motor of its own; motors 2 and 3 share joints 2 and 3 through a   *)
(* differential; the remaining channels are passed on or reversed.         *)
(*                                                                         *)
(* A vector holds an integer for each of the seven channels, an angle or a *)
(* speed in a unit chosen by the caller.  A motor torque is a fraction of  *)
(* the joint torques: it is kept as its numerator over TorqueUnit.  The    *)
(* code computes with floating-point numbers; their rounding is not        *)
(* modelled.                                                               *)
(***************************************************************************)
EXTENDS Integers

CONSTANTS I1,  (* reduction ratio of joint 1 *)
          I2,  (* reduction ratio of joint 2 *)
          I3   (* reduction ratio of joint 3 *)

ASSUME RatioAssumption == /\ I1 \in Nat \ {0}
                          /\ I2 \in Nat \ {0}
                          /\ I3 \in Nat \ {0}

Channel == 1..7

Vector == [Channel -> Int]

Zero == [c \in Channel |-> 0]

(* Angles and speeds of the three channels behind the reductions. *)
Motor1(j) == I1 * j[1]

Motor2(j) == I2 * j[2] + I3 * j[3]

Motor3(j) == I2 * j[2] - I3 * j[3]

MotorPositions(j) ==
    <<Motor1(j), Motor2(j), Motor3(j), j[4], -j[5], -j[6], -j[7]>>

(* The last four velocities and torques are negated before they are given  *)
(* a value: the Python lists start from zeros, so they are zero.           *)
MotorVelocities(v) == <<Motor1(v), Motor2(v), Motor3(v), 0, 0, 0, 0>>

TorqueUnit == 2 * I1 * I2 * I3

(* Slip: the ratios of joints 2 and 3 exchanged. *)
MotorTorquesSlip(t) ==
    <<2 * I2 * I3 * t[1],
      I1 * (I2 * t[2] + I3 * t[3]),
      I1 * (I2 * t[2] - I3 * t[3]), 0, 0, 0, 0>>

MotorTorques(t) ==
    <<2 * I2 * I3 * t[1],
      I1 * (I3 * t[2] + I2 * t[3]),
      I1 * (I3 * t[2] - I2 * t[3]), 0, 0, 0, 0>>

(* The way back recovers the three coupled channels and no other. *)
JointPositions(m) ==
    <<m[1] \div I1, (m[2] + m[3]) \div (2 * I2), (m[2] - m[3]) \div (2 * I3),
      0, 0, 0, 0>>

JointTorques(m) ==
    <<I1 * m[1], I2 * m[2] + I2 * m[3], I3 * m[2] - I3 * m[3], 0, 0, 0, 0>>

(* The first three channels of a vector. *)
Arm(x) == <<x[1], x[2], x[3]>>

(* The power that torques t deliver at velocities v, over the coupled      *)
(* channels.                                                               *)
Power(t, v) == t[1] * v[1] + t[2] * v[2] + t[3] * v[3]

=============================================================================
