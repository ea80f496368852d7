---------------------------- MODULE MCMotorDrive ----------------------------
(* Instance of MotorDrive for TLC.  One unit is 2 degrees, so that a step is *)
(* 2 and the tracking limit 3; torques are small, just below and above the   *)
(* limit.                                                                    *)
EXTENDS MotorDrive

SomePositions == -1..2

=============================================================================
