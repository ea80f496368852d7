------------------------------ MODULE MCArmBuses ------------------------------
(* Instances for TLC of what hangs on the buses of one arm: the motors       *)
(* (MotorLink) and the encoders (EncoderZero) on CAN, the servos (ServoBus)  *)
(* on RS485.  The first two share nothing but canrx, which tells their       *)
(* frames apart by the length, and the third shares nothing with them, so a  *)
(* behaviour here is one of one part while the others are at rest.           *)
EXTENDS MotorLink, EncoderZero, ServoBus

CONSTANTS m1, m2

TwoIds == [m \in Motors |-> IF m = m1 THEN 1 ELSE 2]
SomePositions == {-9999, 1257, 9550}
SomeVelocities == {-3000, 2250}
SomeTorques == {2999, 5393}
SomeSenses == {[p |-> 32768, v |-> 4095, i |-> 1], [p |-> 255, v |-> 16, i |-> 4080]}

(* Zeros of the left arm (main.cpp 3444), one of them with the other sign:   *)
(* 151.194 and -39.331 degrees.  The readings lie at both ends and where the *)
(* sum with a zero passes half a turn.                                       *)
SomeZeros == [e \in Encoders |-> IF e = 8 THEN 38705664 ELSE -10068736]
SomeReadings == [angle |-> {0, 17950, 35999}, count |-> {0, 16383, 9000}]

VARIABLE part   (* the part that acts *)

BusInit ==
  /\ part \in {"motors", "encoders", "servos"} /\ Init /\ EncInit /\ ServoInit
  /\ part # "encoders" => kind = [e \in Encoders |-> "angle"] /\ shaft = [e \in Encoders |-> 0]
  /\ part # "servos" => torque = [s \in Servos |-> FALSE]

BusNext ==
  /\ UNCHANGED part
  /\ \/ part = "motors" /\ Next /\ UNCHANGED <<encVars, servoVars>>
     \/ part = "encoders" /\ EncNext /\ UNCHANGED <<vars, servoVars>>
     \/ part = "servos" /\ ServoNext /\ UNCHANGED <<vars, encVars>>

BusSpec == BusInit /\ [][BusNext]_<<part, vars, encVars, servoVars>> /\ ServoFairness

=============================================================================
