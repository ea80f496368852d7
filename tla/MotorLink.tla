------------------------------ MODULE MotorLink ------------------------------
(***************************************************************************)
(* The link between class mitMotor and the motors of one CAN bus: how      *)
(* pack_cmd (SRL2/mitmotor.cpp 98-123) quantises and packs a command, how  *)
(* unpack_reply (137-155) takes a reply apart, and how canrx (rtcan.cpp    *)
(* 42-71) finds the motor a reply belongs to.                              *)
(*                                                                         *)
(* Physical values are integers in hundredths (of rad, rad/s, Nm, ...),    *)
(* bytes are 0..255.  A real value is rounded by the integer division in   *)
(* FloatToUint exactly where the code casts to int; the rounding of floats *)
(* is left out.                                                            *)
(***************************************************************************)
EXTENDS Integers

CONSTANTS
  Motors,     (* the motors of the bus                                       *)
  Id,         (* their CAN identifiers                                       *)
  Positions, Velocities, Gains, Dampings, Torques,
              (* the values asked for, inside the limits or not              *)
  Senses      (* what a motor measures: records of raw p, v and i            *)

(* P_MAX, V_MAX, KP_MAX, KD_MAX and T_MAX, in hundredths.                    *)
PMax  == 9550
VMax  == 2250
KPMax == 50000
KDMax == 500
TMax  == 5400

(* (1 << 16) - 1 and (1 << 12) - 1.                                          *)
Top16 == 65535
Top12 == 4095

Raw16 == 0..Top16
Raw12 == 0..Top12
Byte  == 0..255

(* m_cmd.kp and m_cmd.kd keep their initial values (nothing calls            *)
(* setCtrlPara), or are 0 in a torque command: kp stays below its maximum.   *)
ASSUME LinkAssumption ==
  /\ Id \in [Motors -> Byte]
  /\ \A m, n \in Motors : Id[m] = Id[n] => m = n
  /\ Positions \subseteq Int /\ Velocities \subseteq Int /\ Torques \subseteq Int
  /\ Gains \subseteq 0..KPMax - 1
  /\ Dampings \subseteq Int
  /\ Senses \subseteq [p : Raw16, v : Raw12, i : Raw12]

(* fminf(fmaxf(lo, x), hi)                                                   *)
Limit(x, lo, hi) == IF x < lo THEN lo ELSE IF x > hi THEN hi ELSE x

FloatToUint(x, lo, hi, top) == ((x - lo) * top) \div (hi - lo)

(* Slip: kp is limited and scaled like kd.                                   *)
FieldsSlip(p, v, kp, kd, t) ==
  [p  |-> FloatToUint(Limit(p, -PMax, PMax), -PMax, PMax, Top16),
   v  |-> FloatToUint(Limit(v, -VMax, VMax), -VMax, VMax, Top12),
   kp |-> FloatToUint(Limit(kp, 0, KDMax), 0, KDMax, Top12),
   kd |-> FloatToUint(Limit(kd, 0, KDMax), 0, KDMax, Top12),
   t  |-> FloatToUint(Limit(t, -TMax, TMax), -TMax, TMax, Top12)]

(* The five fields of a command, after the limits.                           *)
Fields(p, v, kp, kd, t) ==
  [p  |-> FloatToUint(Limit(p, -PMax, PMax), -PMax, PMax, Top16),
   v  |-> FloatToUint(Limit(v, -VMax, VMax), -VMax, VMax, Top12),
   kp |-> FloatToUint(Limit(kp, 0, KPMax), 0, KPMax, Top12),
   kd |-> FloatToUint(Limit(kd, 0, KDMax), 0, KDMax, Top12),
   t  |-> FloatToUint(Limit(t, -TMax, TMax), -TMax, TMax, Top12)]

(* Slip: the high nibble of kp is lost.                                      *)
PackSlip(f) ==
  <<f.p \div 256, f.p % 256, f.v \div 16, (f.v % 16) * 16,
    f.kp % 256, f.kd \div 16, (f.kd % 16) * 16 + f.t \div 256, f.t % 256>>

(* The eight bytes of a command.                                             *)
Pack(f) ==
  <<f.p \div 256, f.p % 256, f.v \div 16, (f.v % 16) * 16 + f.kp \div 256,
    f.kp % 256, f.kd \div 16, (f.kd % 16) * 16 + f.t \div 256, f.t % 256>>

(* The frames of enableMotor.                                                *)
Switch(flag) == <<255, 255, 255, 255, 255, 255, 255, IF flag THEN 252 ELSE 253>>

(* Slip: position and velocity share the wrong byte.                         *)
UnpackSlip(d) ==
  [p |-> d[2] * 256 + d[3],
   v |-> d[4] * 16 + (d[5] % 16),
   i |-> (d[5] % 16) * 256 + d[6]]

(* unpack_reply, before the conversion to floats.                            *)
Unpack(d) ==
  [p |-> d[2] * 256 + d[3],
   v |-> d[4] * 16 + d[5] \div 16,
   i |-> (d[5] % 16) * 256 + d[6]]

-----------------------------------------------------------------------------
(* The firmware of a motor, as the comments of pack_cmd and unpack_reply     *)
(* describe it.                                                              *)

Received(d) ==
  [p  |-> d[1] * 256 + d[2],
   v  |-> d[3] * 16 + d[4] \div 16,
   kp |-> (d[4] % 16) * 256 + d[5],
   kd |-> d[6] * 16 + d[7] \div 16,
   t  |-> (d[7] % 16) * 256 + d[8]]

Answer(m, s) ==
  <<Id[m], s.p \div 256, s.p % 256, s.v \div 16, (s.v % 16) * 16 + s.i \div 256, s.i % 256>>

(* A motor whose mode a frame changes.                                       *)
Mode(frame, old) ==
  IF frame = Switch(TRUE) THEN TRUE ELSE IF frame = Switch(FALSE) THEN FALSE ELSE old

-----------------------------------------------------------------------------
VARIABLES
  asked,    (* what pack_cmd was last called with, for each motor            *)
  target,   (* the fields each motor has read from its last command          *)
  told,     (* the argument of the last enableMotor                          *)
  power,    (* the motor runs                                                *)
  now,      (* posr, velr, torr as raw numbers                               *)
  sensed    (* what each motor measured when it last answered                *)

vars == <<asked, target, told, power, now, sensed>>

Rest == [p |-> 0, v |-> 0, kp |-> 0, kd |-> 0, t |-> 0]
Zero == [p |-> Top16 \div 2, v |-> Top12 \div 2, i |-> Top12 \div 2]

Init ==
  /\ asked  = [m \in Motors |-> Rest]
  /\ target = [m \in Motors |-> Fields(0, 0, 0, 0, 0)]
  /\ told   = [m \in Motors |-> FALSE]
  /\ power  = [m \in Motors |-> FALSE]
  /\ now    = [m \in Motors |-> Zero]
  /\ sensed = [m \in Motors |-> Zero]

(* pack_cmd and canTx, and the motor that takes the frame.                   *)
Command(m, p, v, kp, kd, t) ==
  LET frame == Pack(Fields(p, v, kp, kd, t)) IN
  /\ asked'  = [asked EXCEPT ![m] = [p |-> p, v |-> v, kp |-> kp, kd |-> kd, t |-> t]]
  /\ target' = [target EXCEPT ![m] = Received(frame)]
  /\ power'  = [power EXCEPT ![m] = Mode(frame, @)]
  /\ UNCHANGED <<told, now, sensed>>

(* enableMotor and the motor that takes the frame.                           *)
EnableMotor(m) ==
  \E flag \in BOOLEAN :
    /\ told'  = [told EXCEPT ![m] = flag]
    /\ power' = [power EXCEPT ![m] = Mode(Switch(flag), @)]
    /\ UNCHANGED <<asked, target, now, sensed>>

(* A reply of motor m.  Replies of all motors arrive under one identifier;   *)
(* canrx compares the first byte with the motors of the bus.                 *)
Canrx(m) ==
  \E s \in Senses :
    LET d == Answer(m, s) IN
    /\ sensed' = [sensed EXCEPT ![m] = s]
    /\ now'  = [n \in Motors |-> IF Id[n] = d[1] THEN Unpack(d) ELSE now[n]]
    /\ UNCHANGED <<asked, target, told, power>>

Next ==
  \E m \in Motors :
    \/ \E p \in Positions, v \in Velocities, kp \in Gains, kd \in Dampings, t \in Torques :
         Command(m, p, v, kp, kd, t)
    \/ EnableMotor(m)
    \/ Canrx(m)

Spec == Init /\ [][Next]_vars

-----------------------------------------------------------------------------
(* n stands for x on a scale of top steps from lo to hi: it is the last      *)
(* step that does not exceed x.                                              *)
Stands(n, x, lo, hi, top) ==
  LET error == (x - lo) * top - n * (hi - lo) IN 0 <= error /\ error < hi - lo

(* What a motor reads from the eight bytes is the command it was given,      *)
(* within the limits, at most one quantisation step below it.  The five      *)
(* fields share bytes and have three widths (mitmotor.cpp 100-121).          *)
CommandArrives ==
  \A m \in Motors :
    /\ Stands(target[m].p, Limit(asked[m].p, -PMax, PMax), -PMax, PMax, Top16)
    /\ Stands(target[m].v, Limit(asked[m].v, -VMax, VMax), -VMax, VMax, Top12)
    /\ Stands(target[m].kp, Limit(asked[m].kp, 0, KPMax), 0, KPMax, Top12)
    /\ Stands(target[m].kd, Limit(asked[m].kd, 0, KDMax), 0, KDMax, Top12)
    /\ Stands(target[m].t, Limit(asked[m].t, -TMax, TMax), -TMax, TMax, Top12)

(* No command, whatever its values, is taken for one of the frames of        *)
(* enableMotor, which use the same identifier and length and differ only in  *)
(* their bytes (mitmotor.cpp 416-438): a motor runs exactly when the last    *)
(* enableMotor said so.                                                      *)
OnlyEnableSwitches == \A m \in Motors : power[m] = told[m]

(* What mitMotor knows of a motor is what that motor has measured, although  *)
(* all replies come in one stream (rtcan.cpp 58-71).                         *)
ReplyArrives == \A m \in Motors : now[m] = sensed[m]

=============================================================================
