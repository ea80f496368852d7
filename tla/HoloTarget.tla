----------------------------- MODULE HoloTarget -----------------------------
(***************************************************************************)
(* What the headset server promises to the wrist, whatever the network and *)
(* the order of its two threads do to the messages: the joint of the       *)
(* program and the servo take their targets from the same messages, one    *)
(* message at a time and the servo after the joint, and neither ever goes  *)
(* back to a message older than the one it holds.                          *)
(***************************************************************************)
EXTENDS Naturals

VARIABLES
  seen,    (* the number of messages received                               *)
  joint,   (* the message the joint of the program has its target from      *)
  servo,   (* the message the servo has its target from                     *)
  alive    (* whether the program still runs                                *)

tvars == <<seen, joint, servo, alive>>

TInit == seen = 0 /\ joint = 0 /\ servo = 0 /\ alive = TRUE

Arrive ==
  /\ alive
  /\ seen' = seen + 1
  /\ UNCHANGED <<joint, servo, alive>>

(* A new target only when the servo has the one before, and from a message   *)
(* received after it, or from the same one again.                            *)
Aim ==
  /\ alive /\ servo = joint
  /\ joint' \in joint..seen
  /\ UNCHANGED <<seen, servo, alive>>

Reach ==
  /\ alive
  /\ servo' = joint
  /\ UNCHANGED <<seen, joint, alive>>

Fail ==
  /\ alive' = FALSE
  /\ UNCHANGED <<seen, joint, servo>>

TNext == Arrive \/ Aim \/ Reach \/ Fail

TSpec == TInit /\ [][TNext]_tvars

=============================================================================
