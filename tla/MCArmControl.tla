---------------------------- MODULE MCArmControl ----------------------------
(* Instances of ArmControl for TLC.                                          *)
EXTENDS ArmControl

CONSTANTS left, right,  (* arms[0] and arms[3]                               *)
          keyscan,      (* the threads                                       *)
          state_change

=============================================================================
