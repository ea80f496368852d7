-------------------------- MODULE MCOverheadSupport --------------------------
(* Instances of OverheadSupport for TLC.                                     *)
EXTENDS OverheadSupport

CONSTANTS left, right

BothArms == <<left, right>>

=============================================================================
