----------------------------- MODULE ArmSession -----------------------------
(***************************************************************************)
(* What an arm promises to the threads that command it, whatever they do   *)
(* and whenever they do it: it follows at most one motion at a time and    *)
(* changes from one to another only through a stop, its motors are driven  *)
(* only between an enable and the next disable, and between these two the  *)
(* drive can be cut but only an enable brings it back.                     *)
(***************************************************************************)
CONSTANTS
  Arms,    (* the arms                                                       *)
  Kinds,   (* the motions an arm can follow                                  *)
  Stop,    (* no motion                                                      *)
  Nothing, (* the arm counts as moving but follows no motion                 *)
  Motors   (* the motors of an arm                                           *)

VARIABLES
  motion,  (* what each arm follows                                          *)
  armed,   (* the arms that are enabled                                      *)
  drive    (* the motors each arm drives                                     *)

svars == <<motion, armed, drive>>

SInit ==
  /\ motion = [a \in Arms |-> Stop]
  /\ armed = [a \in Arms |-> FALSE]
  /\ drive = [a \in Arms |-> {}]

Begin(a) ==
  /\ motion[a] = Stop
  /\ \E m \in Kinds \cup {Nothing} : motion' = [motion EXCEPT ![a] = m]
  /\ UNCHANGED <<armed, drive>>

(* A motor may be cut off at any time, also while the motion ends.           *)
Cut(a) == \E kept \in SUBSET drive[a] : drive' = [drive EXCEPT ![a] = kept]

End(a) ==
  /\ motion' = [motion EXCEPT ![a] = Stop]
  /\ Cut(a)
  /\ UNCHANGED armed

Lose(a) == Cut(a) /\ UNCHANGED <<motion, armed>>

(* Enabling and disabling leave the motion alone.                            *)
Enable(a) ==
  /\ armed' = [armed EXCEPT ![a] = TRUE]
  /\ drive' = [drive EXCEPT ![a] = Motors]
  /\ UNCHANGED motion

Disable(a) ==
  /\ armed' = [armed EXCEPT ![a] = FALSE]
  /\ drive' = [drive EXCEPT ![a] = {}]
  /\ UNCHANGED motion

SNext == \E a \in Arms : Begin(a) \/ End(a) \/ Lose(a) \/ Enable(a) \/ Disable(a)

SSpec == SInit /\ [][SNext]_svars

=============================================================================
