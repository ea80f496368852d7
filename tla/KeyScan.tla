------------------------------ MODULE KeyScan ------------------------------
(***************************************************************************)
(* The keyboard thread of main.cpp (keyscan): which limbs a key asks for.  *)
(* The key a walks through the three selections, whose labels are printed  *)
(* after every key; m, g, o and c act on the selection, the other keys     *)
(* name their limbs themselves.  What the arms make of a request is the    *)
(* subject of ArmControl and OverheadSupport.                              *)
(***************************************************************************)
EXTENDS Naturals

VARIABLES ids,         (* the selected mode *)
          task,        (* m_task_state *)
          enableflag,  (* what the key m asked for last *)
          asked,       (* pairs of an operation and a limb the last key asked for *)
          quit         (* Quitflag *)

vars == <<ids, task, enableflag, asked, quit>>

Left == 0

Right == 3

(* The limbs that the printed label of a selection names: limb_double,     *)
(* limb_right and limb_left.                                               *)
Label == [i \in 0..2 |-> CASE i = 0 -> {Left, Right}
                           [] i = 1 -> {Right}
                           [] i = 2 -> {Left}]

(* The task state in which both-limb mode opens the gripper wide, gdzc. *)
Overhead == 1

Init == /\ ids = 0 /\ task = 0
        /\ enableflag = FALSE
        /\ asked = {}
        /\ quit = FALSE

Asks(operation, limbs) == asked' = {operation} \X limbs

(* The key a. *)
Select == /\ ids' = (ids + 1) % 3
          /\ Asks("none", {})
          /\ UNCHANGED <<task, enableflag, quit>>

(* The key +. *)
NextTask == /\ task' = (task + 1) % 6
            /\ Asks("none", {})
            /\ UNCHANGED <<ids, enableflag, quit>>

(* The limbs that the key m enables or disables. *)
Toggled == [i \in 0..2 |-> CASE i = 0 -> {Left}
                             [] i = 1 -> {Right}
                             [] i = 2 -> {Left, Right}]

(* The key m: one flag for all selections. *)
Toggle == /\ enableflag' = ~enableflag
          /\ Asks(IF enableflag' THEN "enable" ELSE "disable", Toggled[ids])
          /\ UNCHANGED <<ids, task, quit>>

(* The key g: gravity compensation, whatever the selection, by arm 3. *)
Balance == /\ Asks("g_blance", {Right})
           /\ UNCHANGED <<ids, task, enableflag, quit>>

(* The key o: the gripper opens and stops two seconds later. *)
OpenGripper ==
    /\ Asks(IF ids = 0 /\ task = Overhead THEN "open_sup" ELSE "open",
            IF ids \in {0, 1} THEN {Right} ELSE {})
    /\ UNCHANGED <<ids, task, enableflag, quit>>

(* The key c. *)
CloseGripper == /\ Asks("close", IF ids \in {0, 1} THEN {Right} ELSE {})
                /\ UNCHANGED <<ids, task, enableflag, quit>>

(* The keys z, s, 0, i and p ask both limbs. *)
AskBothLimbs == /\ \E op \in {"setZeroPos", "stopMotion", "gohome", "initpos", "supporting"} :
                       Asks(op, {Left, Right})
                /\ UNCHANGED <<ids, task, enableflag, quit>>

(* The keys 1, 5, y and n ask arm 3. *)
AskRightLimb == /\ \E op \in {"action2", "birdhead_planing", "Enable485", "Disable485"} :
                       Asks(op, {Right})
                /\ UNCHANGED <<ids, task, enableflag, quit>>

(* The key q ends the loop. *)
Quit == /\ quit' = TRUE
        /\ Asks("none", {})
        /\ UNCHANGED <<ids, task, enableflag>>

(* A key without a case, and one whose cmd a control task has overwritten   *)
(* with 'l' or 'w', which have none, before the loop looks at it again.     *)
NoCase == /\ Asks("none", {})
          /\ UNCHANGED <<ids, task, enableflag, quit>>

Next == /\ ~quit
        /\ \/ Select
           \/ NextTask
           \/ Toggle
           \/ Balance
           \/ OpenGripper
           \/ CloseGripper
           \/ AskBothLimbs
           \/ AskRightLimb
           \/ Quit
           \/ NoCase

Spec == Init /\ [][Next]_vars

-----------------------------------------------------------------------------
Selective == {"enable", "disable", "g_blance", "open", "open_sup", "close"}

(* A key that acts on the selection asks nothing of a limb that the printed *)
(* label does not name (main.cpp:62, the labels; 2857, where they are       *)
(* printed; 2942, "g_blance_l limb").                                       *)
KeysFollowLabel ==
    \A pair \in asked : pair[1] \in Selective => pair[2] \in Label[ids]

=============================================================================
