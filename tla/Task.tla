-------------------------------- MODULE Task --------------------------------
(***************************************************************************)
(* The main task of an rcurl process: where it is, and how its command     *)
(* ended.  Every command handler is a stretch of this one task, so the     *)
(* modules of the handlers extend this one and App puts them together.     *)
(***************************************************************************)
VARIABLES
    pc,     \* where the task is
    result  \* "none" while it runs, then how the command ended

\* A handler returns: Ok, or an error that the ? operator hands up to main.
EndWith(r) ==
    /\ pc' = "done"
    /\ result' = r

Goto(place) ==
    /\ pc' = place
    /\ UNCHANGED result
=============================================================================
