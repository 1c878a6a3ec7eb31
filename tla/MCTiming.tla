------------------------------ MODULE MCTiming ------------------------------
(***************************************************************************)
(* Small instances of Timing: hops below, at and above the DNS estimates.  *)
(***************************************************************************)
EXTENDS Timing
=============================================================================
