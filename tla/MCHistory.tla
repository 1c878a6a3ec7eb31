----------------------------- MODULE MCHistory -----------------------------
(***************************************************************************)
(* Small instances of History: three commands, one of them longer than the *)
(* others and one that does not survive being parsed again.                *)
(***************************************************************************)
EXTENDS History, TLC

CONSTANTS c1, c2, c3

MCCommands == {c1, c2, c3}

MCReplay == (c1 :> c1) @@ (c2 :> c2) @@ (c3 :> Rejected)

\* c2 and c3 have entries of different lengths, so that a text can be written
\* over a shorter, an equal and a longer one.
MCBytes == (c1 :> 1) @@ (c2 :> 1) @@ (c3 :> 2)

ProcSymmetry == Permutations(Procs)
=============================================================================
