-------------------------------- MODULE Lists --------------------------------
(***************************************************************************)
(* Two loops over a sequence that several commands have: the elements that *)
(* pass a filter, and a sum.  Which elements pass is given as a set of     *)
(* positions: neither has an operator for a parameter, so what they return *)
(* is stated once for all their uses, in ListProofs.                       *)
(***************************************************************************)
EXTENDS Naturals, Sequences

\* Iterator::filter, Vec::retain: the elements of s at the positions in I.
Picked(s, I) ==
    LET upTo[k \in 0..Len(s)] ==
          IF k = 0 THEN << >>
          ELSE IF k \in I THEN Append(upTo[k-1], s[k])
          ELSE upTo[k-1]
    IN  upTo[Len(s)]

\* Iterator::sum.
Total(s) ==
    LET upTo[k \in 0..Len(s)] == IF k = 0 THEN 0 ELSE upTo[k-1] + s[k]
    IN  upTo[Len(s)]
=============================================================================
