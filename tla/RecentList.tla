----------------------------- MODULE RecentList -----------------------------
(***************************************************************************)
(* What the request history promises its user: a list of distinct          *)
(* commands, the most recently used one first.  save_request documents     *)
(* itself with these words ("deduplicate, newest first").  How the list is *)
(* edited is left open.                                                    *)
(***************************************************************************)
EXTENDS Naturals, Sequences, SequencesExt

CONSTANT Commands

VARIABLE list

\* x is a more recent entry of s than y.
Before(s, x, y) == \E i, j \in 1..Len(s) : i < j /\ s[i] = x /\ s[j] = y

\* Using a command puts it in front, whether or not it was listed, and leaves
\* the others in their order.
Touch(c) ==
    /\ list' \in Seq(Commands)
    /\ IsInjective(list')
    /\ ToSet(list') = ToSet(list) \cup {c}
    /\ list'[1] = c
    /\ \A x, y \in ToSet(list) \ {c} : Before(list', x, y) <=> Before(list, x, y)

Init == list = << >>

Next == \E c \in Commands : Touch(c)

Spec == Init /\ [][Next]_list
=============================================================================
