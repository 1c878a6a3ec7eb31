------------------------------ MODULE MCTelnet ------------------------------
(***************************************************************************)
(* Small instances of Telnet: one ordinary word and one quit word, one     *)
(* option, a few lines and a peer with a short queue.                      *)
(***************************************************************************)
EXTENDS Telnet
=============================================================================
