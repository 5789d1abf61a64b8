---------------------------- MODULE MCTclChannel ----------------------------
(* Instances of TclChannel for TLC. *)
EXTENDS TclChannel, TLC

CONSTANTS c1, c2, k1, k2
=============================================================================
