----------------------------- MODULE MCHandoff -----------------------------
(* An instance of Handoff for TLC. *)
EXTENDS Handoff
=============================================================================
