-------------------------- MODULE MCManagedStorage --------------------------
(* An instance of ManagedStorage for TLC. *)
EXTENDS ManagedStorage, TLC

CONSTANTS server_1, server_2, staged_1, staged_2

Symmetric == Permutations(Servers) \cup Permutations(StagedNames)
=============================================================================
