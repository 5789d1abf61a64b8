--------------------------- MODULE MCProjectGate ---------------------------
(* An instance of ProjectGate, with the policies and the simulations, for TLC. *)
EXTENDS ProjectTools, TLC

CONSTANTS p1, p2, sim_1, sim_2

Symmetric == Permutations(Simsets)
=============================================================================
