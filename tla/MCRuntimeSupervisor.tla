------------------------- MODULE MCRuntimeSupervisor -------------------------
(* Instances of RuntimeSupervisor for TLC. *)
EXTENDS RuntimeSupervisor, TLC

CONSTANTS h1, h2

Symmetry == Permutations(Handlers)
=============================================================================
