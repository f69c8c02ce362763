--------------------------- MODULE MCUpdateBroker ---------------------------
(* Instances of UpdateBroker for TLC. *)
EXTENDS UpdateBroker

CONSTANTS o1, o2
=============================================================================
