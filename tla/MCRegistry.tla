----------------------------- MODULE MCRegistry -----------------------------
(* Instances of Registry for TLC. *)
EXTENDS Registry, TLC

AllTables == DOMAIN Operations

Symmetry == Permutations(Requests) \cup Permutations(Values) \cup Permutations(Gateways)
=============================================================================
