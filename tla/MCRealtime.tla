----------------------------- MODULE MCRealtime -----------------------------
(* Instances of Realtime for TLC. *)
EXTENDS Realtime, TLC

Symmetry == Permutations(Activities) \cup Permutations(Users)
=============================================================================
