-------------------------- MODULE MCEscrowProgram --------------------------
(* Instance of EscrowProgram for TLC: jobs, clients and freelancers are     *)
(* interchangeable.                                                         *)
EXTENDS EscrowProgram, TLC

Symmetry == Permutations(Jobs) \cup Permutations(Clients) \cup Permutations(Freelancers)
=============================================================================
