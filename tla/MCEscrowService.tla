-------------------------- MODULE MCEscrowService --------------------------
(* Instances of EscrowService for TLC. *)
EXTENDS EscrowService, TLC

AllOps == {"Fund", "TopUp", "Withdraw", "Release", "Lock", "Refund", "Confirm"}

(* Calls, clients and freelancers are interchangeable; used where only     *)
(* safety is checked.                                                      *)
Symmetry == Permutations(Calls) \cup Permutations(Clients) \cup Permutations(Freelancers)
=============================================================================
