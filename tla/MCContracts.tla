---------------------------- MODULE MCContracts ----------------------------
(* Instances of Contracts for TLC: two proposals for one job, one of them  *)
(* accepted twice.                                                         *)
EXTENDS Contracts, TLC

CONSTANTS p1, p2, j1

OneJob == [p \in Proposals |-> j1]
FirstTwice == [p \in Proposals |-> IF p = p1 THEN 2 ELSE 1]
Once == [j \in Jobs |-> 1]
=============================================================================
