---------------------------- MODULE MCProposals ----------------------------
(* Instances of Proposals for TLC: one client, one freelancer, four jobs,  *)
(* one of which the freelancer applied to yesterday.                       *)
EXTENDS Proposals, TLC

CONSTANTS client, freelancer, j1

OneClient == [j \in Jobs |-> client]
OneFreelancer == {freelancer} \X Jobs
OneApplied == {<<freelancer, j1>>}
=============================================================================
