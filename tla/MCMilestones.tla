---------------------------- MODULE MCMilestones ----------------------------
(* Instances of Milestones for TLC. *)
EXTENDS Milestones, TLC

(* Milestones, calls and freelancers are interchangeable. *)
Symmetry == Permutations(Calls) \cup Permutations(Milestones) \cup Permutations(Freelancers)
=============================================================================
