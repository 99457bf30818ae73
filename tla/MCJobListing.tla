---------------------------- MODULE MCJobListing ----------------------------
(* Instances of JobListing for TLC. *)
EXTENDS JobListing, TLC

AllOps == Edits \cup {"Create", "NewDraft", "Bookmark", "Unbookmark"}

Symmetry == Permutations(Calls) \cup Permutations(Users) \cup Permutations(Jobs)
=============================================================================
