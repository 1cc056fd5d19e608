------------------------------ MODULE MCJobFeed ------------------------------
(* Instances of JobFeed for TLC. *)
EXTENDS JobFeed, TLC

Symmetry == Permutations(Calls) \cup Permutations(Jobs)
=============================================================================
