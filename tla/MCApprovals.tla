----------------------------- MODULE MCApprovals -----------------------------
(* Instances of Approvals for TLC: the names below are model values.        *)
EXTENDS Approvals, TLC

\* Calls and keys are interchangeable; approval ids too.
Symmetry == Permutations(Requests) \cup Permutations(Approvals)
=============================================================================
