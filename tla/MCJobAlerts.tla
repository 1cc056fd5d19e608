----------------------------- MODULE MCJobAlerts -----------------------------
(* Instances of JobAlerts for TLC. *)
EXTENDS JobAlerts, TLC

CONSTANTS j1, j2

FitOf == [j \in Jobs |-> IF j = j1 THEN 4 ELSE 5]
Default == [enabled |-> TRUE, daily |-> TRUE, email |-> TRUE, min_fit |-> 4, max_items |-> 2]
AllChoices ==
    {Default, [Default EXCEPT !.max_items = 1],
     [Default EXCEPT !.min_fit = 5, !.email = FALSE], [Default EXCEPT !.enabled = FALSE]}
Symmetry == Permutations(Tasks) \cup Permutations(Users)
=============================================================================
