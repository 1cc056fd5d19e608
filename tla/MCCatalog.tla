------------------------------ MODULE MCCatalog ------------------------------
(* Instances of Catalog for TLC. *)
EXTENDS Catalog, TLC

CONSTANTS adzuna, greenhouse, a1, a2, f1, f2, odd1

SourceOf == [k \in Keys |-> IF k \in {a1, a2} THEN adzuna ELSE greenhouse]
TwoProviders == {<<adzuna, greenhouse>>}

\* odd1 is f1 with a blank too many in its company.
Normal == [t \in Texts |-> IF t = odd1 THEN f1 ELSE t]
Symmetry == Permutations(Calls)
=============================================================================
