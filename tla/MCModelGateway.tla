--------------------------- MODULE MCModelGateway ---------------------------
(* Instances of ModelGateway for TLC. *)
EXTENDS ModelGateway, TLC

AttemptsOf == [k \in UseCases |-> 2]
Symmetry == Permutations(Calls)
=============================================================================
