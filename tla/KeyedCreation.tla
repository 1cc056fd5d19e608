----------------------------- MODULE KeyedCreation -----------------------------
(***************************************************************************)
(* What a POST with an Idempotency-Key promises, apart from how requests   *)
(* that race for a key are kept apart.  A row is made under a key that no  *)
(* row has, and stays as it was made; a request is answered once, with the *)
(* row of its key, and only if that row was made of what it asks for.  The *)
(* answer may be lost.                                                     *)
(*   tests/test_applications_idempotency.py and tests/test_autopilot.py    *)
(*   post twice with one key, one after the other.                         *)
(***************************************************************************)
CONSTANTS Requests, Rows, Keys, Bodies

VARIABLES made, answered

creationVars == <<made, answered>>

Creation == [row: Rows, key: Keys, body: Bodies]
Answer   == [to: Requests, row: Rows, key: Keys, body: Bodies]

CreationInit == made = {} /\ answered = {}

Make(m) ==
    /\ \A n \in made : n.row # m.row /\ n.key # m.key
    /\ made' = made \cup {m}

\* The row may be the one this step makes.
Tell(a) ==
    /\ \A b \in answered : b.to # a.to
    /\ [row |-> a.row, key |-> a.key, body |-> a.body] \in made'
    /\ answered' = answered \cup {a}

CreationNext ==
    /\ UNCHANGED made \/ \E m \in Creation : Make(m)
    /\ UNCHANGED answered \/ \E a \in Answer : Tell(a)

CreationSpec == CreationInit /\ [][CreationNext]_creationVars
=============================================================================
