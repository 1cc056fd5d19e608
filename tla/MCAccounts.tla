------------------------------ MODULE MCAccounts ------------------------------
(* Instances of Accounts for TLC. *)
EXTENDS Accounts, TLC

CONSTANTS u1, u2, e1, f1, f2, k1, p1, p2

FallbackOf == [u \in Users |-> IF u = u1 THEN f1 ELSE f2]

Ask(u, e, k, p) == [user |-> u, claim |-> e, write |-> p # None, key |-> k, payload |-> p]
\* Both users have tokens with the shared address and with the first one's fallback.
SomeAsks ==
    UNION {{Ask(u, e, None, None), Ask(u, e, k1, p1)} : u \in Users, e \in {e1, f1}}
        \cup UNION {{Ask(u1, e, k1, p2), Ask(u1, e, None, p1)} : e \in {e1, f1}}
Symmetry == Permutations(Requests)
=============================================================================
