------------------------------ MODULE HumanGate ------------------------------
(***************************************************************************)
(* What the approval queue promises about outbound messages, apart from    *)
(* how it keeps the promise.  The user decides to send: an entry of        *)
(* `decided' is one click on "Approve & send" (or one assistant approval)  *)
(* and the text it authorised.  A message may leave only                   *)
(*   - on account of a decision about its own approval,                    *)
(*   - with a text that some decision on that approval authorised,         *)
(*   - and at most once per decision and way of sending.                   *)
(* docs/product-panels.md: "Nothing is sent until you click Approve &      *)
(* send"; README.md: "user approval before send".                          *)
(***************************************************************************)
CONSTANTS Decisions, Approvals, Texts, Vias

VARIABLES decided, outbox

gateVars == <<decided, outbox>>

Decision == [by: Decisions, approval: Approvals, text: Texts]
Letter   == [by: Decisions, approval: Approvals, text: Texts, via: Vias]

GateInit == decided = {} /\ outbox = {}

Decide(d) ==
    /\ \A e \in decided : e.by # d.by
    /\ decided' = decided \cup {d}
    /\ UNCHANGED outbox

Authorised(m) ==
    /\ \E d \in decided : d.by = m.by /\ d.approval = m.approval
    /\ \E d \in decided : d.approval = m.approval /\ d.text = m.text

Send(m) ==
    /\ Authorised(m)
    /\ \A n \in outbox : n.by = m.by => n.via # m.via
    /\ outbox' = outbox \cup {m}
    /\ UNCHANGED decided

GateNext == (\E d \in Decision : Decide(d)) \/ (\E m \in Letter : Send(m))

GateSpec == GateInit /\ [][GateNext]_gateVars
=============================================================================
