----------------------------- MODULE ModelGateway -----------------------------
(***************************************************************************)
(* The calls to the language model and the circuit that concurrent calls   *)
(* of a use case share: a dictionary of the process, read before a call    *)
(* and written after it, with retries and their sleeps in between.         *)
(*   services/openrouter.py, workflow/retry.py.                            *)
(***************************************************************************)
EXTENDS Naturals, Sequences

CONSTANTS
    UseCases, Calls,
    Attempts,     \* Attempts[k]: requests a call of the use case may send
    Cooldown,     \* _CIRCUIT_COOLDOWN_S
    MaxTime       \* bound of the clock

ASSUME GatewayAssumption ==
    /\ Attempts \in [UseCases -> Nat \ {0}]
    /\ Cooldown \in Nat /\ MaxTime \in Nat \ {0}

VARIABLES
    clock,        \* time.monotonic
    circuit,      \* _circuit_state; a use case without an entry has Closed
    pc, use_case, mode, sent,   \* of a call: where it is, its kind, requests sent
    history       \* history[k]: what happened to the use case, in order

vars == <<clock, circuit, pc, use_case, mode, sent, history>>

Modes == {"chat", "stream"}
Ended == {"done", "failed", "refused", "cancelled"}
Events == {"entered", "refused", "success", "failure", "lapse"}
Threshold == 2
Closed == [failures |-> 0, opened_at |-> 0]

Init ==
    /\ clock = 1
    /\ circuit = [k \in UseCases |-> Closed]
    /\ pc = [c \in Calls |-> "idle"]
    /\ use_case \in [Calls -> UseCases]
    /\ mode \in [Calls -> Modes]
    /\ sent = [c \in Calls |-> 0]
    /\ history = [k \in UseCases |-> <<>>]

Tick ==
    /\ clock < MaxTime
    /\ clock' = clock + 1
    /\ UNCHANGED <<circuit, pc, use_case, mode, sent, history>>

-----------------------------------------------------------------------------
(* The circuit.  Between two awaits nothing else of the process runs.       *)

Opened(k) == circuit[k].opened_at > 0

\* mutant: the cooldown is not looked at
IsOpenForever(k) == Opened(k)

IsOpen(k) == Opened(k) /\ clock - circuit[k].opened_at < Cooldown

\* The entry once _circuit_is_open has answered: an opening that is over is erased.
AfterLook(k) == IF Opened(k) /\ ~IsOpen(k) THEN Closed ELSE circuit[k]

Event(e) == [event |-> e, at |-> clock]
Log(k, s) == history' = [history EXCEPT ![k] = @ \o s]
Record(k, e, entry) ==
    /\ circuit' = [circuit EXCEPT ![k] = entry]
    /\ Log(k, <<Event(e)>>)

RecordSuccess(k) == Record(k, "success", Closed)

\* mutant: only the failure that reaches the threshold sets the time
RecordFailureOnce(k) ==
    LET n == circuit[k].failures + 1
    IN Record(k, "failure",
              [failures |-> n, opened_at |-> IF n = Threshold THEN clock ELSE circuit[k].opened_at])

\* Every failure from the threshold on opens the circuit anew.
RecordFailure(k) ==
    LET n == circuit[k].failures + 1
    IN Record(k, "failure",
              [failures |-> n, opened_at |-> IF n >= Threshold THEN clock ELSE circuit[k].opened_at])

-----------------------------------------------------------------------------
(* A call: chat_completion or the consumer of stream_chat_completion_chunks. *)

Goto(c, p) == pc' = [pc EXCEPT ![c] = p]

Refuse(c) ==
    /\ pc[c] = "idle" /\ IsOpen(use_case[c])
    /\ Goto(c, "refused")
    /\ Log(use_case[c], <<Event("refused")>>)
    /\ UNCHANGED <<clock, circuit, use_case, mode, sent>>

Enter(c) ==
    LET k == use_case[c]
    IN  /\ pc[c] = "idle" /\ ~IsOpen(k)
        /\ circuit' = [circuit EXCEPT ![k] = AfterLook(k)]
        /\ Log(k, IF Opened(k) THEN <<Event("lapse"), Event("entered")>> ELSE <<Event("entered")>>)
        /\ Goto(c, "asking")
        /\ sent' = [sent EXCEPT ![c] = 1]
        /\ UNCHANGED <<clock, use_case, mode>>

\* The answer is whole and has content; a stream ends.
Succeed(c) ==
    /\ pc[c] = "asking"
    /\ RecordSuccess(use_case[c])
    /\ Goto(c, "done")
    /\ UNCHANGED <<clock, use_case, mode, sent>>

\* mutant: the attempt under way is not counted
AttemptsLeftLate(c) == mode[c] = "chat" /\ sent[c] <= Attempts[use_case[c]]

\* Only a chat is asked again.
AttemptsLeft(c) == mode[c] = "chat" /\ sent[c] < Attempts[use_case[c]]

\* A timeout or a status that may pass: the call sleeps ...
BackOff(c) ==
    /\ pc[c] = "asking" /\ AttemptsLeft(c)
    /\ Goto(c, "sleeping")
    /\ UNCHANGED <<clock, circuit, use_case, mode, sent, history>>

\* ... and asks again, whatever became of the circuit.
AskAgain(c) ==
    /\ pc[c] = "sleeping"
    /\ Goto(c, "asking")
    /\ sent' = [sent EXCEPT ![c] = @ + 1]
    /\ UNCHANGED <<clock, circuit, use_case, mode, history>>

\* Another error, or the last attempt: one failure is recorded for the call.
Fail(c) ==
    /\ pc[c] = "asking"
    /\ RecordFailure(use_case[c])
    /\ Goto(c, "failed")
    /\ UNCHANGED <<clock, use_case, mode, sent>>

\* The task is cancelled or the consumer leaves the stream: no Exception, nothing
\* is recorded.
Cancel(c) ==
    /\ pc[c] \in {"asking", "sleeping"}
    /\ Goto(c, "cancelled")
    /\ UNCHANGED <<clock, circuit, use_case, mode, sent, history>>

Next ==
    \/ Tick
    \/ \E c \in Calls :
           Refuse(c) \/ Enter(c) \/ Succeed(c) \/ BackOff(c) \/ AskAgain(c) \/ Fail(c) \/ Cancel(c)

Spec == Init /\ [][Next]_vars

-----------------------------------------------------------------------------
\* A call sends at most as many requests as its use case allows, a stream one.
AttemptsAreBounded ==
    \A c \in Calls : sent[c] <= (IF mode[c] = "chat" THEN Attempts[use_case[c]] ELSE 1)

TypeOK ==
    /\ clock \in 1 .. MaxTime
    /\ circuit \in [UseCases -> [failures : Nat, opened_at : 0 .. MaxTime]]
    /\ pc \in [Calls -> {"idle", "asking", "sleeping"} \cup Ended]
    /\ use_case \in [Calls -> UseCases]
    /\ mode \in [Calls -> Modes]
    /\ sent \in [Calls -> Nat] /\ AttemptsAreBounded
    /\ history \in [UseCases -> Seq([event : Events, at : 1 .. MaxTime])]

\* No success and no lapse in h after its i-th event and before its n-th.
Unbroken(h, i, n) == \A m \in i .. n - 1 : h[m].event \notin {"success", "lapse"}

\* Two failures before the n-th event with nothing between that closes the circuit,
\* the last of them less than a cooldown ago.
OpenBefore(h, n) ==
    \E i, m \in 1 .. n - 1 :
        /\ i < m /\ h[i].event = "failure" /\ h[m].event = "failure"
        /\ Unbroken(h, i, n)
        /\ h[n].at - h[m].at < Cooldown

\* However calls overlap, a call is refused exactly when two failures of its use case,
\* with no success and no lapse since the first, are on record and the last is less
\* than a cooldown ago: late answers of old calls move the circuit by this rule too.
RefusalsFollowHistory ==
    \A k \in UseCases : \A n \in DOMAIN history[k] :
        /\ history[k][n].event = "refused" => OpenBefore(history[k], n)
        /\ history[k][n].event = "entered" => ~OpenBefore(history[k], n)

\* A lapse erases failures of which none is younger than the cooldown.
LapseIsQuiet ==
    \A k \in UseCases : \A n \in DOMAIN history[k] :
        history[k][n].event = "lapse" =>
            \A m \in 1 .. n - 1 :
                history[k][m].event = "failure" => history[k][n].at - history[k][m].at >= Cooldown
=============================================================================
