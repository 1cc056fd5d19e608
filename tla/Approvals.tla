------------------------------ MODULE Approvals ------------------------------
(***************************************************************************)
(* The approval queue and the outbound send of one user:                   *)
(*   - drafting      services/draft_service.py                             *)
(*   - approve and reject  services/approvals_service.py, the routes of    *)
(*                   routers/approvals.py and the assistant's actions of   *)
(*                   services/agent_action_approvals.py                    *)
(*   - dispatch      services/send_approval_service.py, run by a Celery    *)
(*                   worker or in the API process                          *)
(* Every handler is cut where it awaits the database or a provider.  Each  *)
(* handler has its own session at READ COMMITTED: what it read is kept in  *)
(* `base', what it changed in `work', and its commit writes the columns in *)
(* which the two differ.  The row locks of a flush before the commit are   *)
(* left out: they only take interleavings away.                            *)
(***************************************************************************)
EXTENDS FiniteSets

CONSTANTS
    Applications,  \* the user's applications
    Approvals,     \* ids of approval rows, used at most once each
    Drafters,      \* calls of create_draft_approval_for_application
    Requests,      \* approve calls; also names the dispatch a call causes
    Rejecters,     \* reject calls
    Keys,          \* Idempotency-Key header values
    Edits,         \* edited_body values
    None,          \* Python's None
    Channels,      \* channels the applications may have
    Handoff,       \* settings.gmail_approval_handoff
    UseCelery,     \* settings.use_celery_for_send_effective()
    BrokerFails,   \* whether `.delay' may raise
    DurableOnly,   \* production without in-process background work
    SmtpEnabled,   \* settings.smtp_enabled and a from address
    MayCrash       \* whether API and worker processes may die

AllChannels == {"email", "linkedin", "company_site"}
Providers   == {"gmail", "smtp", "linkedin", "internal"}

ASSUME ConfigAssumption ==
    /\ Channels \subseteq AllChannels
    /\ Handoff \in {"draft", "send"}
    /\ {UseCelery, BrokerFails, DurableOnly, SmtpEnabled, MayCrash} \subseteq BOOLEAN

ASSUME NamesAssumption ==
    /\ None \notin Keys \cup Requests \cup Edits \cup Approvals \cup Applications \cup Providers
    /\ Keys \cap Requests = {}
    /\ "drafted" \notin Edits

VARIABLES
    rows,      \* the approvals table, by id
    live,      \* ids now in the table
    deleted,   \* ids that were in it
    channel,   \* applications.channel, fixed when the application is made
    notes,     \* applications.notes, as the set of its lines
    drafts,    \* the drafting calls
    calls,     \* the approve calls
    rejects,   \* the reject calls
    jobs,      \* jobs[r]: the dispatch that call r handed over
    outbox     \* what providers have taken: never read by the code

vars == <<rows, live, deleted, channel, notes, drafts, calls, rejects, jobs, outbox>>

-----------------------------------------------------------------------------
Statuses    == {"pending", "approved", "edited"}
Deliveries  == {"not_sent", "queued", "draft_created", "provider_accepted",
                "provider_confirmed", "failed"}
Errors      == {"gmail_fallback", "dispatch_failed", "linkedin_failed", "copy_failed"}
Texts       == {"drafted"} \cup Edits
AllKeys     == Keys \cup Requests      \* the assistant makes a fresh key per call
Lines       == {"draft_created", "confirmed_gmail", "accepted_smtp",
                "confirmed_linkedin", "accepted_internal", "failed"}
Vias        == {"draft", "gmail", "smtp", "handoff"}

\* The columns of an approval that anything below depends on.
Row == [application: Applications \cup {None}, status: Statuses, key: AllKeys \cup {None},
        text: Texts, delivery: Deliveries, error: SUBSET Errors,
        provider: Providers \cup {None}, sent: BOOLEAN]

\* A message a provider took: the dispatch it came from, the approval it
\* belongs to, its text, and the way it went.
Message == [by: Requests, approval: Approvals, text: Texts, via: Vias]

NewRow(app) == [application |-> app, status |-> "pending", key |-> None, text |-> "drafted",
                delivery |-> "not_sent", error |-> {}, provider |-> None, sent |-> FALSE]

\* What a session's commit leaves in the row: its own value in the columns it
\* changed, the stored value in the others.
Written(old, new, stored) == IF new = old THEN stored ELSE new

Flush(stored, base, work) ==
    [application |-> stored.application,
     status   |-> Written(base.status, work.status, stored.status),
     key      |-> Written(base.key, work.key, stored.key),
     text     |-> Written(base.text, work.text, stored.text),
     delivery |-> Written(base.delivery, work.delivery, stored.delivery),
     error    |-> Written(base.error, work.error, stored.error),
     provider |-> Written(base.provider, work.provider, stored.provider),
     sent     |-> Written(base.sent, work.sent, stored.sent)]

IdleCall == [pc |-> "idle", approval |-> None, key |-> None, edit |-> None,
             base |-> NewRow(None), seen |-> {}]

NoJob == [phase |-> "none", base |-> NewRow(None), work |-> NewRow(None), noted |-> {}, log |-> {}]

Init ==
    /\ rows = [a \in Approvals |-> NewRow(None)]
    /\ live = {}
    /\ deleted = {}
    /\ channel \in [Applications -> Channels]
    /\ notes = [p \in Applications |-> {}]
    /\ drafts = [d \in Drafters |-> [pc |-> "idle", application |-> None]]
    /\ calls = [r \in Requests |-> IdleCall]
    /\ rejects = [q \in Rejecters |-> [pc |-> "idle", approval |-> None]]
    /\ jobs = [r \in Requests |-> NoJob]
    /\ outbox = {}

-----------------------------------------------------------------------------
(* Drafting.  The pending approval is looked up, then the text is          *)
(* generated (an await on the model provider), then the row is inserted.   *)

Pending(app) == {a \in live : rows[a].application = app /\ rows[a].status = "pending"}

DraftLookup(d, app) ==
    /\ drafts[d].pc = "idle"
    /\ drafts' = [drafts EXCEPT ![d] =
           [application |-> app,
            pc |-> IF Pending(app) = {} THEN "writing"
                   ELSE IF Cardinality(Pending(app)) = 1 THEN "returned"
                   ELSE "failed"]]      \* scalar_one_or_none raises
    /\ UNCHANGED <<rows, live, deleted, channel, notes, calls, rejects, jobs, outbox>>

DraftInsert(d, a) ==
    /\ drafts[d].pc = "writing"
    /\ a \notin live \cup deleted
    /\ rows' = [rows EXCEPT ![a] = NewRow(drafts[d].application)]
    /\ live' = live \cup {a}
    /\ drafts' = [drafts EXCEPT ![d].pc = "inserted"]
    /\ UNCHANGED <<deleted, channel, notes, calls, rejects, jobs, outbox>>

-----------------------------------------------------------------------------
(* approve_approval and its two callers.                                   *)

\* Calls whose decision is in the database, whatever became of the response.
AcceptedPcs == {"committed", "accepted", "unavailable", "crashed"}
Accepted == {r \in Requests : calls[r].pc \in AcceptedPcs}
AcceptedOn(a) == {r \in Accepted : calls[r].approval = a}

\* The route takes the client's key and an optional edit; the assistant makes
\* a key of its own, here the call's name, and edits nothing.
FromAssistant(r) == calls[r].key = r

\* mutant: a different key is taken for a new submission
ApproveReadAnyKey(r, a, key, edit) ==
    /\ calls[r].pc = "idle"
    /\ key = r => edit = None
    /\ calls' = [calls EXCEPT ![r] =
           [approval |-> a, key |-> key, edit |-> edit, base |-> rows[a], seen |-> AcceptedOn(a),
            pc |-> IF a \notin live THEN "not_found"
                   ELSE IF rows[a].key = key THEN "replayed" ELSE "read"]]
    /\ UNCHANGED <<rows, live, deleted, channel, notes, drafts, rejects, jobs, outbox>>

\* mutant: the edit is stored before the key is looked at
ApproveReadEditFirst(r, a, key, edit) ==
    /\ calls[r].pc = "idle"
    /\ key = r => edit = None
    /\ calls' = [calls EXCEPT ![r] =
           [approval |-> a, key |-> key, edit |-> edit, base |-> rows[a], seen |-> AcceptedOn(a),
            pc |-> IF a \notin live THEN "not_found" ELSE IF rows[a].key = None THEN "read"
                   ELSE IF rows[a].key = key THEN "replayed" ELSE "conflict"]]
    /\ rows' = IF edit = None THEN rows ELSE [rows EXCEPT ![a].text = edit]
    /\ UNCHANGED <<live, deleted, channel, notes, drafts, rejects, jobs, outbox>>

\* The SELECT and the early returns: not found, conflict, replay.
ApproveRead(r, a, key, edit) ==
    /\ calls[r].pc = "idle"
    /\ key = r => edit = None
    /\ calls' = [calls EXCEPT ![r] =
           [approval |-> a, key |-> key, edit |-> edit, base |-> rows[a],
            seen |-> AcceptedOn(a),     \* only the properties read it
            pc |-> IF a \notin live THEN "not_found"
                   ELSE IF rows[a].key = None THEN "read"
                   ELSE IF rows[a].key = key THEN "replayed"
                   ELSE "conflict"]]
    /\ UNCHANGED <<rows, live, deleted, channel, notes, drafts, rejects, jobs, outbox>>

\* The decision as the session holds it before the commit.
\* mutant: only an edited draft leaves the pending state
DecidedWhenEdited(base, key, edit) ==
    [base EXCEPT !.key = key, !.delivery = "queued",
                 !.status = IF edit = None THEN @ ELSE "edited",
                 !.text = IF edit = None THEN @ ELSE edit]

Decided(base, key, edit) ==
    [base EXCEPT !.key = key,
                 !.status = IF edit = None THEN "approved" ELSE "edited",
                 !.text = IF edit = None THEN base.text ELSE edit,
                 !.delivery = "queued",
                 !.error = {}, !.provider = None, !.sent = FALSE]

KeyTaken(a, key) == \E b \in live \ {a} : rows[b].key = key

ApproveCommit(r) ==
    LET c == calls[r]
        a == c.approval
    IN  /\ c.pc = "read"
        /\ IF a \in live /\ ~KeyTaken(a, c.key)
           THEN /\ rows' = [rows EXCEPT ![a] =
                       Flush(rows[a], c.base, Decided(c.base, c.key, c.edit))]
                /\ calls' = [calls EXCEPT ![r].pc = "committed"]
           ELSE /\ calls' = [calls EXCEPT ![r].pc = "error"]   \* row gone, or unique key
                /\ UNCHANGED rows
        /\ UNCHANGED <<live, deleted, channel, notes, drafts, rejects, jobs, outbox>>

HandOver(r, phase, pc) ==
    /\ jobs' = [jobs EXCEPT ![r].phase = phase]
    /\ calls' = [calls EXCEPT ![r].pc = pc]
    /\ UNCHANGED <<rows, live, deleted, channel, notes, drafts, rejects, outbox>>

\* `.delay' puts the task in the broker.
Enqueue(r) ==
    /\ calls[r].pc = "committed"
    /\ UseCelery
    /\ HandOver(r, "brokered", "accepted")

\* No Celery, or `.delay' raised and the caller may run it in its own process.
RunInProcess(r) ==
    /\ calls[r].pc = "committed"
    /\ UseCelery => BrokerFails /\ (FromAssistant(r) \/ ~DurableOnly)
    /\ HandOver(r, "scheduled", "accepted")

\* mutant: the route answers 503 whether or not it may fall back
EnqueueFailsAnywhere(r) ==
    /\ calls[r].pc = "committed"
    /\ UseCelery /\ BrokerFails /\ ~FromAssistant(r)
    /\ HandOver(r, "none", "unavailable")

\* `.delay' raised in the route and production forbids the fallback: 503.
EnqueueFails(r) ==
    /\ calls[r].pc = "committed"
    /\ UseCelery /\ BrokerFails /\ DurableOnly /\ ~FromAssistant(r)
    /\ HandOver(r, "none", "unavailable")

-----------------------------------------------------------------------------
(* reject_approval: any row can be rejected, whatever its status.          *)

RejectRead(q, a) ==
    /\ rejects[q].pc = "idle"
    /\ rejects' = [rejects EXCEPT ![q] =
           [approval |-> a, pc |-> IF a \in live THEN "read" ELSE "not_found"]]
    /\ UNCHANGED <<rows, live, deleted, channel, notes, drafts, calls, jobs, outbox>>

\* mutant: the row is marked as rejected and stays in the table
RejectCommitKeepingRow(q) ==
    LET a == rejects[q].approval IN
    /\ rejects[q].pc = "read"
    /\ deleted' = deleted \cup {a}
    /\ rejects' = [rejects EXCEPT ![q].pc = "removed"]
    /\ UNCHANGED <<rows, live, channel, notes, drafts, calls, jobs, outbox>>

RejectCommit(q) ==
    LET a == rejects[q].approval IN
    /\ rejects[q].pc = "read"
    /\ live' = live \ {a}
    /\ deleted' = deleted \cup {a}
    /\ rejects' = [rejects EXCEPT ![q].pc = "removed"]
    /\ UNCHANGED <<rows, channel, notes, drafts, calls, jobs, outbox>>

-----------------------------------------------------------------------------
(* execute_approval_send_stub, run for call r.                             *)

Target(r) == calls[r].approval
AppOf(r)  == jobs[r].base.application

\* Phases in which the dispatch has read the row and may still send or write.
InFlightPhases == {"email", "gmail_draft", "gmail_send", "smtp", "handoff", "copy", "commit"}
InFlight(r) == jobs[r].phase \in InFlightPhases

\* Sets the phase, the session's row and the lines to add to the notes.
Step(r, phase, work, lines) ==
    jobs' = [jobs EXCEPT ![r] =
        [phase |-> phase, base |-> @.base, work |-> work, noted |-> @.noted,
         log |-> @.log \cup lines]]

Sent(r, via) == [by |-> r, approval |-> Target(r), text |-> jobs[r].base.text, via |-> via]

dbVars == <<rows, live, deleted, channel, notes, drafts, calls, rejects>>

\* mutant: the task sends what it was queued with, without reading the row
DispatchableOnceQueued(a) == a \in live \cup deleted

Dispatchable(a) == a \in live /\ rows[a].status \in {"approved", "edited"}

\* A company_site approval has no provider: it is recorded as sent.
RecordedLocally(work) ==
    [work EXCEPT !.provider = "internal", !.sent = TRUE, !.delivery = "provider_accepted"]

\* The row is re-read and its status checked before anything else.
DispatchLoad(r) ==
    LET row  == rows[Target(r)]
        ch   == channel[row.application]
        work == [row EXCEPT !.delivery = "queued", !.error = {}]
    IN  /\ jobs[r].phase \in {"brokered", "scheduled"}
        /\ Dispatchable(Target(r))
        /\ jobs' = [jobs EXCEPT ![r] =
               [phase |-> CASE ch = "email" -> "email"
                            [] ch = "linkedin" -> "handoff"
                            [] OTHER -> "commit",
                base |-> row,
                work |-> IF ch = "company_site" THEN RecordedLocally(work) ELSE work,
                noted |-> notes[row.application],
                log |-> IF ch = "company_site" THEN {"accepted_internal"} ELSE {}]]
        /\ UNCHANGED <<dbVars, outbox>>

DispatchSkip(r) ==
    /\ jobs[r].phase \in {"brokered", "scheduled"}
    /\ ~Dispatchable(Target(r))
    /\ jobs' = [jobs EXCEPT ![r].phase = "skipped"]
    /\ UNCHANGED <<dbVars, outbox>>

\* The user may or may not have a usable Gmail credential at this moment.
ReadCredential(r) ==
    /\ jobs[r].phase = "email"
    /\ \E phase \in {"smtp", IF Handoff = "draft" THEN "gmail_draft" ELSE "gmail_send"} :
           Step(r, phase, jobs[r].work, {})
    /\ UNCHANGED <<dbVars, outbox>>

\* mutant: a call that raised before the message left counts as answered
ProviderSwallowingErrors(r, via, answered) == outbox' \in {outbox, outbox \cup {Sent(r, via)}}

\* A provider call: it takes the message or not, and answers or raises.  It
\* cannot answer without having taken it, but it can raise after it took it
\* (the message is sent, then the answer, or the read back of it, is lost).
Provider(r, via, answered) ==
    IF answered THEN outbox' = outbox \cup {Sent(r, via)}
    ELSE outbox' \in {outbox, outbox \cup {Sent(r, via)}}

\* A created draft leaves sent_via_gmail False: the SMTP branch follows.
GmailDraft(r) ==
    /\ jobs[r].phase = "gmail_draft"
    /\ \/ /\ Provider(r, "draft", TRUE)
          /\ Step(r, "smtp", [jobs[r].work EXCEPT !.provider = "gmail", !.error = {},
                                                  !.delivery = "draft_created"],
                  {"draft_created"})
       \/ /\ Provider(r, "draft", FALSE)
          /\ Step(r, "gmail_send", jobs[r].work, {})
    /\ UNCHANGED dbVars

GmailSend(r) ==
    /\ jobs[r].phase = "gmail_send"
    /\ \/ /\ Provider(r, "gmail", TRUE)
          /\ Step(r, "copy", [jobs[r].work EXCEPT !.provider = "gmail", !.sent = TRUE,
                                                  !.delivery = "provider_confirmed"],
                  {"confirmed_gmail"})
       \/ /\ Provider(r, "gmail", FALSE)
          /\ Step(r, "smtp", [jobs[r].work EXCEPT !.error = {"gmail_fallback"}], {})
    /\ UNCHANGED dbVars

\* With SMTP disabled the send is a dry run that reports success.
Smtp(r, via, answered) ==
    IF SmtpEnabled THEN Provider(r, via, answered) ELSE answered /\ UNCHANGED outbox

SmtpSend(r) ==
    /\ jobs[r].phase = "smtp"
    /\ \/ /\ Smtp(r, "smtp", TRUE)
          /\ Step(r, "copy", [jobs[r].work EXCEPT !.provider = "smtp", !.sent = TRUE,
                                                  !.delivery = "provider_accepted"],
                  {"accepted_smtp"})
       \/ /\ Smtp(r, "smtp", FALSE)
          /\ Step(r, "commit", [jobs[r].work EXCEPT !.delivery = "failed",
                                                    !.error = {"dispatch_failed"}],
                  {"failed"})
    /\ UNCHANGED dbVars

\* LinkedIn has no send: the user is emailed the text to paste.
LinkedInHandoff(r) ==
    /\ jobs[r].phase = "handoff"
    /\ \/ /\ Smtp(r, "handoff", TRUE)
          /\ Step(r, "commit", [jobs[r].work EXCEPT !.provider = "linkedin", !.sent = TRUE,
                                                    !.delivery = "provider_confirmed"],
                  {"confirmed_linkedin"})
       \/ /\ Smtp(r, "handoff", FALSE)
          /\ Step(r, "commit", [jobs[r].work EXCEPT !.delivery = "failed",
                                                    !.error = {"linkedin_failed"}], {})
    /\ UNCHANGED dbVars

\* The confirmation copy to the user: its failure is noted, never a downgrade.
ConfirmCopy(r) ==
    /\ jobs[r].phase = "copy"
    /\ \E failed \in SUBSET {"copy_failed"} :
           Step(r, "commit", [jobs[r].work EXCEPT !.error = @ \cup failed], {})
    /\ UNCHANGED <<dbVars, outbox>>

\* One commit writes the approval and the notes; if the row has been deleted
\* its update matches nothing, the session raises and both are lost.
DispatchCommit(r) ==
    LET a == Target(r)
        j == jobs[r]
    IN  /\ j.phase = "commit"
        /\ IF a \in live \/ j.work = j.base
           THEN /\ rows' = [rows EXCEPT ![a] = Flush(rows[a], j.base, j.work)]
                /\ notes' = [notes EXCEPT ![AppOf(r)] =
                       IF j.log = {} THEN @ ELSE j.noted \cup j.log]
                /\ jobs' = [jobs EXCEPT ![r].phase = "done"]
           ELSE /\ jobs' = [jobs EXCEPT ![r].phase = "lost"]
                /\ UNCHANGED <<rows, notes>>
        /\ UNCHANGED <<live, deleted, channel, drafts, calls, rejects, outbox>>

-----------------------------------------------------------------------------
(* Process death.  A request dies between its commit and its hand-over; a  *)
(* dispatch dies wherever it is, Celery having acknowledged it on receipt. *)

CrashRequest(r) ==
    /\ MayCrash
    /\ calls[r].pc = "committed"
    /\ calls' = [calls EXCEPT ![r].pc = "crashed"]
    /\ UNCHANGED <<rows, live, deleted, channel, notes, drafts, rejects, jobs, outbox>>

CrashDispatch(r) ==
    /\ MayCrash
    /\ InFlight(r) \/ jobs[r].phase = "scheduled"
    /\ jobs' = [jobs EXCEPT ![r].phase = "lost"]
    /\ UNCHANGED <<dbVars, outbox>>

-----------------------------------------------------------------------------
HandOff(r) == Enqueue(r) \/ RunInProcess(r) \/ EnqueueFails(r)

Dispatch(r) ==
    \/ DispatchLoad(r) \/ DispatchSkip(r) \/ ReadCredential(r)
    \/ GmailDraft(r) \/ GmailSend(r) \/ SmtpSend(r) \/ LinkedInHandoff(r)
    \/ ConfirmCopy(r) \/ DispatchCommit(r)

Next ==
    \/ \E d \in Drafters, app \in Applications : DraftLookup(d, app)
    \/ \E d \in Drafters, a \in Approvals : DraftInsert(d, a)
    \/ \E r \in Requests, a \in Approvals : \E key \in Keys \cup {r}, edit \in Edits \cup {None} :
           ApproveRead(r, a, key, edit)
    \/ \E r \in Requests : ApproveCommit(r) \/ HandOff(r) \/ Dispatch(r)
    \/ \E q \in Rejecters, a \in Approvals : RejectRead(q, a)
    \/ \E q \in Rejecters : RejectCommit(q)
    \/ \E r \in Requests : CrashRequest(r) \/ CrashDispatch(r)

Spec == Init /\ [][Next]_vars

\* A request that began and a dispatch that was handed over run to their end
\* unless their process dies; nobody has to draft, approve or reject.
Fairness ==
    \A r \in Requests : /\ WF_vars(ApproveCommit(r))
                        /\ WF_vars(HandOff(r))
                        /\ WF_vars(Dispatch(r))

FairSpec == Spec /\ Fairness

-----------------------------------------------------------------------------
(* Properties.                                                             *)

CallPcs   == {"idle", "not_found", "conflict", "replayed", "read", "error",
              "committed", "accepted", "unavailable", "crashed"}
JobPhases == {"none", "brokered", "scheduled", "skipped", "done", "lost"} \cup InFlightPhases

TableTypes ==
    /\ rows \in [Approvals -> Row]
    /\ live \subseteq Approvals
    /\ deleted \subseteq Approvals
    /\ live \cap deleted = {}
    /\ \A a \in live : rows[a].application \in Applications
    /\ channel \in [Applications -> Channels]
    /\ notes \in [Applications -> SUBSET Lines]
    /\ outbox \subseteq Message

DraftTypes ==
    /\ drafts \in [Drafters -> [pc: {"idle", "writing", "returned", "failed", "inserted"},
                                application: Applications \cup {None}]]
    /\ \A d \in Drafters : drafts[d].pc = "writing" => drafts[d].application \in Applications

CallTypes ==
    /\ calls \in [Requests -> [pc: CallPcs, approval: Approvals \cup {None},
                               key: AllKeys \cup {None}, edit: Edits \cup {None},
                               base: Row, seen: SUBSET Requests]]
    /\ \A r \in Requests :
           calls[r].pc # "idle" => calls[r].approval \in Approvals /\ calls[r].key \in AllKeys

RejectTypes ==
    /\ rejects \in [Rejecters -> [pc: {"idle", "not_found", "read", "removed"},
                                  approval: Approvals \cup {None}]]
    /\ \A q \in Rejecters : rejects[q].pc # "idle" => rejects[q].approval \in Approvals

JobTypes ==
    /\ jobs \in [Requests -> [phase: JobPhases, base: Row, work: Row,
                              noted: SUBSET Lines, log: SUBSET Lines]]
    /\ \A r \in Requests : jobs[r].phase # "none" => calls[r].pc = "accepted"
    /\ \A r \in Requests : InFlight(r) => AppOf(r) \in Applications

\* Every table, call and dispatch holds values of its type, an id in the table
\* was never deleted, and only an accepted call has a dispatch
\* (models/approval.py, schemas/approvals.py).
TypeOK == TableTypes /\ DraftTypes /\ CallTypes /\ RejectTypes /\ JobTypes

\* The text a call authorises: the edit, or the text it read.
DecidedText(r) == IF calls[r].edit = None THEN calls[r].base.text ELSE calls[r].edit

\* The queue and its senders implement HumanGate: whatever the overlap of
\* approve calls, edits, rejects, drafts and crashes, a message leaves only on
\* account of an approve call that reached the database, with a text such a
\* call authorised, and once per call and provider.
Decisions == {[by |-> r, approval |-> calls[r].approval, text |-> DecidedText(r)] : r \in Accepted}

Gate == INSTANCE HumanGate WITH Decisions <- Requests, decided <- Decisions

NothingSentUnapproved == Gate!GateSpec

\* While a draft awaits review nothing has happened on its account: no key, no
\* delivery state, no dispatch under way and nothing in the outbox.
PendingIsUntouched ==
    \A a \in live : rows[a].status = "pending" =>
        /\ rows[a].key = None
        /\ rows[a].delivery = "not_sent" /\ ~rows[a].sent
        /\ AcceptedOn(a) = {}
        /\ \A r \in Requests : jobs[r].phase # "none" => Target(r) # a
        /\ \A m \in outbox : m.approval # a

HasMessage(a, vias) == \E m \in outbox : m.approval = a /\ m.via \in vias

\* What each column of a row may claim given what providers have taken.  A
\* company_site approval has no provider: it is recorded as sent locally.
Backed(a, row) ==
    LET recorded == channel[row.application] = "company_site" IN
    /\ row.delivery = "provider_confirmed" => HasMessage(a, {"gmail", "handoff"})
    /\ row.delivery = "provider_accepted" => recorded \/ HasMessage(a, {"smtp"})
    /\ row.sent => recorded \/ HasMessage(a, {"gmail", "smtp", "handoff"})
    /\ row.provider = "smtp" => HasMessage(a, {"smtp"})
    /\ row.provider = "gmail" => HasMessage(a, {"gmail", "draft"})

\* The delivery a row reports is true: "confirmed", "accepted", the provider
\* and sent_at only with a message that provider took, even when two dispatches
\* of one approval write their columns over each other or a late approve puts
\* the row back to queued.
DeliveryClaimsBacked == SmtpEnabled => \A a \in live : Backed(a, rows[a])

\* The same for the lines of an application's notes.
TakenFor(p) == {m.via : m \in {n \in outbox : rows[n.approval].application = p}}

LinesBacked(p, lines) ==
    /\ "draft_created" \in lines => "draft" \in TakenFor(p)
    /\ "confirmed_gmail" \in lines => "gmail" \in TakenFor(p)
    /\ SmtpEnabled /\ "accepted_smtp" \in lines => "smtp" \in TakenFor(p)
    /\ SmtpEnabled /\ "confirmed_linkedin" \in lines => "handoff" \in TakenFor(p)

\* The application's notes are true as well: each dispatch rewrites them from
\* the copy it read, which can lose another's line but never invents one.
NotesBacked == \A p \in Applications : LinesBacked(p, notes[p])

\* An approve call that begins after another one on the same approval was
\* committed queues no second send, whatever its key: only calls whose reads
\* came before each other's commits can both be accepted.
LaterApproveIsNotAccepted == \A r \in Accepted : calls[r].seen = {}

MessagesFor(a) == {m \in outbox : m.approval = a}
Quiet(a) == a \in deleted /\ \A r \in Requests : InFlight(r) => Target(r) # a

\* Once an approval is rejected and no dispatch that read it before is still
\* running, it stays so and nothing more is sent for it: a call that read the
\* row commits nothing, and tasks still in the broker or in the process, or
\* handed over later, skip it.
RejectedStaysSilent ==
    [][\A a \in Approvals :
         Quiet(a) => Quiet(a)' /\ MessagesFor(a)' = MessagesFor(a)]_vars

\* A queued approval is eventually resolved or removed: every commit that
\* leaves a row queued is followed by a dispatch that reports on it.
QueuedIsResolved ==
    \A a \in Approvals :
        (a \in live /\ rows[a].delivery = "queued")
            ~> (a \notin live \/ rows[a].delivery # "queued")

\* A dispatch that is still to come or under way, and one that will never be: the
\* process died with it, or the caller was answered 503.
Coming(r) == calls[r].pc = "committed" \/ jobs[r].phase \in {"brokered", "scheduled"} \/ InFlight(r)
Undone(r) == calls[r].pc \in {"unavailable", "crashed"} \/ (MayCrash /\ jobs[r].phase = "lost")

\* The safety half of QueuedIsResolved: a row says queued only while a dispatch of it is
\* to come, or because one never will.  No dispatch ends and leaves it so, although it
\* does not write the delivery column if it ends as the row was when it read it, and
\* another call may have put the row back to queued in between.
QueuedIsAttended ==
    \A a \in live : rows[a].delivery = "queued" => \E r \in AcceptedOn(a) : Coming(r) \/ Undone(r)

-----------------------------------------------------------------------------
(* Why the queue implements HumanGate: the inductive invariant.            *)

CleanRow(row) ==
    /\ row.status = "pending" /\ row.key = None /\ row.text = "drafted"
    /\ row.delivery = "not_sent" /\ ~row.sent

Authorises(a, text) == \E q \in AcceptedOn(a) : DecidedText(q) = text

\* A row is pending and clean until the first accepted call, and from then on
\* has a key and a text some accepted call authorised.
RowInv ==
    /\ \A a \in Approvals : a \notin live \cup deleted => AcceptedOn(a) = {}
    /\ \A a \in live :
           IF rows[a].status = "pending" THEN CleanRow(rows[a]) /\ AcceptedOn(a) = {}
           ELSE rows[a].key # None /\ Authorises(a, rows[a].text)

\* A call that may commit read a clean row.
CallInv ==
    \A r \in Requests : calls[r].pc = "read" \/ r \in Accepted =>
        CleanRow(calls[r].base) /\ calls[r].seen = {} /\ calls[r].approval \in live \cup deleted

\* A dispatch holds an authorised text and changes only the delivery columns.
JobInv ==
    \A r \in Requests : InFlight(r) =>
        /\ Authorises(Target(r), jobs[r].base.text)
        /\ jobs[r].work.status = jobs[r].base.status
        /\ jobs[r].work.key = jobs[r].base.key
        /\ jobs[r].work.text = jobs[r].base.text

\* The ways a dispatch may already have used when it is in a phase.
UsedBy(phase) ==
    CASE phase = "gmail_send" -> {"draft"}
      [] phase = "smtp" -> {"draft", "gmail"}
      [] phase \in {"copy", "commit", "done", "lost"} -> Vias
      [] OTHER -> {}

OutboxInv ==
    \A m \in outbox :
        /\ m.by \in Accepted /\ m.approval = Target(m.by)
        /\ Authorises(m.approval, m.text)
        /\ m.via \in UsedBy(jobs[m.by].phase)

QueueInv == TypeOK /\ RowInv /\ CallInv /\ JobInv /\ OutboxInv

(* Why what rows and notes claim is true: so is what the dispatches under  *)
(* way hold, column by column and line by line, for the application that   *)
(* the row still has.                                                      *)

ClaimsInv ==
    /\ \A a \in live : Backed(a, rows[a])
    /\ \A r \in Requests : InFlight(r) =>
           /\ rows[Target(r)].application = AppOf(r)
           /\ jobs[r].work.application = AppOf(r)
           /\ Backed(Target(r), jobs[r].work)

NotesInv ==
    /\ NotesBacked
    /\ \A r \in Requests : InFlight(r) =>
           /\ rows[Target(r)].application = AppOf(r)
           /\ LinesBacked(AppOf(r), jobs[r].noted \cup jobs[r].log)

\* A dispatch that ends writes the delivery column, if it read the row as queued.
Attends(r) ==
    \/ calls[r].pc = "committed" \/ jobs[r].phase \in {"brokered", "scheduled"}
    \/ InFlight(r) /\ jobs[r].base.delivery = "queued"
    \/ Undone(r)

AttendedInv ==
    /\ \A a \in live : rows[a].delivery = "queued" => \E r \in AcceptedOn(a) : Attends(r)
    /\ \A r \in Requests : jobs[r].phase \in {"copy", "commit"} => jobs[r].work.delivery # "queued"

-----------------------------------------------------------------------------
(* What the repository says and the code does not do.                      *)

\* routers/approvals.py:90, on 503: "Approval queued but durable worker enqueue
\* failed. Retry shortly."  So after a retry with the same key the queued
\* message should be dispatched, or the approval gone.
RetryReachesDispatch ==
    \A r \in Requests :
        (calls[r].pc = "replayed" /\ Target(r) \in live /\ rows[Target(r)].delivery = "queued")
            ~> (Target(r) \notin live \/ rows[Target(r)].delivery # "queued")
=============================================================================
