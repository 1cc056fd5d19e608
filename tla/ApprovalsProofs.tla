--------------------------- MODULE ApprovalsProofs ---------------------------
(* Theorems about Approvals, for any number of approvals, calls and edits.  *)
EXTENDS Approvals, TLAPS

\* A commit of well-typed rows leaves a well-typed row.
LEMMA FlushType ==
    ASSUME NEW stored \in Row, NEW base \in Row, NEW work \in Row
    PROVE  /\ Flush(stored, base, work) \in Row
           /\ Flush(stored, base, work).application = stored.application
  BY DEF Flush, Written, Row

LEMMA NewRowType ==
    ASSUME NEW app \in Applications \cup {None}
    PROVE  NewRow(app) \in Row /\ NewRow(app).application = app
  BY DEF NewRow, Row, Statuses, Texts, Deliveries

LEMMA DecidedType ==
    ASSUME NEW base \in Row, NEW key \in AllKeys, NEW edit \in Edits \cup {None}
    PROVE  Decided(base, key, edit) \in Row
  BY DEF Decided, Row, Statuses, Texts, Deliveries

\* The rows a dispatch holds as it goes through its branches differ in the
\* delivery columns only.
SameDecision(row, work) ==
    work.status = row.status /\ work.key = row.key /\ work.text = row.text

LEMMA WorkKeeps ==
    ASSUME NEW row \in Row
    PROVE  /\ \A d, p : SameDecision(row, [row EXCEPT !.provider = p, !.sent = TRUE, !.delivery = d])
           /\ \A d, p : SameDecision(row, [row EXCEPT !.provider = p, !.error = {}, !.delivery = d])
           /\ \A d, e : SameDecision(row, [row EXCEPT !.delivery = d, !.error = e])
           /\ \A e : SameDecision(row, [row EXCEPT !.error = e])
           /\ SameDecision(row, row)
  BY DEF Row, SameDecision

LEMMA TypeInit == Init => TypeOK
<1> SUFFICES ASSUME Init PROVE TypeOK
  OBVIOUS
<1>1. TableTypes
  BY NewRowType DEF Init, TableTypes
<1>2. DraftTypes
  BY DEF Init, DraftTypes
<1>3. CallTypes
  BY NewRowType DEF Init, CallTypes, IdleCall, CallPcs
<1>4. RejectTypes
  BY DEF Init, RejectTypes
<1>5. JobTypes
  BY NewRowType DEF Init, JobTypes, NoJob, JobPhases, InFlight, InFlightPhases
<1>. QED  BY <1>1, <1>2, <1>3, <1>4, <1>5 DEF TypeOK

\* What a dispatch in flight may send is a message.
LEMMA SentType ==
    ASSUME TypeOK, NEW r \in Requests, InFlight(r), NEW via \in Vias
    PROVE  Sent(r, via) \in Message
  BY DEF TypeOK, CallTypes, JobTypes, InFlight, InFlightPhases, Sent, Message, Target, Row

\* A step of a dispatch in flight that changes its own record and the outbox.
LEMMA StepType ==
    ASSUME TypeOK, NEW r \in Requests, NEW phase \in InFlightPhases, NEW work \in Row,
           NEW lines \in SUBSET Lines, InFlight(r), Step(r, phase, work, lines),
           outbox' \subseteq Message, UNCHANGED dbVars
    PROVE  TypeOK'
<1>1. TableTypes' /\ DraftTypes' /\ CallTypes' /\ RejectTypes'
  BY DEF TypeOK, TableTypes, DraftTypes, CallTypes, RejectTypes, dbVars
<1>2. JobTypes'
  <2>1. jobs' \in [Requests -> [phase: JobPhases, base: Row, work: Row,
                                noted: SUBSET Lines, log: SUBSET Lines]]
    BY DEF TypeOK, JobTypes, Step, JobPhases
  <2>2. \A q \in Requests : /\ q # r => jobs'[q] = jobs[q]
                            /\ jobs'[q].base = jobs[q].base
    BY DEF TypeOK, JobTypes, Step
  <2>3. calls' = calls /\ jobs[r].phase # "none"
    BY DEF dbVars, InFlight, InFlightPhases
  <2>. QED
    BY <2>1, <2>2, <2>3 DEF TypeOK, JobTypes, InFlight, AppOf
<1>. QED  BY <1>1, <1>2 DEF TypeOK

-----------------------------------------------------------------------------
(* Type correctness, one lemma per group of actions.                       *)

LEMMA DraftTypeStep ==
    ASSUME TypeOK, NEW d \in Drafters,
           \/ \E app \in Applications : DraftLookup(d, app)
           \/ \E a \in Approvals : DraftInsert(d, a)
    PROVE  TypeOK'
<1>1. ASSUME NEW app \in Applications, DraftLookup(d, app) PROVE TypeOK'
  <2>1. DraftTypes'
    BY <1>1 DEF TypeOK, DraftTypes, DraftLookup
  <2>2. TableTypes' /\ CallTypes' /\ RejectTypes' /\ JobTypes'
    BY <1>1 DEF TypeOK, TableTypes, CallTypes, RejectTypes, JobTypes, DraftLookup, InFlight, AppOf
  <2>. QED  BY <2>1, <2>2 DEF TypeOK
<1>2. ASSUME NEW a \in Approvals, DraftInsert(d, a) PROVE TypeOK'
  <2>1. DraftTypes'
    BY <1>2 DEF TypeOK, DraftTypes, DraftInsert
  <2>2. TableTypes'
    BY <1>2, NewRowType DEF TypeOK, TableTypes, DraftTypes, DraftInsert
  <2>3. CallTypes' /\ RejectTypes' /\ JobTypes'
    BY <1>2 DEF TypeOK, CallTypes, RejectTypes, JobTypes, DraftInsert, InFlight, AppOf
  <2>. QED  BY <2>1, <2>2, <2>3 DEF TypeOK
<1>. QED  BY <1>1, <1>2

LEMMA ApproveReadType ==
    ASSUME TypeOK, NEW r \in Requests, NEW a \in Approvals, NEW key \in Keys \cup {r},
           NEW edit \in Edits \cup {None}, ApproveRead(r, a, key, edit)
    PROVE  TypeOK'
<1>1. rows[a] \in Row /\ AcceptedOn(a) \in SUBSET Requests /\ key \in AllKeys
  BY DEF TypeOK, TableTypes, AcceptedOn, Accepted, AllKeys
<1>2. CallTypes'
  BY <1>1 DEF TypeOK, CallTypes, ApproveRead, CallPcs
<1>3. JobTypes'
  BY DEF TypeOK, JobTypes, CallTypes, ApproveRead, InFlight, AppOf
<1>4. TableTypes' /\ DraftTypes' /\ RejectTypes'
  BY DEF TypeOK, TableTypes, DraftTypes, RejectTypes, ApproveRead
<1>. QED  BY <1>2, <1>3, <1>4 DEF TypeOK

LEMMA ApproveCommitType ==
    ASSUME TypeOK, NEW r \in Requests, ApproveCommit(r)
    PROVE  TypeOK'
<1> DEFINE c == calls[r]
<1>1. c.base \in Row /\ c.key \in AllKeys /\ c.edit \in Edits \cup {None} /\ c.approval \in Approvals
  BY DEF TypeOK, CallTypes, ApproveCommit
<1>2. Decided(c.base, c.key, c.edit) \in Row /\ rows[c.approval] \in Row
  BY <1>1, DecidedType DEF TypeOK, TableTypes
<1>3. TableTypes'
  BY <1>1, <1>2, FlushType DEF TypeOK, TableTypes, ApproveCommit
<1>4. CallTypes'
  BY DEF TypeOK, CallTypes, ApproveCommit, CallPcs
<1>5. JobTypes'
  BY DEF TypeOK, JobTypes, CallTypes, ApproveCommit, InFlight, AppOf
<1>6. DraftTypes' /\ RejectTypes'
  BY DEF TypeOK, DraftTypes, RejectTypes, ApproveCommit
<1>. QED  BY <1>3, <1>4, <1>5, <1>6 DEF TypeOK

LEMMA HandOffType ==
    ASSUME TypeOK, NEW r \in Requests, HandOff(r)
    PROVE  TypeOK'
<1>1. PICK phase \in {"none", "brokered", "scheduled"}, pc \in {"accepted", "unavailable"} :
         /\ HandOver(r, phase, pc)
         /\ phase = "none" \/ pc = "accepted"
         /\ calls[r].pc = "committed"
  BY DEF HandOff, Enqueue, RunInProcess, EnqueueFails
<1>2. CallTypes'
  BY <1>1 DEF TypeOK, CallTypes, HandOver, CallPcs
<1>3. JobTypes'
  <2>1. jobs[r].phase = "none" /\ ~InFlight(r)
    BY <1>1 DEF TypeOK, JobTypes, InFlight, InFlightPhases
  <2>2. jobs'[r].phase = phase
    BY <1>1 DEF TypeOK, JobTypes, HandOver
  <2>3. \A q \in Requests \ {r} : jobs'[q] = jobs[q] /\ calls'[q] = calls[q]
    BY <1>1 DEF TypeOK, JobTypes, CallTypes, HandOver
  <2>4. calls'[r].pc = pc
    BY <1>1 DEF TypeOK, CallTypes, HandOver
  <2>5. jobs' \in [Requests -> [phase: JobPhases, base: Row, work: Row,
                                noted: SUBSET Lines, log: SUBSET Lines]]
    BY <1>1 DEF TypeOK, JobTypes, HandOver, JobPhases
  <2>. QED
    BY <1>1, <2>1, <2>2, <2>3, <2>4, <2>5 DEF TypeOK, JobTypes, InFlight, InFlightPhases, AppOf
<1>4. TableTypes' /\ DraftTypes' /\ RejectTypes'
  BY <1>1 DEF TypeOK, TableTypes, DraftTypes, RejectTypes, HandOver
<1>. QED  BY <1>2, <1>3, <1>4 DEF TypeOK

LEMMA RejectType ==
    ASSUME TypeOK, NEW q \in Rejecters,
           (\E a \in Approvals : RejectRead(q, a)) \/ RejectCommit(q)
    PROVE  TypeOK'
<1>1. RejectTypes'
  BY DEF TypeOK, RejectTypes, RejectRead, RejectCommit
<1>2. TableTypes'
  BY DEF TypeOK, TableTypes, RejectTypes, RejectRead, RejectCommit
<1>3. DraftTypes' /\ CallTypes' /\ JobTypes'
  BY DEF TypeOK, DraftTypes, CallTypes, JobTypes, RejectRead, RejectCommit, InFlight, AppOf
<1>. QED  BY <1>1, <1>2, <1>3 DEF TypeOK

\* A step of a dispatch that changes nothing but its phase.
LEMMA PhaseType ==
    ASSUME TypeOK, NEW r \in Requests, NEW phase \in {"skipped", "done", "lost"},
           jobs[r].phase # "none", jobs' = [jobs EXCEPT ![r].phase = phase], calls' = calls
    PROVE  JobTypes'
  BY DEF TypeOK, JobTypes, JobPhases, InFlight, InFlightPhases, AppOf

LEMMA CrashType ==
    ASSUME TypeOK, NEW r \in Requests, CrashRequest(r) \/ CrashDispatch(r)
    PROVE  TypeOK'
<1>1. CallTypes'
  BY DEF TypeOK, CallTypes, CrashRequest, CrashDispatch, dbVars, CallPcs
<1>2. JobTypes'
  <2>1. CASE CrashRequest(r)
    BY <2>1 DEF TypeOK, JobTypes, CallTypes, CrashRequest, InFlight, AppOf
  <2>2. CASE CrashDispatch(r)
    BY <2>2, PhaseType DEF CrashDispatch, dbVars, InFlight, InFlightPhases
  <2>. QED  BY <2>1, <2>2
<1>3. TableTypes' /\ DraftTypes' /\ RejectTypes'
  BY DEF TypeOK, TableTypes, DraftTypes, RejectTypes, CrashRequest, CrashDispatch, dbVars
<1>. QED  BY <1>1, <1>2, <1>3 DEF TypeOK

-----------------------------------------------------------------------------
LEMMA DispatchLoadType ==
    ASSUME TypeOK, NEW r \in Requests, DispatchLoad(r)
    PROVE  TypeOK'
<1> DEFINE a == Target(r)
           row == rows[a]
<1>1. a \in live /\ row \in Row /\ row.application \in Applications /\ calls[r].pc = "accepted"
  BY DEF TypeOK, TableTypes, CallTypes, JobTypes, DispatchLoad, Dispatchable, Target
<1>2. [row EXCEPT !.delivery = "queued", !.error = {}] \in Row
  BY <1>1 DEF Row, Deliveries, Errors
<1>3. [[row EXCEPT !.delivery = "queued", !.error = {}]
          EXCEPT !.provider = "internal", !.sent = TRUE, !.delivery = "provider_accepted"] \in Row
  BY <1>1 DEF Row, Deliveries, Errors, Providers
<1>4. notes[row.application] \in SUBSET Lines
  BY <1>1 DEF TypeOK, TableTypes
<1>5. PICK phase \in InFlightPhases, work \in Row, log \in SUBSET Lines :
         jobs' = [jobs EXCEPT ![r] = [phase |-> phase, base |-> row, work |-> work,
                                      noted |-> notes[row.application], log |-> log]]
  BY <1>2, <1>3 DEF DispatchLoad, RecordedLocally, InFlightPhases, Lines
<1>6. JobTypes'
  BY <1>1, <1>4, <1>5 DEF TypeOK, JobTypes, DispatchLoad, dbVars, JobPhases, InFlight, AppOf
<1>7. TableTypes' /\ DraftTypes' /\ CallTypes' /\ RejectTypes'
  BY DEF TypeOK, TableTypes, DraftTypes, CallTypes, RejectTypes, DispatchLoad, dbVars
<1>. QED  BY <1>6, <1>7 DEF TypeOK

\* A provider call adds at most one well-typed message.
LEMMA ProviderType ==
    ASSUME TypeOK, NEW r \in Requests, InFlight(r), NEW via \in Vias, NEW answered \in BOOLEAN,
           Provider(r, via, answered) \/ Smtp(r, via, answered)
    PROVE  outbox' \subseteq Message /\ outbox' \in {outbox, outbox \cup {Sent(r, via)}}
  BY SentType DEF Provider, Smtp, TypeOK, TableTypes

LEMMA ProviderStepType ==
    ASSUME TypeOK, NEW r \in Requests,
           \/ ReadCredential(r) \/ GmailDraft(r) \/ GmailSend(r) \/ SmtpSend(r)
           \/ LinkedInHandoff(r) \/ ConfirmCopy(r)
    PROVE  TypeOK'
<1>0. jobs[r].work \in Row /\ outbox \subseteq Message
  BY DEF TypeOK, JobTypes, TableTypes
<1>1. CASE ReadCredential(r)
  BY <1>0, <1>1, StepType DEF ReadCredential, InFlight, InFlightPhases
<1>2. CASE GmailDraft(r)
  <2>1. InFlight(r)
    BY <1>2 DEF GmailDraft, InFlight, InFlightPhases
  <2>2. outbox' \subseteq Message
    BY <1>2, <2>1, ProviderType DEF GmailDraft, Vias
  <2>3. [jobs[r].work EXCEPT !.provider = "gmail", !.error = {}, !.delivery = "draft_created"] \in Row
    BY <1>0 DEF Row, Providers, Deliveries, Errors
  <2>4. PICK phase \in InFlightPhases, work \in Row, lines \in SUBSET Lines :
           Step(r, phase, work, lines)
    BY <1>0, <1>2, <2>3 DEF GmailDraft, InFlightPhases, Lines
  <2>. QED
    BY <1>2, <2>1, <2>2, <2>4, StepType DEF GmailDraft
<1>3. CASE GmailSend(r)
  <2>1. InFlight(r)
    BY <1>3 DEF GmailSend, InFlight, InFlightPhases
  <2>2. outbox' \subseteq Message
    BY <1>3, <2>1, ProviderType DEF GmailSend, Vias
  <2>3. /\ [jobs[r].work EXCEPT !.provider = "gmail", !.sent = TRUE,
                                !.delivery = "provider_confirmed"] \in Row
        /\ [jobs[r].work EXCEPT !.error = {"gmail_fallback"}] \in Row
    BY <1>0 DEF Row, Providers, Deliveries, Errors
  <2>4. PICK phase \in InFlightPhases, work \in Row, lines \in SUBSET Lines :
           Step(r, phase, work, lines)
    BY <1>0, <1>3, <2>3 DEF GmailSend, InFlightPhases, Lines
  <2>. QED
    BY <1>3, <2>1, <2>2, <2>4, StepType DEF GmailSend
<1>4. CASE SmtpSend(r)
  <2>1. InFlight(r)
    BY <1>4 DEF SmtpSend, InFlight, InFlightPhases
  <2>2. outbox' \subseteq Message
    BY <1>4, <2>1, ProviderType DEF SmtpSend, Vias
  <2>3. /\ [jobs[r].work EXCEPT !.provider = "smtp", !.sent = TRUE,
                                !.delivery = "provider_accepted"] \in Row
        /\ [jobs[r].work EXCEPT !.delivery = "failed", !.error = {"dispatch_failed"}] \in Row
    BY <1>0 DEF Row, Providers, Deliveries, Errors
  <2>4. PICK phase \in InFlightPhases, work \in Row, lines \in SUBSET Lines :
           Step(r, phase, work, lines)
    BY <1>0, <1>4, <2>3 DEF SmtpSend, InFlightPhases, Lines
  <2>. QED
    BY <1>4, <2>1, <2>2, <2>4, StepType DEF SmtpSend
<1>5. CASE LinkedInHandoff(r)
  <2>1. InFlight(r)
    BY <1>5 DEF LinkedInHandoff, InFlight, InFlightPhases
  <2>2. outbox' \subseteq Message
    BY <1>5, <2>1, ProviderType DEF LinkedInHandoff, Vias
  <2>3. /\ [jobs[r].work EXCEPT !.provider = "linkedin", !.sent = TRUE,
                                !.delivery = "provider_confirmed"] \in Row
        /\ [jobs[r].work EXCEPT !.delivery = "failed", !.error = {"linkedin_failed"}] \in Row
    BY <1>0 DEF Row, Providers, Deliveries, Errors
  <2>4. PICK phase \in InFlightPhases, work \in Row, lines \in SUBSET Lines :
           Step(r, phase, work, lines)
    BY <1>0, <1>5, <2>3 DEF LinkedInHandoff, InFlightPhases, Lines
  <2>. QED
    BY <1>5, <2>1, <2>2, <2>4, StepType DEF LinkedInHandoff
<1>6. CASE ConfirmCopy(r)
  <2>1. \A failed \in SUBSET {"copy_failed"} :
            [jobs[r].work EXCEPT !.error = @ \cup failed] \in Row
    BY <1>0 DEF Row, Errors
  <2>2. PICK phase \in InFlightPhases, work \in Row, lines \in SUBSET Lines :
           Step(r, phase, work, lines)
    BY <1>6, <2>1 DEF ConfirmCopy, InFlightPhases
  <2>. QED
    BY <1>0, <1>6, <2>2, StepType DEF ConfirmCopy, InFlight, InFlightPhases
<1>. QED  BY <1>1, <1>2, <1>3, <1>4, <1>5, <1>6

LEMMA DispatchEndType ==
    ASSUME TypeOK, NEW r \in Requests, DispatchSkip(r) \/ DispatchCommit(r)
    PROVE  TypeOK'
<1>1. CASE DispatchSkip(r)
  <2>1. JobTypes'
    BY <1>1, PhaseType DEF DispatchSkip, dbVars
  <2>2. TableTypes' /\ DraftTypes' /\ CallTypes' /\ RejectTypes'
    BY <1>1 DEF TypeOK, TableTypes, DraftTypes, CallTypes, RejectTypes, DispatchSkip, dbVars
  <2>. QED  BY <2>1, <2>2 DEF TypeOK
<1>2. CASE DispatchCommit(r)
  <2>1. InFlight(r) /\ Target(r) \in Approvals /\ AppOf(r) \in Applications
    BY <1>2 DEF TypeOK, CallTypes, JobTypes, DispatchCommit, InFlight, InFlightPhases, Target
  <2>2. JobTypes'
    BY <1>2, PhaseType DEF DispatchCommit
  <2>3. /\ rows[Target(r)] \in Row /\ jobs[r].base \in Row /\ jobs[r].work \in Row
        /\ jobs[r].noted \cup jobs[r].log \in SUBSET Lines
    BY <2>1 DEF TypeOK, TableTypes, JobTypes
  <2>4. TableTypes'
    BY <1>2, <2>1, <2>3, FlushType DEF TypeOK, TableTypes, DispatchCommit
  <2>5. DraftTypes' /\ CallTypes' /\ RejectTypes'
    BY <1>2 DEF TypeOK, DraftTypes, CallTypes, RejectTypes, DispatchCommit
  <2>. QED  BY <2>2, <2>4, <2>5 DEF TypeOK
<1>. QED  BY <1>1, <1>2

LEMMA TypeStep == TypeOK /\ [Next]_vars => TypeOK'
<1> SUFFICES ASSUME TypeOK, [Next]_vars PROVE TypeOK'
  OBVIOUS
<1>1. CASE UNCHANGED vars
  BY <1>1 DEF vars, TypeOK, TableTypes, DraftTypes, CallTypes, RejectTypes, JobTypes, InFlight, AppOf
<1>2. CASE Next
  BY <1>2, DraftTypeStep, ApproveReadType, ApproveCommitType, HandOffType, RejectType, CrashType,
     DispatchLoadType, ProviderStepType, DispatchEndType
  DEF Next, Dispatch
<1>. QED  BY <1>1, <1>2

\* Every table, call and dispatch always holds values of its type, and only an
\* accepted approve call ever has a dispatch.
THEOREM TypeCorrect == Spec => []TypeOK
  BY TypeInit, TypeStep, PTL DEF Spec

-----------------------------------------------------------------------------
(* The inductive invariant.  Most steps keep the decisions as they are; one *)
(* lemma says what follows from that, the others go action by action.      *)

CallsKept ==
    \A r \in Requests :
        /\ calls'[r].pc \in AcceptedPcs <=> calls[r].pc \in AcceptedPcs
        /\ calls[r].pc \in AcceptedPcs =>
              /\ calls'[r].approval = calls[r].approval
              /\ calls'[r].edit = calls[r].edit
              /\ calls'[r].base = calls[r].base
              /\ calls'[r].seen = calls[r].seen

LEMMA KeptDecisions ==
    ASSUME CallsKept
    PROVE  /\ Accepted' = Accepted
           /\ \A a : AcceptedOn(a)' = AcceptedOn(a)
           /\ \A r \in Accepted : Target(r)' = Target(r) /\ DecidedText(r)' = DecidedText(r)
           /\ \A a, t : Authorises(a, t)' <=> Authorises(a, t)
           /\ Decisions' = Decisions
<1>1. Accepted' = Accepted
  BY DEF CallsKept, Accepted
<1>2. \A r \in Accepted : /\ Target(r)' = Target(r)
                          /\ DecidedText(r)' = DecidedText(r)
                          /\ calls'[r].approval = calls[r].approval
  BY DEF CallsKept, Accepted, Target, DecidedText
<1>3. \A a : AcceptedOn(a)' = AcceptedOn(a)
  BY <1>1, <1>2 DEF AcceptedOn
<1>4. \A a : \A q \in AcceptedOn(a) : q \in Accepted
  BY DEF AcceptedOn
<1>5. \A a, t : Authorises(a, t)' <=> Authorises(a, t)
  BY <1>2, <1>3, <1>4 DEF Authorises
<1>6. Decisions' = Decisions
  BY <1>1, <1>2 DEF Decisions
<1>. QED  BY <1>1, <1>2, <1>3, <1>5, <1>6

LEMMA QueueInit == Init => QueueInv
<1> SUFFICES ASSUME Init PROVE QueueInv
  OBVIOUS
<1>1. Accepted = {} /\ \A a : AcceptedOn(a) = {}
  BY DEF Init, IdleCall, Accepted, AcceptedPcs, AcceptedOn
<1>2. \A r \in Requests : calls[r].pc = "idle" /\ ~InFlight(r)
  BY DEF Init, IdleCall, NoJob, InFlight, InFlightPhases
<1>. QED
  BY <1>1, <1>2, TypeInit DEF Init, QueueInv, RowInv, CallInv, JobInv, OutboxInv

\* Drafting adds a clean row under an id nobody has decided about.
LEMMA DraftQueue ==
    ASSUME QueueInv, NEW d \in Drafters,
           \/ \E app \in Applications : DraftLookup(d, app)
           \/ \E a \in Approvals : DraftInsert(d, a)
    PROVE  (RowInv /\ CallInv /\ JobInv /\ OutboxInv)' /\ Decisions' = Decisions /\ outbox' = outbox
<1>1. calls' = calls /\ jobs' = jobs /\ outbox' = outbox /\ deleted' = deleted
  BY DEF DraftLookup, DraftInsert
<1>2. CallsKept
  BY <1>1 DEF CallsKept
<1>3. /\ live \subseteq live'
      /\ \A a \in live : rows'[a] = rows[a]
      /\ \A a \in live' \ live : CleanRow(rows'[a]) /\ a \notin live \cup deleted
  BY DEF QueueInv, TypeOK, TableTypes, DraftLookup, DraftInsert, NewRow, CleanRow
<1>4. live' \subseteq Approvals
  BY DEF QueueInv, TypeOK, TableTypes, DraftLookup, DraftInsert
<1>5. RowInv'
  BY <1>1, <1>2, <1>3, <1>4, KeptDecisions DEF QueueInv, RowInv, CleanRow
<1>6. CallInv'
  BY <1>1, <1>2, <1>3, KeptDecisions DEF QueueInv, CallInv
<1>7. JobInv' /\ OutboxInv'
  BY <1>1, <1>2, KeptDecisions DEF QueueInv, JobInv, OutboxInv, InFlight, Target
<1>. QED  BY <1>1, <1>2, <1>5, <1>6, <1>7, KeptDecisions

LEMMA ApproveReadQueue ==
    ASSUME QueueInv, NEW r \in Requests, NEW a \in Approvals, NEW key \in Keys \cup {r},
           NEW edit \in Edits \cup {None}, ApproveRead(r, a, key, edit)
    PROVE  (RowInv /\ CallInv /\ JobInv /\ OutboxInv)' /\ Decisions' = Decisions /\ outbox' = outbox
<1>1. /\ calls'[r].pc \in {"not_found", "read", "replayed", "conflict"}
      /\ calls'[r].pc = "read" => /\ a \in live /\ rows[a].key = None
                                  /\ calls'[r].approval = a
                                  /\ calls'[r].base = rows[a]
                                  /\ calls'[r].seen = AcceptedOn(a)
      /\ calls[r].pc = "idle"
      /\ \A q \in Requests \ {r} : calls'[q] = calls[q]
  BY DEF QueueInv, TypeOK, CallTypes, ApproveRead
<1>2. CallsKept
  BY <1>1 DEF CallsKept, AcceptedPcs
<1>3. UNCHANGED <<rows, live, deleted, jobs, outbox>>
  BY DEF ApproveRead
<1>4. RowInv'
  BY <1>2, <1>3, KeptDecisions DEF QueueInv, RowInv
<1>5. CallInv'
  <2>1. calls'[r].pc = "read" => CleanRow(rows[a]) /\ AcceptedOn(a) = {}
    BY <1>1 DEF QueueInv, RowInv
  <2>2. r \notin Accepted
    BY <1>1 DEF Accepted, AcceptedPcs
  <2>. QED  BY <1>1, <1>2, <1>3, <2>1, <2>2, KeptDecisions DEF QueueInv, CallInv
<1>6. \A q \in Requests : InFlight(q) => q # r
  BY <1>1 DEF QueueInv, TypeOK, JobTypes, InFlight, InFlightPhases
<1>7. JobInv'
  BY <1>1, <1>2, <1>3, <1>6, KeptDecisions DEF QueueInv, JobInv, InFlight, Target
<1>8. OutboxInv'
  BY <1>2, <1>3, KeptDecisions DEF QueueInv, OutboxInv
<1>. QED  BY <1>2, <1>3, <1>4, <1>5, <1>7, <1>8, KeptDecisions

\* The call joins the accepted ones; its row leaves the pending state with a
\* key, and with a text that it, or the call that came first, authorised.
LEMMA ApproveCommitQueue ==
    ASSUME QueueInv, NEW r \in Requests, ApproveCommit(r)
    PROVE  /\ (RowInv /\ CallInv /\ JobInv /\ OutboxInv)'
           /\ outbox' = outbox
           /\ \/ Decisions' = Decisions
              \/ /\ r \notin Accepted
                 /\ Decisions' = Decisions \cup
                       {[by |-> r, approval |-> calls[r].approval, text |-> DecidedText(r)]}
<1>0. PICK c, a : c = calls[r] /\ a = c.approval
  OBVIOUS
<1> DEFINE ok == a \in live /\ ~KeyTaken(a, c.key)
<1>1. /\ UNCHANGED <<live, deleted, jobs, outbox>>
      /\ c.pc = "read" /\ r \notin Accepted
      /\ a \in Approvals /\ c.key \in AllKeys /\ c.key # None
      /\ CleanRow(c.base) /\ c.seen = {} /\ a \in live \cup deleted
      /\ c.edit \in Edits \cup {None} /\ c.base \in Row
  BY <1>0, NamesAssumption
  DEF QueueInv, TypeOK, CallTypes, CallInv, ApproveCommit, Accepted, AcceptedPcs, AllKeys
<1>2. \A q \in Requests \ {r} : calls'[q] = calls[q]
  BY <1>0 DEF QueueInv, TypeOK, CallTypes, ApproveCommit
<1>3. /\ calls'[r].approval = a /\ calls'[r].edit = c.edit
      /\ calls'[r].base = c.base /\ calls'[r].seen = c.seen
  BY <1>0 DEF QueueInv, TypeOK, CallTypes, ApproveCommit
<1>4. \A q \in Requests : InFlight(q) => q # r
  BY <1>0, <1>1 DEF QueueInv, TypeOK, JobTypes, InFlight, InFlightPhases
<1>5. CASE ~ok
  <2>1. calls'[r].pc = "error" /\ rows' = rows
    BY <1>0, <1>5 DEF QueueInv, TypeOK, CallTypes, ApproveCommit
  <2>2. CallsKept
    BY <1>0, <1>1, <1>2, <2>1 DEF CallsKept, AcceptedPcs
  <2>3. RowInv'
    BY <1>0, <1>1, <2>1, <2>2, KeptDecisions DEF QueueInv, RowInv
  <2>4. CallInv'
    BY <1>0, <1>1, <1>2, <1>3, <2>1, <2>2, KeptDecisions DEF QueueInv, CallInv, AcceptedPcs
  <2>5. JobInv'
    BY <1>0, <1>1, <1>2, <1>4, <2>2, KeptDecisions DEF QueueInv, JobInv, InFlight, Target
  <2>6. OutboxInv'
    BY <1>0, <1>1, <2>2, KeptDecisions DEF QueueInv, OutboxInv
  <2>. QED  BY <1>0, <1>1, <2>2, <2>3, <2>4, <2>5, <2>6, KeptDecisions
<1>6. CASE ok
  <2>1. calls'[r].pc = "committed"
    BY <1>0, <1>6 DEF QueueInv, TypeOK, CallTypes, ApproveCommit
  <2>2. Accepted' = Accepted \cup {r}
    BY <1>0, <1>1, <1>2, <2>1 DEF Accepted, AcceptedPcs
  <2>3. \A q \in Accepted : DecidedText(q)' = DecidedText(q) /\ calls'[q] = calls[q] /\ q # r
    BY <1>0, <1>1, <1>2 DEF Accepted, DecidedText
  <2>4. DecidedText(r)' = DecidedText(r) /\ DecidedText(r) = IF c.edit = None THEN "drafted" ELSE c.edit
    BY <1>0, <1>1, <1>3 DEF DecidedText, CleanRow
  <2>5. /\ \A b : b # a => AcceptedOn(b)' = AcceptedOn(b)
        /\ AcceptedOn(a)' = AcceptedOn(a) \cup {r}
    BY <1>0, <1>3, <2>2, <2>3 DEF AcceptedOn
  <2>6. \A b, t : Authorises(b, t) => Authorises(b, t)'
    BY <2>3, <2>5 DEF Authorises, AcceptedOn
  <2>7. \A t : t = DecidedText(r) => Authorises(a, t)'
    BY <2>4, <2>5 DEF Authorises
  <2>8. /\ \A b \in Approvals \ {a} : rows'[b] = rows[b]
        /\ rows'[a] = Flush(rows[a], c.base, Decided(c.base, c.key, c.edit))
    BY <1>0, <1>1, <1>6 DEF QueueInv, TypeOK, TableTypes, ApproveCommit
  <2>9. /\ rows'[a].status # "pending" /\ rows'[a].key = c.key
        /\ rows'[a].text = IF c.edit = None THEN rows[a].text ELSE c.edit
    BY <1>0, <1>1, <2>8, NamesAssumption DEF Flush, Written, Decided, CleanRow, Row
  <2>10. \A t : t = rows'[a].text => Authorises(a, t)'
    <3>1. CASE c.edit # None
      BY <2>4, <2>7, <2>9, <3>1
    <3>2. CASE c.edit = None /\ rows[a].status = "pending"
      BY <1>6, <2>4, <2>7, <2>9, <3>2 DEF QueueInv, RowInv, CleanRow
    <3>3. CASE c.edit = None /\ rows[a].status # "pending"
      BY <1>6, <2>6, <2>9, <3>3 DEF QueueInv, RowInv
    <3>. QED  BY <3>1, <3>2, <3>3
  <2>11. RowInv'
    <3>1. ASSUME NEW b \in Approvals, b \notin live' \cup deleted' PROVE AcceptedOn(b)' = {}
      BY <1>0, <1>1, <2>5, <3>1 DEF QueueInv, RowInv
    <3>2. ASSUME NEW b \in live, b # a
          PROVE  IF rows'[b].status = "pending" THEN CleanRow(rows'[b]) /\ AcceptedOn(b)' = {}
                 ELSE rows'[b].key # None /\ \A t : t = rows'[b].text => Authorises(b, t)'
      BY <2>5, <2>6, <2>8, <3>2 DEF QueueInv, RowInv, TypeOK, TableTypes
    <3>3. rows'[a].status # "pending" /\ rows'[a].key # None
      BY <1>1, <2>9
    <3>4. live' = live
      BY <1>1
    <3>. QED  BY <2>10, <3>1, <3>2, <3>3, <3>4 DEF RowInv, CleanRow
  <2>12. CallInv'
    BY <1>0, <1>1, <1>2, <1>3, <2>2 DEF QueueInv, CallInv
  <2>13. JobInv'
    BY <1>0, <1>1, <1>2, <1>4, <2>6 DEF QueueInv, JobInv, InFlight, Target
  <2>14. OutboxInv'
    BY <1>0, <1>1, <2>2, <2>3, <2>6 DEF QueueInv, OutboxInv, Target
  <2>15. Decisions' = Decisions \cup
             {[by |-> r, approval |-> calls[r].approval, text |-> DecidedText(r)]}
    BY <1>0, <1>3, <2>2, <2>3, <2>4 DEF Decisions
  <2>. QED  BY <1>0, <1>1, <2>11, <2>12, <2>13, <2>14, <2>15
<1>. QED  BY <1>0, <1>5, <1>6

LEMMA HandOffQueue ==
    ASSUME QueueInv, NEW r \in Requests, HandOff(r)
    PROVE  (RowInv /\ CallInv /\ JobInv /\ OutboxInv)' /\ Decisions' = Decisions /\ outbox' = outbox
<1>1. PICK phase \in {"none", "brokered", "scheduled"}, pc \in {"accepted", "unavailable"} :
         HandOver(r, phase, pc) /\ calls[r].pc = "committed"
  BY DEF HandOff, Enqueue, RunInProcess, EnqueueFails
<1>2. /\ calls'[r] = [calls[r] EXCEPT !.pc = pc]
      /\ \A q \in Requests \ {r} : calls'[q] = calls[q] /\ jobs'[q] = jobs[q]
      /\ jobs'[r].phase = phase /\ jobs[r].phase = "none"
      /\ UNCHANGED <<rows, live, deleted, outbox>>
  BY <1>1 DEF QueueInv, TypeOK, CallTypes, JobTypes, HandOver
<1>3. /\ calls'[r].pc = pc /\ calls'[r].approval = calls[r].approval
      /\ calls'[r].edit = calls[r].edit /\ calls'[r].base = calls[r].base
      /\ calls'[r].seen = calls[r].seen
  BY <1>1, <1>2 DEF QueueInv, TypeOK, CallTypes
<1>4. CallsKept
  BY <1>1, <1>2, <1>3 DEF CallsKept, AcceptedPcs
<1>5. RowInv'
  BY <1>2, <1>4, KeptDecisions DEF QueueInv, RowInv
<1>6. CallInv'
  BY <1>1, <1>2, <1>3, <1>4, KeptDecisions DEF QueueInv, CallInv, Accepted, AcceptedPcs
<1>7. JobInv'
  BY <1>2, <1>4, KeptDecisions DEF QueueInv, JobInv, InFlight, InFlightPhases, Target
<1>8. \A m \in outbox : m.by # r
  BY <1>2 DEF QueueInv, OutboxInv, UsedBy
<1>9. OutboxInv'
  BY <1>2, <1>4, <1>8, KeptDecisions DEF QueueInv, OutboxInv, Accepted
<1>. QED  BY <1>2, <1>4, <1>5, <1>6, <1>7, <1>9, KeptDecisions

LEMMA RejectQueue ==
    ASSUME QueueInv, NEW q \in Rejecters,
           (\E a \in Approvals : RejectRead(q, a)) \/ RejectCommit(q)
    PROVE  (RowInv /\ CallInv /\ JobInv /\ OutboxInv)' /\ Decisions' = Decisions /\ outbox' = outbox
<1>1. /\ UNCHANGED <<rows, calls, jobs, outbox>>
      /\ live' \subseteq live /\ live \cup deleted \subseteq live' \cup deleted'
  BY DEF RejectRead, RejectCommit
<1>2. CallsKept
  BY <1>1 DEF CallsKept
<1>3. RowInv' /\ CallInv'
  BY <1>1, <1>2, KeptDecisions DEF QueueInv, RowInv, CallInv
<1>4. JobInv' /\ OutboxInv'
  BY <1>1, <1>2, KeptDecisions DEF QueueInv, JobInv, OutboxInv, InFlight, Target
<1>. QED  BY <1>1, <1>2, <1>3, <1>4, KeptDecisions


LEMMA CrashQueue ==
    ASSUME QueueInv, NEW r \in Requests, CrashRequest(r) \/ CrashDispatch(r)
    PROVE  (RowInv /\ CallInv /\ JobInv /\ OutboxInv)' /\ Decisions' = Decisions /\ outbox' = outbox
<1>1. CASE CrashRequest(r)
  <2>1. /\ calls'[r].pc = "crashed" /\ calls[r].pc = "committed"
        /\ calls'[r].approval = calls[r].approval
        /\ calls'[r].edit = calls[r].edit /\ calls'[r].base = calls[r].base
        /\ calls'[r].seen = calls[r].seen
        /\ \A q \in Requests \ {r} : calls'[q] = calls[q]
        /\ UNCHANGED <<rows, live, deleted, jobs, outbox>>
    BY <1>1 DEF QueueInv, TypeOK, CallTypes, CrashRequest
  <2>2. CallsKept
    BY <2>1 DEF CallsKept, AcceptedPcs
  <2>3. RowInv'
    BY <2>1, <2>2, KeptDecisions DEF QueueInv, RowInv
  <2>4. CallInv'
    BY <2>1, <2>2, KeptDecisions DEF QueueInv, CallInv, Accepted, AcceptedPcs
  <2>5. JobInv' /\ OutboxInv'
    BY <2>1, <2>2, KeptDecisions DEF QueueInv, JobInv, OutboxInv, InFlight, Target
  <2>. QED  BY <2>1, <2>2, <2>3, <2>4, <2>5, KeptDecisions
<1>2. CASE CrashDispatch(r)
  <2>1. /\ jobs'[r].phase = "lost"
        /\ \A q \in Requests \ {r} : jobs'[q] = jobs[q]
        /\ UNCHANGED <<rows, live, deleted, calls, outbox>>
    BY <1>2 DEF QueueInv, TypeOK, JobTypes, CrashDispatch, dbVars
  <2>2. CallsKept
    BY <2>1 DEF CallsKept
  <2>3. RowInv' /\ CallInv'
    BY <2>1, <2>2, KeptDecisions DEF QueueInv, RowInv, CallInv
  <2>4. JobInv'
    BY <2>1, <2>2, KeptDecisions DEF QueueInv, JobInv, InFlight, InFlightPhases, Target
  <2>5. OutboxInv'
    BY <2>1, <2>2, KeptDecisions
    DEF QueueInv, OutboxInv, UsedBy, Vias, TypeOK, TableTypes, Message
  <2>. QED  BY <2>1, <2>2, <2>3, <2>4, <2>5, KeptDecisions
<1>. QED  BY <1>1, <1>2

\* The dispatch reads a row that is no longer pending: its text is authorised.
LEMMA DispatchLoadQueue ==
    ASSUME QueueInv, NEW r \in Requests, DispatchLoad(r)
    PROVE  (RowInv /\ CallInv /\ JobInv /\ OutboxInv)' /\ Decisions' = Decisions /\ outbox' = outbox
<1>0. PICK row : row = rows[Target(r)]
  OBVIOUS
<1>1. /\ Target(r) \in live /\ Target(r) \in Approvals
      /\ row \in Row /\ row.status # "pending"
      /\ UNCHANGED <<rows, live, deleted, calls, outbox>>
  BY <1>0 DEF QueueInv, TypeOK, TableTypes, DispatchLoad, Dispatchable, dbVars
<1>2. CallsKept
  BY <1>1 DEF CallsKept
<1>3. RowInv' /\ CallInv'
  BY <1>1, <1>2, KeptDecisions DEF QueueInv, RowInv, CallInv
<1>4. /\ jobs'[r].base = row
      /\ jobs'[r].work.status = row.status
      /\ jobs'[r].work.key = row.key
      /\ jobs'[r].work.text = row.text
      /\ jobs[r].phase \in {"brokered", "scheduled"}
      /\ \A q \in Requests \ {r} : jobs'[q] = jobs[q]
  BY <1>0, <1>1 DEF QueueInv, TypeOK, JobTypes, DispatchLoad, RecordedLocally, Row
<1>5. Authorises(Target(r), row.text)
  BY <1>0, <1>1 DEF QueueInv, RowInv
<1>6. JobInv'
  BY <1>1, <1>2, <1>4, <1>5, KeptDecisions DEF QueueInv, JobInv, InFlight, Target
<1>7. \A m \in outbox : m.by # r
  BY <1>4 DEF QueueInv, OutboxInv, UsedBy
<1>8. OutboxInv'
  <2>1. \A m \in outbox : m.by \in Requests \ {r}
    BY <1>7 DEF QueueInv, OutboxInv, Accepted
  <2>. QED  BY <1>1, <1>2, <1>4, <2>1, KeptDecisions DEF QueueInv, OutboxInv
<1>. QED  BY <1>1, <1>2, <1>3, <1>6, <1>8, KeptDecisions

\* A dispatch in flight that moves on and may send one message, by a way it
\* has not used: the step is a Send of HumanGate or leaves its state alone.
LEMMA SendQueue ==
    ASSUME QueueInv, NEW r \in Requests, NEW phase \in InFlightPhases, NEW work, NEW lines,
           NEW via \in Vias, InFlight(r), Step(r, phase, work, lines), UNCHANGED dbVars,
           work.status = jobs[r].work.status, work.key = jobs[r].work.key,
           work.text = jobs[r].work.text,
           UsedBy(jobs[r].phase) \subseteq UsedBy(phase),
           \/ outbox' = outbox
           \/ /\ outbox' = outbox \cup {Sent(r, via)}
              /\ via \in UsedBy(phase) /\ via \notin UsedBy(jobs[r].phase)
    PROVE  /\ (RowInv /\ CallInv /\ JobInv /\ OutboxInv)'
           /\ Decisions' = Decisions
           /\ outbox' = outbox \/ \E m \in Message : Gate!Send(m)
<1>1. UNCHANGED <<rows, live, deleted, calls>>
  BY DEF dbVars
<1>2. CallsKept
  BY <1>1 DEF CallsKept
<1>3. RowInv' /\ CallInv'
  BY <1>1, <1>2, KeptDecisions DEF QueueInv, RowInv, CallInv
<1>4. /\ jobs'[r].base = jobs[r].base /\ jobs'[r].work = work /\ jobs'[r].phase = phase
      /\ \A q \in Requests \ {r} : jobs'[q] = jobs[q]
  BY DEF QueueInv, TypeOK, JobTypes, Step
<1>5. Authorises(Target(r), jobs[r].base.text)
  BY DEF QueueInv, JobInv
<1>6. JobInv'
  BY <1>1, <1>2, <1>4, KeptDecisions DEF QueueInv, JobInv, InFlight, Target
<1>7. /\ r \in Accepted
      /\ Sent(r, via) \in Message
  BY SentType DEF QueueInv, TypeOK, JobTypes, InFlight, InFlightPhases, Accepted, AcceptedPcs
<1>8. OutboxInv'
  <2>1. ASSUME NEW m \in outbox
        PROVE  m.by \in Accepted' /\ m.approval = Target(m.by)' /\ m.via \in UsedBy(jobs'[m.by].phase)
    BY <1>1, <1>2, <1>4, KeptDecisions DEF QueueInv, OutboxInv, Accepted
  <2>2. \A m \in outbox : Authorises(m.approval, m.text)'
    BY <1>2, KeptDecisions DEF QueueInv, OutboxInv
  <2>3. \A m : m = Sent(r, via) =>
            /\ m.by \in Accepted' /\ m.approval = Target(m.by)'
            /\ Authorises(m.approval, m.text)' /\ m.by = r /\ m.via = via
    BY <1>2, <1>5, <1>7, KeptDecisions DEF Sent
  <2>. QED  BY <1>4, <2>1, <2>2, <2>3 DEF OutboxInv
<1>9. outbox' = outbox \cup {Sent(r, via)} /\ via \notin UsedBy(jobs[r].phase)
          => Gate!Send(Sent(r, via))
  <2>1. [by |-> r, approval |-> Target(r), text |-> DecidedText(r)] \in Decisions
    BY <1>7 DEF Decisions, Target
  <2>2. PICK q \in AcceptedOn(Target(r)) : DecidedText(q) = jobs[r].base.text
    BY <1>5 DEF Authorises
  <2>3. [by |-> q, approval |-> Target(r), text |-> jobs[r].base.text] \in Decisions
    BY <2>2 DEF Decisions, AcceptedOn
  <2>4. via \notin UsedBy(jobs[r].phase) => \A n \in outbox : n.by = r => n.via # via
    BY DEF QueueInv, OutboxInv
  <2>. QED  BY <1>2, <2>1, <2>3, <2>4, KeptDecisions DEF Gate!Send, Gate!Authorised, Sent
<1>. QED  BY <1>2, <1>3, <1>6, <1>7, <1>8, <1>9, KeptDecisions

\* A way to send is tried in one phase and lies behind the phases that follow.
LEMMA SendsOn ==
    ASSUME QueueInv, NEW r \in Requests, NEW via \in Vias, InFlight(r), UNCHANGED dbVars,
           via \notin UsedBy(jobs[r].phase), outbox' \in {outbox, outbox \cup {Sent(r, via)}},
           NEW phase \in InFlightPhases, UsedBy(jobs[r].phase) \cup {via} \subseteq UsedBy(phase),
           \E work, lines : Step(r, phase, work, lines) /\ SameDecision(jobs[r].work, work)
    PROVE  /\ (RowInv /\ CallInv /\ JobInv /\ OutboxInv)'
           /\ Decisions' = Decisions
           /\ outbox' = outbox \/ \E m \in Message : Gate!Send(m)
<1>1. PICK work, lines : Step(r, phase, work, lines) /\ SameDecision(jobs[r].work, work)
  OBVIOUS
<1>2. /\ work.status = jobs[r].work.status /\ work.key = jobs[r].work.key
      /\ work.text = jobs[r].work.text
  BY <1>1 DEF SameDecision
<1>3. UsedBy(jobs[r].phase) \subseteq UsedBy(phase) /\ via \in UsedBy(phase)
  OBVIOUS
<1>. QED  BY <1>1, <1>2, <1>3, SendQueue

LEMMA ProviderStepQueue ==
    ASSUME QueueInv, NEW r \in Requests,
           \/ ReadCredential(r) \/ GmailDraft(r) \/ GmailSend(r) \/ SmtpSend(r)
           \/ LinkedInHandoff(r) \/ ConfirmCopy(r)
    PROVE  /\ (RowInv /\ CallInv /\ JobInv /\ OutboxInv)'
           /\ Decisions' = Decisions
           /\ outbox' = outbox \/ \E m \in Message : Gate!Send(m)
<1>0. TypeOK /\ jobs[r].work \in Row
  BY DEF QueueInv, TypeOK, JobTypes
<1>1. CASE ReadCredential(r)
  <2>1. InFlight(r) /\ UsedBy(jobs[r].phase) = {} /\ "gmail" \in Vias
    BY <1>1 DEF ReadCredential, InFlight, InFlightPhases, UsedBy, Vias
  <2>. QED
    BY <1>1, <2>1, SendQueue DEF ReadCredential, InFlightPhases
<1>2. CASE GmailDraft(r)
  <2>1. /\ InFlight(r) /\ UsedBy(jobs[r].phase) = {} /\ "draft" \in Vias
        /\ "draft" \in UsedBy("smtp") /\ "draft" \in UsedBy("gmail_send")
        /\ "smtp" \in InFlightPhases /\ "gmail_send" \in InFlightPhases
    BY <1>2 DEF GmailDraft, InFlight, InFlightPhases, UsedBy, Vias
  <2>2. outbox' \in {outbox, outbox \cup {Sent(r, "draft")}} /\ UNCHANGED dbVars
    BY <1>2 DEF GmailDraft, Provider
  <2>3. \/ \E work, lines : Step(r, "smtp", work, lines) /\ SameDecision(jobs[r].work, work)
        \/ \E work, lines : Step(r, "gmail_send", work, lines) /\ SameDecision(jobs[r].work, work)
    <3> DEFINE w1 == [jobs[r].work EXCEPT !.provider = "gmail", !.error = {},
                                       !.delivery = "draft_created"]
               w2 == jobs[r].work
    <3>1. SameDecision(jobs[r].work, w1) /\ SameDecision(jobs[r].work, w2)
      BY <1>0, WorkKeeps
    <3>2. \/ \E lines : Step(r, "smtp", w1, lines)
          \/ \E lines : Step(r, "gmail_send", w2, lines)
      BY <1>2 DEF GmailDraft
    <3> HIDE DEF w1, w2
    <3>. QED  BY <3>1, <3>2
  <2>4. ASSUME NEW phase \in {"smtp", "gmail_send"},
               \E work, lines : Step(r, phase, work, lines) /\ SameDecision(jobs[r].work, work)
        PROVE  /\ (RowInv /\ CallInv /\ JobInv /\ OutboxInv)'
               /\ Decisions' = Decisions
               /\ outbox' = outbox \/ \E m \in Message : Gate!Send(m)
    <3>1. /\ phase \in InFlightPhases /\ UsedBy(jobs[r].phase) \cup {"draft"} \subseteq UsedBy(phase)
          /\ "draft" \notin UsedBy(jobs[r].phase)
      BY <2>1
    <3>. QED  BY <2>1, <2>2, <2>4, <3>1, SendsOn
  <2>. QED  BY <2>3, <2>4
<1>3. CASE GmailSend(r)
  <2>1. /\ InFlight(r) /\ UsedBy(jobs[r].phase) = {"draft"} /\ "gmail" \in Vias
        /\ {"draft", "gmail"} \subseteq UsedBy("smtp") /\ {"draft", "gmail"} \subseteq UsedBy("copy")
        /\ "smtp" \in InFlightPhases /\ "copy" \in InFlightPhases
    BY <1>3 DEF GmailSend, InFlight, InFlightPhases, UsedBy, Vias
  <2>2. outbox' \in {outbox, outbox \cup {Sent(r, "gmail")}} /\ UNCHANGED dbVars
    BY <1>3 DEF GmailSend, Provider
  <2>3. \/ \E work, lines : Step(r, "smtp", work, lines) /\ SameDecision(jobs[r].work, work)
        \/ \E work, lines : Step(r, "copy", work, lines) /\ SameDecision(jobs[r].work, work)
    <3> DEFINE w1 == [jobs[r].work EXCEPT !.provider = "gmail", !.sent = TRUE,
                                       !.delivery = "provider_confirmed"]
               w2 == [jobs[r].work EXCEPT !.error = {"gmail_fallback"}]
    <3>1. SameDecision(jobs[r].work, w1) /\ SameDecision(jobs[r].work, w2)
      BY <1>0, WorkKeeps
    <3>2. \/ \E lines : Step(r, "copy", w1, lines)
          \/ \E lines : Step(r, "smtp", w2, lines)
      BY <1>3 DEF GmailSend
    <3> HIDE DEF w1, w2
    <3>. QED  BY <3>1, <3>2
  <2>4. ASSUME NEW phase \in {"smtp", "copy"},
               \E work, lines : Step(r, phase, work, lines) /\ SameDecision(jobs[r].work, work)
        PROVE  /\ (RowInv /\ CallInv /\ JobInv /\ OutboxInv)'
               /\ Decisions' = Decisions
               /\ outbox' = outbox \/ \E m \in Message : Gate!Send(m)
    <3>1. /\ phase \in InFlightPhases /\ UsedBy(jobs[r].phase) \cup {"gmail"} \subseteq UsedBy(phase)
          /\ "gmail" \notin UsedBy(jobs[r].phase)
      BY <2>1
    <3>. QED  BY <2>1, <2>2, <2>4, <3>1, SendsOn
  <2>. QED  BY <2>3, <2>4
<1>4. CASE SmtpSend(r)
  <2>1. /\ InFlight(r) /\ UsedBy(jobs[r].phase) = {"draft", "gmail"} /\ "smtp" \in Vias
        /\ UsedBy("commit") = Vias /\ UsedBy("copy") = Vias /\ {"draft", "gmail"} \subseteq Vias
        /\ "commit" \in InFlightPhases /\ "copy" \in InFlightPhases
    BY <1>4 DEF SmtpSend, InFlight, InFlightPhases, UsedBy, Vias
  <2>2. outbox' \in {outbox, outbox \cup {Sent(r, "smtp")}} /\ UNCHANGED dbVars
    BY <1>4 DEF SmtpSend, Smtp, Provider
  <2>3. \/ \E work, lines : Step(r, "commit", work, lines) /\ SameDecision(jobs[r].work, work)
        \/ \E work, lines : Step(r, "copy", work, lines) /\ SameDecision(jobs[r].work, work)
    <3> DEFINE w1 == [jobs[r].work EXCEPT !.provider = "smtp", !.sent = TRUE,
                                       !.delivery = "provider_accepted"]
               w2 == [jobs[r].work EXCEPT !.delivery = "failed", !.error = {"dispatch_failed"}]
    <3>1. SameDecision(jobs[r].work, w1) /\ SameDecision(jobs[r].work, w2)
      BY <1>0, WorkKeeps
    <3>2. \/ \E lines : Step(r, "copy", w1, lines)
          \/ \E lines : Step(r, "commit", w2, lines)
      BY <1>4 DEF SmtpSend
    <3> HIDE DEF w1, w2
    <3>. QED  BY <3>1, <3>2
  <2>4. ASSUME NEW phase \in {"commit", "copy"},
               \E work, lines : Step(r, phase, work, lines) /\ SameDecision(jobs[r].work, work)
        PROVE  /\ (RowInv /\ CallInv /\ JobInv /\ OutboxInv)'
               /\ Decisions' = Decisions
               /\ outbox' = outbox \/ \E m \in Message : Gate!Send(m)
    <3>1. /\ phase \in InFlightPhases /\ UsedBy(jobs[r].phase) \cup {"smtp"} \subseteq UsedBy(phase)
          /\ "smtp" \notin UsedBy(jobs[r].phase)
      BY <2>1
    <3>. QED  BY <2>1, <2>2, <2>4, <3>1, SendsOn
  <2>. QED  BY <2>3, <2>4
<1>5. CASE LinkedInHandoff(r)
  <2>1. /\ InFlight(r) /\ UsedBy(jobs[r].phase) = {} /\ "handoff" \in Vias
        /\ UsedBy("commit") = Vias /\ "commit" \in InFlightPhases
    BY <1>5 DEF LinkedInHandoff, InFlight, InFlightPhases, UsedBy, Vias
  <2>2. outbox' \in {outbox, outbox \cup {Sent(r, "handoff")}} /\ UNCHANGED dbVars
    BY <1>5 DEF LinkedInHandoff, Smtp, Provider
  <2>3. PICK work, lines :
           /\ Step(r, "commit", work, lines)
           /\ SameDecision(jobs[r].work, work)
    BY <1>0, <1>5, WorkKeeps DEF LinkedInHandoff
  <2>4. /\ "commit" \in InFlightPhases /\ UsedBy(jobs[r].phase) \subseteq UsedBy("commit")
        /\ "handoff" \in UsedBy("commit") /\ "handoff" \notin UsedBy(jobs[r].phase)
    BY <2>1, <2>3 DEF Vias
  <2>. QED  BY <2>1, <2>2, <2>3, <2>4, SendQueue DEF SameDecision
<1>6. CASE ConfirmCopy(r)
  <2>1. /\ InFlight(r) /\ UsedBy(jobs[r].phase) = Vias /\ UsedBy("commit") = Vias
        /\ "commit" \in InFlightPhases /\ "smtp" \in Vias
    BY <1>6 DEF ConfirmCopy, InFlight, InFlightPhases, UsedBy, Vias
  <2>2. outbox' = outbox /\ UNCHANGED dbVars
    BY <1>6 DEF ConfirmCopy
  <2>3. PICK work, lines : Step(r, "commit", work, lines) /\ SameDecision(jobs[r].work, work)
    BY <1>0, <1>6, WorkKeeps DEF ConfirmCopy
  <2>. QED  BY <2>1, <2>2, <2>3, SendQueue DEF SameDecision
<1>. QED  BY <1>1, <1>2, <1>3, <1>4, <1>5, <1>6

\* A commit writes delivery columns only: status, key and text stay as stored.
LEMMA DispatchEndQueue ==
    ASSUME QueueInv, NEW r \in Requests, DispatchSkip(r) \/ DispatchCommit(r)
    PROVE  (RowInv /\ CallInv /\ JobInv /\ OutboxInv)' /\ Decisions' = Decisions /\ outbox' = outbox
<1>1. PICK phase \in {"skipped", "done", "lost"} : jobs' = [jobs EXCEPT ![r].phase = phase]
  BY DEF DispatchSkip, DispatchCommit
<1>2. /\ UNCHANGED <<live, deleted, calls, outbox>>
      /\ jobs'[r].phase = phase
      /\ \A q \in Requests \ {r} : jobs'[q] = jobs[q]
  BY <1>1 DEF QueueInv, TypeOK, JobTypes, DispatchSkip, DispatchCommit, dbVars
<1>3. CallsKept
  BY <1>2 DEF CallsKept
<1>4. CallInv'
  BY <1>2, <1>3, KeptDecisions DEF QueueInv, CallInv
<1>5. JobInv'
  BY <1>2, <1>3, KeptDecisions DEF QueueInv, JobInv, InFlight, InFlightPhases, Target
<1>6. OutboxInv'
  <2>1. CASE DispatchSkip(r)
    <3>1. \A m \in outbox : m.by \in Requests /\ m.by # r
      BY <2>1 DEF QueueInv, OutboxInv, UsedBy, DispatchSkip, Accepted
    <3>. QED  BY <1>2, <1>3, <3>1, KeptDecisions DEF QueueInv, OutboxInv
  <2>2. CASE DispatchCommit(r)
    <3>1. phase \in {"done", "lost"}
      BY <1>2, <2>2 DEF QueueInv, TypeOK, JobTypes, DispatchCommit
    <3>. QED
      BY <1>2, <1>3, <3>1, KeptDecisions
      DEF QueueInv, OutboxInv, UsedBy, Vias, TypeOK, TableTypes, Message
  <2>. QED  BY <2>1, <2>2
<1>7. RowInv'
  <2>1. CASE rows' = rows
    BY <1>2, <1>3, <2>1, KeptDecisions DEF QueueInv, RowInv
  <2>2. CASE rows' # rows
    <3>1. PICK a, j : a \in Approvals /\ a = Target(r) /\ j = jobs[r]
      BY <2>2 DEF QueueInv, TypeOK, CallTypes, JobTypes, DispatchSkip, DispatchCommit, dbVars, Target
    <3>2. rows' = [rows EXCEPT ![a] = Flush(rows[a], j.base, j.work)] /\ j.phase = "commit"
      BY <2>2, <3>1 DEF DispatchSkip, DispatchCommit, dbVars
    <3>3. /\ j.work.status = j.base.status /\ j.work.key = j.base.key
          /\ j.work.text = j.base.text /\ Authorises(a, j.base.text)
      BY <3>1, <3>2 DEF QueueInv, JobInv, InFlight, InFlightPhases
    <3>4. /\ rows'[a].status = rows[a].status /\ rows'[a].key = rows[a].key
          /\ rows'[a].text = rows[a].text
          /\ \A b \in Approvals \ {a} : rows'[b] = rows[b]
      BY <3>2, <3>3 DEF QueueInv, TypeOK, TableTypes, Flush, Written
    <3>5. AcceptedOn(a) # {}
      BY <3>3 DEF Authorises
    <3>6. a \in live => rows[a].status # "pending"
      BY <3>5 DEF QueueInv, RowInv
    <3>. QED
      BY <1>2, <1>3, <3>4, <3>6, KeptDecisions DEF QueueInv, RowInv, TypeOK, TableTypes
  <2>. QED  BY <2>1, <2>2
<1>. QED  BY <1>2, <1>3, <1>4, <1>5, <1>6, <1>7, KeptDecisions

\* Every step keeps the invariant, and is a Decide or a Send of HumanGate or
\* leaves its state as it is.
LEMMA QueueStep ==
    ASSUME QueueInv, [Next]_vars
    PROVE  /\ QueueInv'
           /\ [Gate!GateNext]_(Gate!gateVars)
<1>0. TypeOK'
  BY TypeStep DEF QueueInv
<1> DEFINE Kept == (RowInv /\ CallInv /\ JobInv /\ OutboxInv)'
           Same == Decisions' = Decisions /\ outbox' = outbox
<1>1. CASE UNCHANGED vars
  <2>1. CallsKept
    BY <1>1 DEF vars, CallsKept
  <2>2. Kept
    BY <1>1, <2>1, KeptDecisions
    DEF vars, QueueInv, RowInv, CallInv, JobInv, OutboxInv, InFlight, Target
  <2>3. Same
    BY <1>1, <2>1, KeptDecisions DEF vars
  <2>. QED  BY <1>0, <2>2, <2>3 DEF QueueInv, Gate!gateVars
<1>2. ASSUME NEW d \in Drafters,
             \/ \E app \in Applications : DraftLookup(d, app)
             \/ \E a \in Approvals : DraftInsert(d, a)
      PROVE  Kept /\ Same
  BY <1>2, DraftQueue
<1>3. ASSUME NEW r \in Requests, NEW a \in Approvals, NEW key \in Keys \cup {r},
             NEW edit \in Edits \cup {None}, ApproveRead(r, a, key, edit)
      PROVE  Kept /\ Same
  BY <1>3, ApproveReadQueue
<1>4. ASSUME NEW r \in Requests, ApproveCommit(r)
      PROVE  Kept /\ [Gate!GateNext]_(Gate!gateVars)
  <2>1. Kept /\ outbox' = outbox
    BY <1>4, ApproveCommitQueue
  <2>2. CASE Decisions' = Decisions
    BY <2>1, <2>2 DEF Gate!gateVars
  <2>3. PICK d : d = [by |-> r, approval |-> calls[r].approval, text |-> DecidedText(r)]
    OBVIOUS
  <2>4. CASE r \notin Accepted /\ Decisions' = Decisions \cup {d}
    <3>1. \A e \in Decisions : e.by # d.by
      BY <2>3, <2>4 DEF Decisions
    <3>2. d \in Gate!Decision
      BY <1>4, <2>3
      DEF QueueInv, TypeOK, CallTypes, ApproveCommit, DecidedText, Row, Texts, Gate!Decision
    <3>. QED  BY <2>1, <2>4, <3>1, <3>2 DEF Gate!Decide, Gate!GateNext
  <2>. QED  BY <1>4, <2>1, <2>2, <2>3, <2>4, ApproveCommitQueue
<1>5. ASSUME NEW r \in Requests, HandOff(r) \/ CrashRequest(r) \/ CrashDispatch(r)
      PROVE  Kept /\ Same
  BY <1>5, HandOffQueue, CrashQueue
<1>6. ASSUME NEW q \in Rejecters, (\E a \in Approvals : RejectRead(q, a)) \/ RejectCommit(q)
      PROVE  Kept /\ Same
  BY <1>6, RejectQueue
<1>7. ASSUME NEW r \in Requests, Dispatch(r)
      PROVE  Kept /\ [Gate!GateNext]_(Gate!gateVars)
  <2>1. CASE DispatchLoad(r) \/ DispatchSkip(r) \/ DispatchCommit(r)
    BY <2>1, DispatchLoadQueue, DispatchEndQueue DEF Gate!gateVars
  <2>2. CASE \/ ReadCredential(r) \/ GmailDraft(r) \/ GmailSend(r) \/ SmtpSend(r)
             \/ LinkedInHandoff(r) \/ ConfirmCopy(r)
    BY <2>2, ProviderStepQueue DEF Gate!GateNext, Gate!gateVars, Gate!Letter, Message
  <2>. QED  BY <1>7, <2>1, <2>2 DEF Dispatch
<1>8. CASE Next
  BY <1>0, <1>2, <1>3, <1>4, <1>5, <1>6, <1>7, <1>8 DEF Next, QueueInv, Gate!gateVars
<1>. QED  BY <1>1, <1>8

-----------------------------------------------------------------------------
\* The strengthening that explains the rest: a row is clean until its first
\* accepted call, every text a row or a dispatch holds was authorised, and a
\* dispatch has used only the ways that lie behind its phase.
THEOREM QueueInvariant == Spec => []QueueInv
  BY QueueInit, QueueStep, PTL DEF Spec

\* A draft that awaits review has no key, no delivery state, no dispatch and no
\* message, whatever approves, rejects, drafts and crashes have overlapped.
THEOREM PendingUntouched == Spec => []PendingIsUntouched
<1>1. QueueInv => PendingIsUntouched
  <2> SUFFICES ASSUME QueueInv, NEW a \in live, rows[a].status = "pending"
               PROVE  /\ rows[a].key = None
                      /\ rows[a].delivery = "not_sent" /\ ~rows[a].sent
                      /\ AcceptedOn(a) = {}
                      /\ \A r \in Requests : jobs[r].phase # "none" => Target(r) # a
                      /\ \A m \in outbox : m.approval # a
    BY DEF PendingIsUntouched
  <2>1. CleanRow(rows[a]) /\ AcceptedOn(a) = {}
    BY DEF QueueInv, RowInv
  <2>2. \A r \in Accepted : Target(r) # a
    BY <2>1 DEF AcceptedOn, Target
  <2>3. \A r \in Requests : jobs[r].phase # "none" => r \in Accepted
    BY DEF QueueInv, TypeOK, JobTypes, Accepted, AcceptedPcs
  <2>. QED  BY <2>1, <2>2, <2>3 DEF CleanRow, QueueInv, OutboxInv
<1>. QED  BY <1>1, QueueInvariant, PTL

\* An approve call that begins after another one on the same approval reached
\* the database queues nothing, with the same key or another.
THEOREM LaterApprove == Spec => []LaterApproveIsNotAccepted
<1>1. QueueInv => LaterApproveIsNotAccepted
  BY DEF QueueInv, CallInv, LaterApproveIsNotAccepted, Accepted
<1>. QED  BY <1>1, QueueInvariant, PTL

\* The approval queue and its senders implement HumanGate.
THEOREM GateRefinement == Spec => NothingSentUnapproved
<1>1. Init => Gate!GateInit
  BY DEF Init, IdleCall, Decisions, Accepted, AcceptedPcs, Gate!GateInit
<1>2. QueueInv /\ [Next]_vars => [Gate!GateNext]_(Gate!gateVars)
  BY QueueStep
<1>. QED  BY <1>1, <1>2, QueueInvariant, PTL DEF Spec, NothingSentUnapproved, Gate!GateSpec

=============================================================================
