------------------------ MODULE ApprovalsClaimsProofs ------------------------
(* Theorems about Approvals: what a rejected approval, a row and the notes  *)
(* of an application may show, for any number of approvals and calls.       *)
EXTENDS ApprovalsProofs

\* The actions that touch a dispatch after it has read its row.
ProviderStep(r) ==
    \/ ReadCredential(r) \/ GmailDraft(r) \/ GmailSend(r)
    \/ SmtpSend(r) \/ LinkedInHandoff(r) \/ ConfirmCopy(r)

-----------------------------------------------------------------------------
(* What every step keeps, and what can cause a change.                     *)

\* Ids are not reused, an application is never moved to another channel or an
\* approval to another application, a call keeps its approval, and a message
\* cannot be taken back.
Kept ==
    /\ channel' = channel
    /\ outbox \subseteq outbox'
    /\ deleted \subseteq deleted'
    /\ \A a \in live \cup deleted :
           a \in live' \cup deleted' /\ rows'[a].application = rows[a].application
    /\ \A r \in Requests : calls[r].pc # "idle" => calls'[r].approval = calls[r].approval

\* The dispatches that a step changes: one that a call hands over or that dies
\* or ends is not in flight; the others go on from the row they read.
JobCause(r) ==
    \/ jobs'[r] = jobs[r]
    \/ jobs'[r].phase \notin InFlightPhases
    \/ DispatchLoad(r)
    \/ ProviderStep(r)

\* The rows a step writes.
RowCause(a) ==
    \/ rows'[a] = rows[a] /\ a \in live
    \/ \E app \in Applications : rows'[a] = NewRow(app)
    \/ \E r \in Requests : /\ calls[r].pc = "read" /\ a \in live
                           /\ rows'[a] = Flush(rows[a], calls[r].base,
                                  Decided(calls[r].base, calls[r].key, calls[r].edit))
    \/ \E r \in Requests : /\ jobs[r].phase = "commit" /\ a = Target(r) /\ a \in live
                           /\ rows'[a] = Flush(rows[a], jobs[r].base, jobs[r].work)

Caused ==
    /\ \A r \in Requests : JobCause(r)
    /\ \A a \in live' : RowCause(a)

LEMMA DraftCause ==
    ASSUME TypeOK, NEW d \in Drafters,
           \/ \E app \in Applications : DraftLookup(d, app)
           \/ \E a \in Approvals : DraftInsert(d, a)
    PROVE  Kept /\ Caused /\ outbox' = outbox /\ notes' = notes
<1>1. ASSUME NEW app \in Applications, DraftLookup(d, app)
      PROVE  Kept /\ Caused /\ outbox' = outbox /\ notes' = notes
  BY <1>1 DEF DraftLookup, Kept, Caused, JobCause, RowCause
<1>2. ASSUME NEW a \in Approvals, DraftInsert(d, a)
      PROVE  Kept /\ Caused /\ outbox' = outbox /\ notes' = notes
  <2>1. /\ rows'[a] = NewRow(drafts[d].application) /\ drafts[d].application \in Applications
        /\ \A b \in Approvals \ {a} : rows'[b] = rows[b]
    BY <1>2 DEF DraftInsert, TypeOK, TableTypes, DraftTypes
  <2>. QED  BY <1>2, <2>1 DEF DraftInsert, TypeOK, TableTypes, Kept, Caused, JobCause, RowCause
<1>. QED  BY <1>1, <1>2

LEMMA CallCause ==
    ASSUME TypeOK, NEW r \in Requests,
           \/ \E a \in Approvals : \E key \in Keys \cup {r}, edit \in Edits \cup {None} :
                  ApproveRead(r, a, key, edit)
           \/ ApproveCommit(r) \/ HandOff(r) \/ CrashRequest(r) \/ CrashDispatch(r)
    PROVE  Kept /\ Caused /\ outbox' = outbox /\ notes' = notes
<1>1. ASSUME NEW a \in Approvals, NEW key \in Keys \cup {r}, NEW edit \in Edits \cup {None},
             ApproveRead(r, a, key, edit)
      PROVE  Kept /\ Caused /\ outbox' = outbox /\ notes' = notes
  BY <1>1 DEF ApproveRead, TypeOK, CallTypes, Kept, Caused, JobCause, RowCause
<1>2. CASE ApproveCommit(r)
  <2>1. PICK a : a = calls[r].approval
    OBVIOUS
  <2>2. /\ UNCHANGED <<live, deleted, channel, notes, jobs, outbox>>
        /\ calls[r].pc = "read"
        /\ \A q \in Requests : calls'[q].approval = calls[q].approval
    BY <1>2 DEF ApproveCommit, TypeOK, CallTypes
  <2>3. \A b \in Approvals : \/ rows'[b] = rows[b]
                             \/ rows'[b] = Flush(rows[b], calls[r].base,
                                    Decided(calls[r].base, calls[r].key, calls[r].edit))
    BY <1>2 DEF ApproveCommit, TypeOK, TableTypes
  <2>4. \A b \in Approvals : rows'[b].application = rows[b].application
    <3>1. /\ calls[r].base \in Row
          /\ Decided(calls[r].base, calls[r].key, calls[r].edit) \in Row
      BY <1>2, DecidedType DEF ApproveCommit, TypeOK, CallTypes
    <3>. QED  BY <2>3, <3>1, FlushType DEF TypeOK, TableTypes
  <2>5. \A b \in live' : RowCause(b)
    BY <1>2, <2>2, <2>3 DEF RowCause, TypeOK, TableTypes
  <2>. QED  BY <2>2, <2>4, <2>5 DEF TypeOK, TableTypes, Kept, Caused, JobCause
<1>3. CASE HandOff(r)
  <2>1. PICK phase, pc : phase \in {"none", "brokered", "scheduled"} /\ HandOver(r, phase, pc)
    BY <1>3 DEF HandOff, Enqueue, RunInProcess, EnqueueFails
  <2>2. \A q \in Requests : /\ calls'[q].approval = calls[q].approval
                            /\ jobs'[q] = jobs[q] \/ jobs'[q].phase = phase
    BY <2>1 DEF HandOver, TypeOK, CallTypes, JobTypes
  <2>. QED
    BY <2>1, <2>2 DEF HandOver, Kept, Caused, JobCause, RowCause, InFlightPhases
<1>4. CASE CrashRequest(r)
  BY <1>4 DEF CrashRequest, TypeOK, CallTypes, Kept, Caused, JobCause, RowCause
<1>5. CASE CrashDispatch(r)
  BY <1>5 DEF CrashDispatch, dbVars, TypeOK, JobTypes, Kept, Caused, JobCause, RowCause,
              InFlightPhases
<1>. QED  BY <1>1, <1>2, <1>3, <1>4, <1>5

LEMMA RejectCause ==
    ASSUME TypeOK, NEW q \in Rejecters, (\E a \in Approvals : RejectRead(q, a)) \/ RejectCommit(q)
    PROVE  Kept /\ Caused /\ outbox' = outbox /\ notes' = notes
<1>1. ASSUME NEW a \in Approvals, RejectRead(q, a)
      PROVE  Kept /\ Caused /\ outbox' = outbox /\ notes' = notes
  BY <1>1 DEF RejectRead, Kept, Caused, JobCause, RowCause
<1>2. CASE RejectCommit(q)
  BY <1>2 DEF RejectCommit, Kept, Caused, JobCause, RowCause
<1>. QED  BY <1>1, <1>2

LEMMA DispatchCause ==
    ASSUME TypeOK, NEW r \in Requests, Dispatch(r)
    PROVE  Kept /\ Caused
<1>1. CASE DispatchLoad(r) \/ ProviderStep(r)
  <2>1. UNCHANGED dbVars /\ outbox \subseteq outbox'
    BY <1>1 DEF DispatchLoad, ProviderStep, ReadCredential, GmailDraft, GmailSend, SmtpSend,
                LinkedInHandoff, ConfirmCopy, Provider, Smtp
  <2>2. \A q \in Requests \ {r} : jobs'[q] = jobs[q]
    BY <1>1 DEF DispatchLoad, ProviderStep, ReadCredential, GmailDraft, GmailSend, SmtpSend,
                LinkedInHandoff, ConfirmCopy, Step, TypeOK, JobTypes
  <2>. QED  BY <1>1, <2>1, <2>2 DEF dbVars, Kept, Caused, JobCause, RowCause
<1>2. CASE DispatchSkip(r)
  BY <1>2 DEF DispatchSkip, dbVars, TypeOK, JobTypes, Kept, Caused, JobCause, RowCause,
              InFlightPhases
<1>3. CASE DispatchCommit(r)
  <2>1. /\ UNCHANGED <<live, deleted, channel, calls, outbox>>
        /\ jobs[r].phase = "commit"
        /\ \A q \in Requests : jobs'[q] = jobs[q] \/ jobs'[q].phase \in {"done", "lost"}
    BY <1>3 DEF DispatchCommit, TypeOK, JobTypes
  <2>2. \A b \in Approvals : \/ rows'[b] = rows[b]
                             \/ /\ b = Target(r)
                                /\ rows'[b] = Flush(rows[b], jobs[r].base, jobs[r].work)
    BY <1>3 DEF DispatchCommit, TypeOK, TableTypes
  <2>3. \A b \in Approvals : rows'[b].application = rows[b].application
    BY <2>2, FlushType DEF TypeOK, TableTypes, JobTypes
  <2>4. \A b \in live' : RowCause(b)
    BY <2>1, <2>2 DEF RowCause, TypeOK, TableTypes
  <2>. QED  BY <2>1, <2>3, <2>4 DEF TypeOK, TableTypes, Kept, Caused, JobCause, InFlightPhases
<1>. QED  BY <1>1, <1>2, <1>3 DEF Dispatch, ProviderStep

\* Only a provider step puts a message in the outbox, and only a dispatch's
\* commit writes notes.
LEMMA StepCause ==
    ASSUME TypeOK, [Next]_vars
    PROVE  /\ Kept
           /\ Caused
           /\ outbox' = outbox \/ \E r \in Requests : ProviderStep(r)
           /\ notes' = notes \/ \E r \in Requests : DispatchCommit(r)
<1>1. CASE UNCHANGED vars
  BY <1>1 DEF vars, Kept, Caused, JobCause, RowCause
<1>2. ASSUME NEW r \in Requests, Dispatch(r)
      PROVE  /\ outbox' = outbox \/ ProviderStep(r)
             /\ notes' = notes \/ DispatchCommit(r)
  BY <1>2 DEF Dispatch, ProviderStep, DispatchLoad, DispatchSkip, DispatchCommit, ReadCredential,
              GmailDraft, GmailSend, SmtpSend, LinkedInHandoff, ConfirmCopy, dbVars
<1>3. CASE Next
  BY <1>2, <1>3, DraftCause, CallCause, RejectCause, DispatchCause DEF Next
<1>. QED  BY <1>1, <1>3

-----------------------------------------------------------------------------
(* A rejected approval stays silent.                                       *)

\* A dispatch that may send read its row before, and sends for its approval.
LEMMA ProviderStepSends ==
    ASSUME NEW r \in Requests, ProviderStep(r)
    PROVE  /\ InFlight(r)
           /\ \A m \in outbox' \ outbox : \E via \in Vias : m = Sent(r, via)
  BY DEF ProviderStep, ReadCredential, GmailDraft, GmailSend, SmtpSend, LinkedInHandoff,
         ConfirmCopy, Provider, Smtp, Vias, InFlight, InFlightPhases

LEMMA QuietStep ==
    ASSUME TypeOK, [Next]_vars, NEW a \in Approvals, Quiet(a)
    PROVE  Quiet(a)' /\ MessagesFor(a)' = MessagesFor(a)
<1>1. Kept /\ Caused
  BY StepCause
<1>2. a \in deleted /\ a \notin live
  BY DEF Quiet, TypeOK, TableTypes
<1>3. ASSUME NEW r \in Requests, InFlight(r)' PROVE Target(r)' # a
  <2>1. CASE InFlight(r)
    <3>1. Target(r) # a /\ calls[r].pc # "idle"
      BY <2>1 DEF Quiet, TypeOK, JobTypes, InFlight, InFlightPhases
    <3>. QED  BY <1>1, <3>1 DEF Kept, Target
  <2>2. CASE DispatchLoad(r)
    <3>1. Target(r) \in live /\ calls[r].pc # "idle"
      BY <2>2 DEF DispatchLoad, Dispatchable, TypeOK, JobTypes
    <3>. QED  BY <1>1, <1>2, <3>1 DEF Kept, Target
  <2>. QED  BY <1>1, <1>3, <2>1, <2>2, ProviderStepSends DEF Caused, JobCause, InFlight
<1>4. Quiet(a)'
  BY <1>1, <1>2, <1>3 DEF Kept, Quiet
<1>5. \A m \in outbox' \ outbox : m.approval # a
  BY StepCause, ProviderStepSends DEF Quiet, Sent
<1>6. MessagesFor(a)' = MessagesFor(a)
  BY <1>1, <1>5 DEF Kept, MessagesFor
<1>. QED  BY <1>4, <1>6

\* Once an approval is rejected and no dispatch that read it is running,
\* nothing more is ever sent for it.
THEOREM RejectedSilent == Spec => RejectedStaysSilent
<1>1. TypeOK /\ [Next]_vars =>
          [\A a \in Approvals : Quiet(a) => Quiet(a)' /\ MessagesFor(a)' = MessagesFor(a)]_vars
  BY QuietStep
<1>. QED  BY <1>1, TypeCorrect, PTL DEF Spec, RejectedStaysSilent

-----------------------------------------------------------------------------
(* What rows claim.                                                        *)

LEMMA FlushColumns ==
    ASSUME NEW stored \in Row, NEW base \in Row, NEW work \in Row
    PROVE  /\ Flush(stored, base, work).delivery \in {stored.delivery, work.delivery}
           /\ Flush(stored, base, work).provider \in {stored.provider, work.provider}
           /\ Flush(stored, base, work).sent \in {stored.sent, work.sent}
  BY DEF Flush, Written, Row

LEMMA StepResult ==
    ASSUME TypeOK, NEW r \in Requests, NEW phase, NEW work, NEW lines, Step(r, phase, work, lines)
    PROVE  /\ jobs'[r].base = jobs[r].base /\ jobs'[r].noted = jobs[r].noted
           /\ jobs'[r].work = work
           /\ jobs'[r].log = jobs[r].log \cup lines
  BY DEF TypeOK, JobTypes, Step

\* The claims a provider step may add to the row a dispatch holds: those that
\* a message taken on the dispatch's account backs.
ClaimsAdded(r, w, v) ==
    /\ v.application = w.application
    /\ v.delivery = "provider_confirmed" =>
           v.delivery = w.delivery \/ \E via \in {"gmail", "handoff"} : Sent(r, via) \in outbox'
    /\ v.delivery = "provider_accepted" =>
           v.delivery = w.delivery \/ Sent(r, "smtp") \in outbox'
    /\ v.sent => w.sent \/ \E via \in {"gmail", "smtp", "handoff"} : Sent(r, via) \in outbox'
    /\ v.provider = "smtp" => v.provider = w.provider \/ Sent(r, "smtp") \in outbox'
    /\ v.provider = "gmail" =>
           v.provider = w.provider \/ \E via \in {"gmail", "draft"} : Sent(r, via) \in outbox'

LEMMA BranchClaims ==
    ASSUME NEW r, NEW w \in Row
    PROVE  /\ ClaimsAdded(r, w, w)
           /\ \A e : ClaimsAdded(r, w, [w EXCEPT !.error = e])
           /\ \A e : ClaimsAdded(r, w, [w EXCEPT !.delivery = "failed", !.error = e])
           /\ Sent(r, "draft") \in outbox' => ClaimsAdded(r, w,
                  [w EXCEPT !.provider = "gmail", !.error = {}, !.delivery = "draft_created"])
           /\ Sent(r, "gmail") \in outbox' => ClaimsAdded(r, w,
                  [w EXCEPT !.provider = "gmail", !.sent = TRUE, !.delivery = "provider_confirmed"])
           /\ Sent(r, "smtp") \in outbox' => ClaimsAdded(r, w,
                  [w EXCEPT !.provider = "smtp", !.sent = TRUE, !.delivery = "provider_accepted"])
           /\ Sent(r, "handoff") \in outbox' => ClaimsAdded(r, w,
                  [w EXCEPT !.provider = "linkedin", !.sent = TRUE, !.delivery = "provider_confirmed"])
  BY DEF Row, ClaimsAdded

LEMMA ProviderStepClaims ==
    ASSUME SmtpEnabled, TypeOK, NEW r \in Requests, ProviderStep(r)
    PROVE  /\ jobs'[r].base = jobs[r].base
           /\ ClaimsAdded(r, jobs[r].work, jobs'[r].work)
<1>1. jobs[r].work \in Row
  BY DEF TypeOK, JobTypes
<1>2. \A phase, work, lines : Step(r, phase, work, lines) =>
          jobs'[r].base = jobs[r].base /\ jobs'[r].work = work
  BY StepResult
<1>3. \A via : Provider(r, via, TRUE) \/ Smtp(r, via, TRUE) => Sent(r, via) \in outbox'
  BY DEF Provider, Smtp
<1>4. CASE ReadCredential(r)
  BY <1>1, <1>2, <1>4, BranchClaims, Zenon DEF ReadCredential
<1>5. CASE GmailDraft(r)
  <2> DEFINE w  == jobs[r].work
             w1 == [w EXCEPT !.provider = "gmail", !.error = {}, !.delivery = "draft_created"]
             w2 == w
  <2>1. /\ ClaimsAdded(r, w, w2)
        /\ Sent(r, "draft") \in outbox' => ClaimsAdded(r, w, w1)
    BY <1>1, BranchClaims
  <2>2. \/ Provider(r, "draft", TRUE) /\ \E lines : Step(r, "smtp", w1, lines)
        \/ \E lines : Step(r, "gmail_send", w2, lines)
    BY <1>5 DEF GmailDraft
  <2> HIDE DEF w1, w2
  <2>. QED  BY <1>2, <1>3, <2>1, <2>2
<1>6. CASE GmailSend(r)
  <2> DEFINE w  == jobs[r].work
             w1 == [w EXCEPT !.provider = "gmail", !.sent = TRUE,
                             !.delivery = "provider_confirmed"]
             w2 == [w EXCEPT !.error = {"gmail_fallback"}]
  <2>1. /\ ClaimsAdded(r, w, w2)
        /\ Sent(r, "gmail") \in outbox' => ClaimsAdded(r, w, w1)
    BY <1>1, BranchClaims
  <2>2. \/ Provider(r, "gmail", TRUE) /\ \E lines : Step(r, "copy", w1, lines)
        \/ \E lines : Step(r, "smtp", w2, lines)
    BY <1>6 DEF GmailSend
  <2> HIDE DEF w1, w2
  <2>. QED  BY <1>2, <1>3, <2>1, <2>2
<1>7. CASE SmtpSend(r)
  <2> DEFINE w  == jobs[r].work
             w1 == [w EXCEPT !.provider = "smtp", !.sent = TRUE,
                             !.delivery = "provider_accepted"]
             w2 == [w EXCEPT !.delivery = "failed", !.error = {"dispatch_failed"}]
  <2>1. /\ ClaimsAdded(r, w, w2)
        /\ Sent(r, "smtp") \in outbox' => ClaimsAdded(r, w, w1)
    BY <1>1, BranchClaims
  <2>2. \/ Smtp(r, "smtp", TRUE) /\ \E lines : Step(r, "copy", w1, lines)
        \/ \E lines : Step(r, "commit", w2, lines)
    BY <1>7 DEF SmtpSend
  <2> HIDE DEF w1, w2
  <2>. QED  BY <1>2, <1>3, <2>1, <2>2
<1>8. CASE LinkedInHandoff(r)
  <2> DEFINE w  == jobs[r].work
             w1 == [w EXCEPT !.provider = "linkedin", !.sent = TRUE,
                             !.delivery = "provider_confirmed"]
             w2 == [w EXCEPT !.delivery = "failed", !.error = {"linkedin_failed"}]
  <2>1. /\ ClaimsAdded(r, w, w2)
        /\ Sent(r, "handoff") \in outbox' => ClaimsAdded(r, w, w1)
    BY <1>1, BranchClaims
  <2>2. \/ Smtp(r, "handoff", TRUE) /\ \E lines : Step(r, "commit", w1, lines)
        \/ \E lines : Step(r, "commit", w2, lines)
    BY <1>8 DEF LinkedInHandoff
  <2> HIDE DEF w1, w2
  <2>. QED  BY <1>2, <1>3, <2>1, <2>2
<1>9. CASE ConfirmCopy(r)
  <2> DEFINE w == jobs[r].work
  <2>1. \E e : Step(r, "commit", [w EXCEPT !.error = e], {})
    BY <1>9 DEF ConfirmCopy
  <2>2. \A e : ClaimsAdded(r, w, [w EXCEPT !.error = e])
    BY <1>1, BranchClaims
  <2>. QED  BY <1>2, <2>1, <2>2
<1>. QED  BY <1>4, <1>5, <1>6, <1>7, <1>8, <1>9 DEF ProviderStep

\* An accepted call's approval is or was in the table, and the dispatch of a
\* call in flight still has the approval the call named.
LEMMA InFlightTarget ==
    ASSUME QueueInv, Kept, NEW r \in Requests, jobs[r].phase # "none"
    PROVE  /\ Target(r) \in live \cup deleted
           /\ Target(r) \in Approvals
           /\ Target(r)' = Target(r)
           /\ rows'[Target(r)].application = rows[Target(r)].application
<1>1. r \in Accepted /\ calls[r].pc # "idle"
  BY DEF QueueInv, TypeOK, JobTypes, Accepted, AcceptedPcs
<1>. QED  BY <1>1 DEF QueueInv, CallInv, TypeOK, CallTypes, Target, Kept

LEMMA RowsClaim ==
    ASSUME SmtpEnabled, QueueInv, ClaimsInv, Kept, Caused, NEW a \in live'
    PROVE  Backed(a, rows[a])'
<1>1. CASE rows'[a] = rows[a] /\ a \in live
  BY <1>1 DEF ClaimsInv, Kept, Backed, HasMessage
<1>2. ASSUME NEW app \in Applications, rows'[a] = NewRow(app)
      PROVE  Backed(a, rows[a])'
  BY <1>2, NamesAssumption DEF NewRow, Backed, Providers
<1>3. ASSUME a \in live, NEW work \in Row, NEW base \in Row, rows'[a] = Flush(rows[a], base, work),
             \/ work.delivery = "queued" /\ work.provider = None /\ ~work.sent
             \/ Backed(a, work) /\ work.application = rows[a].application
      PROVE  Backed(a, rows[a])'
  <2>1. rows[a] \in Row /\ base \in Row /\ work \in Row /\ Backed(a, rows[a])
    BY <1>3 DEF ClaimsInv, QueueInv, TypeOK, TableTypes
  <2>2. /\ rows'[a].application = rows[a].application
        /\ rows'[a].delivery \in {rows[a].delivery, work.delivery}
        /\ rows'[a].provider \in {rows[a].provider, work.provider}
        /\ rows'[a].sent \in {rows[a].sent, work.sent}
    <3>1. rows'[a] = Flush(rows[a], base, work)
      BY <1>3
    <3> DEFINE new == Flush(rows[a], base, work)
    <3>2. /\ new.application = rows[a].application
          /\ new.delivery \in {rows[a].delivery, work.delivery}
          /\ new.provider \in {rows[a].provider, work.provider}
          /\ new.sent \in {rows[a].sent, work.sent}
      BY <2>1, FlushType, FlushColumns, Zenon
    <3> HIDE DEF new
    <3>. QED  BY <3>1, <3>2 DEF new
  <2>. QED
    BY <1>3, <2>1, <2>2, NamesAssumption DEF Kept, Backed, HasMessage, Providers
<1>4. ASSUME NEW r \in Requests, calls[r].pc = "read", a \in live,
             rows'[a] = Flush(rows[a], calls[r].base,
                              Decided(calls[r].base, calls[r].key, calls[r].edit))
      PROVE  Backed(a, rows[a])'
  <2> DEFINE work == Decided(calls[r].base, calls[r].key, calls[r].edit)
  <2>1. calls[r].base \in Row /\ work \in Row
    BY <1>4, DecidedType DEF QueueInv, TypeOK, CallTypes
  <2>2. work.delivery = "queued" /\ work.provider = None /\ ~work.sent
    BY <2>1 DEF Decided, Row
  <2> HIDE DEF work
  <2>3. rows'[a] = Flush(rows[a], calls[r].base, work)
    BY <1>4 DEF work
  <2>. QED  BY <1>3, <1>4, <2>1, <2>2, <2>3
<1>5. ASSUME NEW r \in Requests, jobs[r].phase = "commit", a = Target(r), a \in live,
             rows'[a] = Flush(rows[a], jobs[r].base, jobs[r].work)
      PROVE  Backed(a, rows[a])'
  <2>1. InFlight(r)
    BY <1>5 DEF InFlight, InFlightPhases
  <2>2. /\ jobs[r].base \in Row /\ jobs[r].work \in Row
        /\ Backed(a, jobs[r].work) /\ jobs[r].work.application = rows[a].application
    BY <1>5, <2>1 DEF ClaimsInv, QueueInv, TypeOK, JobTypes
  <2>. QED  BY <1>3, <1>5, <2>2
<1>. QED  BY <1>1, <1>2, <1>4, <1>5 DEF Caused, RowCause

\* A dispatch keeps the application of its row, and what it holds stays backed.
LEMMA LoadClaims ==
    ASSUME SmtpEnabled, QueueInv, ClaimsInv, NEW r \in Requests, DispatchLoad(r)
    PROVE  /\ jobs'[r].base.application = rows[Target(r)].application
           /\ jobs'[r].work.application = rows[Target(r)].application
           /\ Backed(Target(r), jobs'[r].work)
<1> DEFINE row  == rows[Target(r)]
           work == [row EXCEPT !.delivery = "queued", !.error = {}]
<1>1. row \in Row /\ Backed(Target(r), row)
  BY DEF QueueInv, TypeOK, TableTypes, DispatchLoad, Dispatchable, ClaimsInv
<1>2. /\ jobs'[r].base = row
      /\ \/ jobs'[r].work = work
         \/ jobs'[r].work = RecordedLocally(work) /\ channel[row.application] = "company_site"
  BY DEF DispatchLoad, QueueInv, TypeOK, JobTypes
<1>3. work.application = row.application /\ Backed(Target(r), work)
  BY <1>1 DEF Row, Backed
<1>4. /\ RecordedLocally(work).application = row.application
      /\ channel[row.application] = "company_site" => Backed(Target(r), RecordedLocally(work))
  BY <1>1 DEF Row, Backed, RecordedLocally
<1> HIDE DEF work
<1>. QED  BY <1>2, <1>3, <1>4

LEMMA JobsClaim ==
    ASSUME SmtpEnabled, QueueInv, ClaimsInv, Kept, Caused, NEW r \in Requests, InFlight(r)'
    PROVE  /\ (rows[Target(r)].application = AppOf(r))'
           /\ (jobs[r].work.application = AppOf(r))'
           /\ Backed(Target(r), jobs[r].work)'
<1>1. JobCause(r) /\ jobs'[r].phase \in InFlightPhases
  BY DEF Caused, InFlight
<1>2. CASE jobs'[r] = jobs[r]
  <2>1. InFlight(r) /\ jobs[r].phase # "none"
    BY <1>1, <1>2 DEF InFlight, InFlightPhases
  <2>. QED
    BY <1>2, <2>1, InFlightTarget DEF ClaimsInv, AppOf, Kept, Backed, HasMessage
<1>3. CASE DispatchLoad(r)
  <2>1. jobs[r].phase # "none" /\ UNCHANGED rows
    BY <1>3 DEF DispatchLoad, dbVars
  <2>. QED
    BY <1>3, <2>1, InFlightTarget, LoadClaims DEF AppOf, Kept, Backed, HasMessage
<1>4. CASE ProviderStep(r)
  <2>1. InFlight(r) /\ jobs[r].phase # "none"
    BY <1>4, ProviderStepSends DEF InFlight, InFlightPhases
  <2>2. /\ Target(r)' = Target(r)
        /\ rows'[Target(r)].application = rows[Target(r)].application
        /\ jobs'[r].base = jobs[r].base
        /\ ClaimsAdded(r, jobs[r].work, jobs'[r].work)
    BY <1>4, <2>1, InFlightTarget, ProviderStepClaims DEF QueueInv
  <2>3. \A via : Sent(r, via).approval = Target(r) /\ Sent(r, via).via = via
    BY DEF Sent
  <2>4. /\ (rows[Target(r)].application = AppOf(r))'
        /\ (jobs[r].work.application = AppOf(r))'
    BY <2>1, <2>2 DEF ClaimsInv, ClaimsAdded, AppOf
  <2>5. Backed(Target(r), jobs[r].work) /\ jobs'[r].work.application = jobs[r].work.application
    BY <2>1, <2>2 DEF ClaimsInv, ClaimsAdded
  <2>6. Backed(Target(r), jobs[r].work)'
    BY <2>2, <2>3, <2>5 DEF ClaimsAdded, Kept, Backed, HasMessage
  <2>. QED  BY <2>4, <2>6
<1>. QED  BY <1>1, <1>2, <1>3, <1>4 DEF JobCause

\* What the rows and the dispatches hold is backed by what providers took.
THEOREM ClaimsInvariant == SmtpEnabled => (Spec => []ClaimsInv)
<1> SUFFICES ASSUME SmtpEnabled PROVE Spec => []ClaimsInv
  OBVIOUS
<1>1. Init => ClaimsInv
  BY DEF Init, ClaimsInv, NoJob, InFlight, InFlightPhases
<1>2. QueueInv /\ ClaimsInv /\ [Next]_vars => ClaimsInv'
  <2> SUFFICES ASSUME QueueInv, ClaimsInv, [Next]_vars PROVE ClaimsInv'
    OBVIOUS
  <2>1. Kept /\ Caused
    BY StepCause DEF QueueInv
  <2>. QED  BY <2>1, RowsClaim, JobsClaim DEF ClaimsInv
<1>. QED  BY <1>1, <1>2, QueueInvariant, PTL DEF Spec

\* The delivery a row reports is true, whatever dispatches and approves of it
\* have written their columns over each other.
THEOREM DeliveryIsBacked == Spec => []DeliveryClaimsBacked
<1>1. CASE SmtpEnabled
  <2>1. ClaimsInv => DeliveryClaimsBacked
    BY DEF ClaimsInv, DeliveryClaimsBacked
  <2>2. Spec => []ClaimsInv
    BY <1>1, ClaimsInvariant
  <2>. QED  BY <2>1, <2>2, PTL
<1>2. CASE ~SmtpEnabled
  <2>1. DeliveryClaimsBacked
    BY <1>2 DEF DeliveryClaimsBacked
  <2>. QED  BY <2>1, PTL
<1>. QED  BY <1>1, <1>2

-----------------------------------------------------------------------------
(* What the notes claim.                                                   *)

\* Messages are not taken back and their approvals keep their application.
LEMMA TakenStays ==
    ASSUME QueueInv, Kept, NEW p
    PROVE  TakenFor(p) \subseteq TakenFor(p)'
<1>1. \A m \in outbox : m.approval \in live \cup deleted
  BY DEF QueueInv, OutboxInv, CallInv, Target, Accepted
<1>. QED  BY <1>1 DEF Kept, TakenFor

\* The lines a provider step adds to those a dispatch will write, and the
\* messages that back them.
LinesAdded(r, old, new) ==
    /\ "draft_created" \in new \ old => Sent(r, "draft") \in outbox'
    /\ "confirmed_gmail" \in new \ old => Sent(r, "gmail") \in outbox'
    /\ SmtpEnabled /\ "accepted_smtp" \in new \ old => Sent(r, "smtp") \in outbox'
    /\ SmtpEnabled /\ "confirmed_linkedin" \in new \ old => Sent(r, "handoff") \in outbox'

LEMMA ProviderStepLines ==
    ASSUME TypeOK, NEW r \in Requests, ProviderStep(r)
    PROVE  /\ jobs'[r].base = jobs[r].base /\ jobs'[r].noted = jobs[r].noted
           /\ LinesAdded(r, jobs[r].log, jobs'[r].log)
<1>1. \A phase, work, lines : Step(r, phase, work, lines) =>
          /\ jobs'[r].base = jobs[r].base /\ jobs'[r].noted = jobs[r].noted
          /\ jobs'[r].log = jobs[r].log \cup lines
  BY StepResult
<1> DEFINE Claim == {"draft_created", "confirmed_gmail", "accepted_smtp", "confirmed_linkedin"}
<1>2. /\ jobs'[r].base = jobs[r].base /\ jobs'[r].noted = jobs[r].noted
      /\ \/ \E lines : lines \cap Claim = {} /\ jobs'[r].log = jobs[r].log \cup lines
         \/ jobs'[r].log = jobs[r].log \cup {"draft_created"} /\ Provider(r, "draft", TRUE)
         \/ jobs'[r].log = jobs[r].log \cup {"confirmed_gmail"} /\ Provider(r, "gmail", TRUE)
         \/ jobs'[r].log = jobs[r].log \cup {"accepted_smtp"} /\ Smtp(r, "smtp", TRUE)
         \/ jobs'[r].log = jobs[r].log \cup {"confirmed_linkedin"} /\ Smtp(r, "handoff", TRUE)
  <2>1. {} \cap Claim = {} /\ {"failed"} \cap Claim = {}
    OBVIOUS
  <2> HIDE DEF Claim
  <2>2. CASE ReadCredential(r)
    BY <1>1, <2>1, <2>2, Zenon DEF ReadCredential
  <2>3. CASE GmailDraft(r)
    BY <1>1, <2>1, <2>3, Zenon DEF GmailDraft
  <2>4. CASE GmailSend(r)
    BY <1>1, <2>1, <2>4, Zenon DEF GmailSend
  <2>5. CASE SmtpSend(r)
    BY <1>1, <2>1, <2>5, Zenon DEF SmtpSend
  <2>6. CASE LinkedInHandoff(r)
    BY <1>1, <2>1, <2>6, Zenon DEF LinkedInHandoff
  <2>7. CASE ConfirmCopy(r)
    BY <1>1, <2>1, <2>7, Zenon DEF ConfirmCopy
  <2>. QED  BY <2>2, <2>3, <2>4, <2>5, <2>6, <2>7 DEF ProviderStep
<1>. QED  BY <1>2 DEF LinesAdded, Provider, Smtp

LEMMA JobsNotes ==
    ASSUME QueueInv, NotesInv, Kept, Caused, NEW r \in Requests, InFlight(r)'
    PROVE  /\ (rows[Target(r)].application = AppOf(r))'
           /\ LinesBacked(AppOf(r), jobs[r].noted \cup jobs[r].log)'
<1>1. JobCause(r) /\ jobs'[r].phase \in InFlightPhases
  BY DEF Caused, InFlight
<1>2. CASE jobs'[r] = jobs[r]
  <2>1. InFlight(r) /\ jobs[r].phase # "none"
    BY <1>1, <1>2 DEF InFlight, InFlightPhases
  <2>2. (rows[Target(r)].application = AppOf(r))'
    BY <1>2, <2>1, InFlightTarget DEF NotesInv, AppOf
  <2>3. LinesBacked(AppOf(r), jobs[r].noted \cup jobs[r].log)
    BY <2>1 DEF NotesInv
  <2>. QED  BY <1>2, <2>2, <2>3, TakenStays DEF LinesBacked, AppOf
<1>3. CASE DispatchLoad(r)
  <2>1. /\ jobs[r].phase # "none" /\ UNCHANGED rows
        /\ rows[Target(r)].application \in Applications
        /\ jobs'[r].base = rows[Target(r)]
        /\ jobs'[r].noted = notes[rows[Target(r)].application]
        /\ jobs'[r].log \in {{}, {"accepted_internal"}}
    BY <1>3 DEF DispatchLoad, Dispatchable, dbVars, QueueInv, TypeOK, TableTypes, JobTypes
  <2>2. (rows[Target(r)].application = AppOf(r))'
    BY <2>1, InFlightTarget DEF AppOf
  <2>3. LinesBacked(rows[Target(r)].application, jobs'[r].noted)
    BY <2>1 DEF NotesInv, NotesBacked
  <2>. QED  BY <2>1, <2>2, <2>3, TakenStays DEF LinesBacked, AppOf
<1>4. CASE ProviderStep(r)
  <2>1. InFlight(r) /\ jobs[r].phase # "none"
    BY <1>4, ProviderStepSends DEF InFlight, InFlightPhases
  <2>2. /\ Target(r)' = Target(r)
        /\ rows'[Target(r)].application = AppOf(r)
        /\ AppOf(r)' = AppOf(r)
        /\ jobs'[r].noted = jobs[r].noted
        /\ LinesAdded(r, jobs[r].log, jobs'[r].log)
    BY <1>4, <2>1, InFlightTarget, ProviderStepLines DEF QueueInv, NotesInv, AppOf
  <2>3. \A via : Sent(r, via) \in outbox' => via \in TakenFor(AppOf(r))'
    <3>1. \A via : Sent(r, via).approval = Target(r) /\ Sent(r, via).via = via
      BY DEF Sent
    <3>. QED  BY <2>2, <3>1 DEF TakenFor
  <2>4. LinesBacked(AppOf(r), jobs[r].noted \cup jobs[r].log)
    BY <2>1 DEF NotesInv
  <2>. QED  BY <2>2, <2>3, <2>4, TakenStays DEF LinesBacked, LinesAdded
<1>. QED  BY <1>1, <1>2, <1>3, <1>4 DEF JobCause

LEMMA NotesStep ==
    ASSUME QueueInv, NotesInv, [Next]_vars
    PROVE  NotesInv'
<1>1. Kept /\ Caused
  BY StepCause DEF QueueInv
<1>2. ASSUME NEW p \in Applications PROVE LinesBacked(p, notes[p])'
  <2>1. LinesBacked(p, notes[p])
    BY DEF NotesInv, NotesBacked
  <2>2. CASE notes'[p] = notes[p]
    BY <1>1, <2>1, <2>2, TakenStays DEF LinesBacked
  <2>3. CASE notes'[p] # notes[p]
    <3>1. PICK r : /\ r \in Requests /\ jobs[r].phase = "commit" /\ p = AppOf(r)
                   /\ notes'[p] = jobs[r].noted \cup jobs[r].log
      BY <2>3, StepCause DEF QueueInv, TypeOK, TableTypes, DispatchCommit
    <3>2. LinesBacked(p, notes'[p])
      BY <3>1 DEF NotesInv, InFlight, InFlightPhases
    <3>. QED  BY <1>1, <3>2, TakenStays DEF LinesBacked
  <2>. QED  BY <2>2, <2>3
<1>. QED  BY <1>1, <1>2, JobsNotes DEF NotesInv, NotesBacked

\* The lines of an application's notes are true, whatever dispatches of its
\* approvals have overwritten each other's.
THEOREM NotesAreBacked == Spec => []NotesBacked
<1>1. Init => NotesInv
  BY DEF Init, NotesInv, NotesBacked, LinesBacked, NoJob, InFlight, InFlightPhases
<1>2. NotesInv => NotesBacked
  BY DEF NotesInv
<1>. QED  BY <1>1, <1>2, NotesStep, QueueInvariant, PTL DEF Spec


-----------------------------------------------------------------------------
(* A queued row has a dispatch that is still to report on it.              *)

Attended == \A a \in live : rows[a].delivery = "queued" => \E r \in AcceptedOn(a) : Attends(r)

\* A step of one call that takes no row's dispatch away.
LEMMA AttendedStays ==
    ASSUME Attended, NEW r \in Requests,
           \A q \in Requests \ {r} : calls'[q] = calls[q] /\ jobs'[q] = jobs[q],
           r \in Accepted => /\ calls'[r].approval = calls[r].approval
                            /\ calls'[r].pc \in AcceptedPcs,
           r \in Accepted /\ Attends(r) => Attends(r)',
           \A a \in live' : rows'[a].delivery = "queued" =>
               \/ a \in live /\ rows[a].delivery = "queued"
               \/ calls'[r].approval = a /\ calls'[r].pc \in AcceptedPcs /\ Attends(r)'
    PROVE  Attended'
<1> SUFFICES ASSUME NEW a \in live', rows'[a].delivery = "queued"
             PROVE  \E q \in Requests : /\ calls'[q].pc \in AcceptedPcs /\ calls'[q].approval = a
                                        /\ Attends(q)'
  BY DEF Attended, AcceptedOn, Accepted
<1>1. CASE a \in live /\ rows[a].delivery = "queued"
  <2>1. PICK q \in Requests : /\ calls[q].pc \in AcceptedPcs /\ calls[q].approval = a
                             /\ Attends(q)
    BY <1>1 DEF Attended, AcceptedOn, Accepted
  <2>2. CASE q = r
    <3>1. r \in Accepted /\ calls[r].approval = a /\ Attends(r)
      BY <2>1, <2>2 DEF Accepted
    <3>2. calls'[r].approval = a /\ calls'[r].pc \in AcceptedPcs /\ Attends(r)'
      BY <3>1
    <3>. QED  BY <3>2
  <2>3. CASE q # r
    <3>1. calls'[q] = calls[q] /\ jobs'[q] = jobs[q]
      BY <2>3
    <3>. QED  BY <2>1, <3>1 DEF Attends, Undone, InFlight
  <2>. QED  BY <2>2, <2>3
<1>. QED  BY <1>1

\* Nothing happens to a row's dispatch.
LEMMA AttendedSame ==
    ASSUME Attended, UNCHANGED <<calls, jobs>>,
           \A a \in live' : rows'[a].delivery = "queued" => a \in live /\ rows[a].delivery = "queued"
    PROVE  Attended'
  BY DEF Attended, AcceptedOn, Accepted, Attends, Undone, InFlight

LEMMA CallAttends ==
    ASSUME QueueInv, Attended, NEW r \in Requests,
           \/ \E a \in Approvals : \E key \in Keys \cup {r}, edit \in Edits \cup {None} :
                  ApproveRead(r, a, key, edit)
           \/ ApproveCommit(r) \/ HandOff(r) \/ CrashRequest(r) \/ CrashDispatch(r)
    PROVE  Attended'
<1>1. ASSUME NEW a \in Approvals, NEW key \in Keys \cup {r}, NEW edit \in Edits \cup {None},
             ApproveRead(r, a, key, edit)
      PROVE  Attended'
  <2>1. /\ \A q \in Requests \ {r} : calls'[q] = calls[q]
        /\ UNCHANGED <<rows, live, jobs>> /\ r \notin Accepted
    BY <1>1 DEF ApproveRead, QueueInv, TypeOK, CallTypes, Accepted, AcceptedPcs
  <2>. QED  BY <2>1, AttendedStays
<1>2. CASE ApproveCommit(r)
  <2>1. /\ \A q \in Requests \ {r} : calls'[q] = calls[q]
        /\ calls'[r].approval = Target(r) /\ calls'[r].pc \in {"committed", "error"}
        /\ UNCHANGED <<live, jobs>> /\ r \notin Accepted
        /\ \A a \in live : rows'[a] = rows[a] \/ (a = Target(r) /\ calls'[r].pc = "committed")
    BY <1>2 DEF ApproveCommit, QueueInv, TypeOK, CallTypes, TableTypes, Accepted, AcceptedPcs, Target
  <2>2. calls'[r].pc = "committed" => Attends(r)' /\ calls'[r].pc \in AcceptedPcs
    BY DEF Attends, AcceptedPcs
  <2>. QED  BY <2>1, <2>2, AttendedStays
<1>3. CASE HandOff(r)
  <2>1. /\ \A q \in Requests \ {r} : calls'[q] = calls[q] /\ jobs'[q] = jobs[q]
        /\ calls'[r].approval = calls[r].approval /\ UNCHANGED <<rows, live>>
        /\ \/ calls'[r].pc = "accepted" /\ jobs'[r].phase \in {"brokered", "scheduled"}
           \/ calls'[r].pc = "unavailable"
    BY <1>3 DEF HandOff, Enqueue, RunInProcess, EnqueueFails, HandOver, QueueInv, TypeOK, CallTypes,
                JobTypes
  <2>2. calls'[r].pc \in AcceptedPcs /\ Attends(r)'
    BY <2>1 DEF Attends, Undone, AcceptedPcs
  <2>. QED  BY <2>1, <2>2, AttendedStays
<1>4. CASE CrashRequest(r)
  <2>1. /\ \A q \in Requests \ {r} : calls'[q] = calls[q]
        /\ calls'[r].approval = calls[r].approval /\ UNCHANGED <<rows, live, jobs>>
        /\ calls'[r].pc = "crashed"
    BY <1>4 DEF CrashRequest, QueueInv, TypeOK, CallTypes
  <2>2. calls'[r].pc \in AcceptedPcs /\ Attends(r)'
    BY <2>1 DEF Attends, Undone, AcceptedPcs
  <2>. QED  BY <2>1, <2>2, AttendedStays
<1>5. CASE CrashDispatch(r)
  <2>1. /\ \A q \in Requests \ {r} : jobs'[q] = jobs[q]
        /\ UNCHANGED <<rows, live, calls>> /\ MayCrash /\ jobs'[r].phase = "lost"
    BY <1>5 DEF CrashDispatch, dbVars, QueueInv, TypeOK, JobTypes
  <2>2. Attends(r)'
    BY <2>1 DEF Attends, Undone
  <2>3. r \in Accepted => calls'[r].pc \in AcceptedPcs
    BY <2>1 DEF Accepted
  <2>. QED  BY <2>1, <2>2, <2>3, AttendedStays
<1>. QED  BY <1>1, <1>2, <1>3, <1>4, <1>5

\* A dispatch goes on with the row it has read, and comes to its end with a delivery
\* that is not queued.
Reports(r) ==
    \/ jobs'[r].phase \notin {"copy", "commit"}
    \/ jobs'[r].work.delivery # "queued"
    \/ jobs[r].phase = "copy" /\ jobs'[r].work.delivery = jobs[r].work.delivery

GoesOnWith(r) ==
    /\ \A q \in Requests \ {r} : jobs'[q] = jobs[q]
    /\ jobs'[r].base = jobs[r].base /\ jobs'[r].phase \in InFlightPhases
    /\ jobs[r].phase \in InFlightPhases

LEMMA StepGoesOn ==
    ASSUME TypeOK, NEW r \in Requests, NEW phase \in InFlightPhases, NEW work, NEW lines,
           Step(r, phase, work, lines), jobs[r].phase \in InFlightPhases,
           \/ phase \notin {"copy", "commit"} \/ work.delivery # "queued"
           \/ jobs[r].phase = "copy" /\ work.delivery = jobs[r].work.delivery
    PROVE  GoesOnWith(r) /\ Reports(r)
<1>1. /\ \A q \in Requests \ {r} : jobs'[q] = jobs[q]
      /\ jobs'[r].base = jobs[r].base /\ jobs'[r].phase = phase /\ jobs'[r].work = work
  BY DEF TypeOK, JobTypes, Step
<1>. QED  BY <1>1 DEF GoesOnWith, Reports

LEMMA ProviderStepOn ==
    ASSUME TypeOK, NEW r \in Requests, ProviderStep(r)
    PROVE  /\ GoesOnWith(r) /\ Reports(r)
           /\ UNCHANGED <<rows, live, calls>>
<1> DEFINE w == jobs[r].work
<1>1. w \in Row
  BY DEF TypeOK, JobTypes
<1>2. /\ [w EXCEPT !.provider = "gmail", !.sent = TRUE, !.delivery = "provider_confirmed"].delivery # "queued"
      /\ [w EXCEPT !.provider = "smtp", !.sent = TRUE, !.delivery = "provider_accepted"].delivery # "queued"
      /\ [w EXCEPT !.provider = "linkedin", !.sent = TRUE, !.delivery = "provider_confirmed"].delivery
             # "queued"
      /\ [w EXCEPT !.delivery = "failed", !.error = {"dispatch_failed"}].delivery # "queued"
      /\ [w EXCEPT !.delivery = "failed", !.error = {"linkedin_failed"}].delivery # "queued"
      /\ \A failed : [w EXCEPT !.error = @ \cup failed].delivery = w.delivery
  BY <1>1 DEF Row
<1>3. PICK phase, work, lines :
          /\ phase \in InFlightPhases /\ Step(r, phase, work, lines)
          /\ jobs[r].phase \in InFlightPhases
          /\ \/ phase \notin {"copy", "commit"} \/ work.delivery # "queued"
             \/ jobs[r].phase = "copy" /\ work.delivery = w.delivery
  <2>1. CASE ReadCredential(r)
    <3>1. PICK phase \in {"smtp", "gmail_draft", "gmail_send"} : Step(r, phase, w, {})
      BY <2>1 DEF ReadCredential
    <3>. QED  BY <2>1, <3>1 DEF ReadCredential, InFlightPhases
  <2>2. CASE GmailDraft(r)
    <3>1. \/ \E work, lines : Step(r, "smtp", work, lines)
          \/ \E work, lines : Step(r, "gmail_send", work, lines)
      BY <2>2 DEF GmailDraft
    <3>. QED  BY <2>2, <3>1 DEF GmailDraft, InFlightPhases
  <2>3. CASE GmailSend(r)
    <3>1. \/ \E work, lines : Step(r, "copy", work, lines) /\ work.delivery # "queued"
          \/ \E work, lines : Step(r, "smtp", work, lines)
      BY <1>2, <2>3 DEF GmailSend
    <3>. QED  BY <2>3, <3>1 DEF GmailSend, InFlightPhases
  <2>4. CASE SmtpSend(r)
    <3>1. \/ \E work, lines : Step(r, "copy", work, lines) /\ work.delivery # "queued"
          \/ \E work, lines : Step(r, "commit", work, lines) /\ work.delivery # "queued"
      BY <1>2, <2>4 DEF SmtpSend
    <3>. QED  BY <2>4, <3>1 DEF SmtpSend, InFlightPhases
  <2>5. CASE LinkedInHandoff(r)
    <3>1. PICK work, lines : Step(r, "commit", work, lines) /\ work.delivery # "queued"
      BY <1>2, <2>5 DEF LinkedInHandoff
    <3>. QED  BY <2>5, <3>1 DEF LinkedInHandoff, InFlightPhases
  <2>6. CASE ConfirmCopy(r)
    <3>1. PICK work : Step(r, "commit", work, {}) /\ work.delivery = w.delivery
      BY <1>2, <2>6 DEF ConfirmCopy
    <3>. QED  BY <2>6, <3>1 DEF ConfirmCopy, InFlightPhases
  <2>. QED  BY <2>1, <2>2, <2>3, <2>4, <2>5, <2>6 DEF ProviderStep
<1>4. UNCHANGED <<rows, live, calls>>
  BY DEF ProviderStep, ReadCredential, GmailDraft, GmailSend, SmtpSend, LinkedInHandoff,
         ConfirmCopy, dbVars
<1>. QED  BY <1>3, <1>4, StepGoesOn

LEMMA DispatchAttends ==
    ASSUME QueueInv, AttendedInv, NEW r \in Requests, Dispatch(r)
    PROVE  Attended'
<1>1. /\ TypeOK /\ Attended /\ (r \in Accepted <=> calls[r].pc \in AcceptedPcs)
      /\ jobs[r].phase # "none" => r \in Accepted /\ calls[r].pc = "accepted"
  BY DEF QueueInv, AttendedInv, Attended, TypeOK, JobTypes, Accepted, AcceptedPcs
<1>2. CASE DispatchLoad(r)
  <2>1. /\ \A q \in Requests \ {r} : jobs'[q] = jobs[q]
        /\ UNCHANGED <<rows, live, calls>> /\ jobs'[r].phase \in InFlightPhases
        /\ jobs'[r].base = rows[Target(r)]
    BY <1>1, <1>2 DEF DispatchLoad, dbVars, TypeOK, JobTypes, InFlightPhases
  <2>2. ASSUME NEW a \in live, rows[a].delivery = "queued"
        PROVE  \E q \in AcceptedOn(a) : (q # r /\ Attends(q)) \/ (q = r /\ Attends(r)')
    <3>1. PICK q \in AcceptedOn(a) : Attends(q)
      BY <1>1, <2>2 DEF Attended
    <3>2. CASE q = r
      <4>1. Target(r) = a
        BY <3>2 DEF AcceptedOn, Target
      <4>. QED  BY <2>1, <2>2, <3>2, <4>1 DEF Attends, InFlight
    <3>. QED  BY <3>1, <3>2
  <2>3. \A q \in Requests \ {r} : Attends(q) => Attends(q)'
    BY <2>1 DEF Attends, Undone, InFlight
  <2>. QED  BY <2>1, <2>2, <2>3 DEF Attended, AcceptedOn, Accepted
<1>3. CASE DispatchSkip(r)
  <2>1. /\ \A q \in Requests \ {r} : jobs'[q] = jobs[q]
        /\ UNCHANGED <<rows, live, calls>> /\ ~Dispatchable(Target(r)) /\ r \in Accepted
    BY <1>1, <1>3 DEF DispatchSkip, dbVars, TypeOK, JobTypes
  <2>2. Target(r) \notin live
    <3>1. Target(r) \in live => rows[Target(r)].status # "pending"
      BY <2>1 DEF QueueInv, RowInv, AcceptedOn, Target
    <3>. QED  BY <2>1, <3>1 DEF Dispatchable, TypeOK, TableTypes, Row, Statuses, QueueInv
  <2>3. ASSUME NEW a \in live, rows[a].delivery = "queued"
        PROVE  \E q \in AcceptedOn(a) : q # r /\ Attends(q)
    BY <1>1, <2>2, <2>3 DEF Attended, AcceptedOn, Target
  <2>4. \A q \in Requests \ {r} : Attends(q) => Attends(q)'
    BY <2>1 DEF Attends, Undone, InFlight
  <2>. QED  BY <2>1, <2>3, <2>4 DEF Attended, AcceptedOn, Accepted
<1>4. CASE ProviderStep(r)
  <2>1. /\ \A q \in Requests \ {r} : jobs'[q] = jobs[q]
        /\ UNCHANGED <<rows, live, calls>>
        /\ jobs'[r].base = jobs[r].base /\ jobs'[r].phase \in InFlightPhases
        /\ jobs[r].phase \in InFlightPhases
    BY <1>1, <1>4, ProviderStepOn DEF GoesOnWith
  <2>2. Attends(r) => Attends(r)'
    BY <1>1, <2>1 DEF Attends, Undone, InFlight, InFlightPhases
  <2>. QED  BY <1>1, <2>1, <2>2, AttendedStays
<1>5. CASE DispatchCommit(r)
  <2> DEFINE a == Target(r)
             j == jobs[r]
  <2>1. /\ \A q \in Requests \ {r} : jobs'[q] = jobs[q]
        /\ UNCHANGED <<live, calls>> /\ j.phase = "commit" /\ j.work.delivery # "queued"
        /\ \A b \in live \ {a} : rows'[b] = rows[b]
        /\ a \in live => rows'[a].delivery = Written(j.base.delivery, j.work.delivery, rows[a].delivery)
    BY <1>1, <1>5 DEF DispatchCommit, Flush, TypeOK, JobTypes, TableTypes, AttendedInv
  <2>2. ASSUME NEW b \in live, rows'[b].delivery = "queued"
        PROVE  \E q \in AcceptedOn(b) : q # r /\ Attends(q)
    <3>1. rows[b].delivery = "queued" /\ (b = a => j.base.delivery # "queued")
      BY <2>1, <2>2 DEF Written
    <3>2. PICK q \in AcceptedOn(b) : Attends(q)
      BY <1>1, <3>1 DEF Attended
    <3>3. q # r
      <4>1. ASSUME q = r PROVE FALSE
        <5>1. b = a
          BY <3>2, <4>1 DEF AcceptedOn, Target
        <5>. QED  BY <1>1, <2>1, <3>1, <3>2, <4>1, <5>1 DEF Attends, Undone
      <4>. QED  BY <4>1
    <3>. QED  BY <3>2, <3>3
  <2>3. \A q \in Requests \ {r} : Attends(q) => Attends(q)'
    BY <2>1 DEF Attends, Undone, InFlight
  <2>. QED  BY <2>1, <2>2, <2>3 DEF Attended, AcceptedOn, Accepted
<1>. QED  BY <1>2, <1>3, <1>4, <1>5 DEF Dispatch, ProviderStep

\* What a dispatch is to write at its end.
LEMMA EndsReported ==
    ASSUME TypeOK, AttendedInv, [Next]_vars, NEW r \in Requests,
           jobs'[r].phase \in {"copy", "commit"}
    PROVE  jobs'[r].work.delivery # "queued"
<1>1. CASE jobs'[r] = jobs[r]
  BY <1>1 DEF AttendedInv
<1>2. CASE DispatchLoad(r)
  <2> DEFINE row == rows[Target(r)]
             work == [row EXCEPT !.delivery = "queued", !.error = {}]
  <2>1. row \in Row /\ work \in Row
    <3>1. row \in Row
      BY <1>2 DEF DispatchLoad, Dispatchable, TypeOK, TableTypes
    <3> HIDE DEF row
    <3>. QED  BY <3>1 DEF Row, Deliveries
  <2>2. RecordedLocally(work).delivery # "queued"
    BY <2>1 DEF RecordedLocally, Row
  <2>3. /\ jobs'[r].phase = CASE channel[row.application] = "email" -> "email"
                              [] channel[row.application] = "linkedin" -> "handoff"
                              [] OTHER -> "commit"
        /\ jobs'[r].work = IF channel[row.application] = "company_site"
                           THEN RecordedLocally(work) ELSE work
    BY <1>2 DEF DispatchLoad, TypeOK, JobTypes
  <2>4. channel[row.application] \in AllChannels
    <3>1. row.application \in Applications
      BY <1>2 DEF DispatchLoad, Dispatchable, TypeOK, TableTypes
    <3>. QED  BY <3>1, ConfigAssumption DEF TypeOK, TableTypes
  <2>. QED  BY <2>2, <2>3, <2>4 DEF AllChannels
<1>3. CASE ProviderStep(r)
  BY <1>3, ProviderStepOn DEF Reports, AttendedInv
<1>4. JobCause(r)
  BY StepCause DEF Caused
<1>. QED  BY <1>1, <1>2, <1>3, <1>4 DEF JobCause, InFlightPhases

LEMMA AttendedStep == QueueInv /\ AttendedInv /\ [Next]_vars => AttendedInv'
<1> SUFFICES ASSUME QueueInv, AttendedInv, [Next]_vars PROVE AttendedInv'
  OBVIOUS
<1>1. Attended /\ TypeOK
  BY DEF AttendedInv, Attended, QueueInv
<1>2. Attended'
  <2>1. CASE UNCHANGED vars
    BY <1>1, <2>1, AttendedSame DEF vars
  <2>2. ASSUME NEW d \in Drafters,
               \/ \E app \in Applications : DraftLookup(d, app)
               \/ \E a \in Approvals : DraftInsert(d, a)
        PROVE  Attended'
    <3>1. UNCHANGED <<calls, jobs>>
      BY <2>2 DEF DraftLookup, DraftInsert
    <3>2. \A a \in live' : rows'[a].delivery = "queued" => a \in live /\ rows[a].delivery = "queued"
      BY <1>1, <2>2 DEF DraftLookup, DraftInsert, NewRow, TypeOK, TableTypes
    <3>. QED  BY <1>1, <3>1, <3>2, AttendedSame
  <2>3. ASSUME NEW q \in Rejecters, (\E a \in Approvals : RejectRead(q, a)) \/ RejectCommit(q)
        PROVE  Attended'
    BY <1>1, <2>3, AttendedSame DEF RejectRead, RejectCommit
  <2>4. CASE Next
    BY <1>1, <2>2, <2>3, <2>4, CallAttends, DispatchAttends DEF Next
  <2>. QED  BY <2>1, <2>4
<1>. QED  BY <1>1, <1>2, EndsReported DEF AttendedInv, Attended

\* A row says queued only while a dispatch of it is to come or under way, or because
\* one never will: its process died, or the caller was told 503.  A dispatch that read
\* the row as queued overwrites that, and one that did not ends before or leaves it to
\* the dispatch of the call that has queued it since.
THEOREM QueuedAttended == Spec => []QueuedIsAttended
<1>1. Init => AttendedInv
  BY DEF Init, AttendedInv, NoJob
<1>2. AttendedInv => QueuedIsAttended
  BY DEF AttendedInv, QueuedIsAttended, Attends, Coming
<1>. QED  BY <1>1, <1>2, AttendedStep, QueueInvariant, PTL DEF Spec
=============================================================================
