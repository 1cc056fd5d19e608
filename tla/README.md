# Doubow: specifications of the back end

TLA+ specifications of the back end in `backend/api_gateway` (FastAPI, SQLAlchemy
sessions on Postgres, Redis, Celery workers), the TLC configurations that check
them and the TLAPS proofs about them: the approval queue and its senders, the
autopilot, a user's job feed, the shared catalog, the job alerts, the gateway to the
models, and what every request does to the users row. Paths below are relative to
`backend/api_gateway`.

## 1. The system

| Component | State it keeps | Operations | Hard behaviour |
|---|---|---|---|
| Draft creation (`services/draft_service.py`) | `approvals` rows | look up the pending approval, generate the text, insert | the lookup and the insert are separated by a model call |
| Approval queue (`services/approvals_service.py`, `routers/approvals.py`, `services/agent_action_approvals.py`) | status, Idempotency-Key, text, delivery state of a row | approve (client key or assistant), reject | concurrent calls; commit first, enqueue after; rows deleted while in use |
| Outbound dispatch (`services/send_approval_service.py`) | delivery columns, `applications.notes`, what providers took | Gmail draft, Gmail send, SMTP, LinkedIn hand-off, copy to the user | provider calls that fail after they took effect; two dispatches of one row; worker death |
| Autopilot (`services/autopilot_*.py`, `workflow/autopilot_langgraph.py`, `routers/autopilot.py`) | `autopilot_runs`, LangGraph's SQLite store, resume slots in process memory | start, resume, execute by graph or legacy body | several tasks executing one run; checkpoints; retry; the human gate; sessions that are unusable after a failure |
| Job feed (`services/jobs_service.py`, `services/jobs_cache.py`) | scores, dismissals, pages in Redis | list with a sync, recompute, dismiss, discover, upload of a resume | recomputation against reads and dismissals; row locks in any order; a stale cache |
| Catalog ingestion (`services/job_provider_ingestion_service.py`, `services/catalog_ingest_orchestrator.py`, `services/career_ops_scan_service.py`, `ingestion/`) | jobs, source records, runs, scans, audits | a pass over providers, the connectors, the scan | one session for a whole call and for connectors that run at once; failed flushes and commits; dedupe against a catalog that changes |
| Job alerts (`services/job_alert_service.py`) | subscriptions with their window, deliveries | change the settings, digest for all users | mail before commit; two tasks; a window compared with times others take |
| Model gateway (`services/openrouter.py`, `workflow/retry.py`) | circuit state per use case, in memory | chat with retries, stream | circuit shared by concurrent calls; late answers |
| Users (`services/users_service.py`, `dependencies.py`) | users rows | `ensure_user` on every authenticated request | two first requests; an email that is taken; errors of a commit that took effect |
| Applications (`services/applications_service.py`) | application rows, notes | create under an Idempotency-Key, update | lookup and insert are two steps |
| Rate limiting, OAuth, assistant chat, scoring, resume parsing, prep, telemetry, web | see `PROJECT.json` | | mostly I/O, single-row writes or pure computation |

Interactions: the assistant's actions and the routes call the same approve and
reject services. Approve hands a dispatch to Celery or to the API process. The
autopilot drafts approvals through draft creation, and a human approves them; no
autopilot step sends anything. Dispatch writes the notes of the application the
approval belongs to. Ingestion and discovery write the catalog, from which a listing
syncs the user's scores; an upload of a resume recomputes them; the alerts select
from catalog and scores. Every call to a model goes through the gateway, and every
authenticated request through `ensure_user`. Everything shares one Postgres; every
request and every task has a session of its own.

What makes each component correct:

* approvals: nothing is sent that was not approved, with the text that was
  approved, once per decision and way; a row never claims a delivery that did not
  happen; a draft awaiting review is untouched; a queued row is resolved;
* autopilot: one key starts one run; the gate cannot be slipped by; a done run
  has its results; a run that was handed over settles; a resume is refused for another
  resume only;
* feed: a cached page is stale by a race or a lost invalidation only, and not for
  ever; dismissals last; after an upload the scores are those of its resume; a
  recompute loses no score; no call waits for ever;
* catalog: duplicates come of connectors, of overlaps and of spellings the look-up misses
  only; what a run or an audit reports is in the catalog; what says running is running; a fetched page has its row;
* alerts: a job is mailed again only after a task failed; the history is true; no job
  falls between two windows;
* gateway: the circuit refuses exactly what the recorded outcomes say;
* users and applications: an email is replaced for a cause only; a write has its
  users row; a request the database did not fail is served; one key is one application.

The hazards behind these are listed in `PROJECT.json`, each at its line and with the
properties that are about it.

## 2. Modules

| Module | Content |
|---|---|
| `HumanGate` | abstract: decisions with a text, messages only after and as decided |
| `KeyedCreation` | abstract: a POST with an Idempotency-Key makes one row and is answered with it |
| `Approvals` | draft creation, approval queue and dispatch of one user, composed; implements `HumanGate` |
| `Autopilot` | start, resume and execution of runs; its start implements `KeyedCreation` |
| `JobFeed` | listing with sync and cache, recompute, discover, upload, dismiss |
| `Catalog` | passes over the providers, connectors in one session, the scan around a pass |
| `JobAlerts` | settings, digest tasks, windows and deliveries |
| `ModelGateway` | the circuit and the retry loop |
| `Accounts` | `ensure_user` and the creation of applications, which implements `KeyedCreation` |
| `MC...` | names, instances and symmetry of the module for TLC |
| `...Proofs` | the theorems about the module; for `Approvals` in two modules, `ApprovalsProofs` and `ApprovalsClaimsProofs` |

Operators under a comment `mutant:` are wrong variants of the definition that
follows. They are used by no specification; `PROJECT.json` says which property each
of them breaks when it takes the definition's place.

A module cuts the code where somebody else can act: at an await, at a commit, at a
statement that may wait for a lock, and between a call of another system and what is
done with its answer. What happens between two such points is one action.

### How `Approvals` corresponds to the code

A session is modelled by what it does at READ COMMITTED: `base` (for a dispatch
`jobs[r].base`) is the row as it was read, `work` what the session has changed,
and `Flush` the UPDATE of the commit, which names only columns whose value differs
from the one read. The text of the draft, providers' answers and the notes are
reduced to what the properties tell apart: a text is `drafted` or one of the edits,
the notes are the set of their lines.

| Definition | Code |
|---|---|
| `DraftLookup`, `DraftInsert` | `create_draft_approval_for_application`, cut at the await of the model |
| `ApproveRead`, `ApproveCommit` | `approve_approval`, cut at its commit; the outcomes of the SELECT are the early returns |
| `Enqueue`, `RunInProcess`, `EnqueueFails` | `schedule_post_approve_dispatch` and the route after it |
| `RejectRead`, `RejectCommit` | `reject_approval`, which looks at no status |
| `DispatchLoad`, `DispatchSkip`, `ReadCredential`, `GmailDraft`, `GmailSend`, `SmtpSend`, `LinkedInHandoff`, `ConfirmCopy`, `DispatchCommit` | `execute_approval_send_stub`, cut at its awaits |
| `Provider`, `Smtp` | the mail client libraries: taken or not, answered or not |
| `CrashRequest`, `CrashDispatch` | death of the API process after the commit, and of whoever runs the dispatch |

`outbox`, `seen` and `log` are history: the code never reads them.

### How `Autopilot` corresponds to the code

`tasks[t]` is a call and the task it hands over. `seen` is the row object of the
task's session: `session.get` returns the object that
`execute_autopilot_run_background` keeps in a local variable, so later reads do not
look at the database, except the `refresh` of `mark_running`. `poisoned` says that a
database failure has left the session without the rollback it needs: a failed
commit always does, a failed SELECT may. `threads` is LangGraph's store: the state
of the graph after the last superstep, kept across invocations of one run; a new
invocation is merged into it, so an old entry point and an old error survive
(`Entered`, `After`).

| Definition | Code |
|---|---|
| `StartRead`, `StartCommit` | `run_autopilot`, cut at its commit |
| `ResumeCheck`, `HandOver`, `EnqueueFails`, `InProgress` | `validate_resume_eligibility`, `try_acquire_resume_slot`, the enqueue of both routes |
| `Begin` | `execute_autopilot_run_background` up to the first node |
| `MarkRunning` ... `Clear` | the nodes, each with its commits; `SaveCheckpoint` after the nodes that save one |
| `PassGate`, `Park`, `Marker` | `approval_interrupt` with and without an answer, the recorded pause |
| `NodeRaises`, `Retried`, `After` | the nodes' `except` branches, `recover_retry`, the routers |
| `FallBack`, `GiveUpResume`, `ResumeFailed`, `LegacyMark`, `LegacyItems`, `LegacyDone`, `Unhandled`, `Handler`, `Finish` | the rest of `execute_autopilot_run_background` |
| `WorkerCrash`, `ApiRestart` | death of a worker with its task, restart of the API with its slots |

`granted` is history. LangGraph and its SQLite saver are outside the repository and
modelled from their use: state after every superstep, `interrupt()` returning the
value of `Command(resume=...)`.

### How `JobFeed` corresponds to the code

Every API call is a session. A row is who inserted it and for which version of the
resume; a page is the rows it was read from. PostgreSQL is modelled by what the code
depends on: a DELETE locks the rows its snapshot found, one by one, waiting for
sessions that hold them and passing over rows that are gone; an INSERT waits for an
undecided row under its key and fails on a committed one; sessions that wait for one
another have a victim.

| Definition | Code |
|---|---|
| `Begin`, `CacheGet` | the routes of `routers/jobs.py`, `list_jobs` up to the sync |
| `SaveResume`, `ImportJob` | `upload_resume_for_user` and `discover_upsert_jobs` up to their commits |
| `SyncLook`, `SyncScored`, `SyncDelete`, `LockRow`, `SyncDeleted`, `SyncCommit`, `SyncConflict` | `_sync_template_scores_for_user`, cut at its queries, at every row its DELETE reaches and at its commit |
| `DismissBegin`, `DismissLook`, `DismissCommit`, `DismissConflict` | `dismiss_job_for_user` |
| `Scan`, `Drop`, `InvalidateFails`, `ReadPage`, `PutPage`, `Expire` | `jobs_cache.py` and the end of `list_jobs` |
| `WaitsFor`, `Deadlocked`, `DeadlockVictim` | row locks, unique keys and the deadlock detector |

`raced`, `overlap`, `missed` and `uploaded` are history.

### How `Catalog` corresponds to the code

A posting is a key (source and external id) with a text: title, company and location as
the provider spells them. `Fp` is the fingerprint of a text (`_fingerprint`: collapsed and
lower-cased). `Plain` are the texts that the dedupe can find once they
are stored: `_dedupe_jobs` selects the stored rows with `func.lower(Job.company).in_` of
the collapsed names it has in its batch, while `discover_upsert_jobs` stores a company as
it came (`job_discovery_service.py:110`), so one with a blank too many is found by no
later pass. A call is a pass over pages, the connectors' task or a scan, with one
session from beginning to end. The session is `usable`; `aborted` after a statement
failed and nobody rolled back, when a commit raises nothing and writes nothing;
`broken` after a failed flush, when everything raises until `rollback()`; `expired`
after a rollback, when reading an object of the call raises as well.

| Definition | Code |
|---|---|
| `Begin`, `ScanStart` | the tasks and routes that start a call, `run_career_ops_scan` to its first commit |
| `NextProvider`, `PagesDone` | the loops of `run_catalog_preset_ingest` and `ingest_provider_jobs_paginated` |
| `AddRunRaises`, `FetchFails`, `Fetch`, `Fresh`, `Picks`, `CommitFailed` | `ingest_provider_jobs` up to the answer of the provider, `_dedupe_jobs`, the handler of failures |
| `Look`, `Write`, `WriteClashes`, `FlushFails` | the lookup and the flush of one record or job; two transactions meet at the unique keys |
| `ToJobs`, `TooManyJobs`, `NoJobs`, `CommitJobs`, `Complete` | the request of at most 100 jobs, the commit of `discover_upsert_jobs`, the last commit of the run |
| `Hashes`, `Upsert`, `Upserted`, `UpsertRefused`, `UpsertFails`, `CommitUpserts`, `CommitUpsertsRaises`, `Audit`, `Backfill` | `run_ingestion`, `BaseConnector.run` and `_upsert`, `_record_run`, the end of the orchestrator |
| `Score`, `ScanEnds`, `ScanEndRaises` | the rest of `run_career_ops_scan` |

`asked`, `overtaken`, `loose` and `listed` are history.

### How `JobAlerts` corresponds to the code

The clock counts units of which `Window` make the longest window. A job shows to a
user when it is discovered and scored; both can be committed after a window was read
and carry an earlier time, which `Discover` and `Score` allow. `Serve` begins a user's
turn, `Select` is the query, `Mail` what the mail server takes, `Commit` the
deliveries with the move of the window, `CommitConflict` the unique key, `MailFails`
an exception of the mail library, which ends the task for all users after. `Patch` is
any change of the settings. `mails` and `excused` are history; `excused` names the
reasons for which the window may pass a job.

### How `ModelGateway` corresponds to the code

`circuit` is the process-wide dictionary, `opened_at` 0 for the code's `None`. The
look at the circuit (`IsOpen`, `AfterLook`) has no await and is one action with what
follows: `Refuse`, or `Enter` with the first request. `Succeed`, `BackOff`, `AskAgain`
and `Fail` are the answers and the loop of `async_retry`; `Cancel` leaves with nothing
recorded. `history` lists the recorded outcomes, lapses, entries and refusals of a use
case with their times.

### How `Accounts` corresponds to the code

| Definition | Code |
|---|---|
| `Arrive`, `Escapes`, `DatabaseFails` | `get_authenticated_user`: a GET is served from the claims, another method gets 503 |
| `Read`, `Commit`, `CommitClashes`, `Recover`, `CommitFallback`, `FallbackClashes`, `CommitFails`, `Refresh`, `Reread` | `ensure_user`, cut at its queries and commits |
| `Replay`, `Conflict`, `LookUp`, `Insert`, `InsertRefused`, `CreateFails` | `create_application` and its route |
| `Taken`, `Refused` | the unique keys and the foreign key of the models |

`CommitFails` is every error of a commit that is not a violated key, before or after it
took effect. `answer`, `failed` and `overlapped` are history.

### What `KeyedCreation` promises, and how it is implemented

A row is made under a key that no row has and stays as it was made; a request is
answered once, with the row of its key, and only if the row was made of what the
request asks for. Two parts of the code keep this promise by a lookup, an insert and a
unique key, and each is mapped to it:

| Abstract | `Accounts` | `Autopilot` |
|---|---|---|
| `made` | the committed applications; the key of one is its user with the header's key, or with the request itself when there was none | the committed runs with their key and payload |
| `answered` | the requests answered with an application | the starts that were answered with their run, 503 included, or with the replayed one |

A request that is refused (409, 500, the loser of the race) tells nothing and is a
stutter. What `KeysAreIdempotent` and `KeyStartsOnce` add to the refinement is what the
abstraction cannot see: the loser of a race can be sent again, and one key is handed to
a worker once.

## 3. Runs

`tlc -config <cfg> <module>`; deadlock is not checked, since all calls end.

| Run | Shows | Bounds |
|---|---|---|
| `approvals_safety` | types, `PendingIsUntouched`, `DeliveryClaimsBacked`, `LaterApproveIsNotAccepted`, `RejectedStaysSilent`, and `NothingSentUnapproved` (refinement of `HumanGate`) | 1 approval, 2 approve calls (client key, edit, assistant key), 1 reject, every channel, refusing broker, crashes |
| `approvals_live` | `NotesBacked`, `QueuedIsResolved` | 2 drafting calls that make 2 approvals of one application, 2 approve calls, 1 key, email; no process death, the API may run dispatches. No reject: a removed row is not queued any more |
| `approvals_retry` | violation of `RetryReachesDispatch` | production, refusing broker |
| `autopilot_safety` | types and retry budget, `KeyStartsOnce`, `GateIsHonoured`, `DoneReportsItems`, `RefusedForAResume` | 2 starts with one key and 2 payloads, 2 resumes (approving or rejecting) that may overlap, in the API process, 2 run ids, gate and checkpoints on, 1 retry, restarts, faults at the reads and at saving a checkpoint |
| `autopilot_live` | `HandedOverRunSettles`, `RefusedForAResume` | 1 start and 2 resumes over Celery, crashes, failing store, faults at the first load, the reads, the marker, clearing and the handler. `CONSTRAINT Serial` is the property's hypothesis `OneAtATime`: it leaves out the behaviours the property does not speak of, and nothing else |
| `autopilot_slot` | violation of `InProgressIsTrue` | 2 resumes of one run over Celery, no fault, no crash |
| `feed` | types, `StaleOnlyByRace`, `DismissalIsFinal`, `UploadedIsScored`, `ScoresAreKept`, `CallsReturn`, `CacheSettles` | 2 calls of any kind, 2 jobs, 1 view, failing Redis, crashes |
| `catalog` | types, `DuplicatesOnlyByOverlap`, `CompletedIsListed`, `PageIsAudited` | 2 calls (pass or connectors), 2 keys of one source, 2 fingerprints and 3 texts, one of which the look-up misses, a page limit of 1 job, crashes |
| `catalog_sessions` | `RunningIsTrue`, `CleanAuditIsTrue` | 2 calls (scan or connectors), 2 keys with 1 fingerprint, which both kinds of call write, crashes |
| `alerts` | types, `MailedIsRecorded`, `RecordedWasMailed`, `WindowLosesNothing` | 1 user, 2 jobs, 2 tasks, 4 settings, 3 moments, a window of 1; failing mail, crashes |
| `gateway` | types and attempts, `RefusalsFollowHistory`, `LapseIsQuiet` | 4 calls of 1 use case, 2 attempts, a cooldown of 2 in 4 moments |
| `accounts` | types, `FallbackNeedsCause`, `WriteHasRow`, `HealthyIsServed`, `KeysAreIdempotent` | 3 requests of 2 users, 3 addresses of which one is shared and one is the other's fallback, 1 key, 2 payloads of which one names no job, failing database |

Why the bounds are enough to meet the hazards: every hazard of the queue needs two
accepted calls on one row, a call and a reject, or two rows of one application; a
third call only repeats one of these. The autopilot's hazards need two tasks on one
run and one refused resume. One retry is enough to tell counted from uncounted, and
the first retry from the one beyond the budget. The feed and the catalog need two
sessions, and two rows so that they can lock them in different orders; a third session
waits as the second does. One view is enough, since every invalidation takes all keys.
A page limit of 1 makes a page that is too large with two postings. The alerts need two
tasks with the same window and a job on either side of it. The circuit opens at two
failures, so that four calls make it open, lapse and open again by a late answer. Three
requests are two that race and one that finds what they left. Where time matters it is
bounded by `MaxTime`; elsewhere it bounds nothing and is left out. Users are
independent of each other except in `Accounts` and in a digest task, of which the proofs
cover any number.

Symmetry is used only in runs without liveness, over sets whose members the module
and its instance treat alike; no module uses `CHOOSE`. The one `CONSTRAINT` is that of
`autopilot_live`: a state it cuts off belongs to no behaviour that satisfies the
hypothesis of the property, and a step it cuts off does not count as taken for fairness.

What the runs do not contain: an unlucky primary key, Postgres losing a committed
transaction, clients that time out (a call's answer is not awaited by anything, so
this is the same as a call whose answer is ignored).

The row locks a flush takes before its commit are left out of `Approvals`: they
order two writers of a row that the model lets interleave, so every behaviour of
the code is one of the model.

## 4. Fairness

`FairSpec` is weak fairness of each started call and each handed over task, and of
nothing else that is the users' or the environment's choice: starting calls, rejecting,
dismissing and crashing are never forced. Justification: request handlers and
background tasks run on an event loop that resumes whatever is ready; Celery delivers a
task it has acknowledged unless the worker dies, which `QueuedIsResolved` excludes by
`MayCrash = FALSE` and `HandedOverRunSettles` by excusing a task that was killed; a task
whose session a database failure has spoilt is excused as well, and the property speaks of
runs whose tasks come one at a time (section 5 says what overlaps do). A resume of a paused
run is held to more than a start: `Settled` counts the pause it began with as no outcome
of it. Provider and database calls return or raise, since all of them have timeouts.

In `JobFeed` the step of a call includes being the victim of a deadlock, since PostgreSQL
breaks every cycle after `deadlock_timeout`. What the code adds to `CallsReturn` is that a
victim, or the loser of a race for a key, ends with an error: asking again in a loop would
break it. `JobFeed` adds weak fairness of `Expire`: Redis drops an entry when
its time to live is over. `CacheSettles` needs it, because a page that a commit
overtook, or whose invalidation Redis lost, is removed by nothing else.

`Catalog`, `JobAlerts`, `ModelGateway` and `Accounts` state no liveness: their calls are
straight lines or loops over a plan, what they wait for is PostgreSQL's to release (for
the catalog, `NoMissedDeadlock` and `BoundedSteps` of section 6), the retry loop's end is a bound in `TypeOK`, and that a digest
comes at all is Celery beat's promise.

## 5. What does not hold

Two runs show a disagreement between the code and what the repository says of it;
`PROJECT.json` quotes the sentences:

* `approvals_retry`: the 503 of approve asks for a retry, the retry is answered as a
  replay and the approval stays queued;
* `autopilot_slot`: "Resume already in progress for this run" is not true with Celery, the
  default: the API process takes the slot, the worker gives it back in its own memory, and
  every resume after the first is refused until the API restarts. What is left of the
  promise, `RefusedForAResume`, is checked and proved with Celery and without.

Other behaviours a reader might not expect are in the models, as exceptions the
properties name or as assumptions of a theorem:

* with the Gmail hand-off a draft is left to the user and the message goes by SMTP as well;
* a failing graph store executes the run without the configured gate;
* after a failed commit no autopilot node can record the failure: the run stays `running`;
* a sync that was under way when a job was dismissed inserts its score again, and the
  listing shows it;
* after a failed flush of a page the run's row is lost, and so are the rows of the
  pages that follow in the same call; a scan around it stays `running`;
* passes one after the other leave duplicates of a posting whose company has a blank too
  many, or a letter the database lower-cases otherwise than Python: it is stored as it
  came and the dedupe of the next pass does not find it;
* a page with more than 100 new postings fails in every pass;
* a digest is mailed before its commit: a task that dies or fails between the two lets
  the next one mail the same jobs; an exception of the mail library ends the task for
  all later users;
* a late success closes a circuit that newer failures have opened;
* of two first requests of one user the loser takes the winner's row for a collision and
  overwrites its email with the fallback address;
* with the gate, a start that is still running may write its checkpoint and graph over
  those of a resume that overlaps it: after a second resume the run is left `running`,
  neither paused nor executed by anyone (hence `OneAtATime`, the hypothesis of
  `HandedOverRunSettles`, and that of `QuietRunsSettle`, no gate);
* of two requests with one new Idempotency-Key the loser of the insert gets an internal
  error, not a replay; sent again, it is answered.

## 6. Proofs

`ApprovalsProofs`, and `ApprovalsClaimsProofs` on top of it, prove for any sets of
applications, approvals, calls, keys and edits and any configuration allowed by
`ConfigAssumption` and `NamesAssumption`:

| Theorem | Statement |
|---|---|
| `TypeCorrect` | `Spec => []TypeOK` |
| `QueueInvariant` | `Spec => []QueueInv` |
| `PendingUntouched` | `Spec => []PendingIsUntouched` |
| `LaterApprove` | `Spec => []LaterApproveIsNotAccepted` |
| `GateRefinement` | `Spec => NothingSentUnapproved`: the queue implements `HumanGate` |
| `RejectedSilent` | `Spec => RejectedStaysSilent` |
| `ClaimsInvariant` | `SmtpEnabled => (Spec => []ClaimsInv)` |
| `DeliveryIsBacked` | `Spec => []DeliveryClaimsBacked` |
| `NotesAreBacked` | `Spec => []NotesBacked` |
| `QueuedAttended` | `Spec => []QueuedIsAttended` |

None of the safety properties is inductive: that an accepted call saw no earlier
one follows from what the row looked like when it was read, and that a message
carries an approved text follows from where the dispatch got it. `QueueInv` adds
what is missing, in named parts:

* `RowInv`: a row is pending and clean until its first accepted call; afterwards it
  has a key, and its text was authorised by an accepted call on it;
* `CallInv`: a call that may commit, or has, read a clean row and saw no accepted call;
* `JobInv`: a dispatch holds an authorised text, and changes delivery columns only;
* `OutboxInv`: a message belongs to an accepted call, carries an authorised text, and
  went by a way that lies behind the dispatch's phase - which is why no way is used
  twice by one dispatch.

The proof has one lemma for each group of actions, and in each lemma one step for
each part of the invariant the actions can disturb. The assumption `NamesAssumption`
(a key is not the name of a call, `None` is none of the values) is what uuid4 keys
and Python's `None` give.

What rows and notes claim needs the same of the dispatches under way, since those
are what the next commit writes: `ClaimsInv` and `NotesInv` say that a dispatch
still has the application of its row and that the columns and lines it holds are
backed. These proofs go by cause instead of by action: `StepCause` says what every
step keeps (`Kept`: ids, applications, channels, a call's approval, messages taken)
and what can have written a row or moved a dispatch (`Caused`), and the claims
follow from each cause. That a row written by two sessions stays true rests on
`FlushColumns`: a commit leaves in each column its own value or the stored one.
`RejectedStaysSilent` needs only the types and the causes: a dispatch comes under
way by reading a row in the table, and a removed row never returns to it.

`QueuedIsAttended` is the safety half of `QueuedIsResolved`: a row says `queued` only
while a dispatch of it is to come, or because its enqueue failed or its process died. It
is not obvious, because a dispatch writes only what it changed: one that read the row as
it ends up leaves the delivery column alone, and another approve may have put it back to
`queued` in between. `AttendedInv` therefore says more: the dispatch that is to report
has read the row as queued or is yet to read it, and one that is past its providers has
something else than `queued` to write.

TLC found `QueueInv`, `ClaimsInv`, `NotesInv` and `AttendedInv` to hold on the instances of
`approvals_safety` and `approvals_live` before they were proved.

### The autopilot

`AutopilotProofs` proves for any sets of runs, starts, resumes, keys and payloads,
any retry budget and any configuration allowed by `ConfigAssumption`:

| Theorem | Statement |
|---|---|
| `RunInvariant` | `Spec => []RunInv` |
| `TypeCorrect` | `Spec => []TypeOK` |
| `KeyOnce` | `Spec => []KeyStartsOnce` |
| `GateHonoured` | `~StoreFails => (Spec => []GateIsHonoured)` |
| `DoneReports` | `Spec => []DoneReportsItems` |
| `RefusedForOne` | `Spec => RefusedForAResume` |
| `QuietRunsSettle` | `Spec => []QuietIsSettled` |
| `BoundedSteps` | `Spec => StepsAreBounded` |

`KeyOnce` includes the refinement of `KeyedCreation`: every step of the autopilot makes a
run with a new key, answers a start with the run of its key, does both, or stutters.

The one assumption is needed: with a failing store the legacy body executes the run, and
it has no gate.

What a task may write follows from what it read, perhaps long ago, so `RunInv` says
the same of a graph and of cells wherever they are kept - in the row, in LangGraph's
store, in a session, in a running graph:

* `ReadyInv`: a graph is past `process_items`, or would re-enter past it, only with
  its items; a done row has results; and results a session has seen are still in the
  row, so a stale session cannot undo them;
* `KeyInv`: a start that has inserted its row, whatever became of it later, owns that
  row alone, with its key;
* `BodyInv`: a row has the payload of the start that owns it, and a start that was
  replayed found a row of its key with its payload;
* `GateInv`, with the gate on and a store that does not fail: no graph is at
  `persist_done` and no cells say done unless the gate was passed; no checkpoint or
  stored graph re-enters behind it; and a task that fell back to the legacy body has
  a session that can commit nothing.

`ExecutesStep` reduces the 20 actions of an executing task to one relation, `Step`:
the task stays who it is, the store keeps its graph or gets the task's, the row gets
fit cells through the session or is marked failed. The invariant is then preserved
by `Step` (`StepKeeps`), by the requests (`RequestKeeps`, `CommitKeeps`) and by the
ends of tasks (`GoneKeeps`). `SlotInv` is a second invariant on top: every slot the API
process has taken has a resume that occupies it, one under way in that process or one that
was given to a worker. That no other kind is left behind rests on the two places that give
a slot back, `EnqueueFails` and `Finish` in the API process, and on the restart, which
loses tasks and slots together.

`HandedOverRunSettles` needs fairness, but both things it rests on are safety and proved:

* `BoundedSteps`: a step of a task uses up one of a number of steps (`StepsLeft`: nodes,
  twice, times the retries left, then the failure handlers) that no other task can raise.
  An invocation may enter anywhere, with the error and the retry count an earlier one has
  left in the store; the count is what bounds the loop;
* `QuietRunsSettle`: without the gate, and while the database does not fail, a run that
  was handed over and that nobody executes is done or failed. Tasks write through
  sessions that have seen old rows, so `SettledInv` follows the duty to write an outcome:
  a row without one has a task whose session has seen none, and a step takes the duty
  away (`Duty`) only by an outcome in the row. With the gate this is false, see section 5.

TLC found `RunInv`, `SlotInv` and `SettledInv` to hold on the instances of
`autopilot_safety` and of smaller ones with other faults before they were proved.

### The feed

`JobFeedProofs`, for any sets of jobs, calls and views, with or without crashes and a
failing Redis: `TypeCorrect`, `StalePages`, `DismissalsAreFinal`, `UploadsAreScored`,
`ScoresKept`, `NoMissedDeadlock`, `BoundedSteps`. The invariant has a part for each of the
first five:

* `Control`: which operation is where; a row set of a call is part of what it looked up;
  what a session has locked is locked by it;
* `PageInv`: a page that is read, not yet written and not overtaken is what the tables hold;
* `DismissInv`: a sync under way has eligible and dismissed jobs in common only if the
  dismissal overlapped it; a dismissal that has not committed has the row in hand;
* `UploadInv`: after a refresh every row is of its resume, and an older sync about to
  insert finds a row in its way; during the refresh the same holds of what it will not
  replace. This is the one that needs the unique key and the locks.

`NoMissedDeadlock` and `BoundedSteps` are the safety halves of `CallsReturn`, for any
finite number of jobs and calls (`FiniteAssumption`: circles of waiting calls are found
among finitely many). While calls are open, one of them waits for nobody or is in a circle
the detector breaks (`SomeoneGoes`): a lock belongs to a call that is open, so following
who waits for whom never ends outside them. And each step of a call uses up one it had left
(`StepsAreBounded`), whatever the others delete or insert meanwhile.

### The catalog

`CatalogProofs`, for any calls, keys, fingerprints, plans and limits: `TypeCorrect`,
`Deduped`, `Listed`, `Running`, `Audited`, `PagesAudited`. `OwnInv` says of a call what
its own state says of where it is, what a session's state tells of the errors counted,
and which rows it has left; `SharedInv` relates its page, its records and its audit to
the catalog, which others change; `CatalogInv` is about the catalog alone. A step of
another call disturbs `SharedInv` only, and only by adding to the catalog.

`Deduped` follows a posting from the look-up to the table: until another commit overtakes
its call, a text it is about to write is `Unfound`, no plain row has its fingerprint. That a stored text with another
spelling is not found is the hole in `Fresh`, and the last disjunct of the property.

`NoMissedDeadlock` and `BoundedSteps` say of ingestion what they say of the feed: no lock
outlives its transaction (`LocksInv`), so somebody's statement is not held up or is cancelled; and a
call does not go round for ever, although a failure sends it back to the pages from
anywhere within one. The measure is of two parts, pages and then steps within a page;
`TodoInv`, that the row a call is at is one it has before it, makes the second go down.

### The alerts

`JobAlertsProofs`, for any users, jobs, tasks, settings and clock: `TypeCorrect`,
`MailsAreRecorded`, `RecordsWereMailed`, `NothingIsLost`. `WindowInv` carries what
`WindowLosesNothing` says from the stored window to the windows the tasks have read: what
lies before the start of a turn's window is excused already, and what lies before its
end, once selected, is excused or in the mail.

### The gateway

`ModelGatewayProofs`, for any use cases, calls, cooldown and time: `TypeCorrect`,
`RefusalsAreJust`, `LapsesAreQuiet`. `Entry` relates the entry of a use case, a counter
and a time, to the record of all outcomes: the counter is at the threshold exactly when
two failures are unbroken, and the time is that of the last of them. `Sound` is what has
been checked of the record so far, and lemmas on appending carry both over a new event.

### Accounts

`AccountsProofs`, for any users, addresses, keys and requests: `TypeCorrect`,
`FallbackIsCaused`, `WritesHaveRows`, `HealthyAreServed`, `KeyMeansOne`. A clash is
noticed at one moment and the fallback written later, so `Causes` says that a request on
its way to the fallback has its cause, and `Lasts` that a cause, an address and an
occupied fallback last. `KeyMeansOne` includes the refinement of `KeyedCreation`: `Insert`
makes and answers, `Replay` answers, a failed commit may make without answering.
`Looked` relates what a request read to the row that is there
now, with `Overlaps` for the row that appeared in between; `Keyed` has one application
for each user and key.

Model-checked only: `QueuedIsResolved`, `HandedOverRunSettles`, `CallsReturn` and
`CacheSettles`. They are liveness under fairness, which TLAPS does not prove.
Proved are the parts of them that are safety, for any number of calls and rows: that
somebody always has a step to take (`NoMissedDeadlock`), that steps run out
(`BoundedSteps`), and that what has come to rest is as promised (`QuietRunsSettle`,
`QueuedAttended`). Missing from a proof is then that a fair scheduler takes the step.
`CacheSettles` waits for the time to live of a Redis entry and has no such part.

## 7. Not modelled

`PROJECT.json` lists every component with its reason. In short: scoring is floating
point arithmetic, resume parsing, prep and chat are model calls around single-row
writes, OAuth and token checks are external protocols and cryptography, rate limiting is
one atomic script in Redis, telemetry is append-only, the web front end only calls the
API, and `.agents` is third-party.

What the modules leave out of the parts they model:

* `Approvals`: what draft generation asks and how it words the text; listing. `DispatchLoad`
  takes the reads of the row and of its application (`send_approval_service.py:113`, `:122`)
  as one; the UPDATE of line 139 is flushed before the next SELECT and locks the row until
  the dispatch commits, which forbids some of the interleavings of the model;
* `Autopilot`: the choice of target applications and what one item does are one step;
* `JobFeed`: the filters of a view (a page is the feed), templates that do not parse, the
  count and the rows of a page as one read, changes of preferences, how a score is computed.
  `SyncLook` takes the reads of the catalog and of the dismissals (`jobs_service.py:169`,
  `:174`) as one;
* `Catalog`: adapters and connectors as parsers (a feed is any set of postings of a
  source), `cleanup_stale_jobs`, the seeding of an empty catalog, lost connections other
  than by the failures modelled: the last commit of a pass
  (`job_provider_ingestion_service.py:112`) or of a scan (`career_ops_scan_service.py:156`)
  does not fail in a usable session. A connector's ON CONFLICT takes over the title only
  (`base.py:267-275`), the model the whole text; the keys are in `loose` either way.
  Statements of one session wait for one another in the driver, so that a connector is
  refused in a session that has failed only. Two texts whose fields run together to one
  fingerprint at the separator count as one posting;
* `JobAlerts`: the weekly window (no caller asks for it: a weekly subscriber is one the
  daily task skips), the race of two first reads of the settings (one `Patch`), the dry
  run (its mail counts as taken), reading the history, and the answer `ok=False` of the
  mailer (`job_alert_service.py:176-180`), which the present `send_email_outbound` never
  gives: it returns `True` or raises;
* `ModelGateway`: several processes (each has a circuit of its own), restarts, errors of
  configuration, what is asked and answered;
* `Accounts`: name and plan, which are written with the email (`users_service.py:34-39`; a
  change of one of them alone is a commit the model has not); row level security; values
  the database rejects (the `DataError` of line 45); users are never deleted by the code; `integrity_check`, which looks
  at `is_stale` and `dedup_group`, columns nothing sets; status updates, single-row writes.

## 8. Plan

In this order:

1. composition: `JobAlerts` reads what `JobFeed` and `Catalog` write; there it would see
   the exact moments of discovery and scoring, which its actions now choose freely;
2. the autopilot's items drafting through `Approvals`, so that a run's drafts and the
   user's decisions meet in one state;
3. an abstract feed, the scores a listing may show, that `JobFeed` implements up to the
   races it excepts, and an abstract catalog, a set of postings with their listing, that
   `Catalog` implements up to its overlaps;
4. rate limiting, as a sliding window against a clock that two processes read differently;
5. status updates of applications and the assistant's tools on top of `Accounts`.
