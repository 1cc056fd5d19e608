------------------------------- MODULE Catalog -------------------------------
(***************************************************************************)
(* The shared job catalog: passes over the providers, the connectors that  *)
(* run together in one session, and the career-ops scan around a pass.     *)
(* Every call has one session against PostgreSQL (READ COMMITTED) from its *)
(* beginning to its end; what a failure leaves of that session decides     *)
(* what the rest of the call can still write.                              *)
(*   services/job_provider_ingestion_service.py,                           *)
(*   services/job_discovery_service.py, services/career_ops_scan_service.py,*)
(*   services/catalog_ingest_orchestrator.py,                              *)
(*   ingestion/scheduler/ingestion_engine.py, ingestion/connectors/base.py. *)
(***************************************************************************)
EXTENDS Naturals, Sequences, FiniteSets

CONSTANTS
    Providers,
    Keys,         \* (source, external_id) of postings
    Texts,        \* title, company and location of a posting, as they are spelled
    Fps,          \* and as the dedupe compares them: blanks and case normalised
    Fp,           \* Fp[t]: the fingerprint of t
    Plain,        \* texts with a company that the database lowers to what the dedupe
                  \* normalises it to: no doubled blank, no letter lowered otherwise
    Calls,        \* calls, each made at most once
    None,
    Source,       \* Source[k]: the provider whose feed has k
    Legacy,       \* keys the legacy connectors find as well
    Plans,        \* the pages a pass may be for: the provider of each, in order
    Pages,        \* page numbers
    MaxJobs,      \* DiscoverJobsRequest takes that many jobs
    Kinds,        \* the calls that may be made, of AllKinds
    MayCrash      \* a process may die in the middle of a call

AllKinds == {"pass", "scan", "engine"}
Status == {"running", "completed", "failed"}
ScanStatus == {"running", "done", "failed"}

ASSUME CatalogAssumption ==
    /\ None \notin Providers \cup Keys \cup Texts \cup Calls
    /\ None \notin AllKinds \cup Status \cup ScanStatus
    /\ Fp \in [Texts -> Fps] /\ Plain \subseteq Texts
    /\ Source \in [Keys -> Providers] /\ Legacy \subseteq Keys
    /\ \A p \in Plans : p \in Seq(Providers) /\ DOMAIN p \subseteq Pages
    /\ Pages \subseteq Nat \ {0} /\ MaxJobs \in Nat /\ IsFiniteSet(Keys)
    /\ Kinds \subseteq AllKinds /\ MayCrash \in BOOLEAN

VARIABLES
    catalog,      \* catalog[k]: the text of the committed job k
    records,      \* records[k]: the committed job_source_records row of k
    runs,         \* runs[c][i]: status of the committed job_ingestion_runs row
    scans,        \* scans[c]: status of the committed career_ops_scan_runs row
    audits,       \* audits[c]: the committed ingestion_runs row
    hashed,       \* committed jobs with a dedup_hash
    lock,         \* lock[t][k]: the session with an uncommitted write of row k
    pc, kind,     \* where the call is and what it is
    plan, at,     \* its pages and the one it is at
    feed,         \* the postings of the page, by key: their texts
    kept,         \* those left by the dedupe
    todo,         \* those the loop has not reached
    item, found,  \* the row it is writing, and whether it found one to update
    session,      \* usable, or what a failure has left of it
    inserted,     \* keys the connectors have counted as inserted
    errors,       \* whether they have counted an error
    outcome,      \* the status the scan is to end with
    asked,        \* the pages a call has asked a provider for
    overtaken,    \* another session changed the catalog after the call's dedupe
    loose,        \* jobs written without a dedupe against all other rows
    listed        \* every fingerprint that has been in the catalog

tables == <<catalog, records, runs, scans, audits, hashed>>
page == <<plan, at, feed, kept>>
loop == <<todo, item, found>>
engine == <<inserted, errors>>
history == <<asked, overtaken, loose, listed>>
vars == <<tables, lock, pc, kind, page, loop, session, engine, outcome, history>>

Tables == {"records", "jobs"}
Nothing == [k \in Keys |-> None]
Feeds == [Keys -> Texts \cup {None}]
Record == [fp: Fps, by: Calls, page: Pages]
Ended == {"done", "error", "crashed"}

\* The postings of a feed.
In(f) == {k \in Keys : f[k] # None}
FeedsOf(p) == {f \in Feeds : \A k \in In(f) : Source[k] = p}
LegacyFeeds == {f \in Feeds : In(f) \subseteq Legacy}

Goto(c, p) == pc' = [pc EXCEPT ![c] = p]
Table(c) == IF pc[c] = "records" THEN "records" ELSE "jobs"

\* The session whose commit a call's statement waits for: a row it has written,
\* or the unique key of one.
Holder(c) == IF item[c] = None THEN None ELSE lock[Table(c)][item[c]]
Blocked(c) == Holder(c) \notin {None, c}
Release(c) == lock' = [t \in Tables |-> [k \in Keys |-> IF lock[t][k] = c THEN None ELSE lock[t][k]]]

\* Sessions that wait for one another: PostgreSQL cancels one of them.
Deadlocked(c) ==
    \E S \in SUBSET Calls : c \in S /\ \A d \in S : Blocked(d) /\ Holder(d) \in S

\* mutant: the page after is skipped too, whoever's it is
NextProviderPast(c) == {at[c] + 2}

\* The page after a failed one: the rest of the provider's pages are skipped.
NextProvider(c) ==
    {i \in at[c] + 1 .. Len(plan[c]) + 1 :
        /\ \A j \in at[c] + 1 .. i - 1 : plan[c][j] = plan[c][at[c]]
        /\ i <= Len(plan[c]) => plan[c][i] # plan[c][at[c]]}

Init ==
    /\ catalog = Nothing /\ records = Nothing
    /\ runs = [c \in Calls |-> [i \in Pages |-> None]]
    /\ scans = [c \in Calls |-> None]
    /\ audits = [c \in Calls |-> None]
    /\ hashed = {}
    /\ lock = [t \in Tables |-> Nothing]
    /\ pc = [c \in Calls |-> "idle"]
    /\ kind = [c \in Calls |-> None]
    /\ plan = [c \in Calls |-> <<>>]
    /\ at = [c \in Calls |-> 1]
    /\ feed = [c \in Calls |-> Nothing]
    /\ kept = [c \in Calls |-> {}]
    /\ todo = [c \in Calls |-> {}]
    /\ item = [c \in Calls |-> None]
    /\ found = [c \in Calls |-> FALSE]
    /\ session = [c \in Calls |-> "usable"]
    /\ inserted = [c \in Calls |-> {}]
    /\ errors = [c \in Calls |-> FALSE]
    /\ outcome = [c \in Calls |-> None]
    /\ asked = [c \in Calls |-> {}]
    /\ overtaken = [c \in Calls |-> FALSE]
    /\ loose = {} /\ listed = {}

-----------------------------------------------------------------------------
(* The calls begin.                                                         *)

\* A pass over the providers, by itself or with a scan around it, or the
\* connectors alone from their Celery task.
Begin(c, k, p) ==
    /\ pc[c] = "idle"
    /\ kind' = [kind EXCEPT ![c] = k]
    /\ plan' = [plan EXCEPT ![c] = IF k = "engine" THEN <<>> ELSE p]
    /\ Goto(c, [pass |-> "page", scan |-> "scan", engine |-> "hashes"][k])
    /\ UNCHANGED <<tables, lock, at, feed, kept, loop, session, engine, outcome, history>>

\* run_career_ops_scan: the row is committed as running, then an event, whose
\* commit nothing guards; a scan may do without a pass.
ScanStart(c) ==
    /\ pc[c] = "scan"
    /\ scans' = [scans EXCEPT ![c] = "running"]
    /\ \/ (Goto(c, "page") \/ Goto(c, "score")) /\ UNCHANGED session
       \/ Goto(c, "error") /\ session' = [session EXCEPT ![c] = "broken"]
    /\ UNCHANGED <<catalog, records, runs, audits, hashed, lock, kind, page, loop, engine,
                   outcome, history>>

-----------------------------------------------------------------------------
(* ingest_provider_jobs, for one page.                                      *)

\* In a session that a failure has left unusable the row of the run cannot be
\* flushed: the orchestrator goes on with the next provider.
AddRunRaises(c) ==
    /\ pc[c] = "page" /\ at[c] <= Len(plan[c]) /\ session[c] # "usable"
    /\ \E i \in NextProvider(c) : at' = [at EXCEPT ![c] = i]
    /\ UNCHANGED <<tables, lock, pc, kind, plan, feed, kept, loop, session, engine, outcome,
                   history>>

\* The row is flushed and the provider is asked.
Asks(c) ==
    /\ pc[c] = "page" /\ at[c] <= Len(plan[c]) /\ session[c] = "usable"
    /\ asked' = [asked EXCEPT ![c] = @ \cup {at[c]}]

\* The locals of a page go out of scope.
Forget(c) ==
    /\ feed' = [feed EXCEPT ![c] = Nothing]
    /\ kept' = [kept EXCEPT ![c] = {}]
    /\ found' = [found EXCEPT ![c] = FALSE]

\* The run ends as failed, with what else the session holds.
CommitFailed(c, recorded) ==
    /\ runs' = [runs EXCEPT ![c][at[c]] = "failed"]
    /\ records' = recorded
    /\ \E i \in NextProvider(c) : at' = [at EXCEPT ![c] = i]
    /\ Release(c) /\ Forget(c) /\ Goto(c, "page")
    /\ overtaken' = [overtaken EXCEPT ![c] = FALSE]
    /\ UNCHANGED <<catalog, scans, audits, hashed, kind, plan, todo, item, session, engine,
                   outcome, loose, listed>>

\* mutant: the failure is raised without a commit
FetchFailsUncommitted(c) ==
    /\ Asks(c)
    /\ \E i \in NextProvider(c) : at' = [at EXCEPT ![c] = i]
    /\ UNCHANGED <<tables, lock, pc, kind, plan, feed, kept, loop, session, engine, outcome,
                   overtaken, loose, listed>>

\* The provider does not answer, or answers what cannot be read.
FetchFails(c) == Asks(c) /\ CommitFailed(c, records)

\* mutant: the catalog is not consulted
FreshInFeed(f) == In(f)

\* _dedupe_jobs: the postings whose fingerprint is not among the rows it finds.  It
\* looks for the normalised companies of the feed among the companies as stored, in
\* lower case only: a row whose company is not Plain is never found ...
Fresh(f) ==
    {k \in In(f) : \A j \in Keys : catalog[j] \in Plain => Fp[catalog[j]] # Fp[f[k]]}

\* ... and of those one for each fingerprint, the first of the feed.
Picks(f) ==
    {S \in SUBSET Fresh(f) :
        /\ \A k \in Fresh(f) : \E j \in S : Fp[f[j]] = Fp[f[k]]
        /\ \A j, k \in S : Fp[f[j]] = Fp[f[k]] => j = k}

\* The provider answers, and the answer is deduped.
Fetch(c, f) ==
    /\ Asks(c) /\ f \in FeedsOf(plan[c][at[c]])
    /\ feed' = [feed EXCEPT ![c] = f]
    /\ \E S \in Picks(f) : kept' = [kept EXCEPT ![c] = S]
    /\ todo' = [todo EXCEPT ![c] = In(f)]
    /\ Goto(c, "records")
    /\ UNCHANGED <<tables, lock, kind, plan, at, item, found, session, engine, outcome,
                   overtaken, loose, listed>>

\* The source record or the job of a posting is looked up ...
Look(c, k) ==
    /\ pc[c] \in {"records", "jobs"} /\ item[c] = None /\ k \in todo[c]
    /\ item' = [item EXCEPT ![c] = k]
    /\ found' = [found EXCEPT ![c] = IF pc[c] = "records" THEN records[k] # None
                                     ELSE catalog[k] # None]
    /\ UNCHANGED <<tables, lock, pc, kind, page, todo, session, engine, outcome, history>>

\* The unique key, if a row that was not found is there by now.
Clashes(c) == ~found[c] /\ IF pc[c] = "records" THEN records[item[c]] # None
                           ELSE catalog[item[c]] # None

\* ... and inserted or updated.
Write(c) ==
    /\ pc[c] \in {"records", "jobs"} /\ item[c] # None /\ ~Blocked(c) /\ ~Clashes(c)
    /\ lock' = [lock EXCEPT ![Table(c)][item[c]] = c]
    /\ todo' = [todo EXCEPT ![c] = @ \ {item[c]}]
    /\ item' = [item EXCEPT ![c] = None]
    /\ found' = [found EXCEPT ![c] = FALSE]
    /\ UNCHANGED <<tables, pc, kind, page, session, engine, outcome, history>>

\* A failed flush rolls the transaction back, the run with it.  The handler's
\* own commit raises then, because nothing has called rollback, and so does
\* everything else in this session.
FlushFails(c) ==
    /\ session' = [session EXCEPT ![c] = "broken"]
    /\ Release(c) /\ Forget(c) /\ Goto(c, "page")
    /\ item' = [item EXCEPT ![c] = None]
    /\ todo' = [todo EXCEPT ![c] = {}]
    /\ overtaken' = [overtaken EXCEPT ![c] = FALSE]
    /\ \E i \in NextProvider(c) : at' = [at EXCEPT ![c] = i]
    /\ UNCHANGED <<tables, kind, plan, engine, outcome, asked, loose, listed>>

WriteClashes(c) ==
    /\ pc[c] \in {"records", "jobs"} /\ item[c] # None /\ ~Blocked(c) /\ Clashes(c)
    /\ FlushFails(c)

\* The records of the page, as a commit writes them.
Recorded(c) ==
    [k \in Keys |-> IF feed[c][k] = None THEN records[k]
                    ELSE [fp |-> Fp[feed[c][k]], by |-> c, page |-> at[c]]]

RecordsDone(c) == pc[c] = "records" /\ item[c] = None /\ todo[c] = {}

\* There are jobs to upsert ...
ToJobs(c) ==
    /\ RecordsDone(c) /\ kept[c] # {} /\ Cardinality(kept[c]) <= MaxJobs
    /\ todo' = [todo EXCEPT ![c] = kept[c]]
    /\ Goto(c, "jobs")
    /\ UNCHANGED <<tables, lock, kind, page, item, found, session, engine, outcome, history>>

\* ... more than one request may have: it is not even built ...
TooManyJobs(c) ==
    /\ RecordsDone(c) /\ Cardinality(kept[c]) > MaxJobs
    /\ CommitFailed(c, Recorded(c))
    /\ UNCHANGED asked

\* The last commit of the page.
CommitRun(c) ==
    /\ runs' = [runs EXCEPT ![c][at[c]] = "completed"]
    /\ at' = [at EXCEPT ![c] = @ + 1]
    /\ Release(c) /\ Forget(c) /\ Goto(c, "page")
    /\ overtaken' = [overtaken EXCEPT ![c] = FALSE]
    /\ UNCHANGED <<catalog, scans, audits, hashed, kind, plan, todo, item, session, engine,
                   outcome, asked, loose, listed>>

\* ... or none: the records and the run are committed together.
NoJobs(c) ==
    /\ RecordsDone(c) /\ kept[c] = {}
    /\ records' = Recorded(c)
    /\ CommitRun(c)

\* Which calls have a dedupe behind them that a change of the catalog overtakes.
Overtaken(c) ==
    overtaken' = [d \in Calls |-> overtaken[d] \/ (d # c /\ pc[d] \in {"records", "jobs"})]

\* mutant: the jobs go through a session of their own that is not committed
CommitJobsLate(c) ==
    /\ pc[c] = "jobs" /\ item[c] = None /\ todo[c] = {}
    /\ runs' = [runs EXCEPT ![c][at[c]] = "running"]
    /\ records' = Recorded(c)
    /\ Release(c)
    /\ Goto(c, "complete")
    /\ UNCHANGED <<catalog, scans, audits, hashed, kind, page, loop, session, engine, outcome, history>>

\* discover_upsert_jobs commits: the jobs, the records, and the run as it was
\* flushed.
CommitJobs(c) ==
    /\ pc[c] = "jobs" /\ item[c] = None /\ todo[c] = {}
    /\ catalog' = [k \in Keys |-> IF k \in kept[c] THEN feed[c][k] ELSE catalog[k]]
    /\ records' = Recorded(c)
    /\ runs' = [runs EXCEPT ![c][at[c]] = "running"]
    /\ listed' = listed \cup {Fp[feed[c][k]] : k \in kept[c]}
    /\ loose' = IF overtaken[c] THEN loose \cup kept[c] ELSE loose \ kept[c]
    /\ Overtaken(c)
    /\ Release(c)
    /\ Goto(c, "complete")
    /\ UNCHANGED <<scans, audits, hashed, kind, page, loop, session, engine, outcome, asked>>

Complete(c) == pc[c] = "complete" /\ CommitRun(c) /\ UNCHANGED records

\* The pass is over, with or without the legacy connectors.
PagesDone(c) ==
    /\ pc[c] = "page" /\ at[c] > Len(plan[c])
    /\ Goto(c, "hashes") \/ Goto(c, IF kind[c] = "scan" THEN "score" ELSE "done")
    /\ UNCHANGED <<tables, lock, kind, page, loop, session, engine, outcome, history>>

-----------------------------------------------------------------------------
(* run_ingestion.                                                           *)

\* The known hashes; then the connectors fetch, all at once.
Hashes(c, f) ==
    /\ pc[c] = "hashes" /\ f \in LegacyFeeds
    /\ feed' = [feed EXCEPT ![c] = f]
    /\ todo' = [todo EXCEPT ![c] = IF session[c] = "usable" THEN In(f) \ hashed ELSE In(f)]
    /\ Goto(c, "upserts")
    /\ UNCHANGED <<tables, lock, kind, plan, at, kept, item, found, session, engine, outcome,
                   history>>

\* A connector's statement is sent when no other is under way: the driver lets the
\* statements of one connection wait for one another ...
Upsert(c, k) ==
    /\ pc[c] = "upserts" /\ item[c] = None /\ k \in todo[c] /\ session[c] = "usable"
    /\ item' = [item EXCEPT ![c] = k]
    /\ UNCHANGED <<tables, lock, pc, kind, page, todo, found, session, engine, outcome, history>>

\* ... and an error is counted if the session can do no more.
UpsertRefused(c, k) ==
    /\ pc[c] = "upserts" /\ item[c] = None /\ k \in todo[c] /\ session[c] # "usable"
    /\ errors' = [errors EXCEPT ![c] = TRUE]
    /\ todo' = [todo EXCEPT ![c] = @ \ {k}]
    /\ UNCHANGED <<tables, lock, pc, kind, page, item, found, session, inserted, outcome, history>>

Upserted(c) ==
    /\ pc[c] = "upserts" /\ item[c] # None /\ ~Blocked(c)
    /\ lock' = [lock EXCEPT !["jobs"][item[c]] = c]
    /\ inserted' = [inserted EXCEPT ![c] = @ \cup {item[c]}]
    /\ todo' = [todo EXCEPT ![c] = @ \ {item[c]}]
    /\ item' = [item EXCEPT ![c] = None]
    /\ UNCHANGED <<tables, pc, kind, page, found, session, errors, outcome, history>>

\* The database refuses the row, or cancels the statement in a deadlock: the
\* transaction is aborted and its locks are given back.
Abort(c) ==
    /\ session' = [session EXCEPT ![c] = "aborted"]
    /\ Release(c)
    /\ todo' = [todo EXCEPT ![c] = @ \ {item[c]}]
    /\ item' = [item EXCEPT ![c] = None]

\* mutant: the exception is logged and not counted
UpsertFailsUncounted(c) ==
    /\ pc[c] = "upserts" /\ item[c] # None
    /\ ~Blocked(c) \/ Deadlocked(c)
    /\ Abort(c)
    /\ UNCHANGED <<tables, pc, kind, page, found, engine, outcome, history>>

UpsertFails(c) ==
    /\ pc[c] = "upserts" /\ item[c] # None
    /\ ~Blocked(c) \/ Deadlocked(c)
    /\ Abort(c)
    /\ errors' = [errors EXCEPT ![c] = TRUE]
    /\ UNCHANGED <<tables, pc, kind, page, found, inserted, outcome, history>>

UpsertsDone(c) == pc[c] = "upserts" /\ item[c] = None /\ todo[c] = {}

\* The commit of all connectors: an aborted transaction is rolled back by it
\* without an error.  (Of a row that was there only the title is updated, not the
\* company and the location: which text it then has makes no difference to a row
\* that is loose.)
CommitUpserts(c) ==
    /\ UpsertsDone(c) /\ session[c] # "broken"
    /\ LET S == IF session[c] = "usable" THEN inserted[c] ELSE {} IN
           /\ catalog' = [k \in Keys |-> IF k \in S THEN feed[c][k] ELSE catalog[k]]
           /\ hashed' = hashed \cup {k \in S : catalog[k] = None}
           /\ listed' = listed \cup {Fp[feed[c][k]] : k \in S}
           /\ loose' = loose \cup S
    /\ Overtaken(c)
    /\ session' = [session EXCEPT ![c] = "usable"]
    /\ Release(c)
    /\ Forget(c) /\ Goto(c, "audit")
    /\ UNCHANGED <<records, runs, scans, audits, kind, plan, at, todo, item, engine, outcome,
                   asked>>

\* In a session that was broken before it raises.
CommitUpsertsRaises(c) ==
    /\ UpsertsDone(c) /\ session[c] = "broken"
    /\ Forget(c) /\ Goto(c, "backfill")
    /\ inserted' = [inserted EXCEPT ![c] = {}]
    /\ errors' = [errors EXCEPT ![c] = FALSE]
    /\ UNCHANGED <<tables, lock, kind, plan, at, todo, item, session, outcome, history>>

\* _record_run
Audit(c) ==
    /\ pc[c] = "audit"
    /\ audits' = [audits EXCEPT ![c] = [inserted |-> inserted[c], errors |-> errors[c]]]
    /\ inserted' = [inserted EXCEPT ![c] = {}]
    /\ errors' = [errors EXCEPT ![c] = FALSE]
    /\ Goto(c, IF kind[c] = "engine" THEN "done" ELSE "backfill")
    /\ UNCHANGED <<catalog, records, runs, scans, hashed, lock, kind, page, loop, session,
                   outcome, history>>

\* The templates are filled in; in a broken session that raises, and the
\* orchestrator calls rollback at last.  The objects of the session are expired.
Backfill(c) ==
    /\ pc[c] = "backfill"
    /\ session' = [session EXCEPT ![c] = IF @ = "broken" THEN "expired" ELSE @]
    /\ Goto(c, IF kind[c] = "scan" THEN "score" ELSE "done")
    /\ UNCHANGED <<tables, lock, kind, page, loop, engine, outcome, history>>

-----------------------------------------------------------------------------
(* The end of run_career_ops_scan.                                          *)

\* Recomputing, selecting and queueing: all done, or an exception, which may
\* leave the session broken.  A session that had failed before raises in any case.
Score(c, o) ==
    /\ pc[c] = "score"
    /\ o = "done" => session[c] = "usable"
    /\ outcome' = [outcome EXCEPT ![c] = o]
    /\ \/ UNCHANGED session
       \/ o = "failed" /\ session' = [session EXCEPT ![c] = "broken"]
    /\ Goto(c, "end")
    /\ UNCHANGED <<tables, lock, kind, page, loop, engine, history>>

\* mutant: the status is left as it is when an exception is handled
ScanEndsQuietly(c) ==
    /\ pc[c] = "end" /\ session[c] # "broken"
    /\ scans' = [scans EXCEPT ![c] = IF outcome[c] = "done" THEN "done" ELSE @]
    /\ Goto(c, "done")
    /\ UNCHANGED <<catalog, records, runs, audits, hashed, lock, kind, page, loop, session,
                   engine, outcome, history>>

\* The row's status is committed ...
ScanEnds(c) ==
    /\ pc[c] = "end" /\ session[c] # "broken"
    /\ scans' = [scans EXCEPT ![c] = outcome[c]]
    /\ Goto(c, "done")
    /\ UNCHANGED <<catalog, records, runs, audits, hashed, lock, kind, page, loop, session,
                   engine, outcome, history>>

\* ... or that commit raises.
ScanEndRaises(c) ==
    /\ pc[c] = "end" /\ session[c] = "broken"
    /\ Goto(c, "error")
    /\ UNCHANGED <<tables, lock, kind, page, loop, session, engine, outcome, history>>

-----------------------------------------------------------------------------
DeadlockVictim(c) == Deadlocked(c) /\ pc[c] \in {"records", "jobs"} /\ FlushFails(c)

\* The process dies: the transaction is rolled back with the connection.
Crash(c) ==
    /\ MayCrash /\ pc[c] \notin Ended \cup {"idle"}
    /\ Release(c) /\ Forget(c) /\ Goto(c, "crashed")
    /\ item' = [item EXCEPT ![c] = None]
    /\ todo' = [todo EXCEPT ![c] = {}]
    /\ inserted' = [inserted EXCEPT ![c] = {}]
    /\ errors' = [errors EXCEPT ![c] = FALSE]
    /\ outcome' = [outcome EXCEPT ![c] = None]
    /\ overtaken' = [overtaken EXCEPT ![c] = FALSE]
    /\ UNCHANGED <<tables, kind, plan, at, session, asked, loose, listed>>

Ingest(c) ==
    \/ AddRunRaises(c) \/ (\E f \in Feeds : Fetch(c, f)) \/ FetchFails(c)
    \/ (\E k \in Keys : Look(c, k)) \/ Write(c) \/ WriteClashes(c) \/ DeadlockVictim(c)
    \/ ToJobs(c) \/ TooManyJobs(c) \/ NoJobs(c) \/ CommitJobs(c) \/ Complete(c) \/ PagesDone(c)

Engine(c) ==
    \/ (\E f \in Feeds : Hashes(c, f))
    \/ (\E k \in Keys : Upsert(c, k) \/ UpsertRefused(c, k)) \/ Upserted(c) \/ UpsertFails(c)
    \/ CommitUpserts(c) \/ CommitUpsertsRaises(c) \/ Audit(c) \/ Backfill(c)

Scan(c) ==
    \/ ScanStart(c) \/ (\E o \in {"done", "failed"} : Score(c, o))
    \/ ScanEnds(c) \/ ScanEndRaises(c)

Step(c) == Ingest(c) \/ Engine(c) \/ Scan(c)

Next ==
    \E c \in Calls :
        \/ \E k \in Kinds, p \in Plans : Begin(c, k, p)
        \/ Step(c)
        \/ Crash(c)

Spec == Init /\ [][Next]_vars

-----------------------------------------------------------------------------
Phases == {"idle", "scan", "page", "records", "jobs", "complete", "hashes",
           "upserts", "audit", "backfill", "score", "end"} \cup Ended

TypeOK ==
    /\ catalog \in Feeds
    /\ records \in [Keys -> Record \cup {None}]
    /\ runs \in [Calls -> [Pages -> Status \cup {None}]]
    /\ scans \in [Calls -> ScanStatus \cup {None}]
    /\ audits \in [Calls -> [inserted: SUBSET Keys, errors: BOOLEAN] \cup {None}]
    /\ hashed \subseteq Keys
    /\ lock \in [Tables -> [Keys -> Calls \cup {None}]]
    /\ pc \in [Calls -> Phases]
    /\ kind \in [Calls -> AllKinds \cup {None}]
    /\ plan \in [Calls -> Plans \cup {<<>>}]
    /\ at \in [Calls -> Nat \ {0}]
    /\ \A c \in Calls : at[c] <= Len(plan[c]) + 1
    /\ feed \in [Calls -> Feeds]
    /\ kept \in [Calls -> SUBSET Keys]
    /\ todo \in [Calls -> SUBSET Keys]
    /\ item \in [Calls -> Keys \cup {None}]
    /\ found \in [Calls -> BOOLEAN]
    /\ session \in [Calls -> {"usable", "aborted", "broken", "expired"}]
    /\ inserted \in [Calls -> SUBSET Keys]
    /\ errors \in [Calls -> BOOLEAN]
    /\ outcome \in [Calls -> {"done", "failed", None}]
    /\ asked \in [Calls -> SUBSET Pages]
    /\ overtaken \in [Calls -> BOOLEAN]
    /\ loose \subseteq Keys /\ listed \subseteq Fps

\* Two jobs of the catalog have one fingerprint only if a connector wrote one of
\* them, or a pass that another commit overtook between its dedupe and its own, or
\* if the company of one is stored as the dedupe's look-up does not find it.  Passes
\* one after the other leave duplicates for that last reason only, whatever
\* providers repeat.
Alike(j, k) == catalog[j] # None /\ catalog[k] # None /\ Fp[catalog[j]] = Fp[catalog[k]]

DuplicatesOnlyByOverlap ==
    \A j, k \in Keys : Alike(j, k) =>
        \/ j = k
        \/ j \in loose \/ k \in loose
        \/ catalog[j] \notin Plain \/ catalog[k] \notin Plain

\* A posting recorded by a completed run has been in the catalog, under its own
\* key or another's: nothing is recorded, called completed and never listed.
CompletedIsListed ==
    \A k \in Keys : records[k] # None =>
        (runs[records[k].by][records[k].page] = "completed" => records[k].fp \in listed)

\* A row that says running tells of work under way, of a process that died, or,
\* for a scan, of a session that had failed and could not write the end.
RunningIsTrue ==
    \A c \in Calls :
        /\ \A i \in Pages : runs[c][i] = "running" =>
              pc[c] = "crashed" \/ (pc[c] = "complete" /\ at[c] = i)
        /\ scans[c] = "running" =>
              pc[c] \notin {"done", "idle"} /\ (pc[c] = "error" => session[c] = "broken")

\* An ingestion_runs row without errors is true: what it counts as inserted is
\* in the catalog, although the commit of an aborted transaction raises nothing.
CleanAuditIsTrue ==
    \A c \in Calls : audits[c] # None =>
        (~audits[c].errors => \A k \in audits[c].inserted : catalog[k] # None)

\* A page that was fetched and left behind has its row in job_ingestion_runs,
\* completed or failed, unless a flush has failed in this call.
PageIsAudited ==
    \A c \in Calls : \A i \in asked[c] :
        (i < at[c] /\ pc[c] # "crashed" /\ session[c] \in {"usable", "aborted"})
            => runs[c][i] \in {"completed", "failed"}

\* A call that has begun, and one whose statement another session holds up.
Busy(c) == pc[c] \notin Ended \cup {"idle"}
Waits(c) == Busy(c) /\ item[c] # None /\ Blocked(c)

\* No call leaves a lock behind it: while calls are under way the statement of one of
\* them is held up by nobody, or PostgreSQL's detector cancels it.  The sessions of a
\* pass, a scan and the connectors share the locks.
SomeoneGoes ==
    (\E c \in Calls : Busy(c)) => \E c \in Calls : Busy(c) /\ (Waits(c) => Deadlocked(c))

\* What is before a call at most: pages, and within one the two steps for each row.
PagesLeft(c) == Len(plan[c]) + 1 - at[c]
RowsLeft(c)  == 2 * Cardinality(todo[c]) - (IF item[c] = None THEN 0 ELSE 1)
AllRows      == 2 * Cardinality(Keys)

StepsLeft(c) ==
    CASE pc[c] = "scan"     -> 3 * AllRows + 12
      [] pc[c] = "page"     -> 3 * AllRows + 11
      [] pc[c] = "records"  -> 2 * AllRows + 10 + RowsLeft(c)
      [] pc[c] = "jobs"     -> AllRows + 9 + RowsLeft(c)
      [] pc[c] = "complete" -> AllRows + 8
      [] pc[c] = "hashes"   -> AllRows + 7
      [] pc[c] = "upserts"  -> 6 + RowsLeft(c)
      [] pc[c] = "audit"    -> 5
      [] pc[c] = "backfill" -> 4
      [] pc[c] = "score"    -> 3
      [] pc[c] = "end"      -> 2
      [] OTHER              -> 0

Advances(c) ==
    \/ PagesLeft(c)' < PagesLeft(c)
    \/ PagesLeft(c)' = PagesLeft(c) /\ StepsLeft(c)' < StepsLeft(c)

\* Nothing a call does is repeated without an end, although a failure sends it back to
\* the pages from anywhere within one: each step uses up pages, or steps of its page,
\* and what other calls do gives it none.
StepsAreBounded ==
    [][\A c \in Calls : pc[c] # "idle" =>
          \/ Advances(c)
          \/ ~Step(c) /\ PagesLeft(c)' = PagesLeft(c) /\ StepsLeft(c)' = StepsLeft(c)]_vars
=============================================================================
