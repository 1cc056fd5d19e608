------------------------------- MODULE JobFeed -------------------------------
(***************************************************************************)
(* The feed of one user: the catalog's score templates are turned into     *)
(* score rows of the user, a page of them is cached in Redis, and the      *)
(* calls that change the rows invalidate the cache.  Every call of the API *)
(* is a session of its own against PostgreSQL (READ COMMITTED); a session  *)
(* may wait for the row locks of another.                                  *)
(*   services/jobs_service.py, services/jobs_cache.py, routers/jobs.py,    *)
(*   upload_resume_for_user of services/resume_service.py and              *)
(*   discover_upsert_jobs of services/job_discovery_service.py.            *)
(***************************************************************************)
EXTENDS Naturals, FiniteSets

CONSTANTS
    Jobs,         \* jobs with a score_template
    Calls,        \* API calls, each made at most once
    Views,        \* cache keys: a filter and a page
    None,
    Ops,          \* the operations the calls may be, of AllOps
    RedisFails,   \* a Redis command may raise
    MayCrash      \* an API process may die in the middle of a call

AllOps == {"list", "recompute", "upload", "discover", "dismiss"}

ASSUME JobFeedAssumption ==
    /\ None \notin Jobs \cup Calls \cup AllOps
    /\ None \notin [by: Calls \cup {None}, ver: Nat]
    /\ Ops \subseteq AllOps
    /\ RedisFails \in BOOLEAN /\ MayCrash \in BOOLEAN

ASSUME FiniteAssumption == IsFiniteSet(Jobs) /\ IsFiniteSet(Calls)

VARIABLES
    catalog,      \* committed jobs with a template
    dismissed,    \* committed rows of job_dismissals
    score,        \* committed rows of job_scores: who inserted it, for which resume
    resume,       \* version of the latest resume row
    lock,         \* lock[j]: the session whose uncommitted DELETE holds the row of j
    cache,        \* cache[v]: the feed Redis holds, or None
    pc, op, job,  \* where the call is, what it does and about which job
    eligible,     \* catalog minus dismissals, as the call read them
    found,        \* rows its DELETE has found and not locked yet
    deleted,      \* jobs whose row it has locked and will delete
    pending,      \* jobs whose row it will insert
    version,      \* the resume version it scores with
    keys,         \* cache keys its invalidation has scanned
    feed,         \* the rows it has read for the page
    uploaded,     \* the version its upload wrote
    raced,        \* a commit changed the rows after the call read its page
    overlap,      \* jobs dismissed while a sync that did not see it was under way
    missed        \* an invalidation was lost with Redis or with its process

tables == <<catalog, dismissed, score, resume>>
session == <<eligible, found, deleted, pending, version>>
history == <<raced, overlap, missed>>
vars == <<tables, lock, cache, pc, op, job, session, keys, feed, uploaded, history>>

Row == [by: Calls \cup {None}, ver: Nat]
Forced == {"recompute", "upload"}
Syncing == {"look", "scored", "lock", "commit"}
Ended == {"done", "error", "crashed"}

\* Sessions a call waits for: a DELETE at a row another session has deleted,
\* an INSERT at the unique index while another session's DELETE is undecided.
WaitsFor(c) ==
    {lock[j] : j \in IF pc[c] = "lock" THEN {k \in Jobs : found[c][k] # None}
                     ELSE IF pc[c] = "commit" THEN pending[c] ELSE {}} \ {c, None}

Release(c) == lock' = [j \in Jobs |-> IF lock[j] = c THEN None ELSE lock[j]]
Goto(c, p) == pc' = [pc EXCEPT ![c] = p]

\* The step after the sync: the page for a listing, the answer for the rest.
AfterSync(c) == IF op[c] = "list" THEN "read" ELSE "done"

Init ==
    /\ catalog \in SUBSET Jobs
    /\ dismissed = {}
    /\ resume = 1
    /\ \E S \in SUBSET catalog :
          score = [j \in Jobs |-> IF j \in S THEN [by |-> None, ver |-> 1] ELSE None]
    /\ lock = [j \in Jobs |-> None]
    /\ cache = [v \in Views |-> None]
    /\ pc = [c \in Calls |-> "idle"]
    /\ op = [c \in Calls |-> None]
    /\ job = [c \in Calls |-> None]
    /\ eligible = [c \in Calls |-> {}]
    /\ found = [c \in Calls |-> [j \in Jobs |-> None]]
    /\ deleted = [c \in Calls |-> {}]
    /\ pending = [c \in Calls |-> {}]
    /\ version = [c \in Calls |-> 0]
    /\ keys = [c \in Calls |-> {}]
    /\ feed = [c \in Calls |-> [j \in Jobs |-> None]]
    /\ uploaded = [c \in Calls |-> 0]
    /\ raced = [c \in Calls |-> FALSE]
    /\ overlap = {}
    /\ missed = FALSE

-----------------------------------------------------------------------------
(* The calls begin.                                                         *)

\* Where each operation starts.
FirstStep == [list |-> "cached", recompute |-> "look", upload |-> "save", discover |-> "import"]

\* A request: list_jobs first asks the cache, a recompute and the sync of the
\* others first look at the catalog.
Begin(c, o) ==
    /\ pc[c] = "idle" /\ o # "dismiss"
    /\ op' = [op EXCEPT ![c] = o]
    /\ Goto(c, FirstStep[o])
    /\ UNCHANGED <<tables, lock, cache, job, session, keys, feed, uploaded, history>>

\* list_jobs, the cached page: a hit is the answer; a miss, and a Redis that
\* does not answer, goes on to the sync.
CacheGet(c, v) ==
    /\ pc[c] = "cached"
    /\ \/ cache[v] # None /\ Goto(c, "done")
       \/ (cache[v] = None \/ RedisFails) /\ Goto(c, "look")
    /\ UNCHANGED <<tables, lock, cache, op, job, session, keys, feed, uploaded, history>>

\* upload_resume_for_user: the row is committed before the scores are refreshed.
SaveResume(c) ==
    /\ pc[c] = "save"
    /\ resume' = resume + 1
    /\ uploaded' = [uploaded EXCEPT ![c] = resume + 1]
    /\ Goto(c, "look")
    /\ UNCHANGED <<catalog, dismissed, score, lock, cache, op, job, session, keys,
                   feed, history>>

\* discover_upsert_jobs: the jobs are committed before the sync.
ImportJob(c, j) ==
    /\ pc[c] = "import"
    /\ catalog' = catalog \cup {j}
    /\ Goto(c, "look")
    /\ UNCHANGED <<dismissed, score, resume, lock, cache, op, job, session, keys,
                   feed, uploaded, history>>

-----------------------------------------------------------------------------
(* _sync_template_scores_for_user.                                          *)

\* mutant: the dismissals are not subtracted
SyncLookAtAll(c) ==
    /\ pc[c] = "look"
    /\ eligible' = [eligible EXCEPT ![c] = catalog]
    /\ Goto(c, IF catalog = {} THEN AfterSync(c) ELSE "scored")
    /\ UNCHANGED <<tables, lock, cache, op, job, found, deleted, pending, version,
                   keys, feed, uploaded, history>>

\* The catalog and the dismissals; nothing to do for an empty catalog.
SyncLook(c) ==
    /\ pc[c] = "look"
    /\ eligible' = [eligible EXCEPT ![c] = catalog \ dismissed]
    /\ Goto(c, IF catalog = {} THEN AfterSync(c) ELSE "scored")
    /\ UNCHANGED <<tables, lock, cache, op, job, found, deleted, pending, version,
                   keys, feed, uploaded, history>>

\* Without force: the rows that are there already are left, and the resume is
\* read.  What is missing waits for the scores, the model's included.
SyncScored(c) ==
    /\ pc[c] = "scored" /\ op[c] \notin Forced
    /\ pending' = [pending EXCEPT ![c] = {j \in eligible[c] : score[j] = None}]
    /\ version' = [version EXCEPT ![c] = resume]
    /\ Goto(c, "commit")
    /\ UNCHANGED <<tables, lock, cache, op, job, eligible, found, deleted, keys, feed,
                   uploaded, history>>

\* With force: the DELETE starts, on the rows that are committed now.
SyncDelete(c) ==
    /\ pc[c] = "scored" /\ op[c] \in Forced
    /\ found' = [found EXCEPT ![c] =
                    [j \in Jobs |-> IF j \in eligible[c] THEN score[j] ELSE None]]
    /\ Goto(c, "lock")
    /\ UNCHANGED <<tables, lock, cache, op, job, eligible, deleted, pending, version,
                   keys, feed, uploaded, history>>

\* mutant: the DELETE is committed by itself
LockRowAutocommit(c, j) ==
    /\ pc[c] = "lock" /\ found[c][j] # None
    /\ lock[j] = None
    /\ found' = [found EXCEPT ![c][j] = None]
    /\ score' = [score EXCEPT ![j] = IF @ = found[c][j] THEN None ELSE @]
    /\ UNCHANGED <<catalog, dismissed, resume, lock, cache, pc, op, job, eligible, deleted,
                   pending, version, keys, feed, uploaded, history>>

\* The DELETE of the sync or of the dismissal reaches a row: it waits for a
\* session that has deleted it, and passes over a row that is gone by then (one
\* inserted in its place is not the statement's).
LockRow(c, j) ==
    /\ pc[c] = "lock" /\ found[c][j] # None
    /\ lock[j] = None
    /\ found' = [found EXCEPT ![c][j] = None]
    /\ IF score[j] = found[c][j]
       THEN /\ lock' = [lock EXCEPT ![j] = c]
            /\ deleted' = [deleted EXCEPT ![c] = @ \cup {j}]
       ELSE UNCHANGED <<lock, deleted>>
    /\ UNCHANGED <<tables, cache, pc, op, job, eligible, pending, version, keys, feed,
                   uploaded, history>>

AllLocked(c) == pc[c] = "lock" /\ \A j \in Jobs : found[c][j] = None

\* The sync's DELETE is done: every eligible job is to be scored with the resume
\* that is the latest now.
SyncDeleted(c) ==
    /\ AllLocked(c) /\ op[c] \in Forced
    /\ pending' = [pending EXCEPT ![c] = eligible[c]]
    /\ version' = [version EXCEPT ![c] = resume]
    /\ Goto(c, "commit")
    /\ UNCHANGED <<tables, lock, cache, op, job, eligible, found, deleted, keys, feed,
                   uploaded, history>>

\* mutant: the table has no unique key
ConflictNever(c) == FALSE

\* A row of another session is in the way of the unique key.
Conflict(c) == \E j \in pending[c] \ deleted[c] : score[j] # None

\* The inserts and the commit; then the cache if a row was added or force.
SyncCommit(c) ==
    /\ pc[c] = "commit" /\ WaitsFor(c) = {} /\ ~Conflict(c)
    /\ score' = [j \in Jobs |-> IF j \in pending[c] THEN [by |-> c, ver |-> version[c]]
                                ELSE IF j \in deleted[c] THEN None ELSE score[j]]
    /\ Release(c)
    /\ Goto(c, IF pending[c] # {} \/ op[c] \in Forced THEN "scan" ELSE AfterSync(c))
    /\ raced' = [d \in Calls |-> raced[d] \/ (pc[d] = "put" /\ score' # score)]
    /\ overlap' = overlap \cup {j \in pending[c] : \E d \in Calls :
                     op[d] = "dismiss" /\ pc[d] \in {"lock", "hide"} /\ job[d] = j}
    /\ UNCHANGED <<catalog, dismissed, resume, cache, op, job, session, keys, feed,
                   uploaded, missed>>

\* The transaction is rolled back and the call answers 500.  An upload does too:
\* its handler swallows the error, but the refresh of the row that follows finds
\* the session in need of a rollback.
Fail(c) ==
    /\ Release(c)
    /\ Goto(c, "error")
    /\ UNCHANGED <<tables, cache, op, job, session, keys, feed, uploaded, history>>

\* mutant: the inserts are tried again after a rollback, without another look
SyncConflictRetried(c) ==
    /\ pc[c] = "commit" /\ WaitsFor(c) = {} /\ Conflict(c)
    /\ Release(c)
    /\ deleted' = [deleted EXCEPT ![c] = {}]
    /\ UNCHANGED <<tables, cache, pc, op, job, eligible, found, pending, version, keys, feed,
                   uploaded, history>>

SyncConflict(c) == pc[c] = "commit" /\ WaitsFor(c) = {} /\ Conflict(c) /\ Fail(c)

\* Sessions that wait for one another: PostgreSQL cancels one of them.
Deadlocked(c) ==
    \E S \in SUBSET Calls :
        /\ c \in S
        /\ \A d \in S : WaitsFor(d) \cap S # {} /\ \E e \in S : d \in WaitsFor(e)

DeadlockVictim(c) == Deadlocked(c) /\ Fail(c)

-----------------------------------------------------------------------------
(* dismiss_job_for_user.                                                    *)

\* mutant: whether the job exists is not looked up
DismissBeginUnchecked(c, j) ==
    /\ pc[c] = "idle"
    /\ op' = [op EXCEPT ![c] = "dismiss"]
    /\ job' = [job EXCEPT ![c] = j]
    /\ found' = [found EXCEPT ![c] = [k \in Jobs |-> IF k = j THEN score[j] ELSE None]]
    /\ Goto(c, "lock")
    /\ UNCHANGED <<tables, lock, cache, eligible, deleted, pending, version, keys, feed,
                   uploaded, history>>

\* The job exists; the DELETE of its score starts.
DismissBegin(c, j) ==
    /\ pc[c] = "idle" /\ j \in catalog
    /\ op' = [op EXCEPT ![c] = "dismiss"]
    /\ job' = [job EXCEPT ![c] = j]
    /\ found' = [found EXCEPT ![c] = [k \in Jobs |-> IF k = j THEN score[j] ELSE None]]
    /\ Goto(c, "lock")
    /\ UNCHANGED <<tables, lock, cache, eligible, deleted, pending, version, keys, feed,
                   uploaded, history>>

\* The look for a dismissal that is there already.
DismissLook(c) ==
    /\ AllLocked(c) /\ op[c] = "dismiss"
    /\ pending' = [pending EXCEPT ![c] = {job[c]} \ dismissed]
    /\ Goto(c, "hide")
    /\ UNCHANGED <<tables, lock, cache, op, job, eligible, found, deleted, version, keys,
                   feed, uploaded, history>>

\* mutant: the route answers without the invalidation
DismissCommitQuietly(c) ==
    /\ pc[c] = "hide" /\ pending[c] \cap dismissed = {}
    /\ dismissed' = dismissed \cup pending[c]
    /\ score' = [j \in Jobs |-> IF j \in deleted[c] THEN None ELSE score[j]]
    /\ Release(c)
    /\ Goto(c, "done")
    /\ raced' = [d \in Calls |-> raced[d] \/ (pc[d] = "put" /\ score' # score)]
    /\ UNCHANGED <<catalog, resume, cache, op, job, session, keys, feed, uploaded, overlap, missed>>

\* The commit; a dismissal inserted meanwhile is in the way of the primary key.
DismissCommit(c) ==
    /\ pc[c] = "hide" /\ pending[c] \cap dismissed = {}
    /\ dismissed' = dismissed \cup pending[c]
    /\ score' = [j \in Jobs |-> IF j \in deleted[c] THEN None ELSE score[j]]
    /\ Release(c)
    /\ Goto(c, "scan")
    /\ raced' = [d \in Calls |-> raced[d] \/ (pc[d] = "put" /\ score' # score)]
    /\ overlap' = overlap \cup {j \in {job[c]} : \E d \in Calls :
                     pc[d] \in Syncing \ {"look"} /\ op[d] # "dismiss" /\ j \in eligible[d]}
    /\ UNCHANGED <<catalog, resume, cache, op, job, session, keys, feed, uploaded, missed>>

DismissConflict(c) == pc[c] = "hide" /\ pending[c] \cap dismissed # {} /\ Fail(c)

-----------------------------------------------------------------------------
(* jobs_cache.                                                              *)

\* invalidate_user_jobs_list_cache: the keys are scanned ...
Scan(c) ==
    /\ pc[c] = "scan"
    /\ keys' = [keys EXCEPT ![c] = {v \in Views : cache[v] # None}]
    /\ Goto(c, "drop")
    /\ UNCHANGED <<tables, lock, cache, op, job, session, feed, uploaded, history>>

\* ... and deleted.
Drop(c) ==
    /\ pc[c] = "drop"
    /\ cache' = [v \in Views |-> IF v \in keys[c] THEN None ELSE cache[v]]
    /\ Goto(c, AfterSync(c))
    /\ UNCHANGED <<tables, lock, op, job, session, keys, feed, uploaded, history>>

\* A Redis error ends the invalidation and nothing else.
InvalidateFails(c) ==
    /\ RedisFails /\ pc[c] \in {"scan", "drop"}
    /\ missed' = TRUE
    /\ Goto(c, AfterSync(c))
    /\ UNCHANGED <<tables, lock, cache, op, job, session, keys, feed, uploaded, raced,
                   overlap>>

\* list_jobs: the page is read from the rows that are committed now, ...
ReadPage(c) ==
    /\ pc[c] = "read"
    /\ feed' = [feed EXCEPT ![c] = score]
    /\ Goto(c, "put")
    /\ UNCHANGED <<tables, lock, cache, op, job, session, keys, uploaded, history>>

\* ... cached and answered.  A failing Redis is ignored.
PutPage(c, v) ==
    /\ pc[c] = "put"
    /\ \/ cache' = [cache EXCEPT ![v] = [rows |-> feed[c], raced |-> raced[c]]]
       \/ RedisFails /\ UNCHANGED cache
    /\ Goto(c, "done")
    /\ UNCHANGED <<tables, lock, op, job, session, keys, feed, uploaded, history>>

\* mutant: SET instead of SETEX
ExpireNever(v) == FALSE

\* Every entry is written with a time to live.
Expire(v) ==
    /\ cache[v] # None
    /\ cache' = [cache EXCEPT ![v] = None]
    /\ UNCHANGED <<tables, lock, pc, op, job, session, keys, feed, uploaded, history>>

-----------------------------------------------------------------------------
\* The process dies: the transaction is rolled back with the connection.
Crash(c) ==
    /\ MayCrash /\ pc[c] \notin Ended \cup {"idle"}
    /\ Release(c)
    /\ missed' = (missed \/ pc[c] \in {"scan", "drop"})
    /\ Goto(c, "crashed")
    /\ UNCHANGED <<tables, cache, op, job, session, keys, feed, uploaded, raced, overlap>>

\* The next thing the call itself does.
Step(c) ==
    \/ \E v \in Views : CacheGet(c, v) \/ PutPage(c, v)
    \/ SaveResume(c) \/ (\E j \in Jobs : ImportJob(c, j) \/ LockRow(c, j))
    \/ SyncLook(c) \/ SyncScored(c) \/ SyncDelete(c) \/ SyncDeleted(c)
    \/ SyncCommit(c) \/ SyncConflict(c) \/ DeadlockVictim(c)
    \/ DismissLook(c) \/ DismissCommit(c) \/ DismissConflict(c)
    \/ Scan(c) \/ Drop(c) \/ InvalidateFails(c) \/ ReadPage(c)

Next ==
    \/ \E c \in Calls :
          \/ \E o \in Ops : Begin(c, o)
          \/ "dismiss" \in Ops /\ \E j \in Jobs : DismissBegin(c, j)
          \/ Step(c)
          \/ Crash(c)
    \/ \E v \in Views : Expire(v)

Spec == Init /\ [][Next]_vars

\* A call that has begun goes on, the deadlock detector cancels a session, and
\* Redis drops an entry whose time has come.
FairSpec ==
    /\ Spec
    /\ \A c \in Calls : WF_vars(Step(c))
    /\ \A v \in Views : WF_vars(Expire(v))

-----------------------------------------------------------------------------
TypeOK ==
    /\ catalog \subseteq Jobs /\ dismissed \subseteq Jobs /\ resume \in Nat
    /\ score \in [Jobs -> Row \cup {None}]
    /\ lock \in [Jobs -> Calls \cup {None}]
    /\ \A v \in Views : cache[v] # None =>
          cache[v] \in [rows: [Jobs -> Row \cup {None}], raced: BOOLEAN]
    /\ DOMAIN cache = Views
    /\ pc \in [Calls -> {"idle", "cached", "save", "import", "scan", "drop", "read",
                         "put", "hide"} \cup Syncing \cup Ended]
    /\ op \in [Calls -> AllOps \cup {None}]
    /\ job \in [Calls -> Jobs \cup {None}]
    /\ \A c \in Calls : op[c] = "dismiss" => job[c] \in catalog
    /\ eligible \in [Calls -> SUBSET Jobs]
    /\ found \in [Calls -> [Jobs -> Row \cup {None}]]
    /\ deleted \in [Calls -> SUBSET Jobs]
    /\ pending \in [Calls -> SUBSET Jobs]
    /\ version \in [Calls -> Nat]
    /\ keys \in [Calls -> SUBSET Views]
    /\ feed \in [Calls -> [Jobs -> Row \cup {None}]]
    /\ uploaded \in [Calls -> Nat]
    /\ raced \in [Calls -> BOOLEAN]
    /\ overlap \subseteq Jobs /\ missed \in BOOLEAN

\* A cached page that is not what the tables hold is one of a listing that a
\* commit overtook between its read and its write of the cache, unless the
\* invalidation that removes it is still to come or was lost: every commit that
\* changes the rows is followed by an invalidation of every key.
StaleOnlyByRace ==
    \A v \in Views :
        cache[v] # None /\ cache[v].rows # score =>
            \/ cache[v].raced \/ missed
            \/ \E c \in Calls : pc[c] = "scan" \/ (pc[c] = "drop" /\ v \in keys[c])

\* A job the user has dismissed gets no score again, whatever is listed, imported
\* or recomputed afterwards, unless a sync was under way during the dismissal.
DismissalIsFinal ==
    \A j \in dismissed : score[j] # None => j \in overlap

\* When an upload has answered, the scores of the feed are those of its resume or
\* of a later one, however its refresh was interleaved with other syncs: one
\* that scored with an older resume either committed before the refresh deleted
\* its rows, or makes one of the two fail.
UploadedIsScored ==
    \A c \in Calls : pc[c] = "done" /\ op[c] = "upload" =>
        \A j \in Jobs \ dismissed : score[j] # None => score[j].ver >= uploaded[c]

\* A score disappears with a dismissal only: a refresh that fails or dies half way
\* leaves the old rows.
ScoresAreKept ==
    [][\A j \in Jobs : score[j] # None /\ score'[j] = None => j \in dismissed']_vars

\* No call goes on for ever, although sessions lock rows in any order: PostgreSQL
\* breaks circles of waiting sessions, and the code lets the victim of one, or the
\* loser of a race for a key, go with an error instead of asking again.
CallsReturn == \A c \in Calls : pc[c] \notin Ended \cup {"idle"} ~> pc[c] \in Ended

\* A call whose transaction or whose request is open.
Busy(c) == pc[c] \notin Ended \cup {"idle"}

\* Every row that the DELETE of c has left, or one that its INSERT needs, is locked.
Waits(c) ==
    \/ pc[c] = "lock" /\ ~AllLocked(c) /\ \A j \in Jobs : found[c][j] # None => lock[j] # None
    \/ pc[c] = "commit" /\ WaitsFor(c) # {}

\* While calls are open, one of them does not wait for a row lock or is one that the
\* deadlock detector cancels: nobody waits for a session that is gone, and no circle
\* of waiting sessions escapes the detector.
SomeoneGoes ==
    (\E c \in Calls : Busy(c)) => \E c \in Calls : Busy(c) /\ (Waits(c) => Deadlocked(c))

\* How many statements a call has still before it at most; its DELETE has one for a row.
Rank ==
    [idle |-> 12, cached |-> 11, save |-> 10, import |-> 10, look |-> 9, scored |-> 8, lock |-> 7,
     commit |-> 6, hide |-> 6, scan |-> 5, drop |-> 4, read |-> 2, put |-> 1,
     done |-> 0, error |-> 0, crashed |-> 0]

RowsLeft(c) ==
    CASE pc[c] \in {"idle", "cached", "save", "import", "look", "scored"} -> Cardinality(Jobs)
      [] pc[c] = "lock" -> Cardinality({j \in Jobs : found[c][j] # None})
      [] OTHER          -> 0

StepsLeft(c) == Rank[pc[c]] + RowsLeft(c)

\* Nothing a call does is repeated without an end, whatever the others do meanwhile:
\* each of its steps uses up one that it had left, and nothing gives it more.
StepsAreBounded ==
    [][\A c \in Calls : /\ StepsLeft(c)' <= StepsLeft(c)
                        /\ Step(c) => StepsLeft(c)' < StepsLeft(c)]_vars

\* A stale page does not stay: in the end what is cached is what is stored.
CacheSettles == \A v \in Views : <>[](cache[v] # None => cache[v].rows = score)
=============================================================================
