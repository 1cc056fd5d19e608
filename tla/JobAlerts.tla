------------------------------ MODULE JobAlerts ------------------------------
(***************************************************************************)
(* The digest of new jobs: subscriptions, the task that mails the jobs a   *)
(* user's window holds, and the deliveries that keep it from mailing them  *)
(* again.  The mail goes out before anything of it is committed, and the   *)
(* window is a comparison of times that three programs take: the task, the *)
(* ingestion that stamps a job and the sync that scores it.                *)
(*   services/job_alert_service.py, tasks/job_alert_tasks.py.              *)
(***************************************************************************)
EXTENDS Naturals, FiniteSets

CONSTANTS
    Users, Jobs,
    Tasks,        \* executions of the daily task; nothing keeps two apart
    None,
    Fit,          \* Fit[j]: the fit score of a job
    Choices,      \* the settings a user may choose
    Window,       \* the first window, one day
    MaxTime,      \* bound of the clock
    MayFail       \* the mail server may fail and processes may die

Settings ==
    [enabled: BOOLEAN, daily: BOOLEAN, email: BOOLEAN, min_fit: Nat, max_items: Nat \ {0}]

ASSUME AlertsAssumption ==
    /\ None \notin Tasks \cup Users \cup Nat
    /\ Fit \in [Jobs -> Nat] /\ Choices \subseteq Settings
    /\ Window \in Nat /\ MaxTime \in Nat /\ IsFiniteSet(Jobs)
    /\ MayFail \in BOOLEAN

VARIABLES
    clock,
    discovered,   \* discovered[j]: discovered_at of the committed job, or None
    scored,       \* scored[u]: the jobs the user has a score of
    dismissed,    \* dismissed[u]
    sub,          \* sub[u]: settings of the subscription, or None
    last_run,     \* last_run[u]: its last_run_at, or None
    delivered,    \* delivered[u][j]: the task that committed the delivery, or None
    pc, queue, user,   \* where the task is, the users it has left, the one it serves
    seen,         \* the settings it has read
    since, now,   \* the window it has read, and its time
    items,        \* the jobs it has selected
    mails,        \* mails the server has taken: task, user and job
    excused       \* jobs a window may leave behind, by user

tables == <<discovered, scored, dismissed, sub, last_run, delivered>>
task == <<queue, user, seen, since, now, items>>
vars == <<clock, tables, pc, task, mails, excused>>

Times == 0 .. MaxTime
Reading == {"select", "mail", "commit"}
Ended == {"done", "failed", "crashed"}

Goto(t, p) == pc' = [pc EXCEPT ![t] = p]
\* The locals of a user's turn go out of scope.
Forget(t) ==
    /\ user' = [user EXCEPT ![t] = None]
    /\ seen' = [seen EXCEPT ![t] = None]
    /\ since' = [since EXCEPT ![t] = 0]
    /\ now' = [now EXCEPT ![t] = 0]
    /\ items' = [items EXCEPT ![t] = {}]
Serves(t, u) == pc[t] \in Reading /\ user[t] = u
Subscribed(u) == sub[u] # None /\ sub[u].enabled /\ sub[u].daily

Init ==
    /\ clock = 0
    /\ discovered = [j \in Jobs |-> None]
    /\ scored = [u \in Users |-> {}]
    /\ dismissed = [u \in Users |-> {}]
    /\ sub = [u \in Users |-> None]
    /\ last_run = [u \in Users |-> None]
    /\ delivered = [u \in Users |-> [j \in Jobs |-> None]]
    /\ pc = [t \in Tasks |-> "idle"]
    /\ queue = [t \in Tasks |-> {}]
    /\ user = [t \in Tasks |-> None]
    /\ seen = [t \in Tasks |-> None]
    /\ since = [t \in Tasks |-> 0]
    /\ now = [t \in Tasks |-> 0]
    /\ items = [t \in Tasks |-> {}]
    /\ mails = {}
    /\ excused = [u \in Users |-> {}]

-----------------------------------------------------------------------------
(* The other programs.                                                      *)

Tick ==
    /\ clock < MaxTime
    /\ clock' = clock + 1
    /\ UNCHANGED <<tables, pc, task, mails, excused>>

\* A job with this stamp that shows now is missed by a window that has moved past
\* the stamp, or that a task under way has read.
Late(u, s) ==
    \/ last_run[u] # None /\ last_run[u] > s
    \/ \E t \in Tasks : Serves(t, u) /\ (since[t] > s \/ (pc[t] # "select" /\ now[t] > s))

\* An ingestion commits a job it stamped some time before; a connector stamps a
\* job again.
Discover(j, s) ==
    /\ s <= clock
    /\ discovered[j] # None => discovered[j] <= s
    /\ discovered' = [discovered EXCEPT ![j] = s]
    /\ excused' = [u \in Users |-> IF j \in scored[u] /\ Late(u, s) THEN excused[u] \cup {j} ELSE excused[u]]
    /\ UNCHANGED <<clock, scored, dismissed, sub, last_run, delivered, pc, task, mails>>

\* A sync of the user's scores reaches the job.
Score(u, j) ==
    /\ discovered[j] # None /\ j \notin scored[u]
    /\ scored' = [scored EXCEPT ![u] = @ \cup {j}]
    /\ excused' = [excused EXCEPT ![u] = IF Late(u, discovered[j]) THEN @ \cup {j} ELSE @]
    /\ UNCHANGED <<clock, discovered, dismissed, sub, last_run, delivered, pc, task, mails>>

Dismiss(u, j) ==
    /\ discovered[j] # None
    /\ dismissed' = [dismissed EXCEPT ![u] = @ \cup {j}]
    /\ UNCHANGED <<clock, discovered, scored, sub, last_run, delivered, pc, task, mails, excused>>

\* The settings are read for the first time, or written.
Patch(u, s) ==
    /\ sub' = [sub EXCEPT ![u] = s]
    /\ UNCHANGED <<clock, discovered, scored, dismissed, last_run, delivered, pc, task, mails, excused>>

-----------------------------------------------------------------------------
(* run_job_alerts_for_all_users and, for each, run_job_alerts_for_user.      *)

Begin(t) ==
    /\ pc[t] = "idle"
    /\ queue' = [queue EXCEPT ![t] = {u \in Users : Subscribed(u)}]
    /\ Goto(t, "next")
    /\ UNCHANGED <<clock, tables, user, seen, since, now, items, mails, excused>>

Finish(t) ==
    /\ pc[t] = "next" /\ queue[t] = {}
    /\ Goto(t, "done")
    /\ UNCHANGED <<clock, tables, task, mails, excused>>

\* The subscription is read again, by its own conditions ...
Skip(t, u) ==
    /\ pc[t] = "next" /\ u \in queue[t] /\ ~Subscribed(u)
    /\ queue' = [queue EXCEPT ![t] = @ \ {u}]
    /\ UNCHANGED <<clock, tables, pc, user, seen, since, now, items, mails, excused>>

\* Jobs of the user that no digest has had, and those of them stamped before this.
Open(u) == {j \in scored[u] \ dismissed[u] : delivered[u][j] = None}
Before(u, s) == {j \in Open(u) : discovered[j] < s}
\* mutant: a user who never had a digest has no window
WindowStartNone(u) == last_run[u]

\* The last run, or a day ago.
WindowStart(u) ==
    IF last_run[u] # None THEN last_run[u] ELSE IF clock > Window THEN clock - Window ELSE 0

\* ... and the time is taken.  The first window may leave behind what is older.
Serve(t, u) ==
    /\ pc[t] = "next" /\ u \in queue[t] /\ Subscribed(u)
    /\ queue' = [queue EXCEPT ![t] = @ \ {u}]
    /\ user' = [user EXCEPT ![t] = u]
    /\ seen' = [seen EXCEPT ![t] = sub[u]]
    /\ now' = [now EXCEPT ![t] = clock]
    /\ since' = [since EXCEPT ![t] = WindowStart(u)]
    /\ excused' = [excused EXCEPT ![u] = IF last_run[u] = None THEN @ \cup Before(u, WindowStart(u)) ELSE @]
    /\ Goto(t, "select")
    /\ UNCHANGED <<clock, tables, items, mails>>

\* mutant: the bound of the window is left out of it
InWindowAfter(t) ==
    {j \in Open(user[t]) : Fit[j] >= seen[t].min_fit /\ discovered[j] > since[t]}

InWindow(t) ==
    {j \in Open(user[t]) : Fit[j] >= seen[t].min_fit /\ discovered[j] >= since[t]}

\* The best of them, as many as the user wants.
Best(S, n) ==
    {T \in SUBSET S :
        /\ Cardinality(T) = IF Cardinality(S) < n THEN Cardinality(S) ELSE n
        /\ \A j \in T, k \in S \ T : Fit[j] >= Fit[k]}

\* What this window may leave behind: jobs below the user's bar, and those that do
\* not fit the digest.
LeftBehind(t, T) ==
    {j \in Open(user[t]) : Fit[j] < seen[t].min_fit} \cup (InWindow(t) \ T)

Select(t) ==
    /\ pc[t] = "select"
    /\ \E T \in Best(InWindow(t), seen[t].max_items) :
           /\ items' = [items EXCEPT ![t] = T]
           /\ excused' = [excused EXCEPT ![user[t]] = @ \cup LeftBehind(t, T)
                                     \cup (IF seen[t].email THEN {} ELSE T)]
           /\ Goto(t, IF T # {} /\ seen[t].email THEN "mail" ELSE "commit")
    /\ UNCHANGED <<clock, tables, queue, user, seen, since, now, mails>>

Mailed(t) == {<<t, user[t], j>> : j \in items[t]}

\* The server takes the mail.
Mail(t) ==
    /\ pc[t] = "mail"
    /\ mails' = mails \cup Mailed(t)
    /\ Goto(t, "commit")
    /\ UNCHANGED <<clock, tables, task, excused>>

\* It raises, perhaps after it took the mail: no handler is in the way, and the
\* users left are not served.
MailFails(t) ==
    /\ MayFail /\ pc[t] = "mail"
    /\ \/ UNCHANGED mails
       \/ mails' = mails \cup Mailed(t)
    /\ queue' = [queue EXCEPT ![t] = {}]
    /\ Forget(t) /\ Goto(t, "failed")
    /\ UNCHANGED <<clock, tables, excused>>

\* mutant: whether email is on is not asked again
ToRecordAll(t) == items[t]

\* The jobs of the mail have deliveries now, if email is on.
ToRecord(t) == IF seen[t].email THEN items[t] ELSE {}
Repeats(t) == \E j \in ToRecord(t) : delivered[user[t]][j] # None

\* Deliveries and window are committed together.
Commit(t) ==
    /\ pc[t] = "commit" /\ ~Repeats(t)
    /\ delivered' = [delivered EXCEPT ![user[t]] =
          [j \in Jobs |-> IF j \in ToRecord(t) THEN t ELSE @[j]]]
    /\ last_run' = [last_run EXCEPT ![user[t]] = now[t]]
    /\ Forget(t) /\ Goto(t, "next")
    /\ UNCHANGED <<clock, discovered, scored, dismissed, sub, queue, mails, excused>>

\* mutant: the conflict is ignored, the window moves and the task goes on
CommitConflictIgnored(t) ==
    /\ pc[t] = "commit" /\ Repeats(t)
    /\ last_run' = [last_run EXCEPT ![user[t]] = now[t]]
    /\ Forget(t) /\ Goto(t, "next")
    /\ UNCHANGED <<clock, discovered, scored, dismissed, sub, delivered, queue, mails, excused>>

\* The unique key of the deliveries: another task has recorded one of them.
CommitConflict(t) ==
    /\ pc[t] = "commit" /\ Repeats(t)
    /\ queue' = [queue EXCEPT ![t] = {}]
    /\ Forget(t) /\ Goto(t, "failed")
    /\ UNCHANGED <<clock, tables, mails, excused>>

Crash(t) ==
    /\ MayFail /\ pc[t] \notin Ended \cup {"idle"}
    /\ queue' = [queue EXCEPT ![t] = {}]
    /\ Forget(t) /\ Goto(t, "crashed")
    /\ UNCHANGED <<clock, tables, mails, excused>>

Step(t) ==
    \/ Finish(t) \/ (\E u \in Users : Skip(t, u) \/ Serve(t, u)) \/ Select(t)
    \/ Mail(t) \/ MailFails(t) \/ Commit(t) \/ CommitConflict(t)

Next ==
    \/ Tick
    \/ \E j \in Jobs, s \in Times : Discover(j, s)
    \/ \E u \in Users, j \in Jobs : Score(u, j) \/ Dismiss(u, j)
    \/ \E u \in Users, s \in Choices : Patch(u, s)
    \/ \E t \in Tasks : Begin(t) \/ Step(t) \/ Crash(t)

Spec == Init /\ [][Next]_vars

-----------------------------------------------------------------------------
TypeOK ==
    /\ clock \in Times
    /\ discovered \in [Jobs -> Times \cup {None}]
    /\ scored \in [Users -> SUBSET Jobs]
    /\ dismissed \in [Users -> SUBSET Jobs]
    /\ sub \in [Users -> Choices \cup {None}]
    /\ last_run \in [Users -> Times \cup {None}]
    /\ delivered \in [Users -> [Jobs -> Tasks \cup {None}]]
    /\ pc \in [Tasks -> {"idle", "next"} \cup Reading \cup Ended]
    /\ queue \in [Tasks -> SUBSET Users]
    /\ user \in [Tasks -> Users \cup {None}]
    /\ seen \in [Tasks -> Choices \cup {None}]
    /\ since \in [Tasks -> Times]
    /\ now \in [Tasks -> Times]
    /\ items \in [Tasks -> SUBSET Jobs]
    /\ mails \subseteq Tasks \X Users \X Jobs
    /\ excused \in [Users -> SUBSET Jobs]

\* A job is mailed and not recorded only by a task that has not committed yet, has
\* failed or has died: a user gets a job twice for no other reason.
MailedIsRecorded ==
    \A m \in mails :
        \/ delivered[m[2]][m[3]] = m[1]
        \/ pc[m[1]] = "commit" /\ user[m[1]] = m[2]
        \/ pc[m[1]] \in {"failed", "crashed"}

\* The alert history shows only what the mail server has taken, from the same task.
RecordedWasMailed ==
    \A u \in Users, j \in Jobs :
        delivered[u][j] # None => <<delivered[u][j], u, j>> \in mails

\* What the window has moved past without a delivery or a dismissal was below the
\* user's bar, too much for the digest, selected while email was off, older than
\* the first window, or came to show after the window was read: a job is not lost
\* because of the moment it is discovered in.
WindowLosesNothing ==
    \A u \in Users : \A j \in Open(u) :
        (last_run[u] # None /\ discovered[j] < last_run[u]) => j \in excused[u]
=============================================================================
