------------------------------ MODULE Autopilot ------------------------------
(***************************************************************************)
(* The autopilot runs of one user:                                         *)
(*   - start and resume   routers/autopilot.py, services/autopilot_service,*)
(*                        services/autopilot_resume.py                     *)
(*   - execution          services/autopilot_runner.py over the graph of   *)
(*                        workflow/autopilot_langgraph.py, in a Celery     *)
(*                        worker or in the API process                     *)
(* A run may be executed by several tasks at once: the one its start       *)
(* handed over and any number of resumes.  Each has its own session, which *)
(* keeps the row object it loaded first and writes at a commit only the    *)
(* columns it changed.  The paused graph is kept by LangGraph in a store   *)
(* of its own (SQLite), one thread for each run.                           *)
(***************************************************************************)
EXTENDS Naturals, FiniteSets

CONSTANTS
    Runs,          \* ids of autopilot_runs rows
    Starts,        \* POST /autopilot/run calls, each also names its task
    Resumes,       \* POST /runs/{id}/resume calls, each also names its task
    Keys,          \* Idempotency-Key header values
    Payloads,      \* request fingerprints
    None,          \* Python's None
    UseCelery,     \* settings.use_celery_for_autopilot_effective()
    BrokerFails,   \* whether `.delay' may raise
    DurableOnly,   \* production without in-process background work
    LangGraph,     \* settings.use_langgraph_autopilot
    Checkpointing, \* settings.use_langgraph_autopilot_checkpoint
    Interrupts,    \* settings.use_langgraph_autopilot_approval_interrupt
    MaxRetries,    \* settings.use_langgraph_autopilot_max_retries
    MayCrash,      \* whether API and worker processes may die
    FaultAt,       \* steps at which the database may fail
    StoreFails     \* whether the LangGraph store may fail

Tasks == Starts \cup Resumes

ASSUME ConfigAssumption ==
    /\ {UseCelery, BrokerFails, DurableOnly, LangGraph, Checkpointing, Interrupts,
        MayCrash, StoreFails} \subseteq BOOLEAN
    /\ MaxRetries \in Nat
    /\ Interrupts => LangGraph
    /\ None \notin Runs \cup Keys \cup Payloads
    /\ Starts \cap Resumes = {}

VARIABLES
    runs,      \* the autopilot_runs table
    threads,   \* LangGraph's store: the graph of each run, None if never run
    slots,     \* _inflight_resume_run_ids of the API process
    tasks,     \* the calls and the tasks they hand over
    granted    \* runs whose gate was passed with an approval (history)

vars == <<runs, threads, slots, tasks, granted>>

-----------------------------------------------------------------------------
Nodes    == {"mark_running", "resolve_targets", "process_items",
             "approval_interrupt", "persist_done", "persist_failed"}
Statuses == {"queued", "running", "done", "failed"}

\* The state of a graph: the node to run next, where an invocation enters,
\* whether item_payload is set, retry_count, and the last error: none, one that
\* is final, or the node it may be retried at.
Graph == [at: Nodes \cup {"end"}, entry: Nodes, items: BOOLEAN, retries: 0..MaxRetries,
          error: {"none", "fatal", "resolve_targets", "process_items"}]

\* autopilot_runs.graph_checkpoint: where to re-enter, and the saved state.
Checkpoint == [entry: Nodes, pending: BOOLEAN, items: BOOLEAN, retries: 0..MaxRetries]

\* The columns a task writes.
Cells == [status: Statuses, results: {"null", "empty", "items"}, checkpoint: Checkpoint \cup {None}]

Row == [key: Keys \cup {None}, payload: Payloads \cup {None}, cells: Cells]

NewCells == [status |-> "queued", results |-> "null", checkpoint |-> None]
NewGraph == [at |-> "mark_running", entry |-> "mark_running", items |-> FALSE,
             retries |-> 0, error |-> "none"]

\* What a session's commit leaves in the row.
Written(seen, new, stored) == IF new = seen THEN stored ELSE new

Flush(stored, seen, new) ==
    [status     |-> Written(seen.status, new.status, stored.status),
     results    |-> Written(seen.results, new.results, stored.results),
     checkpoint |-> Written(seen.checkpoint, new.checkpoint, stored.checkpoint)]

Made == {r \in Runs : runs[r].key # None}

RequestPhases == {"idle", "unique", "inserted", "eligible"}
AnswerPhases  == {"replayed", "conflict", "error", "refused", "in_progress", "unavailable"}
QueuedPhases  == {"brokered", "scheduled"}
GraphPhases   == {"node", "save", "clear"}
RunPhases     == GraphPhases \cup {"marker", "resume_failed", "legacy_mark", "legacy_resolve",
                                   "legacy_done", "handler", "finish"}
Phases        == RequestPhases \cup AnswerPhases \cup QueuedPhases \cup RunPhases
                     \cup {"ended", "killed"}

\* A call and its task: `approve' is the resume payload, `answer' what a
\* graph resumed with Command(resume=...) has not yet consumed of it.
Task == [phase: Phases, run: Runs \cup {None}, key: Keys \cup {None},
         payload: Payloads \cup {None}, approve: BOOLEAN, command: BOOLEAN,
         answer: BOOLEAN, host: {"none", "api", "worker"}, poisoned: BOOLEAN,
         seen: Cells, graph: Graph]

IdleTask == [phase |-> "idle", run |-> None, key |-> None, payload |-> None,
             approve |-> TRUE, command |-> FALSE, answer |-> FALSE, host |-> "none",
             poisoned |-> FALSE, seen |-> NewCells, graph |-> NewGraph]

Init ==
    /\ runs = [r \in Runs |-> [key |-> None, payload |-> None, cells |-> NewCells]]
    /\ threads = [r \in Runs |-> None]
    /\ slots = {}
    /\ tasks = [t \in Tasks |-> IdleTask]
    /\ granted = {}

-----------------------------------------------------------------------------
(* The two routes.                                                         *)

WithKey(k) == {r \in Made : runs[r].key = k}

\* The SELECT of run_autopilot: conflict, replay, or a key not yet used.
StartRead(t, k, p) ==
    /\ tasks[t].phase = "idle"
    /\ tasks' = [tasks EXCEPT ![t].key = k, ![t].payload = p,
           ![t].phase = IF WithKey(k) = {} THEN "unique"
                        ELSE IF \A r \in WithKey(k) : runs[r].payload = p THEN "replayed"
                        ELSE "conflict"]
    /\ UNCHANGED <<runs, threads, slots, granted>>

\* mutant: the column has no unique constraint
KeyFreeUnchecked(k) == TRUE

\* uq_autopilot_runs_user_idempotency
KeyFree(k) == WithKey(k) = {}

StartCommit(t, r) ==
    /\ tasks[t].phase = "unique"
    /\ r \notin Made
    /\ IF KeyFree(tasks[t].key)
       THEN /\ runs' = [runs EXCEPT ![r].key = tasks[t].key, ![r].payload = tasks[t].payload]
            /\ tasks' = [tasks EXCEPT ![t].phase = "inserted", ![t].run = r]
       ELSE /\ tasks' = [tasks EXCEPT ![t].phase = "error"]
            /\ UNCHANGED runs
    /\ UNCHANGED <<threads, slots, granted>>

Eligible(cells) ==
    /\ cells.status = "running"
    /\ LangGraph /\ Checkpointing => cells.checkpoint # None

\* validate_resume_eligibility; nothing holds the run after it.
ResumeCheck(t, r, approve) ==
    /\ tasks[t].phase = "idle"
    /\ r \in Made
    /\ tasks' = [tasks EXCEPT ![t].run = r, ![t].approve = approve,
           ![t].phase = IF Eligible(runs[r].cells) THEN "eligible" ELSE "refused"]
    /\ UNCHANGED <<runs, threads, slots, granted>>

\* A start that was inserted, or a resume that finds its run's slot free.
MayHandOver(t) ==
    \/ tasks[t].phase = "inserted"
    \/ tasks[t].phase = "eligible" /\ tasks[t].run \notin slots

\* A resume takes the slot with the task it hands over.
HandOver(t, phase, host) ==
    /\ MayHandOver(t)
    /\ tasks' = [tasks EXCEPT ![t].phase = phase, ![t].host = host]
    /\ slots' = IF t \in Resumes THEN slots \cup {tasks[t].run} ELSE slots
    /\ UNCHANGED <<runs, threads, granted>>

Enqueue(t) == UseCelery /\ HandOver(t, "brokered", "worker")

RunInProcess(t) == (UseCelery => BrokerFails /\ ~DurableOnly) /\ HandOver(t, "scheduled", "api")

\* mutant: a resume answers 503 and keeps its slot
EnqueueFailsKeepingSlot(t) ==
    /\ UseCelery /\ BrokerFails /\ DurableOnly
    /\ MayHandOver(t)
    /\ tasks' = [tasks EXCEPT ![t].phase = "unavailable"]
    /\ slots' = IF t \in Resumes THEN slots \cup {tasks[t].run} ELSE slots
    /\ UNCHANGED <<runs, threads, granted>>

\* 503; a resume gives its slot back before it answers.
EnqueueFails(t) ==
    /\ UseCelery /\ BrokerFails /\ DurableOnly
    /\ MayHandOver(t)
    /\ tasks' = [tasks EXCEPT ![t].phase = "unavailable"]
    /\ UNCHANGED <<runs, threads, slots, granted>>

InProgress(t) ==
    /\ tasks[t].phase = "eligible" /\ tasks[t].run \in slots
    /\ tasks' = [tasks EXCEPT ![t].phase = "in_progress"]
    /\ UNCHANGED <<runs, threads, slots, granted>>

-----------------------------------------------------------------------------
(* The graph of one invocation.                                            *)

\* The edges taken when the state holds no error.
Route(node) ==
    CASE node = "mark_running"       -> "resolve_targets"
      [] node = "resolve_targets"    -> "process_items"
      [] node = "process_items"      -> IF Interrupts THEN "approval_interrupt" ELSE "persist_done"
      [] node = "approval_interrupt" -> "persist_done"
      [] OTHER                       -> "end"

\* mutant: the chain does not know the gate
NextEntryWithoutGate(node) ==
    CASE node = "mark_running"    -> "resolve_targets"
      [] node = "resolve_targets" -> "process_items"
      [] node = "process_items"   -> "persist_done"

\* mutant: a checkpoint names the node after the next
NextEntryAhead(node) == Route(Route(node))

\* The node a checkpoint re-enters at, written down a second time in the runner.
NextEntry(node) ==
    CASE node = "mark_running"    -> "resolve_targets"
      [] node = "resolve_targets" -> "process_items"
      [] node = "process_items"   -> IF Interrupts THEN "approval_interrupt" ELSE "persist_done"

\* mutant: one retry more than the budget
CanRetryOnceMore(graph) == graph.error \notin {"none", "fatal"} /\ graph.retries <= MaxRetries

CanRetry(graph) == graph.error \notin {"none", "fatal"} /\ graph.retries < MaxRetries

\* The recover_retry node.
Retried(graph) == [graph EXCEPT !.at = graph.error, !.retries = @ + 1, !.error = "none"]

\* The routers look at the error in the state, whichever invocation left it there.
After(graph) ==
    IF graph.error = "none" \/ graph.at = "persist_failed"
    THEN [graph EXCEPT !.at = Route(@)]
    ELSE IF graph.at \in {"resolve_targets", "process_items"} /\ CanRetry(graph)
    THEN Retried(graph)
    ELSE [graph EXCEPT !.at = "persist_failed"]

Run(t)        == tasks[t].run
Node(t, node) == tasks[t].phase = "node" /\ tasks[t].graph.at = node

\* The session of t commits the cells `new' of its row object.
Commit(t, new) ==
    /\ ~tasks[t].poisoned
    /\ runs' = [runs EXCEPT ![Run(t)].cells = Flush(@, tasks[t].seen, new)]

Goes(t, task, phase) == tasks' = [tasks EXCEPT ![t] = [task EXCEPT !.phase = phase]]

\* A superstep ends with the graph of `task'; LangGraph stores it if the gate
\* is configured.
Superstep(t, task) ==
    /\ Goes(t, [task EXCEPT !.answer = FALSE], "node")
    /\ threads' = IF Interrupts THEN [threads EXCEPT ![task.run] = task.graph] ELSE threads

\* A node ends well: with checkpointing its state is saved before the next one.
NodeEnds(t, task) ==
    IF Checkpointing THEN Goes(t, task, "save") /\ UNCHANGED threads
                     ELSE Superstep(t, [task EXCEPT !.graph = After(@)])

\* What an invocation starts with: the checkpoint in the row, merged into what
\* the store kept of an earlier invocation.
Entered(cells, thread) ==
    LET ck  == IF Checkpointing THEN cells.checkpoint ELSE None
        old == IF Interrupts /\ thread # None THEN thread ELSE NewGraph
    IN  IF ck = None THEN [old EXCEPT !.at = old.entry, !.retries = 0]
        ELSE [old EXCEPT !.at = ck.entry, !.entry = ck.entry, !.retries = ck.retries,
                         !.items = ck.items \/ @]

\* execute_autopilot_run_background up to the first node: a paused run is
\* resumed with the payload, any other is entered anew and the payload dropped.
Begin(t) ==
    LET cells  == runs[Run(t)].cells
        thread == threads[Run(t)]
        paused == LangGraph /\ cells.checkpoint # None /\ cells.checkpoint.pending
        task   == [tasks[t] EXCEPT !.seen = cells, !.command = paused, !.answer = paused]
    IN  /\ tasks[t].phase \in QueuedPhases
        /\ IF ~LangGraph THEN Goes(t, task, "legacy_mark")
           ELSE IF ~paused THEN Goes(t, [task EXCEPT !.graph = Entered(cells, thread)], "node")
           ELSE IF thread # None THEN Goes(t, [task EXCEPT !.graph = thread], "node")
           ELSE Goes(t, task, "resume_failed")
        /\ UNCHANGED <<runs, threads, slots, granted>>

Running(cells) == [cells EXCEPT !.status = "running"]

\* The commit, and the refresh that reloads the row.
MarkRunning(t) ==
    /\ Node(t, "mark_running")
    /\ Commit(t, Running(tasks[t].seen))
    /\ NodeEnds(t, [tasks[t] EXCEPT !.seen = runs'[Run(t)].cells])
    /\ UNCHANGED <<slots, granted>>

ResolveTargets(t) ==
    /\ Node(t, "resolve_targets") /\ ~tasks[t].poisoned
    /\ NodeEnds(t, tasks[t])
    /\ UNCHANGED <<runs, slots, granted>>

\* What an item's draft may leave of the session: its exceptions are caught.
AfterItems(t) == {tasks[t].poisoned, tasks[t].poisoned \/ "process_items" \in FaultAt}

ProcessItems(t) ==
    /\ Node(t, "process_items")
    /\ \E poisoned \in AfterItems(t) :
           NodeEnds(t, [tasks[t] EXCEPT !.graph.items = TRUE, !.poisoned = poisoned])
    /\ UNCHANGED <<runs, slots, granted>>

SaveCheckpoint(t) ==
    LET g   == tasks[t].graph
        new == [tasks[t].seen EXCEPT !.checkpoint =
                   [entry |-> NextEntry(g.at), pending |-> FALSE,
                    items |-> g.items, retries |-> g.retries]]
    IN  /\ tasks[t].phase = "save"
        /\ Commit(t, new)
        /\ Superstep(t, [tasks[t] EXCEPT !.seen = new, !.graph = After(g)])
        /\ UNCHANGED <<slots, granted>>

\* interrupt() returns the payload that a Command brought to this node.
PassGate(t) ==
    LET task == tasks[t] IN
    /\ Node(t, "approval_interrupt") /\ task.answer
    /\ Superstep(t, [task EXCEPT !.graph =
           After(IF task.approve THEN @ ELSE [@ EXCEPT !.error = "fatal"])])
    /\ granted' = IF task.approve THEN granted \cup {task.run} ELSE granted
    /\ UNCHANGED <<runs, slots>>

\* interrupt() without one ends the invocation.  The first invocation goes on
\* to record the pause, a resumed one returns.
Park(t) ==
    /\ Node(t, "approval_interrupt") /\ ~tasks[t].answer
    /\ Goes(t, tasks[t], IF tasks[t].command THEN "finish" ELSE "marker")
    /\ threads' = [threads EXCEPT ![Run(t)] = tasks[t].graph]
    /\ UNCHANGED <<runs, slots, granted>>

Marker(t) ==
    LET g   == tasks[t].graph
        new == [tasks[t].seen EXCEPT !.checkpoint =
                   [entry |-> "approval_interrupt", pending |-> TRUE,
                    items |-> g.items, retries |-> g.retries]]
    IN  /\ tasks[t].phase = "marker"
        /\ Commit(t, new)
        /\ Goes(t, [tasks[t] EXCEPT !.seen = new], "finish")
        /\ UNCHANGED <<threads, slots, granted>>

Done(cells, items) ==
    [cells EXCEPT !.status = "done", !.results = IF items THEN "items" ELSE "empty"]

Failed(cells) == [cells EXCEPT !.status = "failed"]

\* persist_done and persist_failed: the outcome, then the checkpoint is cleared.
PersistOutcome(t) ==
    LET new == IF Node(t, "persist_done") THEN Done(tasks[t].seen, tasks[t].graph.items)
               ELSE Failed(tasks[t].seen)
    IN  /\ Node(t, "persist_done") \/ Node(t, "persist_failed")
        /\ Commit(t, new)
        /\ Goes(t, [tasks[t] EXCEPT !.seen = new], "clear")
        /\ UNCHANGED <<threads, slots, granted>>

Clear(t) ==
    LET new == [tasks[t].seen EXCEPT !.checkpoint = None] IN
    /\ tasks[t].phase = "clear"
    /\ Commit(t, new)
    /\ Superstep(t, [tasks[t] EXCEPT !.seen = new, !.graph = After(@)])
    /\ UNCHANGED <<slots, granted>>

\* The invocation returns.
Return(t) ==
    /\ Node(t, "end")
    /\ Goes(t, tasks[t], "finish")
    /\ UNCHANGED <<runs, threads, slots, granted>>

-----------------------------------------------------------------------------
(* Failures.  Nothing rolls a session back: after a failed commit, or a      *)
(* statement that aborts the transaction, its next database call raises too. *)

\* The step t is at, as FaultAt names them.
Place(t) == IF tasks[t].phase = "node" THEN tasks[t].graph.at ELSE tasks[t].phase

Reads  == {"resolve_targets", "legacy_resolve"}
Writes == {"mark_running", "persist_done", "persist_failed", "save", "marker",
           "resume_failed", "legacy_mark", "legacy_done"}

CallsDatabase(t) ==
    \/ Place(t) \in Reads \cup Writes
    \/ Place(t) = "clear" /\ tasks[t].seen.checkpoint # None

\* A database call of t raises and leaves its session so.
Raises(t, poisoned) ==
    /\ CallsDatabase(t)
    /\ tasks[t].poisoned \/ Place(t) \in FaultAt
    /\ ~poisoned => Place(t) \in Reads /\ ~tasks[t].poisoned

\* The error a node leaves in the state.  resolve_targets calls an error
\* transient by its text, a checkpoint that cannot be saved always is.
ErrorsOf(t) ==
    LET g == tasks[t].graph IN
    CASE g.at = "persist_failed" -> {g.error}
      [] g.at \in {"mark_running", "persist_done"} -> {"fatal"}
      [] OTHER -> IF tasks[t].phase = "save" THEN {g.at} ELSE {"fatal", g.at}

\* A node catches what it raises.
NodeRaises(t, poisoned) ==
    /\ tasks[t].phase \in GraphPhases
    /\ Raises(t, poisoned)
    /\ \E error \in ErrorsOf(t) :
           Superstep(t, [tasks[t] EXCEPT !.poisoned = poisoned,
                                         !.graph = After([@ EXCEPT !.error = error])])
    /\ UNCHANGED <<runs, slots, granted>>

\* The invocation raises because the store does, or the pause cannot be
\* recorded: the run is executed without the graph, a paused one is given up.
GivesUp(t) == tasks[t].phase = "node" /\ Interrupts /\ StoreFails

FallBack(t) ==
    /\ \/ GivesUp(t) /\ ~tasks[t].command /\ Goes(t, tasks[t], "legacy_mark")
       \/ tasks[t].phase = "marker" /\ Raises(t, TRUE)
              /\ Goes(t, [tasks[t] EXCEPT !.poisoned = TRUE], "legacy_mark")
    /\ UNCHANGED <<runs, threads, slots, granted>>

GiveUpResume(t) ==
    /\ GivesUp(t) /\ tasks[t].command
    /\ Goes(t, tasks[t], "resume_failed")
    /\ UNCHANGED <<runs, threads, slots, granted>>

\* mutant: the exception is logged and the run left as it is
ResumeFailedUnrecorded(t) ==
    /\ tasks[t].phase = "resume_failed"
    /\ Goes(t, tasks[t], "finish")
    /\ UNCHANGED <<runs, threads, slots, granted>>

ResumeFailed(t) ==
    /\ tasks[t].phase = "resume_failed"
    /\ Commit(t, Failed(tasks[t].seen))
    /\ Goes(t, [tasks[t] EXCEPT !.seen = Failed(@)], "finish")
    /\ UNCHANGED <<threads, slots, granted>>

\* _execute_autopilot_body: mark, resolve, draft, done.
LegacyMark(t) ==
    /\ tasks[t].phase = "legacy_mark"
    /\ Commit(t, Running(tasks[t].seen))
    /\ Goes(t, [tasks[t] EXCEPT !.seen = runs'[Run(t)].cells], "legacy_resolve")
    /\ UNCHANGED <<threads, slots, granted>>

LegacyItems(t) ==
    /\ tasks[t].phase = "legacy_resolve" /\ ~tasks[t].poisoned
    /\ \E poisoned \in AfterItems(t) :
           Goes(t, [tasks[t] EXCEPT !.poisoned = poisoned], "legacy_done")
    /\ UNCHANGED <<runs, threads, slots, granted>>

LegacyDone(t) ==
    /\ tasks[t].phase = "legacy_done"
    /\ Commit(t, Done(tasks[t].seen, TRUE))
    /\ Goes(t, [tasks[t] EXCEPT !.seen = Done(@, TRUE)], "finish")
    /\ UNCHANGED <<threads, slots, granted>>

\* Outside the graph an exception reaches the outer handler.
Unhandled(t, poisoned) ==
    /\ \/ /\ tasks[t].phase \in {"resume_failed", "legacy_mark", "legacy_resolve", "legacy_done"}
          /\ Raises(t, poisoned)
       \/ tasks[t].phase \in QueuedPhases /\ "begin" \in FaultAt /\ poisoned
    /\ Goes(t, [tasks[t] EXCEPT !.poisoned = poisoned], "handler")
    /\ UNCHANGED <<runs, threads, slots, granted>>

\* The handler records the failure in a session of its own, which may fail too.
Handler(t) ==
    /\ tasks[t].phase = "handler"
    /\ \/ runs' = [runs EXCEPT ![Run(t)].cells = Failed(@)]
       \/ "handler" \in FaultAt /\ UNCHANGED runs
    /\ Goes(t, tasks[t], "finish")
    /\ UNCHANGED <<threads, slots, granted>>

\* What is left of a task whose session and graph are gone.
Gone(task, phase) ==
    [IdleTask EXCEPT !.phase = phase, !.run = task.run, !.key = task.key,
                     !.payload = task.payload, !.host = task.host]

\* mutant: the slot is given back by the routes only
FinishKeepingSlot(t) ==
    /\ tasks[t].phase = "finish"
    /\ tasks' = [tasks EXCEPT ![t] = Gone(@, "ended")]
    /\ UNCHANGED <<runs, threads, slots, granted>>

\* The `finally' of a resume gives back the slot of the process it runs in:
\* only the API process has taken it.
Finish(t) ==
    /\ tasks[t].phase = "finish"
    /\ tasks' = [tasks EXCEPT ![t] = Gone(@, "ended")]
    /\ slots' = IF t \in Resumes /\ tasks[t].host = "api" THEN slots \ {Run(t)} ELSE slots
    /\ UNCHANGED <<runs, threads, granted>>

Kill(dead) == [t \in Tasks |-> IF t \in dead THEN Gone(tasks[t], "killed") ELSE tasks[t]]

\* A worker dies with a task it has taken: Celery acknowledged it before.
WorkerCrash(t) ==
    /\ MayCrash
    /\ tasks[t].host = "worker" /\ tasks[t].phase \in RunPhases
    /\ tasks' = Kill({t})
    /\ UNCHANGED <<runs, threads, slots, granted>>

\* The API process restarts: its requests and its tasks are gone, the slots empty.
ApiRestart ==
    LET dead == {t \in Tasks : \/ tasks[t].phase \in {"unique", "inserted", "eligible"}
                               \/ tasks[t].host = "api"
                                      /\ tasks[t].phase \in QueuedPhases \cup RunPhases}
    IN  /\ MayCrash
        /\ dead # {} \/ slots # {}
        /\ tasks' = Kill(dead)
        /\ slots' = {}
        /\ UNCHANGED <<runs, threads, granted>>

-----------------------------------------------------------------------------
Start(t) ==
    \/ \E k \in Keys, p \in Payloads : StartRead(t, k, p)
    \/ \E r \in Runs : StartCommit(t, r)

Resume(t) ==
    \/ \E r \in Runs, approve \in BOOLEAN : ResumeCheck(t, r, approve)
    \/ InProgress(t)

Hands(t) == Enqueue(t) \/ RunInProcess(t) \/ EnqueueFails(t)

InGraph(t) ==
    \/ MarkRunning(t) \/ ResolveTargets(t) \/ ProcessItems(t) \/ SaveCheckpoint(t)
    \/ PassGate(t) \/ Park(t) \/ Marker(t) \/ PersistOutcome(t) \/ Clear(t) \/ Return(t)
    \/ \E poisoned \in BOOLEAN : NodeRaises(t, poisoned)

OutOfGraph(t) ==
    \/ FallBack(t) \/ GiveUpResume(t) \/ ResumeFailed(t)
    \/ LegacyMark(t) \/ LegacyItems(t) \/ LegacyDone(t)
    \/ \E poisoned \in BOOLEAN : Unhandled(t, poisoned)
    \/ Handler(t) \/ Finish(t)

Executes(t) == Begin(t) \/ InGraph(t) \/ OutOfGraph(t)

Next ==
    \/ \E t \in Starts : Start(t)
    \/ \E t \in Resumes : Resume(t)
    \/ \E t \in Tasks : Hands(t) \/ Executes(t) \/ WorkerCrash(t)
    \/ ApiRestart

Spec == Init /\ [][Next]_vars

\* A call that has begun is answered, and whoever holds its task goes on with it.
GoesOn(t) == (\E r \in Runs : StartCommit(t, r)) \/ InProgress(t) \/ Hands(t) \/ Executes(t)

Fairness == \A t \in Tasks : WF_vars(GoesOn(t))

FairSpec == Spec /\ Fairness

-----------------------------------------------------------------------------
(* Properties.                                                             *)

\* The types of the table, the store, the slots and the tasks; a retry count
\* beyond the budget is not one of its values.
TypeOK ==
    /\ runs \in [Runs -> Row]
    /\ threads \in [Runs -> Graph \cup {None}]
    /\ slots \subseteq Runs
    /\ tasks \in [Tasks -> Task]
    /\ granted \subseteq Runs

\* A start is answered with a run when its task is handed over, or a row has its key.
Told(t) == tasks[t].phase = "replayed" \/ tasks[t].host # "none"

MadeRuns == {[row |-> r, key |-> runs[r].key, body |-> runs[r].payload] : r \in Made}

AnsweredStarts ==
    {a \in [to: Starts, row: Runs, key: Keys, body: Payloads] :
        /\ Told(a.to) /\ a.key = tasks[a.to].key /\ a.body = tasks[a.to].payload
        /\ a.row \in IF tasks[a.to].phase = "replayed" THEN WithKey(a.key) ELSE {tasks[a.to].run}}

Creations == INSTANCE KeyedCreation WITH
    Requests <- Starts, Rows <- Runs, Bodies <- Payloads,
    made <- MadeRuns, answered <- AnsweredStarts

HandedOverOnce ==
    \A t, u \in Starts :
        t # u /\ tasks[t].host # "none" /\ tasks[u].host # "none" => tasks[t].key # tasks[u].key

\* One key starts one run, once: run_autopilot keeps the promise of KeyedCreation, and
\* two start calls with the same key never both hand a task over.
KeyStartsOnce == Creations!CreationSpec /\ []HandedOverOnce

\* A task that the API process or a worker holds or is about to take.
Active(t) == tasks[t].phase \in QueuedPhases \cup RunPhases

Refused(t) == tasks[t].phase # "in_progress" /\ tasks'[t].phase = "in_progress"

\* routers/autopilot.py:155: a client told "Resume already in progress for this run" is
\* told the truth: a resume of that run is under way at that moment.  It is not so when a
\* worker executes resumes: the API process takes the slot, the worker discards the id
\* from a set of its own, and every later resume of the run is refused.
InProgressIsTrue ==
    [][\A t \in Resumes : Refused(t) => \E u \in Resumes : Active(u) /\ Run(u) = Run(t)]_vars

\* A resume of r that is under way in the API process, or that a worker has been given.
Occupies(u, r) ==
    /\ Run(u) = r
    /\ \/ tasks[u].host = "api" /\ Active(u)
       \/ tasks[u].host = "worker"

\* What is left of that promise wherever resumes are executed: one is refused only because
\* another of its run was accepted, which is under way in the API process, or which a
\* worker has been given.  A resume that ended or died in the API process, or that was
\* answered 503, stands in nobody's way.
RefusedForAResume ==
    [][\A t \in Resumes : Refused(t) => \E u \in Resumes : Occupies(u, Run(t))]_vars

\* config.py:105: "pause after draft generation via langgraph.types.interrupt
\* until resume".  With the gate on a run is done only if its gate was passed
\* with an approval: no crash, no re-entry at a checkpoint and no two tasks
\* executing the run at once let it slip by.  Only a failing store does, since
\* the run is then executed without the graph.
GateIsHonoured ==
    Interrupts => \A r \in Runs : runs[r].cells.status = "done" => r \in granted

\* A run reported as done carries the results of its items, wherever the
\* executing task entered the graph.
DoneReportsItems ==
    \A r \in Runs : runs[r].cells.status = "done" => runs[r].cells.results = "items"

Paused(r) == runs[r].cells.checkpoint # None /\ runs[r].cells.checkpoint.pending

\* What t leaves of its run when its invocation has returned: the run is done or failed,
\* or paused, unless t itself was to resume a paused graph.
Settled(t, r) ==
    \/ runs[r].cells.status \in {"done", "failed"}
    \/ tasks[t].phase = "finish" /\ Paused(r) /\ ~tasks[t].command

\* At most one task of the run is under way.
OneAtATime(r) == \A t, u \in Tasks : Run(t) = r /\ Active(t) /\ Run(u) = r /\ Active(u) => t = u

\* While the tasks of a run come one at a time, each that is handed over settles it: a
\* start, or a resume of a run that crashed, leaves it done, failed or paused at the gate;
\* the resume of a paused run, whose graph LangGraph's store has or has not, done or
\* failed.  Excepted are tasks whose process dies or whose session is spoilt by a database
\* failure.  Where tasks overlap it does not hold: one may write its checkpoint and its
\* graph over the other's.
HandedOverRunSettles ==
    \A r \in Runs : []OneAtATime(r) => \A t \in Tasks :
        (Run(t) = r /\ tasks[t].phase \in QueuedPhases)
            ~> (Settled(t, r) \/ tasks[t].poisoned \/ tasks[t].phase = "killed")

\* What of a task is before it at most: in the graph its nodes, and those again for
\* each retry it has left.  An invocation may enter anywhere.
NodeRank ==
    [mark_running |-> 6, resolve_targets |-> 5, process_items |-> 4, approval_interrupt |-> 3,
     persist_done |-> 2, persist_failed |-> 1, end |-> 0]

PhaseRank == [marker |-> 6, legacy_mark |-> 5, legacy_resolve |-> 4, legacy_done |-> 3,
              resume_failed |-> 3, handler |-> 2, finish |-> 1]

GraphLeft(phase, g) ==
    7 + 16 * (MaxRetries - g.retries) + 2 * NodeRank[g.at] + (IF phase = "node" THEN 1 ELSE 0)

StepsLeft(task) ==
    CASE task.phase \in GraphPhases             -> GraphLeft(task.phase, task.graph)
      [] task.phase \in RunPhases \ GraphPhases -> PhaseRank[task.phase]
      [] task.phase \in QueuedPhases            -> 23 + 16 * MaxRetries
      [] task.phase \in {"inserted", "eligible"} -> 24 + 16 * MaxRetries
      [] task.phase = "unique"                  -> 25 + 16 * MaxRetries
      [] task.phase = "idle"                    -> 26 + 16 * MaxRetries
      [] OTHER                                  -> 0

\* Nothing a task does is repeated without an end, whichever node it entered at, with
\* whatever error and retry count an earlier invocation has left in the store, and
\* whatever others make of its row: each step uses up one that it had left.
StepsAreBounded ==
    [][\A t \in Tasks : /\ StepsLeft(tasks[t])' <= StepsLeft(tasks[t])
                        /\ GoesOn(t) => StepsLeft(tasks[t])' < StepsLeft(tasks[t])]_vars

HandedOver(r) == \E t \in Tasks : Run(t) = r /\ tasks[t].host # "none"

\* No task of the run is under way, and none was killed.
Quiet(r) == \A t \in Tasks : Run(t) = r => ~Active(t) /\ tasks[t].phase # "killed"

\* Without the gate, and while the database does not fail, a run that was handed over
\* and that nobody executes any more is done or failed: however its start and its
\* resumes overlap, none leaves it running because its session saw an old row.
QuietIsSettled ==
    ~Interrupts /\ FaultAt = {} =>
        \A r \in Runs : HandedOver(r) /\ Quiet(r) => runs[r].cells.status \in {"done", "failed"}

-----------------------------------------------------------------------------
(* Why the safety properties hold: the inductive invariant.  It is stated of *)
(* a task, of a graph and of the cells of a row, wherever they are kept.     *)

SavedNodes == {"mark_running", "resolve_targets", "process_items"}
GateAndOn  == {"approval_interrupt", "persist_done"}

\* A graph is past process_items, or would enter past it, only with its items.
GraphReady(g) == g.at \in GateAndOn \/ g.entry \in GateAndOn => g.items

\* So is a checkpoint, and a done run has its results.
CellsReady(c) ==
    /\ c.results # "empty"
    /\ c.status = "done" => c.results = "items"
    /\ c.checkpoint # None =>
           /\ c.checkpoint.entry \in SavedNodes \cup GateAndOn
           /\ c.checkpoint.entry \in GateAndOn => c.checkpoint.items

Unassigned == {"idle", "unique", "replayed", "conflict", "error", "killed", "ended"}

\* Each phase has its nodes, a task its run, and a request holds nothing yet.
TaskReady(task) ==
    /\ task.phase \notin Unassigned => task.run \in Runs
    /\ task.phase \in RequestPhases =>
           task.host = "none" /\ task.seen = NewCells /\ task.graph = NewGraph
    /\ task.phase = "save" => /\ task.graph.at \in SavedNodes
                              /\ task.graph.at = "process_items" => task.graph.items
    /\ task.phase = "marker" => task.graph.at = "approval_interrupt"
    /\ task.phase = "clear" => task.graph.at \in {"persist_done", "persist_failed"}
    /\ GraphReady(task.graph)
    /\ CellsReady(task.seen)

\* Results, once written, stay: what a session saw of them is still there.
ReadyInv ==
    /\ \A r \in Runs : CellsReady(runs[r].cells) /\ (threads[r] # None => GraphReady(threads[r]))
    /\ \A t \in Tasks :
           /\ TaskReady(tasks[t])
           /\ tasks[t].seen.results = "items" => /\ Run(t) \in Runs
                                                 /\ runs[Run(t)].cells.results = "items"

\* A start that has inserted its row, whatever became of it afterwards.
Owns(t) == tasks[t].phase = "inserted" \/ tasks[t].host # "none"

\* It has a row of its own with its key; starts and resumes are not confused.
KeyInv ==
    /\ \A r, q \in Made : runs[r].key = runs[q].key => r = q
    /\ \A t \in Starts : /\ tasks[t].phase # "eligible"
                         /\ tasks[t].phase = "unique" => tasks[t].key # None
    /\ \A t \in Starts : Owns(t) =>
           Run(t) \in Made /\ runs[Run(t)].key = tasks[t].key /\ tasks[t].key # None
    /\ \A t, u \in Starts : t # u /\ Owns(t) /\ Owns(u) => Run(t) # Run(u)

\* A row is made of what its start asks for, and a replayed start asks for its key's row.
BodyInv ==
    /\ \A r \in Made : runs[r].payload # None
    /\ \A t \in Starts :
           /\ tasks[t].phase = "unique" => tasks[t].payload # None
           /\ Owns(t) => runs[Run(t)].payload = tasks[t].payload
           /\ tasks[t].phase = "replayed" =>
                  \E r \in Made : runs[r].key = tasks[t].key /\ runs[r].payload = tasks[t].payload

\* With the gate on, done is reached through it alone: no graph is at
\* persist_done, and no cells say done, unless the gate was passed; nothing
\* re-enters behind it; and a task that left the graph has a spoilt session.
GraphGated(r, g) == (g.at = "persist_done" => r \in granted) /\ g.entry # "persist_done"

CellsGated(r, c) ==
    /\ c.status = "done" => r \in granted
    /\ c.checkpoint # None => c.checkpoint.entry # "persist_done"

GateInv ==
    Interrupts /\ ~StoreFails =>
        /\ \A r \in Runs : /\ CellsGated(r, runs[r].cells)
                           /\ threads[r] # None => GraphGated(r, threads[r])
        /\ \A t \in Tasks :
               /\ GraphGated(Run(t), tasks[t].graph)
               /\ CellsGated(Run(t), tasks[t].seen)
               /\ tasks[t].phase \in {"legacy_mark", "legacy_resolve", "legacy_done"}
                      => tasks[t].poisoned

RunInv == TypeOK /\ ReadyInv /\ KeyInv /\ GateInv

\* A slot is taken for as long as a resume of its run is under way in the API process,
\* and for good once a worker has been given one.
SlotInv == \A r \in slots : \E u \in Resumes : Occupies(u, r)
=============================================================================
