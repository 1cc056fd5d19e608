--------------------------- MODULE AutopilotProofs ---------------------------
(* Theorems about Autopilot, for any number of runs, calls and retries.     *)
EXTENDS Autopilot, TLAPS

-----------------------------------------------------------------------------
(* Types.                                                                  *)

LEMMA NewTypes == NewCells \in Cells /\ NewGraph \in Graph /\ IdleTask \in Task
<1>1. NewCells \in Cells
  BY DEF NewCells, Cells, Statuses
<1>2. NewGraph \in Graph
  BY ConfigAssumption DEF NewGraph, Graph, Nodes
<1>. QED  BY <1>1, <1>2 DEF IdleTask, Task, Phases, RequestPhases

LEMMA FlushType ==
    ASSUME NEW stored \in Cells, NEW seen \in Cells, NEW new \in Cells
    PROVE  Flush(stored, seen, new) \in Cells
  BY DEF Flush, Written, Cells

\* The cells that the tasks commit.
LEMMA CellsTypes ==
    ASSUME NEW c \in Cells
    PROVE  /\ Running(c) \in Cells /\ Failed(c) \in Cells
           /\ \A items \in BOOLEAN : Done(c, items) \in Cells
           /\ \A ck \in Checkpoint \cup {None} : [c EXCEPT !.checkpoint = ck] \in Cells
  BY DEF Running, Failed, Done, Cells, Statuses

Errors == {"none", "fatal", "resolve_targets", "process_items"}

LEMMA RouteType ==
    \A node \in Nodes : Route(node) \in Nodes \cup {"end"}
  BY DEF Route, Nodes

LEMMA AfterType ==
    ASSUME NEW g \in Graph, g.at \in Nodes
    PROVE  After(g) \in Graph
<1>1. CASE g.error = "none" \/ g.at = "persist_failed"
  BY <1>1, RouteType DEF After, Graph
<1>2. CASE ~(g.error = "none" \/ g.at = "persist_failed") /\ CanRetry(g)
  <2>1. /\ g.error \in {"resolve_targets", "process_items"} /\ g.retries + 1 \in 0..MaxRetries
    BY <1>2, ConfigAssumption DEF CanRetry, Graph
  <2>2. Retried(g) \in Graph
    BY <2>1 DEF Retried, Graph, Nodes
  <2>. QED  BY <1>2, <2>2 DEF After, Graph, Nodes
<1>3. CASE ~(g.error = "none" \/ g.at = "persist_failed") /\ ~CanRetry(g)
  BY <1>3 DEF After, Graph, Nodes
<1>. QED  BY <1>1, <1>2, <1>3

LEMMA EnteredType ==
    ASSUME NEW cells \in Cells, NEW thread \in Graph \cup {None}
    PROVE  Entered(cells, thread) \in Graph
<1> DEFINE ck  == IF Checkpointing THEN cells.checkpoint ELSE None
           old == IF Interrupts /\ thread # None THEN thread ELSE NewGraph
<1>1. ck \in Checkpoint \cup {None} /\ old \in Graph
  BY NewTypes DEF Cells
<1> HIDE DEF ck, old
<1>2. [old EXCEPT !.at = old.entry, !.retries = 0] \in Graph
  <2>1. 0 \in 0..MaxRetries
    BY ConfigAssumption
  <2>. QED  BY <1>1, <2>1 DEF Graph
<1>3. ck # None => [old EXCEPT !.at = ck.entry, !.entry = ck.entry, !.retries = ck.retries,
                               !.items = ck.items \/ @] \in Graph
  BY <1>1 DEF Graph, Checkpoint
<1>. QED  BY <1>2, <1>3 DEF Entered, ck, old

-----------------------------------------------------------------------------
(* Readiness and gating of graphs and cells.                               *)

GateOn == Interrupts /\ ~StoreFails

LEMMA NewReady == GraphReady(NewGraph) /\ CellsReady(NewCells)
  BY DEF GraphReady, NewGraph, GateAndOn, CellsReady, NewCells

LEMMA NewGated == \A r : GraphGated(r, NewGraph) /\ CellsGated(r, NewCells)
  BY DEF GraphGated, NewGraph, CellsGated, NewCells

\* What After may do to a graph.
LEMMA AfterCases ==
    ASSUME NEW g \in Graph, g.at \in Nodes
    PROVE  /\ After(g).entry = g.entry /\ After(g).items = g.items
           /\ \/ g.error = "none" /\ After(g).at = Route(g.at)
              \/ g.at = "persist_failed" /\ After(g).at = "end"
              \/ After(g).at \in {"persist_failed", "resolve_targets", "process_items"}
<1>1. CASE g.error = "none" \/ g.at = "persist_failed"
  BY <1>1 DEF After, Graph, Route
<1>2. CASE ~(g.error = "none" \/ g.at = "persist_failed") /\ CanRetry(g)
  <2>1. g.error \in {"resolve_targets", "process_items"}
    BY <1>2 DEF CanRetry, Graph
  <2>2. /\ Retried(g).at = g.error /\ Retried(g).entry = g.entry /\ Retried(g).items = g.items
    BY DEF Retried, Graph
  <2>3. [g EXCEPT !.at = "persist_failed"].at = "persist_failed"
        /\ [g EXCEPT !.at = "persist_failed"].entry = g.entry
        /\ [g EXCEPT !.at = "persist_failed"].items = g.items
    BY DEF Graph
  <2>. QED  BY <1>2, <2>1, <2>2, <2>3 DEF After
<1>3. CASE ~(g.error = "none" \/ g.at = "persist_failed") /\ ~CanRetry(g)
  BY <1>3 DEF After, Graph
<1>. QED  BY <1>1, <1>2, <1>3

LEMMA AfterReady ==
    ASSUME NEW g \in Graph, g.at \in Nodes, GraphReady(g),
           g.at = "process_items" /\ g.error = "none" => g.items
    PROVE  GraphReady(After(g))
  BY AfterCases DEF GraphReady, Route, GateAndOn

LEMMA AfterGated ==
    ASSUME NEW g \in Graph, g.at \in Nodes, NEW r, GraphGated(r, g), Interrupts,
           g.at = "approval_interrupt" /\ g.error = "none" => r \in granted
    PROVE  GraphGated(r, After(g))
  BY AfterCases DEF GraphGated, Route

LEMMA EnteredReady ==
    ASSUME NEW cells \in Cells, NEW thread \in Graph \cup {None},
           CellsReady(cells), thread # None => GraphReady(thread)
    PROVE  /\ GraphReady(Entered(cells, thread))
           /\ \A r : /\ thread # None => GraphGated(r, thread)
                     /\ CellsGated(r, cells)
                     => GraphGated(r, Entered(cells, thread))
<1> DEFINE ck  == IF Checkpointing THEN cells.checkpoint ELSE None
           old == IF Interrupts /\ thread # None THEN thread ELSE NewGraph
           e0  == [old EXCEPT !.at = old.entry, !.retries = 0]
           e1  == [old EXCEPT !.at = ck.entry, !.entry = ck.entry, !.retries = ck.retries,
                              !.items = ck.items \/ @]
<1>1. /\ ck \in Checkpoint \cup {None} /\ old \in Graph
      /\ GraphReady(old)
      /\ ck # None => (ck.entry \in GateAndOn => ck.items)
      /\ \A r : /\ thread # None => GraphGated(r, thread)
                /\ CellsGated(r, cells)
                => /\ old.entry # "persist_done"
                   /\ ck # None => ck.entry # "persist_done"
  BY NewTypes, NewReady DEF Cells, CellsReady, CellsGated, GraphGated, NewGraph
<1>2. Entered(cells, thread) = IF ck = None THEN e0 ELSE e1
  BY DEF Entered
<1> HIDE DEF ck, old
<1>3. e0.at = old.entry /\ e0.entry = old.entry /\ e0.items = old.items
  BY <1>1 DEF Graph
<1>4. ck # None => e1.at = ck.entry /\ e1.entry = ck.entry /\ e1.items = (ck.items \/ old.items)
  BY <1>1 DEF Graph, Checkpoint
<1> HIDE DEF e0, e1
<1>. QED  BY <1>1, <1>2, <1>3, <1>4 DEF GraphReady, GraphGated

\* A commit of ready cells by a session that has seen no more results than
\* there are leaves ready cells, and no results are lost.
LEMMA FlushReady ==
    ASSUME NEW stored \in Cells, NEW seen \in Cells, NEW new \in Cells,
           CellsReady(stored), CellsReady(seen), CellsReady(new),
           seen.results = "items" => stored.results = "items" /\ new.results = "items"
    PROVE  /\ CellsReady(Flush(stored, seen, new))
           /\ stored.results = "items" \/ new.results = "items"
                  => Flush(stored, seen, new).results = "items"
           /\ \A r : CellsGated(r, stored) /\ CellsGated(r, new)
                  => CellsGated(r, Flush(stored, seen, new))
<1> DEFINE f == Flush(stored, seen, new)
<1>1. /\ f.status = Written(seen.status, new.status, stored.status)
      /\ f.results = Written(seen.results, new.results, stored.results)
      /\ f.checkpoint = Written(seen.checkpoint, new.checkpoint, stored.checkpoint)
  BY DEF Flush
<1> HIDE DEF f
<1>2. /\ stored.results \in {"null", "items"} /\ seen.results \in {"null", "items"}
      /\ new.results \in {"null", "items"}
  BY DEF Cells, CellsReady
<1>3. /\ f.results \in {"null", "items"}
      /\ stored.results = "items" \/ new.results = "items" => f.results = "items"
  BY <1>1, <1>2 DEF Written
<1>4. f.status \in {stored.status, new.status} /\ f.checkpoint \in {stored.checkpoint, new.checkpoint}
  BY <1>1 DEF Written
<1>5. CellsReady(f)
  BY <1>3, <1>4 DEF CellsReady
<1>6. \A r : CellsGated(r, stored) /\ CellsGated(r, new) => CellsGated(r, f)
  BY <1>4 DEF CellsGated
<1>. QED  BY <1>3, <1>5, <1>6 DEF f

\* The cells that a task may commit: ready, no results dropped, and gated if
\* those it saw were.
LEMMA CommittedCells ==
    ASSUME NEW c \in Cells, CellsReady(c)
    PROVE  /\ CellsReady(Running(c)) /\ Running(c).results = c.results
           /\ CellsReady(Failed(c)) /\ Failed(c).results = c.results
           /\ CellsReady(Done(c, TRUE)) /\ Done(c, TRUE).results = "items"
           /\ \A ck \in Checkpoint \cup {None} :
                  (ck # None => /\ ck.entry \in SavedNodes \cup GateAndOn
                                /\ ck.entry \in GateAndOn => ck.items)
                      => /\ CellsReady([c EXCEPT !.checkpoint = ck])
                         /\ [c EXCEPT !.checkpoint = ck].results = c.results
           /\ \A r : CellsGated(r, c) =>
                  /\ CellsGated(r, Running(c)) /\ CellsGated(r, Failed(c))
                  /\ r \in granted => CellsGated(r, Done(c, TRUE))
                  /\ \A ck : (ck # None => ck.entry # "persist_done")
                                 => CellsGated(r, [c EXCEPT !.checkpoint = ck])
  BY DEF Cells, CellsReady, CellsGated, Running, Failed, Done

-----------------------------------------------------------------------------
(* One step of the task that executes a run.                               *)

Executing(t) == tasks[t].phase \in QueuedPhases \cup RunPhases

\* What every such step does to the tasks: t stays who it is and is ready.
MovedOn(t) ==
    /\ tasks' \in [Tasks -> Task]
    /\ \A u \in Tasks \ {t} : tasks'[u] = tasks[u]
    /\ tasks'[t].run = tasks[t].run /\ tasks'[t].key = tasks[t].key
    /\ tasks'[t].host = tasks[t].host /\ tasks'[t].payload = tasks[t].payload
    /\ tasks'[t].phase \in RunPhases
    /\ TaskReady(tasks'[t])

\* The store is left alone or gets the graph that t now has.
Stored(t) == threads' \in {threads, [threads EXCEPT ![Run(t)] = tasks'[t].graph]}

\* The cells `new' are fit to be committed by t.
Fit(t, new) ==
    /\ new \in Cells
    /\ CellsReady(new)
    /\ tasks[t].seen.results = "items" => new.results = "items"
    /\ GateOn => CellsGated(Run(t), new)

\* The row: left alone, and perhaps loaded; committed by the session of t, and
\* perhaps reloaded; or marked as failed in a session of its own.
RowStep(t) ==
    \/ runs' = runs /\ tasks'[t].seen \in {tasks[t].seen, runs[Run(t)].cells}
    \/ \E new : /\ Fit(t, new)
                /\ runs' = [runs EXCEPT ![Run(t)].cells = Flush(@, tasks[t].seen, new)]
                /\ tasks'[t].seen \in {new, runs'[Run(t)].cells}
    \/ runs' = [runs EXCEPT ![Run(t)].cells = Failed(@)] /\ tasks'[t].seen = tasks[t].seen

\* With the gate on t stays behind it.
Gated(t) ==
    GateOn => /\ GraphGated(Run(t), tasks[t].graph)'
              /\ tasks'[t].phase \in {"legacy_mark", "legacy_resolve", "legacy_done"}
                     => tasks'[t].poisoned

Step(t) ==
    /\ MovedOn(t) /\ Stored(t) /\ RowStep(t) /\ Gated(t)
    /\ slots' = slots
    /\ granted \subseteq granted' /\ granted' \subseteq granted \cup {Run(t)}

LEMMA ExecutingFacts ==
    ASSUME RunInv, NEW t \in Tasks, Executing(t)
    PROVE  /\ Run(t) \in Runs
           /\ tasks[t] \in Task /\ TaskReady(tasks[t])
           /\ tasks[t].seen \in Cells /\ CellsReady(tasks[t].seen)
           /\ tasks[t].graph \in Graph /\ GraphReady(tasks[t].graph)
           /\ runs[Run(t)].cells \in Cells /\ CellsReady(runs[Run(t)].cells)
           /\ threads[Run(t)] \in Graph \cup {None}
           /\ threads[Run(t)] # None => GraphReady(threads[Run(t)])
           /\ GateOn => /\ GraphGated(Run(t), tasks[t].graph)
                        /\ CellsGated(Run(t), tasks[t].seen)
                        /\ CellsGated(Run(t), runs[Run(t)].cells)
                        /\ threads[Run(t)] # None => GraphGated(Run(t), threads[Run(t)])
<1>1. tasks[t] \in Task /\ TaskReady(tasks[t])
  BY DEF RunInv, TypeOK, ReadyInv
<1>2. Run(t) \in Runs
  BY <1>1 DEF TaskReady, Executing, QueuedPhases, RunPhases, GraphPhases, Unassigned, Run
<1>. QED
  BY <1>1, <1>2 DEF RunInv, TypeOK, ReadyInv, GateInv, GateOn, TaskReady, Task, Row, Run

\* A record that t may go on with, and the phases it may go on to.
Fits(t, task) ==
    /\ task \in Task
    /\ task.run = tasks[t].run /\ task.key = tasks[t].key /\ task.host = tasks[t].host
    /\ task.payload = tasks[t].payload
    /\ GraphReady(task.graph) /\ CellsReady(task.seen)
    /\ GateOn => /\ task.graph.at = "persist_done" => Run(t) \in granted'
                 /\ task.graph.entry # "persist_done"

PhaseFits(phase, task) ==
    /\ phase \in RunPhases
    /\ phase = "save" => /\ task.graph.at \in SavedNodes
                         /\ task.graph.at = "process_items" => task.graph.items
    /\ phase = "marker" => task.graph.at = "approval_interrupt"
    /\ phase = "clear" => task.graph.at \in {"persist_done", "persist_failed"}
    /\ GateOn /\ phase \in {"legacy_mark", "legacy_resolve", "legacy_done"} => task.poisoned

LEMMA RunPhaseFacts ==
    /\ RunPhases \subseteq Phases
    /\ \A phase \in RunPhases : phase \notin RequestPhases
  BY DEF Phases, RunPhases, GraphPhases, RequestPhases

LEMMA GoesStep ==
    ASSUME RunInv, NEW t \in Tasks, Executing(t), NEW task, Fits(t, task),
           NEW phase, PhaseFits(phase, task), Goes(t, task, phase)
    PROVE  /\ MovedOn(t) /\ Gated(t)
           /\ tasks'[t].graph = task.graph /\ tasks'[t].seen = task.seen
<1> DEFINE n == [task EXCEPT !.phase = phase]
<1>1. /\ n \in Task /\ n.phase = phase /\ n.run = task.run /\ n.key = task.key
      /\ n.host = task.host /\ n.payload = task.payload /\ n.graph = task.graph /\ n.seen = task.seen
      /\ n.poisoned = task.poisoned
  BY RunPhaseFacts DEF Fits, PhaseFits, Task
<1>2. tasks' = [tasks EXCEPT ![t] = n]
  BY DEF Goes
<1> HIDE DEF n
<1>3. tasks \in [Tasks -> Task] /\ Run(t) \in Runs
  BY ExecutingFacts DEF RunInv, TypeOK
<1>4. /\ tasks' \in [Tasks -> Task] /\ tasks'[t] = n
      /\ \A u \in Tasks \ {t} : tasks'[u] = tasks[u]
  BY <1>1, <1>2, <1>3
<1>5. TaskReady(n)
  BY <1>1, <1>3, RunPhaseFacts DEF TaskReady, Fits, PhaseFits, Run
<1>6. Gated(t)
  BY <1>1, <1>4 DEF Gated, Fits, PhaseFits, GraphGated, Run
<1>. QED  BY <1>1, <1>4, <1>5, <1>6 DEF MovedOn, Fits, PhaseFits

LEMMA SuperstepStep ==
    ASSUME RunInv, NEW t \in Tasks, Executing(t), NEW task, Fits(t, task), Superstep(t, task)
    PROVE  /\ MovedOn(t) /\ Gated(t) /\ Stored(t)
           /\ tasks'[t].seen = task.seen
<1> DEFINE n == [task EXCEPT !.answer = FALSE]
<1>1. /\ n \in Task /\ n.run = task.run /\ n.key = task.key
      /\ n.host = task.host /\ n.payload = task.payload /\ n.graph = task.graph /\ n.seen = task.seen
      /\ n.poisoned = task.poisoned
  BY DEF Fits, Task
<1>2. Goes(t, n, "node")
  BY DEF Superstep
<1>3. threads' \in {threads, [threads EXCEPT ![Run(t)] = task.graph]}
  BY DEF Superstep, Fits, Run
<1> HIDE DEF n
<1>4. Fits(t, n) /\ PhaseFits("node", n)
  BY <1>1 DEF Fits, PhaseFits, RunPhases, GraphPhases
<1>. QED  BY <1>1, <1>2, <1>3, <1>4, GoesStep DEF Stored

LEMMA NodeEndsStep ==
    ASSUME RunInv, NEW t \in Tasks, Executing(t), NEW task, Fits(t, task),
           task.graph.at \in SavedNodes, task.graph.at = "process_items" => task.graph.items,
           NodeEnds(t, task)
    PROVE  /\ MovedOn(t) /\ Gated(t) /\ Stored(t)
           /\ tasks'[t].seen = task.seen
<1>1. CASE Checkpointing
  <2>1. Goes(t, task, "save") /\ UNCHANGED threads
    BY <1>1 DEF NodeEnds
  <2>2. PhaseFits("save", task)
    BY DEF PhaseFits, RunPhases, GraphPhases
  <2>. QED  BY <2>1, <2>2, GoesStep DEF Stored
<1>2. CASE ~Checkpointing
  <2> DEFINE n == [task EXCEPT !.graph = After(@)]
  <2>1. /\ task.graph \in Graph /\ task.graph.at \in Nodes /\ After(task.graph) \in Graph
        /\ GraphReady(After(task.graph))
    BY AfterType, AfterReady DEF Fits, Task, SavedNodes, Nodes
  <2>2. GateOn => After(task.graph).at # "persist_done" /\ After(task.graph).entry # "persist_done"
    BY <2>1, AfterCases DEF Fits, SavedNodes, Route, GateOn
  <2>3. /\ n \in Task /\ n.run = task.run /\ n.key = task.key
        /\ n.host = task.host /\ n.payload = task.payload /\ n.graph = After(task.graph) /\ n.seen = task.seen
    BY <2>1 DEF Fits, Task
  <2>4. Superstep(t, n)
    BY <1>2 DEF NodeEnds
  <2> HIDE DEF n
  <2>5. Fits(t, n)
    BY <2>1, <2>2, <2>3 DEF Fits
  <2>. QED  BY <2>3, <2>4, <2>5, SuperstepStep
<1>. QED  BY <1>1, <1>2

-----------------------------------------------------------------------------
(* The steps of an executing task, one lemma per group of actions.         *)

\* t as it is fits, and so does t with other cells or another session state.
LEMMA FitsSelf ==
    ASSUME RunInv, NEW t \in Tasks, Executing(t), granted \subseteq granted'
    PROVE  /\ Fits(t, tasks[t])
           /\ \A b \in BOOLEAN : /\ Fits(t, [tasks[t] EXCEPT !.poisoned = b])
                                 /\ [tasks[t] EXCEPT !.poisoned = b].graph = tasks[t].graph
                                 /\ [tasks[t] EXCEPT !.poisoned = b].seen = tasks[t].seen
                                 /\ [tasks[t] EXCEPT !.poisoned = b].poisoned = b
           /\ \A new \in Cells : CellsReady(new) =>
                  /\ Fits(t, [tasks[t] EXCEPT !.seen = new])
                  /\ [tasks[t] EXCEPT !.seen = new].graph = tasks[t].graph
                  /\ [tasks[t] EXCEPT !.seen = new].seen = new
                  /\ [tasks[t] EXCEPT !.seen = new].poisoned = tasks[t].poisoned
<1>1. /\ tasks[t] \in Task /\ TaskReady(tasks[t])
      /\ GraphReady(tasks[t].graph) /\ CellsReady(tasks[t].seen)
      /\ GateOn => GraphGated(Run(t), tasks[t].graph)
  BY ExecutingFacts
<1>. QED  BY <1>1 DEF Fits, Task, GraphGated

\* Committed by the session of t: what is then in the row is ready too.
LEMMA CommitReady ==
    ASSUME RunInv, NEW t \in Tasks, Executing(t), NEW new, Fit(t, new), Commit(t, new)
    PROVE  /\ runs' = [runs EXCEPT ![Run(t)].cells = Flush(@, tasks[t].seen, new)]
           /\ runs'[Run(t)].cells = Flush(runs[Run(t)].cells, tasks[t].seen, new)
           /\ runs'[Run(t)].cells \in Cells /\ CellsReady(runs'[Run(t)].cells)
           /\ ~tasks[t].poisoned
<1>1. /\ Run(t) \in Runs /\ runs[Run(t)] \in Row
      /\ runs[Run(t)].cells \in Cells /\ CellsReady(runs[Run(t)].cells)
      /\ tasks[t].seen \in Cells /\ CellsReady(tasks[t].seen)
  BY ExecutingFacts DEF RunInv, TypeOK
<1>2. runs'[Run(t)].cells = Flush(runs[Run(t)].cells, tasks[t].seen, new)
  BY <1>1 DEF Commit, RunInv, TypeOK, Row
<1>3. tasks[t].seen.results = "items" => runs[Run(t)].cells.results = "items" /\ new.results = "items"
  BY DEF RunInv, ReadyInv, Fit
<1>4. new \in Cells /\ CellsReady(new)
  BY DEF Fit
<1>5. /\ Flush(runs[Run(t)].cells, tasks[t].seen, new) \in Cells
      /\ CellsReady(Flush(runs[Run(t)].cells, tasks[t].seen, new))
  BY <1>1, <1>3, <1>4, FlushType, FlushReady
<1>6. /\ runs' = [runs EXCEPT ![Run(t)].cells = Flush(@, tasks[t].seen, new)]
      /\ ~tasks[t].poisoned
  BY DEF Commit
<1>. QED  BY <1>2, <1>5, <1>6

LEMMA BeginStep ==
    ASSUME RunInv, NEW t \in Tasks, Begin(t)
    PROVE  Step(t)
<1> DEFINE cells  == runs[Run(t)].cells
           thread == threads[Run(t)]
           paused == LangGraph /\ cells.checkpoint # None /\ cells.checkpoint.pending
           task   == [tasks[t] EXCEPT !.seen = cells, !.command = paused, !.answer = paused]
<1>1. Executing(t) /\ UNCHANGED <<runs, threads, slots, granted>>
  BY DEF Begin, Executing
<1>2. /\ tasks[t] \in Task /\ cells \in Cells /\ CellsReady(cells)
      /\ GraphReady(tasks[t].graph) /\ thread \in Graph \cup {None}
      /\ thread # None => GraphReady(thread)
      /\ GateOn => /\ GraphGated(Run(t), tasks[t].graph) /\ CellsGated(Run(t), cells)
                   /\ thread # None => GraphGated(Run(t), thread)
  BY <1>1, ExecutingFacts
<1>3. paused \in BOOLEAN
  BY <1>2 DEF Cells, Checkpoint
<1>4. \/ ~LangGraph /\ Goes(t, task, "legacy_mark")
      \/ Goes(t, [task EXCEPT !.graph = Entered(cells, thread)], "node")
      \/ thread # None /\ Goes(t, [task EXCEPT !.graph = thread], "node")
      \/ Goes(t, task, "resume_failed")
  BY DEF Begin
<1> HIDE DEF paused
<1>5. /\ task \in Task /\ task.run = tasks[t].run /\ task.key = tasks[t].key
      /\ task.host = tasks[t].host /\ task.payload = tasks[t].payload
      /\ task.graph = tasks[t].graph /\ task.seen = cells
  BY <1>2, <1>3 DEF Task
<1> HIDE DEF task
<1>6. Fits(t, task)
  BY <1>1, <1>2, <1>5 DEF Fits, GraphGated
<1>7. ASSUME NEW g \in Graph, GraphReady(g), GateOn => GraphGated(Run(t), g)
      PROVE  Fits(t, [task EXCEPT !.graph = g]) /\ [task EXCEPT !.graph = g].seen = cells
  <2>1. /\ [task EXCEPT !.graph = g] \in Task
        /\ [task EXCEPT !.graph = g].run = task.run /\ [task EXCEPT !.graph = g].key = task.key
        /\ [task EXCEPT !.graph = g].host = task.host
        /\ [task EXCEPT !.graph = g].payload = task.payload
        /\ [task EXCEPT !.graph = g].seen = task.seen
        /\ [task EXCEPT !.graph = g].graph = g
    BY <1>5, <1>7 DEF Task
  <2>. QED  BY <1>1, <1>2, <1>5, <1>7, <2>1 DEF Fits, GraphGated
<1> HIDE DEF cells, thread
<1>8. ASSUME NEW next, NEW phase, Fits(t, next), next.seen = cells, PhaseFits(phase, next),
             Goes(t, next, phase)
      PROVE  Step(t)
  BY <1>1, <1>8, GoesStep DEF Step, Stored, RowStep, cells
<1>9. CASE ~LangGraph /\ Goes(t, task, "legacy_mark")
  <2>1. PhaseFits("legacy_mark", task)
    BY <1>9, ConfigAssumption DEF PhaseFits, RunPhases, GateOn
  <2>. QED  BY <1>5, <1>6, <1>8, <1>9, <2>1
<1>10. CASE Goes(t, task, "resume_failed")
  <2>1. PhaseFits("resume_failed", task)
    BY DEF PhaseFits, RunPhases
  <2>. QED  BY <1>5, <1>6, <1>8, <1>10, <2>1
<1>11. ASSUME NEW g \in Graph, GraphReady(g), GateOn => GraphGated(Run(t), g),
              Goes(t, [task EXCEPT !.graph = g], "node")
       PROVE  Step(t)
  <2>1. PhaseFits("node", [task EXCEPT !.graph = g])
    BY DEF PhaseFits, RunPhases, GraphPhases
  <2>. QED  BY <1>7, <1>8, <1>11, <2>1
<1>12. /\ Entered(cells, thread) \in Graph /\ GraphReady(Entered(cells, thread))
       /\ GateOn => GraphGated(Run(t), Entered(cells, thread))
  BY <1>2, EnteredType, EnteredReady
<1>. QED  BY <1>2, <1>4, <1>9, <1>10, <1>11, <1>12

\* t has committed `new' and goes on with it, or with what is then in the row.
LEMMA CommitStep ==
    ASSUME RunInv, NEW t \in Tasks, Executing(t), NEW new, Fit(t, new), Commit(t, new),
           MovedOn(t), Stored(t), Gated(t), tasks'[t].seen \in {new, runs'[Run(t)].cells},
           UNCHANGED <<slots, granted>>
    PROVE  Step(t)
  BY CommitReady DEF Step, RowStep

LEMMA OutcomesFit ==
    ASSUME RunInv, NEW t \in Tasks, Executing(t)
    PROVE  /\ Fit(t, Running(tasks[t].seen)) /\ Fit(t, Failed(tasks[t].seen))
           /\ (GateOn => Run(t) \in granted) => Fit(t, Done(tasks[t].seen, TRUE))
           /\ \A ck \in Checkpoint \cup {None} :
                  (ck # None => /\ ck.entry \in SavedNodes \cup GateAndOn
                                /\ ck.entry \in GateAndOn => ck.items
                                /\ GateOn => ck.entry # "persist_done")
                      => Fit(t, [tasks[t].seen EXCEPT !.checkpoint = ck])
<1>1. /\ tasks[t].seen \in Cells /\ CellsReady(tasks[t].seen)
      /\ GateOn => CellsGated(Run(t), tasks[t].seen)
  BY ExecutingFacts
<1> DEFINE seen == tasks[t].seen
<1> HIDE DEF seen
<1>2. seen \in Cells /\ CellsReady(seen) /\ (GateOn => CellsGated(Run(t), seen))
  BY <1>1 DEF seen
<1>3. Fit(t, Running(seen)) /\ Fit(t, Failed(seen))
  BY <1>2, CellsTypes, CommittedCells DEF Fit, seen
<1>4. (GateOn => Run(t) \in granted) => Fit(t, Done(seen, TRUE))
  BY <1>2, CellsTypes, CommittedCells DEF Fit, seen
<1>5. ASSUME NEW ck \in Checkpoint \cup {None},
             ck # None => /\ ck.entry \in SavedNodes \cup GateAndOn
                          /\ ck.entry \in GateAndOn => ck.items
                          /\ GateOn => ck.entry # "persist_done"
      PROVE  Fit(t, [seen EXCEPT !.checkpoint = ck])
  <2>1. [seen EXCEPT !.checkpoint = ck] \in Cells
    BY <1>2, CellsTypes
  <2>2. /\ CellsReady([seen EXCEPT !.checkpoint = ck])
        /\ [seen EXCEPT !.checkpoint = ck].results = seen.results
        /\ GateOn => CellsGated(Run(t), [seen EXCEPT !.checkpoint = ck])
    BY <1>2, <1>5, CommittedCells
  <2>. QED  BY <2>1, <2>2 DEF Fit, seen
<1>. QED  BY <1>3, <1>4, <1>5 DEF seen

LEMMA MarkRunningStep ==
    ASSUME RunInv, NEW t \in Tasks, MarkRunning(t)
    PROVE  Step(t)
<1>1. /\ Executing(t) /\ UNCHANGED <<slots, granted>>
      /\ tasks[t].graph.at = "mark_running" /\ Commit(t, Running(tasks[t].seen))
  BY DEF MarkRunning, Node, Executing, RunPhases, GraphPhases
<1> DEFINE cells == runs'[Run(t)].cells
           task  == [tasks[t] EXCEPT !.seen = cells]
<1>2. Fit(t, Running(tasks[t].seen))
  BY <1>1, OutcomesFit
<1>3. cells \in Cells /\ CellsReady(cells)
  BY <1>1, <1>2, CommitReady
<1>4. NodeEnds(t, task)
  BY DEF MarkRunning
<1>5. Fits(t, task) /\ task.graph = tasks[t].graph /\ task.seen = cells
  <2> HIDE DEF cells
  <2>. QED  BY <1>1, <1>3, FitsSelf
<1> HIDE DEF task
<1>6. MovedOn(t) /\ Gated(t) /\ Stored(t) /\ tasks'[t].seen = cells
  BY <1>1, <1>4, <1>5, NodeEndsStep DEF SavedNodes
<1>. QED  BY <1>1, <1>2, <1>6, CommitStep

LEMMA ResolveStep ==
    ASSUME RunInv, NEW t \in Tasks, ResolveTargets(t)
    PROVE  Step(t)
<1>1. /\ Executing(t) /\ UNCHANGED <<runs, slots, granted>>
      /\ tasks[t].graph.at = "resolve_targets" /\ NodeEnds(t, tasks[t])
  BY DEF ResolveTargets, Node, Executing, RunPhases, GraphPhases
<1>2. MovedOn(t) /\ Gated(t) /\ Stored(t) /\ tasks'[t].seen = tasks[t].seen
  BY <1>1, FitsSelf, NodeEndsStep DEF SavedNodes
<1>. QED  BY <1>1, <1>2 DEF Step, RowStep

LEMMA ItemsStep ==
    ASSUME RunInv, NEW t \in Tasks, ProcessItems(t)
    PROVE  Step(t)
<1>1. /\ Executing(t) /\ UNCHANGED <<runs, slots, granted>>
      /\ tasks[t].graph.at = "process_items"
  BY DEF ProcessItems, Node, Executing, RunPhases, GraphPhases
<1>2. PICK poisoned : /\ poisoned \in BOOLEAN
                      /\ NodeEnds(t, [tasks[t] EXCEPT !.graph.items = TRUE, !.poisoned = poisoned])
  BY <1>1, ExecutingFacts DEF ProcessItems, AfterItems, Task
<1> DEFINE task == [tasks[t] EXCEPT !.graph.items = TRUE, !.poisoned = poisoned]
           g    == [tasks[t].graph EXCEPT !.items = TRUE]
<1>3. /\ tasks[t] \in Task /\ tasks[t].graph \in Graph
      /\ GraphReady(tasks[t].graph) /\ CellsReady(tasks[t].seen)
      /\ GateOn => GraphGated(Run(t), tasks[t].graph)
  BY <1>1, ExecutingFacts
<1>4. /\ g \in Graph /\ g.at = "process_items" /\ g.items
      /\ g.entry = tasks[t].graph.entry
  BY <1>1, <1>3 DEF Graph
<1>5. /\ task \in Task /\ task.graph = g /\ task.seen = tasks[t].seen
      /\ task.run = tasks[t].run /\ task.key = tasks[t].key /\ task.host = tasks[t].host
      /\ task.payload = tasks[t].payload
  BY <1>2, <1>3, <1>4 DEF Task
<1>6. NodeEnds(t, task)
  BY <1>2
<1> HIDE DEF task, g
<1>7. Fits(t, task)
  BY <1>3, <1>4, <1>5 DEF Fits, GraphReady, GraphGated
<1>8. MovedOn(t) /\ Gated(t) /\ Stored(t) /\ tasks'[t].seen = tasks[t].seen
  BY <1>1, <1>4, <1>5, <1>6, <1>7, NodeEndsStep DEF SavedNodes
<1>. QED  BY <1>1, <1>8 DEF Step, RowStep

\* So does t with another graph that is ready, and gated once the step is over.
LEMMA FitsGraph ==
    ASSUME RunInv, NEW t \in Tasks, Executing(t), NEW g \in Graph, GraphReady(g),
           GateOn => (g.at = "persist_done" => Run(t) \in granted') /\ g.entry # "persist_done"
    PROVE  /\ Fits(t, [tasks[t] EXCEPT !.graph = g])
           /\ [tasks[t] EXCEPT !.graph = g].seen = tasks[t].seen
           /\ \A b \in BOOLEAN :
                  /\ Fits(t, [tasks[t] EXCEPT !.poisoned = b, !.graph = g])
                  /\ [tasks[t] EXCEPT !.poisoned = b, !.graph = g].seen = tasks[t].seen
           /\ \A new \in Cells : CellsReady(new) =>
                  /\ Fits(t, [tasks[t] EXCEPT !.seen = new, !.graph = g])
                  /\ [tasks[t] EXCEPT !.seen = new, !.graph = g].seen = new
<1>1. tasks[t] \in Task /\ CellsReady(tasks[t].seen)
  BY ExecutingFacts
<1>2. ASSUME NEW n \in Task, n.graph = g, CellsReady(n.seen), n.run = tasks[t].run,
             n.key = tasks[t].key, n.host = tasks[t].host, n.payload = tasks[t].payload
      PROVE  Fits(t, n)
  BY <1>2 DEF Fits
<1>3. /\ Fits(t, [tasks[t] EXCEPT !.graph = g])
      /\ [tasks[t] EXCEPT !.graph = g].seen = tasks[t].seen
  <2> DEFINE n == [tasks[t] EXCEPT !.graph = g]
  <2>1. /\ n \in Task /\ n.graph = g /\ n.seen = tasks[t].seen /\ n.run = tasks[t].run
        /\ n.key = tasks[t].key /\ n.host = tasks[t].host /\ n.payload = tasks[t].payload
    BY <1>1 DEF Task
  <2> HIDE DEF n
  <2>2. Fits(t, n)
    BY <1>1, <1>2, <2>1
  <2>. QED  BY <2>1, <2>2 DEF n
<1>4. ASSUME NEW b \in BOOLEAN
      PROVE  /\ Fits(t, [tasks[t] EXCEPT !.poisoned = b, !.graph = g])
             /\ [tasks[t] EXCEPT !.poisoned = b, !.graph = g].seen = tasks[t].seen
  <2> DEFINE n == [tasks[t] EXCEPT !.poisoned = b, !.graph = g]
  <2>1. /\ n \in Task /\ n.graph = g /\ n.seen = tasks[t].seen /\ n.run = tasks[t].run
        /\ n.key = tasks[t].key /\ n.host = tasks[t].host /\ n.payload = tasks[t].payload
    BY <1>1 DEF Task
  <2> HIDE DEF n
  <2>2. Fits(t, n)
    BY <1>1, <1>2, <2>1
  <2>. QED  BY <2>1, <2>2 DEF n
<1>5. ASSUME NEW new \in Cells, CellsReady(new)
      PROVE  /\ Fits(t, [tasks[t] EXCEPT !.seen = new, !.graph = g])
             /\ [tasks[t] EXCEPT !.seen = new, !.graph = g].seen = new
  <2> DEFINE n == [tasks[t] EXCEPT !.seen = new, !.graph = g]
  <2>1. /\ n \in Task /\ n.graph = g /\ n.seen = new /\ n.run = tasks[t].run
        /\ n.key = tasks[t].key /\ n.host = tasks[t].host /\ n.payload = tasks[t].payload
    BY <1>1 DEF Task
  <2> HIDE DEF n
  <2>2. Fits(t, n)
    BY <1>2, <1>5, <2>1
  <2>. QED  BY <2>1, <2>2 DEF n
<1>. QED  BY <1>3, <1>4, <1>5

\* The state of a node that has ended, in a commit of t or without one.
LEMMA AfterFits ==
    ASSUME RunInv, NEW t \in Tasks, Executing(t), granted \subseteq granted',
           tasks[t].graph.at \in Nodes,
           tasks[t].graph.at = "process_items" /\ tasks[t].graph.error = "none" => tasks[t].graph.items,
           tasks[t].graph.at # "approval_interrupt"
    PROVE  /\ After(tasks[t].graph) \in Graph /\ GraphReady(After(tasks[t].graph))
           /\ GateOn => /\ After(tasks[t].graph).at = "persist_done" => Run(t) \in granted'
                        /\ After(tasks[t].graph).entry # "persist_done"
<1> DEFINE g == tasks[t].graph
<1>1. g \in Graph /\ GraphReady(g) /\ (GateOn => GraphGated(Run(t), g))
  BY ExecutingFacts
<1> HIDE DEF g
<1>2. g.at \in Nodes /\ g.at # "approval_interrupt"
      /\ (g.at = "process_items" /\ g.error = "none" => g.items)
  BY DEF g
<1>3. After(g) \in Graph /\ GraphReady(After(g))
  BY <1>1, <1>2, AfterType, AfterReady
<1>4. GateOn => GraphGated(Run(t), After(g))
  BY <1>1, <1>2, AfterGated DEF GateOn
<1>. QED  BY <1>3, <1>4 DEF GraphGated, g

LEMMA SaveStep ==
    ASSUME RunInv, NEW t \in Tasks, SaveCheckpoint(t)
    PROVE  Step(t)
<1> DEFINE g   == tasks[t].graph
           ck  == [entry |-> NextEntry(g.at), pending |-> FALSE,
                   items |-> g.items, retries |-> g.retries]
           new == [tasks[t].seen EXCEPT !.checkpoint = ck]
<1>1. /\ Executing(t) /\ UNCHANGED <<slots, granted>> /\ tasks[t].phase = "save"
      /\ Commit(t, new)
      /\ Superstep(t, [tasks[t] EXCEPT !.seen = new, !.graph = After(g)])
  BY DEF SaveCheckpoint, Executing, RunPhases, GraphPhases
<1>2. /\ g \in Graph /\ g.at \in SavedNodes /\ (g.at = "process_items" => g.items)
  BY <1>1, ExecutingFacts DEF TaskReady
<1>3. /\ NextEntry(g.at) \in SavedNodes \cup GateAndOn
      /\ NextEntry(g.at) \in GateAndOn => g.items
      /\ GateOn => NextEntry(g.at) # "persist_done"
  BY <1>2 DEF NextEntry, SavedNodes, GateAndOn, GateOn
<1>4. ck \in Checkpoint
  BY <1>2, <1>3 DEF Checkpoint, Graph, Nodes, SavedNodes, GateAndOn
<1>5. Fit(t, new)
  <2>1. ck.entry = NextEntry(g.at) /\ ck.items = g.items
    OBVIOUS
  <2> HIDE DEF ck, g
  <2>. QED  BY <1>1, <1>3, <1>4, <2>1, OutcomesFit
<1> HIDE DEF new
<1>6. After(g) \in Graph /\ GraphReady(After(g))
      /\ (GateOn => (After(g).at = "persist_done" => Run(t) \in granted')
                    /\ After(g).entry # "persist_done")
  BY <1>1, <1>2, AfterFits DEF SavedNodes, Nodes
<1> HIDE DEF g
<1>7. /\ Fits(t, [tasks[t] EXCEPT !.seen = new, !.graph = After(g)])
      /\ [tasks[t] EXCEPT !.seen = new, !.graph = After(g)].seen = new
  BY <1>1, <1>5, <1>6, FitsGraph DEF Fit
<1>8. MovedOn(t) /\ Gated(t) /\ Stored(t) /\ tasks'[t].seen = new
  BY <1>1, <1>7, SuperstepStep
<1>. QED  BY <1>1, <1>5, <1>8, CommitStep

LEMMA ClearStep ==
    ASSUME RunInv, NEW t \in Tasks, Clear(t)
    PROVE  Step(t)
<1> DEFINE g   == tasks[t].graph
           new == [tasks[t].seen EXCEPT !.checkpoint = None]
<1>1. /\ Executing(t) /\ UNCHANGED <<slots, granted>> /\ tasks[t].phase = "clear"
      /\ Commit(t, new)
      /\ Superstep(t, [tasks[t] EXCEPT !.seen = new, !.graph = After(g)])
  BY DEF Clear, Executing, RunPhases, GraphPhases
<1>2. g \in Graph /\ g.at \in {"persist_done", "persist_failed"}
  BY <1>1, ExecutingFacts DEF TaskReady
<1>3. Fit(t, new)
  BY <1>1, OutcomesFit
<1> HIDE DEF new
<1>4. After(g) \in Graph /\ GraphReady(After(g))
      /\ (GateOn => (After(g).at = "persist_done" => Run(t) \in granted')
                    /\ After(g).entry # "persist_done")
  BY <1>1, <1>2, AfterFits DEF Nodes
<1> HIDE DEF g
<1>5. /\ Fits(t, [tasks[t] EXCEPT !.seen = new, !.graph = After(g)])
      /\ [tasks[t] EXCEPT !.seen = new, !.graph = After(g)].seen = new
  BY <1>1, <1>3, <1>4, FitsGraph DEF Fit
<1>6. MovedOn(t) /\ Gated(t) /\ Stored(t) /\ tasks'[t].seen = new
  BY <1>1, <1>5, SuperstepStep
<1>. QED  BY <1>1, <1>3, <1>6, CommitStep

LEMMA GateStep ==
    ASSUME RunInv, NEW t \in Tasks, PassGate(t)
    PROVE  Step(t)
<1> DEFINE g == tasks[t].graph
           h == IF tasks[t].approve THEN g ELSE [g EXCEPT !.error = "fatal"]
<1>1. /\ Executing(t) /\ UNCHANGED <<runs, slots>> /\ g.at = "approval_interrupt"
      /\ Superstep(t, [tasks[t] EXCEPT !.graph = After(h)])
      /\ granted' = IF tasks[t].approve THEN granted \cup {Run(t)} ELSE granted
  BY DEF PassGate, Node, Executing, RunPhases, GraphPhases, Run
<1>2. g \in Graph /\ GraphReady(g) /\ (GateOn => GraphGated(Run(t), g))
  BY <1>1, ExecutingFacts
<1>3. /\ h \in Graph /\ h.at = "approval_interrupt" /\ h.items = g.items /\ h.entry = g.entry
      /\ ~tasks[t].approve => h.error = "fatal"
  BY <1>1, <1>2 DEF Graph
<1> HIDE DEF h
<1>4. GraphReady(h)
  BY <1>1, <1>2, <1>3 DEF GraphReady
<1>5. After(h) \in Graph /\ GraphReady(After(h))
  BY <1>3, <1>4, AfterType, AfterReady DEF Nodes
<1>6. GateOn => (After(h).at = "persist_done" => Run(t) \in granted')
                /\ After(h).entry # "persist_done"
  BY <1>1, <1>2, <1>3, AfterCases DEF GraphGated, Nodes
<1> HIDE DEF g
<1>7. /\ Fits(t, [tasks[t] EXCEPT !.graph = After(h)])
      /\ [tasks[t] EXCEPT !.graph = After(h)].seen = tasks[t].seen
  BY <1>1, <1>5, <1>6, FitsGraph
<1>8. MovedOn(t) /\ Gated(t) /\ Stored(t) /\ tasks'[t].seen = tasks[t].seen
  BY <1>1, <1>7, SuperstepStep
<1>. QED  BY <1>1, <1>8 DEF Step, RowStep

LEMMA PauseStep ==
    ASSUME RunInv, NEW t \in Tasks, Park(t) \/ Marker(t) \/ Return(t)
    PROVE  Step(t)
<1>1. Executing(t) /\ UNCHANGED <<slots, granted>>
  BY DEF Park, Marker, Return, Node, Executing, RunPhases, GraphPhases
<1>2. CASE Return(t)
  <2>1. UNCHANGED <<runs, threads>> /\ Goes(t, tasks[t], "finish")
    BY <1>2 DEF Return
  <2>2. PhaseFits("finish", tasks[t])
    BY DEF PhaseFits, RunPhases
  <2>. QED  BY <1>1, <2>1, <2>2, FitsSelf, GoesStep DEF Step, Stored, RowStep
<1>3. CASE Park(t)
  <2>1. /\ UNCHANGED runs /\ tasks[t].graph.at = "approval_interrupt"
        /\ threads' = [threads EXCEPT ![Run(t)] = tasks[t].graph]
        /\ \E phase \in {"finish", "marker"} : Goes(t, tasks[t], phase)
    BY <1>3 DEF Park, Node
  <2>2. \A phase \in {"finish", "marker"} : PhaseFits(phase, tasks[t])
    BY <2>1 DEF PhaseFits, RunPhases
  <2>3. MovedOn(t) /\ Gated(t) /\ tasks'[t].graph = tasks[t].graph /\ tasks'[t].seen = tasks[t].seen
    BY <1>1, <2>1, <2>2, FitsSelf, GoesStep
  <2>. QED  BY <1>1, <2>1, <2>3 DEF Step, Stored, RowStep
<1>4. CASE Marker(t)
  <2> DEFINE g   == tasks[t].graph
             ck  == [entry |-> "approval_interrupt", pending |-> TRUE,
                     items |-> g.items, retries |-> g.retries]
             new == [tasks[t].seen EXCEPT !.checkpoint = ck]
  <2>1. /\ tasks[t].phase = "marker" /\ UNCHANGED threads
        /\ Commit(t, new) /\ Goes(t, [tasks[t] EXCEPT !.seen = new], "finish")
    BY <1>4 DEF Marker
  <2>2. g \in Graph /\ g.items
    BY <1>1, <2>1, ExecutingFacts DEF TaskReady, GraphReady, GateAndOn
  <2>3. ck \in Checkpoint /\ ck.entry = "approval_interrupt" /\ ck.items
    BY <2>2 DEF Checkpoint, Graph, Nodes
  <2>4. Fit(t, new)
    <3> HIDE DEF ck
    <3>. QED  BY <1>1, <2>3, OutcomesFit DEF GateAndOn
  <2> HIDE DEF new
  <2>5. /\ Fits(t, [tasks[t] EXCEPT !.seen = new]) /\ [tasks[t] EXCEPT !.seen = new].seen = new
    BY <1>1, <2>4, FitsSelf DEF Fit
  <2>6. PhaseFits("finish", [tasks[t] EXCEPT !.seen = new])
    BY DEF PhaseFits, RunPhases
  <2>7. MovedOn(t) /\ Gated(t) /\ Stored(t) /\ tasks'[t].seen = new
    BY <1>1, <2>1, <2>5, <2>6, GoesStep DEF Stored
  <2>. QED  BY <1>1, <2>1, <2>4, <2>7, CommitStep
<1>. QED  BY <1>2, <1>3, <1>4

LEMMA OutcomeStep ==
    ASSUME RunInv, NEW t \in Tasks, PersistOutcome(t)
    PROVE  Step(t)
<1> DEFINE g == tasks[t].graph
<1>1. /\ Executing(t) /\ UNCHANGED <<threads, slots, granted>>
      /\ g.at \in {"persist_done", "persist_failed"}
  BY DEF PersistOutcome, Node, Executing, RunPhases, GraphPhases
<1>2. PICK new : /\ Commit(t, new) /\ Goes(t, [tasks[t] EXCEPT !.seen = new], "clear")
                 /\ \/ g.at = "persist_done" /\ new = Done(tasks[t].seen, g.items)
                    \/ new = Failed(tasks[t].seen)
  BY DEF PersistOutcome, Node
<1>3. /\ g \in Graph /\ GraphReady(g) /\ (GateOn => GraphGated(Run(t), g))
  BY <1>1, ExecutingFacts
<1>4. g.at = "persist_done" => g.items = TRUE /\ (GateOn => Run(t) \in granted)
  BY <1>3 DEF GraphReady, GateAndOn, GraphGated, Graph
<1>5. Fit(t, new)
  BY <1>1, <1>2, <1>4, OutcomesFit
<1>6. /\ Fits(t, [tasks[t] EXCEPT !.seen = new]) /\ [tasks[t] EXCEPT !.seen = new].seen = new
      /\ [tasks[t] EXCEPT !.seen = new].graph = g
  BY <1>1, <1>5, FitsSelf DEF Fit
<1>7. PhaseFits("clear", [tasks[t] EXCEPT !.seen = new])
  BY <1>1, <1>6 DEF PhaseFits, RunPhases, GraphPhases
<1>8. MovedOn(t) /\ Gated(t) /\ Stored(t) /\ tasks'[t].seen = new
  BY <1>1, <1>2, <1>6, <1>7, GoesStep DEF Stored
<1>. QED  BY <1>1, <1>2, <1>5, <1>8, CommitStep

\* Where a node may raise, and what it then leaves in the graph.
LEMMA RaiseStep ==
    ASSUME RunInv, NEW t \in Tasks, NEW poisoned \in BOOLEAN, NodeRaises(t, poisoned)
    PROVE  Step(t)
<1> DEFINE g == tasks[t].graph
<1>1. /\ Executing(t) /\ UNCHANGED <<runs, slots, granted>>
      /\ tasks[t].phase \in GraphPhases /\ CallsDatabase(t)
  BY DEF NodeRaises, Raises, Executing, RunPhases
<1>2. PICK error \in ErrorsOf(t) :
          Superstep(t, [tasks[t] EXCEPT !.poisoned = poisoned,
                                        !.graph = After([g EXCEPT !.error = error])])
  BY DEF NodeRaises
<1>3. /\ g \in Graph /\ GraphReady(g) /\ TaskReady(tasks[t])
      /\ GateOn => GraphGated(Run(t), g)
  BY <1>1, ExecutingFacts
<1>4. g.at \in {"mark_running", "resolve_targets", "process_items", "persist_done", "persist_failed"}
  BY <1>1, <1>3 DEF CallsDatabase, Place, Reads, Writes, GraphPhases, TaskReady, SavedNodes, Graph, Nodes
<1>5. g.at = "process_items" => tasks[t].phase = "save"
  BY <1>1, <1>3 DEF CallsDatabase, Place, Reads, Writes, GraphPhases, TaskReady
<1>6. /\ error \in Errors
      /\ g.at # "persist_failed" => error # "none"
  BY <1>2, <1>3, <1>4 DEF ErrorsOf, Errors, Graph
<1> DEFINE h == [g EXCEPT !.error = error]
<1>7. /\ h \in Graph /\ h.at = g.at /\ h.entry = g.entry /\ h.items = g.items /\ h.error = error
  BY <1>3, <1>6 DEF Graph, Errors
<1> HIDE DEF h
<1>8. GraphReady(h) /\ (GateOn => GraphGated(Run(t), h))
  BY <1>3, <1>7 DEF GraphReady, GraphGated
<1>9. /\ After(h) \in Graph /\ GraphReady(After(h))
      /\ GateOn => GraphGated(Run(t), After(h))
  BY <1>4, <1>6, <1>7, <1>8, AfterType, AfterReady, AfterGated DEF GateOn, Nodes
<1>10. Superstep(t, [tasks[t] EXCEPT !.poisoned = poisoned, !.graph = After(h)])
  BY <1>2 DEF h
<1> HIDE DEF g
<1>11. /\ Fits(t, [tasks[t] EXCEPT !.poisoned = poisoned, !.graph = After(h)])
       /\ [tasks[t] EXCEPT !.poisoned = poisoned, !.graph = After(h)].seen = tasks[t].seen
  BY <1>1, <1>9, FitsGraph DEF GraphGated
<1>12. MovedOn(t) /\ Gated(t) /\ Stored(t) /\ tasks'[t].seen = tasks[t].seen
  BY <1>1, <1>10, <1>11, SuperstepStep
<1>. QED  BY <1>1, <1>12 DEF Step, RowStep

\* Outside the graph, without a commit.
LEMMA LeaveStep ==
    ASSUME RunInv, NEW t \in Tasks,
           \/ FallBack(t) \/ GiveUpResume(t) \/ LegacyItems(t) \/ Handler(t)
           \/ \E poisoned \in BOOLEAN : Unhandled(t, poisoned)
    PROVE  Step(t)
<1>1. Executing(t) /\ UNCHANGED <<threads, slots, granted>>
  BY DEF FallBack, GiveUpResume, LegacyItems, Handler, Unhandled, GivesUp, Executing, RunPhases,
         GraphPhases
<1>2. ASSUME NEW task, Fits(t, task), task.seen = tasks[t].seen, NEW phase, PhaseFits(phase, task),
             Goes(t, task, phase),
             runs' = runs \/ runs' = [runs EXCEPT ![Run(t)].cells = Failed(@)]
      PROVE  Step(t)
  BY <1>1, <1>2, GoesStep DEF Step, Stored, RowStep
<1>3. /\ Fits(t, tasks[t])
      /\ \A b \in BOOLEAN : /\ Fits(t, [tasks[t] EXCEPT !.poisoned = b])
                            /\ [tasks[t] EXCEPT !.poisoned = b].seen = tasks[t].seen
                            /\ [tasks[t] EXCEPT !.poisoned = b].poisoned = b
  BY <1>1, FitsSelf
<1>4. CASE FallBack(t)
  <2>1. /\ UNCHANGED runs
        /\ \/ Interrupts /\ StoreFails /\ Goes(t, tasks[t], "legacy_mark")
           \/ Goes(t, [tasks[t] EXCEPT !.poisoned = TRUE], "legacy_mark")
    BY <1>4 DEF FallBack, GivesUp
  <2>2. Interrupts /\ StoreFails => PhaseFits("legacy_mark", tasks[t])
    BY DEF PhaseFits, RunPhases, GateOn
  <2>3. PhaseFits("legacy_mark", [tasks[t] EXCEPT !.poisoned = TRUE])
    BY <1>3 DEF PhaseFits, RunPhases
  <2>. QED  BY <1>2, <1>3, <2>1, <2>2, <2>3
<1>5. CASE GiveUpResume(t)
  <2>1. UNCHANGED runs /\ Goes(t, tasks[t], "resume_failed")
    BY <1>5 DEF GiveUpResume
  <2>2. PhaseFits("resume_failed", tasks[t])
    BY DEF PhaseFits, RunPhases
  <2>. QED  BY <1>2, <1>3, <2>1, <2>2
<1>6. CASE LegacyItems(t)
  <2>1. ~GateOn
    BY <1>6 DEF LegacyItems, GateOn, RunInv, GateInv
  <2>2. tasks[t].poisoned \in BOOLEAN
    BY <1>1, ExecutingFacts DEF Task
  <2>3. PICK b \in BOOLEAN : Goes(t, [tasks[t] EXCEPT !.poisoned = b], "legacy_done")
    BY <1>6, <2>2 DEF LegacyItems, AfterItems
  <2>4. UNCHANGED runs /\ PhaseFits("legacy_done", [tasks[t] EXCEPT !.poisoned = b])
    BY <1>6, <2>1 DEF LegacyItems, PhaseFits, RunPhases
  <2>. QED  BY <1>2, <1>3, <2>3, <2>4
<1>7. CASE Handler(t)
  <2>1. /\ Goes(t, tasks[t], "finish")
        /\ runs' = runs \/ runs' = [runs EXCEPT ![Run(t)].cells = Failed(@)]
    BY <1>7 DEF Handler
  <2>2. PhaseFits("finish", tasks[t])
    BY DEF PhaseFits, RunPhases
  <2>. QED  BY <1>2, <1>3, <2>1, <2>2
<1>8. ASSUME NEW b \in BOOLEAN, Unhandled(t, b) PROVE Step(t)
  <2>1. UNCHANGED runs /\ Goes(t, [tasks[t] EXCEPT !.poisoned = b], "handler")
    BY <1>8 DEF Unhandled
  <2>2. PhaseFits("handler", [tasks[t] EXCEPT !.poisoned = b])
    BY DEF PhaseFits, RunPhases
  <2>. QED  BY <1>2, <1>3, <2>1, <2>2
<1>. QED  BY <1>4, <1>5, <1>6, <1>7, <1>8

\* Outside the graph, with one.
LEMMA LegacyStep ==
    ASSUME RunInv, NEW t \in Tasks, ResumeFailed(t) \/ LegacyMark(t) \/ LegacyDone(t)
    PROVE  Step(t)
<1>1. Executing(t) /\ UNCHANGED <<threads, slots, granted>>
  BY DEF ResumeFailed, LegacyMark, LegacyDone, Executing, RunPhases
<1>2. ASSUME NEW new, Fit(t, new), Commit(t, new), NEW cells, cells \in {new, runs'[Run(t)].cells},
             NEW phase \in RunPhases, phase \notin {"save", "marker", "clear"},
             GateOn => phase \notin {"legacy_mark", "legacy_resolve", "legacy_done"},
             Goes(t, [tasks[t] EXCEPT !.seen = cells], phase)
      PROVE  Step(t)
  <2>1. cells \in Cells /\ CellsReady(cells)
    BY <1>1, <1>2, CommitReady DEF Fit
  <2>2. /\ Fits(t, [tasks[t] EXCEPT !.seen = cells])
        /\ [tasks[t] EXCEPT !.seen = cells].seen = cells
    BY <1>1, <2>1, FitsSelf
  <2>3. PhaseFits(phase, [tasks[t] EXCEPT !.seen = cells])
    BY <1>2 DEF PhaseFits
  <2>4. MovedOn(t) /\ Gated(t) /\ Stored(t) /\ tasks'[t].seen = cells
    BY <1>1, <1>2, <2>2, <2>3, GoesStep DEF Stored
  <2>. QED  BY <1>1, <1>2, <2>4, CommitStep
<1>3. "finish" \in RunPhases
  BY DEF RunPhases
<1>4. CASE ResumeFailed(t)
  <2>1. /\ Commit(t, Failed(tasks[t].seen))
        /\ Goes(t, [tasks[t] EXCEPT !.seen = Failed(tasks[t].seen)], "finish")
    BY <1>4 DEF ResumeFailed
  <2>2. Fit(t, Failed(tasks[t].seen))
    BY <1>1, OutcomesFit
  <2>. QED  BY <1>2, <1>3, <2>1, <2>2
<1>5. CASE LegacyMark(t) \/ LegacyDone(t)
  <2>1. ~GateOn
    <3>1. tasks[t].phase \in {"legacy_mark", "legacy_done"} /\ ~tasks[t].poisoned
      BY <1>5 DEF LegacyMark, LegacyDone, Commit
    <3>. QED  BY <3>1 DEF GateOn, RunInv, GateInv
  <2>2. CASE LegacyMark(t)
    <3>1. /\ Commit(t, Running(tasks[t].seen))
          /\ Goes(t, [tasks[t] EXCEPT !.seen = runs'[Run(t)].cells], "legacy_resolve")
      BY <2>2 DEF LegacyMark
    <3>2. Fit(t, Running(tasks[t].seen))
      BY <1>1, OutcomesFit
    <3>3. "legacy_resolve" \in RunPhases
      BY DEF RunPhases
    <3>. QED  BY <1>2, <2>1, <3>1, <3>2, <3>3
  <2>3. CASE LegacyDone(t)
    <3>1. /\ Commit(t, Done(tasks[t].seen, TRUE))
          /\ Goes(t, [tasks[t] EXCEPT !.seen = Done(tasks[t].seen, TRUE)], "finish")
      BY <2>3 DEF LegacyDone
    <3>2. Fit(t, Done(tasks[t].seen, TRUE))
      BY <1>1, <2>1, OutcomesFit
    <3>. QED  BY <1>2, <2>1, <3>1, <3>2, <1>3
  <2>. QED  BY <1>5, <2>2, <2>3
<1>. QED  BY <1>4, <1>5

LEMMA ExecutesStep ==
    ASSUME RunInv, NEW t \in Tasks, Executes(t), ~Finish(t)
    PROVE  Step(t)
<1>1. CASE Begin(t)
  BY <1>1, BeginStep
<1>2. CASE InGraph(t)
  BY <1>2, MarkRunningStep, ResolveStep, ItemsStep, SaveStep, GateStep, PauseStep, OutcomeStep,
     ClearStep, RaiseStep DEF InGraph
<1>3. CASE OutOfGraph(t)
  BY <1>3, LeaveStep, LegacyStep DEF OutOfGraph
<1>. QED  BY <1>1, <1>2, <1>3 DEF Executes

-----------------------------------------------------------------------------
(* A step of an executing task keeps the invariant.                        *)

LEMMA ExecutesIsExecuting ==
    ASSUME NEW t \in Tasks, Executes(t)
    PROVE  Executing(t)
<1>1. CASE Begin(t)
  BY <1>1 DEF Begin, Executing
<1>2. CASE InGraph(t)
  BY <1>2 DEF InGraph, MarkRunning, ResolveTargets, ProcessItems, SaveCheckpoint, PassGate, Park,
              Marker, PersistOutcome, Clear, Return, NodeRaises, Node, Executing, RunPhases, GraphPhases
<1>3. CASE OutOfGraph(t)
  BY <1>3 DEF OutOfGraph, FallBack, GiveUpResume, ResumeFailed, LegacyMark, LegacyItems, LegacyDone,
              Unhandled, Handler, Finish, GivesUp, Executing, RunPhases, GraphPhases
<1>. QED  BY <1>1, <1>2, <1>3 DEF Executes

\* Cells c are in the row of t, and nothing else of the table has changed.
NowHolds(t, c) ==
    /\ runs' \in [Runs -> Row]
    /\ \A r \in Runs : runs'[r].key = runs[r].key /\ runs'[r].payload = runs[r].payload
    /\ \A r \in Runs \ {Run(t)} : runs'[r] = runs[r]
    /\ runs'[Run(t)].cells = c

LEMMA CellsReplaced ==
    ASSUME RunInv, NEW t \in Tasks, Executing(t), NEW c \in Cells,
           runs' = [runs EXCEPT ![Run(t)].cells = c]
    PROVE  NowHolds(t, c)
<1>1. runs \in [Runs -> Row] /\ Run(t) \in Runs
  BY ExecutingFacts DEF RunInv, TypeOK
<1>2. ASSUME NEW r \in Runs PROVE [runs[r] EXCEPT !.cells = c] \in Row
                                  /\ [runs[r] EXCEPT !.cells = c].key = runs[r].key
                                  /\ [runs[r] EXCEPT !.cells = c].payload = runs[r].payload
                                  /\ [runs[r] EXCEPT !.cells = c].cells = c
  BY <1>1 DEF Row
<1>3. runs' = [runs EXCEPT ![Run(t)] = [runs[Run(t)] EXCEPT !.cells = c]]
  OBVIOUS
<1> DEFINE row == [runs[Run(t)] EXCEPT !.cells = c]
<1>4. row \in Row /\ row.key = runs[Run(t)].key /\ row.payload = runs[Run(t)].payload /\ row.cells = c
  BY <1>1, <1>2
<1>5. runs' = [runs EXCEPT ![Run(t)] = row]
  BY <1>3
<1> HIDE DEF row
<1>. QED  BY <1>1, <1>4, <1>5 DEF NowHolds

\* What the row and the session of t hold after the step.
LEMMA RowAfterStep ==
    ASSUME RunInv, NEW t \in Tasks, Executing(t), Step(t)
    PROVE  \E c \in Cells :
              /\ NowHolds(t, c) /\ CellsReady(c)
              /\ runs[Run(t)].cells.results = "items" => c.results = "items"
              /\ tasks'[t].seen.results = "items" => c.results = "items"
              /\ GateOn => CellsGated(Run(t), c) /\ CellsGated(Run(t), tasks'[t].seen)
<1> DEFINE cells == runs[Run(t)].cells
           seen  == tasks[t].seen
<1>1. /\ Run(t) \in Runs /\ runs \in [Runs -> Row]
      /\ cells \in Cells /\ CellsReady(cells) /\ seen \in Cells /\ CellsReady(seen)
      /\ GateOn => CellsGated(Run(t), cells) /\ CellsGated(Run(t), seen)
  BY ExecutingFacts DEF RunInv, TypeOK
<1>2. seen.results = "items" => cells.results = "items"
  BY DEF RunInv, ReadyInv
<1>3. CASE runs' = runs /\ tasks'[t].seen \in {seen, cells}
  <2>1. NowHolds(t, cells)
    BY <1>1, <1>3 DEF NowHolds
  <2>. QED  BY <1>1, <1>2, <1>3, <2>1
<1>4. ASSUME NEW new, Fit(t, new),
             runs' = [runs EXCEPT ![Run(t)].cells = Flush(@, seen, new)],
             tasks'[t].seen \in {new, runs'[Run(t)].cells}
      PROVE  \E c \in Cells :
                /\ NowHolds(t, c) /\ CellsReady(c)
                /\ cells.results = "items" => c.results = "items"
                /\ tasks'[t].seen.results = "items" => c.results = "items"
                /\ GateOn => CellsGated(Run(t), c) /\ CellsGated(Run(t), tasks'[t].seen)
  <2> DEFINE c == Flush(cells, seen, new)
  <2>1. /\ new \in Cells /\ CellsReady(new) /\ (GateOn => CellsGated(Run(t), new))
        /\ seen.results = "items" => cells.results = "items" /\ new.results = "items"
    BY <1>2, <1>4 DEF Fit
  <2> HIDE DEF seen
  <2>2. runs' = [runs EXCEPT ![Run(t)].cells = c]
    BY <1>4
  <2> HIDE DEF cells
  <2>3. /\ c \in Cells /\ CellsReady(c)
        /\ cells.results = "items" \/ new.results = "items" => c.results = "items"
        /\ GateOn => CellsGated(Run(t), c)
    BY <1>1, <2>1, FlushType, FlushReady
  <2> HIDE DEF c
  <2>4. NowHolds(t, c)
    BY <2>2, <2>3, CellsReplaced
  <2>5. tasks'[t].seen \in {new, c}
    BY <1>4, <2>4 DEF NowHolds
  <2>. QED  BY <2>1, <2>3, <2>4, <2>5
<1>5. CASE runs' = [runs EXCEPT ![Run(t)].cells = Failed(@)] /\ tasks'[t].seen = seen
  <2> DEFINE c == Failed(cells)
  <2>1. runs' = [runs EXCEPT ![Run(t)].cells = c]
    BY <1>5
  <2> HIDE DEF cells
  <2>2. /\ c \in Cells /\ CellsReady(c) /\ c.results = cells.results
        /\ GateOn => CellsGated(Run(t), c)
    BY <1>1, CellsTypes, CommittedCells
  <2> HIDE DEF c
  <2>3. NowHolds(t, c)
    BY <2>1, <2>2, CellsReplaced
  <2>. QED  BY <1>1, <1>2, <1>5, <2>2, <2>3 DEF cells
<1>. QED  BY <1>3, <1>4, <1>5 DEF Step, RowStep

\* What the store holds after the step: of every run what it held, and of the
\* run of t perhaps the graph that t goes on with.
LEMMA StoreAfterStep ==
    ASSUME RunInv, NEW t \in Tasks, Executing(t), Step(t)
    PROVE  /\ threads' \in [Runs -> Graph \cup {None}]
           /\ \A r \in Runs : \/ threads'[r] = threads[r]
                              \/ r = Run(t) /\ threads'[r] = tasks'[t].graph
<1>1. threads \in [Runs -> Graph \cup {None}] /\ Run(t) \in Runs
  BY ExecutingFacts DEF RunInv, TypeOK
<1>2. tasks'[t] \in Task
  BY DEF Step, MovedOn
<1>3. tasks'[t].graph \in Graph
  BY <1>2 DEF Task
<1>. QED  BY <1>1, <1>3 DEF Step, Stored

LEMMA StepKeepsTypes ==
    ASSUME RunInv, NEW t \in Tasks, Executing(t), Step(t)
    PROVE  TypeOK'
<1>1. runs' \in [Runs -> Row]
  BY RowAfterStep DEF NowHolds
<1>2. threads' \in [Runs -> Graph \cup {None}]
  BY StoreAfterStep
<1>3. slots' \subseteq Runs /\ granted' \subseteq Runs /\ tasks' \in [Tasks -> Task]
  BY ExecutingFacts DEF Step, MovedOn, RunInv, TypeOK
<1>. QED  BY <1>1, <1>2, <1>3 DEF TypeOK

LEMMA StepKeepsReady ==
    ASSUME RunInv, NEW t \in Tasks, Executing(t), Step(t)
    PROVE  ReadyInv'
<1>1. PICK c \in Cells : /\ NowHolds(t, c) /\ CellsReady(c)
                         /\ runs[Run(t)].cells.results = "items" => c.results = "items"
                         /\ tasks'[t].seen.results = "items" => c.results = "items"
  BY RowAfterStep
<1>2. Run(t) \in Runs /\ ReadyInv
  BY ExecutingFacts DEF RunInv
<1>3. MovedOn(t)
  BY DEF Step
<1>4. ASSUME NEW r \in Runs PROVE CellsReady(runs'[r].cells)
                                  /\ (runs[r].cells.results = "items" => runs'[r].cells.results = "items")
  BY <1>1, <1>2 DEF NowHolds, ReadyInv
<1>5. ASSUME NEW r \in Runs, threads'[r] # None PROVE GraphReady(threads'[r])
  <2>1. GraphReady(tasks'[t].graph)
    BY <1>3 DEF MovedOn, TaskReady
  <2>. QED  BY <1>2, <1>5, <2>1, StoreAfterStep DEF ReadyInv
<1>6. ASSUME NEW u \in Tasks
      PROVE  /\ TaskReady(tasks'[u])
             /\ tasks'[u].seen.results = "items" =>
                    tasks'[u].run \in Runs /\ runs'[tasks'[u].run].cells.results = "items"
  <2>1. CASE u = t
    BY <1>1, <1>2, <1>3, <2>1 DEF MovedOn, NowHolds, Run
  <2>2. CASE u # t
    <3>1. tasks'[u] = tasks[u]
      BY <1>3, <2>2 DEF MovedOn
    <3>2. /\ TaskReady(tasks[u])
          /\ tasks[u].seen.results = "items" =>
                 tasks[u].run \in Runs /\ runs[tasks[u].run].cells.results = "items"
      BY <1>2 DEF ReadyInv, Run
    <3>. QED  BY <1>4, <3>1, <3>2
  <2>. QED  BY <2>1, <2>2
<1>7. \A r \in Runs : CellsReady(runs'[r].cells) /\ (threads'[r] # None => GraphReady(threads'[r]))
  BY <1>4, <1>5
<1>. QED  BY <1>6, <1>7 DEF ReadyInv, Run

LEMMA StepKeepsKeys ==
    ASSUME RunInv, NEW t \in Tasks, Executing(t), Step(t)
    PROVE  KeyInv'
<1>1. \A r \in Runs : runs'[r].key = runs[r].key
  BY RowAfterStep DEF NowHolds
<1>2. Made' = Made
  BY <1>1 DEF Made
<1>3. MovedOn(t) /\ KeyInv
  BY DEF Step, RunInv
<1>4. /\ tasks'[t].phase \notin {"inserted", "eligible", "unique"}
      /\ tasks'[t].run = tasks[t].run /\ tasks'[t].key = tasks[t].key
      /\ tasks'[t].host = tasks[t].host
      /\ \A u \in Tasks \ {t} : tasks'[u] = tasks[u]
  BY <1>3 DEF MovedOn, RunPhases, GraphPhases
<1>5. ASSUME NEW u \in Starts
      PROVE  /\ tasks'[u].run = tasks[u].run /\ tasks'[u].key = tasks[u].key
             /\ Owns(u)' => Owns(u)
             /\ tasks'[u].phase \in {tasks[u].phase, tasks'[t].phase}
             /\ tasks'[u].phase = "unique" => tasks[u].phase = "unique"
             /\ tasks'[u].phase # "eligible"
  <2>1. u \in Tasks /\ tasks[u].phase # "eligible"
    BY <1>3 DEF Tasks, KeyInv
  <2>. QED  BY <1>4, <2>1 DEF Owns
<1>6. \A r, q \in Made' : runs'[r].key = runs'[q].key => r = q
  BY <1>1, <1>2, <1>3 DEF KeyInv, Made
<1>7. \A u \in Starts : Owns(u)' =>
          tasks'[u].run \in Made' /\ runs'[tasks'[u].run].key = tasks'[u].key /\ tasks'[u].key # None
  BY <1>1, <1>2, <1>3, <1>5 DEF KeyInv, Made, Run
<1>8. \A u, v \in Starts : u # v /\ Owns(u)' /\ Owns(v)' => tasks'[u].run # tasks'[v].run
  BY <1>3, <1>5 DEF KeyInv, Run
<1>9. \A u \in Starts : /\ tasks'[u].phase # "eligible"
                        /\ tasks'[u].phase = "unique" => tasks'[u].key # None
  BY <1>3, <1>5 DEF KeyInv
<1>. QED  BY <1>6, <1>7, <1>8, <1>9 DEF KeyInv, Run

LEMMA StepKeepsGate ==
    ASSUME RunInv, NEW t \in Tasks, Executing(t), Step(t)
    PROVE  GateInv'
<1> SUFFICES ASSUME GateOn PROVE GateInv'
  BY DEF GateInv, GateOn
<1>1. PICK c \in Cells : /\ NowHolds(t, c)
                         /\ CellsGated(Run(t), c) /\ CellsGated(Run(t), tasks'[t].seen)
  BY RowAfterStep
<1>2. MovedOn(t) /\ Gated(t) /\ granted \subseteq granted' /\ Run(t) \in Runs
  BY ExecutingFacts DEF Step
<1>3. /\ \A r \in Runs : /\ CellsGated(r, runs[r].cells)
                         /\ threads[r] # None => GraphGated(r, threads[r])
      /\ \A u \in Tasks :
             /\ GraphGated(Run(u), tasks[u].graph)
             /\ CellsGated(Run(u), tasks[u].seen)
             /\ tasks[u].phase \in {"legacy_mark", "legacy_resolve", "legacy_done"}
                    => tasks[u].poisoned
  BY DEF RunInv, GateInv, GateOn
<1>4. tasks'[t].run = Run(t) /\ \A u \in Tasks \ {t} : tasks'[u] = tasks[u]
  BY <1>2 DEF MovedOn, Run
<1>5. ASSUME NEW r \in Runs PROVE CellsGated(r, runs[r].cells)'
  <2>1. CellsGated(r, runs'[r].cells)
    BY <1>1, <1>3 DEF NowHolds
  <2>. QED  BY <1>2, <2>1 DEF CellsGated
<1>6. ASSUME NEW r \in Runs, threads'[r] # None PROVE GraphGated(r, threads[r])'
  <2>1. CASE threads'[r] = threads[r]
    BY <1>2, <1>3, <1>6, <2>1 DEF GraphGated
  <2>2. CASE r = Run(t) /\ threads'[r] = tasks'[t].graph
    BY <1>2, <1>4, <2>2 DEF Gated, GraphGated, Run
  <2>. QED  BY <2>1, <2>2, StoreAfterStep
<1>7. ASSUME NEW u \in Tasks
      PROVE  /\ GraphGated(Run(u), tasks[u].graph)'
             /\ CellsGated(Run(u), tasks[u].seen)'
             /\ tasks'[u].phase \in {"legacy_mark", "legacy_resolve", "legacy_done"}
                    => tasks'[u].poisoned
  <2>1. CASE u = t
    <3>1. CellsGated(Run(t), tasks[t].seen)'
      BY <1>1, <1>2, <1>4 DEF CellsGated, Run
    <3>. QED  BY <1>2, <2>1, <3>1 DEF Gated
  <2>2. CASE u # t
    <3>1. tasks'[u] = tasks[u]
      BY <1>4, <2>2
    <3>. QED  BY <1>2, <1>3, <3>1 DEF GraphGated, CellsGated, Run
  <2>. QED  BY <2>1, <2>2
<1>. QED  BY <1>5, <1>6, <1>7 DEF GateInv

LEMMA StepKeeps ==
    ASSUME RunInv, NEW t \in Tasks, Executes(t), ~Finish(t)
    PROVE  RunInv'
  BY ExecutesIsExecuting, ExecutesStep, StepKeepsTypes, StepKeepsReady, StepKeepsKeys, StepKeepsGate
     DEF RunInv

-----------------------------------------------------------------------------
(* The routes: the run, if any, is still without a task.                   *)

\* A step of the call t before its task begins: its session and its graph are
\* new, and the cells of every row stay.
Request(t) ==
    /\ tasks[t].phase \in RequestPhases
    /\ tasks' \in [Tasks -> Task] /\ runs' \in [Runs -> Row]
    /\ \A u \in Tasks \ {t} : tasks'[u] = tasks[u]
    /\ tasks'[t].seen = tasks[t].seen /\ tasks'[t].graph = tasks[t].graph
    /\ tasks'[t].phase \in RequestPhases \cup AnswerPhases \cup QueuedPhases
    /\ tasks'[t].phase \in RequestPhases => tasks'[t].host = "none"
    /\ tasks'[t].phase \notin Unassigned => tasks'[t].run \in Runs
    /\ \A r \in Runs : runs'[r].cells = runs[r].cells
    /\ slots' \subseteq Runs
    /\ UNCHANGED <<threads, granted>>

LEMMA RequestKeeps ==
    ASSUME RunInv, NEW t \in Tasks, Request(t)
    PROVE  TypeOK' /\ ReadyInv' /\ GateInv'
<1>1. TypeOK'
  BY DEF Request, RunInv, TypeOK
<1>2. tasks'[t].seen = NewCells /\ tasks'[t].graph = NewGraph
  BY DEF Request, RunInv, ReadyInv, TaskReady
<1>3. TaskReady(tasks'[t])
  <2>1. tasks'[t].phase \notin {"save", "marker", "clear"}
    BY DEF Request, RequestPhases, AnswerPhases, QueuedPhases
  <2>. QED  BY <1>2, <2>1, NewReady DEF Request, TaskReady
<1>4. ReadyInv'
  <2>1. ASSUME NEW u \in Tasks
        PROVE  /\ TaskReady(tasks'[u])
               /\ tasks'[u].seen.results = "items" =>
                      tasks'[u].run \in Runs /\ runs[tasks'[u].run].cells.results = "items"
    <3>1. CASE u = t
      BY <1>2, <1>3, <3>1 DEF NewCells
    <3>2. CASE u # t
      BY <3>2 DEF Request, RunInv, ReadyInv, Run
    <3>. QED  BY <3>1, <3>2
  <2>2. ASSUME NEW r \in Runs
        PROVE  /\ CellsReady(runs'[r].cells)
               /\ threads'[r] # None => GraphReady(threads'[r])
               /\ runs'[r].cells = runs[r].cells
    BY DEF Request, RunInv, ReadyInv
  <2>. QED  BY <2>1, <2>2 DEF ReadyInv, Run
<1>5. GateInv'
  <2> SUFFICES ASSUME GateOn PROVE GateInv'
    BY DEF GateInv, GateOn
  <2>1. ASSUME NEW u \in Tasks
        PROVE  /\ GraphGated(Run(u), tasks[u].graph)'
               /\ CellsGated(Run(u), tasks[u].seen)'
               /\ tasks'[u].phase \in {"legacy_mark", "legacy_resolve", "legacy_done"}
                      => tasks'[u].poisoned
    <3>1. CASE u = t
      <4>1. tasks'[t].phase \notin {"legacy_mark", "legacy_resolve", "legacy_done"}
        BY DEF Request, RequestPhases, AnswerPhases, QueuedPhases
      <4>. QED  BY <1>2, <3>1, <4>1 DEF GraphGated, CellsGated, NewGraph, NewCells
    <3>2. CASE u # t
      BY <3>2 DEF Request, RunInv, GateInv, GateOn, GraphGated, CellsGated, Run
    <3>. QED  BY <3>1, <3>2
  <2>2. ASSUME NEW r \in Runs
        PROVE  /\ CellsGated(r, runs[r].cells)'
               /\ threads'[r] # None => GraphGated(r, threads[r])'
    BY DEF Request, RunInv, GateInv, GateOn, GraphGated, CellsGated
  <2>. QED  BY <2>1, <2>2 DEF GateInv
<1>. QED  BY <1>1, <1>4, <1>5

\* A step that inserts no row keeps the keys, if no start becomes an owner by it.
LEMMA KeysKept ==
    ASSUME RunInv, runs' = runs,
           \A u \in Starts :
              /\ Owns(u)' => Owns(u) /\ tasks'[u].run = tasks[u].run /\ tasks'[u].key = tasks[u].key
              /\ tasks'[u].phase # "eligible"
              /\ tasks'[u].phase = "unique" => tasks'[u].key # None
    PROVE  KeyInv'
<1>1. Made' = Made /\ KeyInv
  BY DEF Made, RunInv
<1>2. \A r, q \in Made' : runs'[r].key = runs'[q].key => r = q
  BY <1>1 DEF KeyInv
<1>3. \A u \in Starts : Owns(u)' =>
          tasks'[u].run \in Made' /\ runs'[tasks'[u].run].key = tasks'[u].key /\ tasks'[u].key # None
  BY <1>1 DEF KeyInv, Run
<1>4. \A u, v \in Starts : u # v /\ Owns(u)' /\ Owns(v)' => tasks'[u].run # tasks'[v].run
  BY <1>1 DEF KeyInv, Run
<1>. QED  BY <1>2, <1>3, <1>4 DEF KeyInv, Run

LEMMA ReadKeeps ==
    ASSUME RunInv, NEW t \in Starts, NEW k \in Keys, NEW p \in Payloads, StartRead(t, k, p)
    PROVE  RunInv'
<1> DEFINE n == tasks'[t]
<1>1. t \in Tasks /\ tasks[t] \in Task /\ tasks \in [Tasks -> Task] /\ tasks[t].phase = "idle"
  BY DEF Tasks, RunInv, TypeOK, StartRead
<1>2. PICK phase \in {"unique", "replayed", "conflict"} :
          tasks' = [tasks EXCEPT ![t] = [tasks[t] EXCEPT !.key = k, !.payload = p, !.phase = phase]]
  BY <1>1 DEF StartRead
<1>3. /\ n \in Task /\ n.phase = phase /\ n.key = k /\ n.run = tasks[t].run
      /\ n.host = tasks[t].host /\ n.seen = tasks[t].seen /\ n.graph = tasks[t].graph
  BY <1>1, <1>2 DEF Task, Phases, RequestPhases, AnswerPhases
<1>4. /\ tasks' \in [Tasks -> Task] /\ \A u \in Tasks \ {t} : tasks'[u] = tasks[u]
      /\ UNCHANGED <<runs, threads, slots, granted>>
  BY <1>1, <1>2, <1>3 DEF StartRead
<1> HIDE DEF n
<1>5. tasks[t].host = "none"
  BY <1>1 DEF RunInv, ReadyInv, TaskReady, RequestPhases
<1>6. Request(t)
  BY <1>1, <1>3, <1>4, <1>5 DEF Request, n, RunInv, TypeOK, RequestPhases, AnswerPhases, Unassigned
<1>7. ASSUME NEW u \in Starts
      PROVE  /\ Owns(u)' => Owns(u) /\ tasks'[u].run = tasks[u].run /\ tasks'[u].key = tasks[u].key
             /\ tasks'[u].phase # "eligible"
             /\ tasks'[u].phase = "unique" => tasks'[u].key # None
  <2>1. CASE u = t
    BY <1>2, <1>3, <1>5, <2>1, ConfigAssumption DEF Owns, n
  <2>2. CASE u # t
    BY <1>4, <2>2 DEF Tasks, Owns, RunInv, KeyInv
  <2>. QED  BY <2>1, <2>2
<1>8. KeyInv'
  BY <1>4, <1>7, KeysKept
<1>. QED  BY <1>1, <1>6, <1>8, RequestKeeps DEF RunInv

\* t goes from a phase before its task to another one and keeps who it is.
LEMMA RequestGoesOn ==
    ASSUME RunInv, NEW t \in Tasks, tasks[t].phase \in RequestPhases,
           NEW n \in Task, tasks' = [tasks EXCEPT ![t] = n],
           n.seen = tasks[t].seen, n.graph = tasks[t].graph,
           n.phase \in RequestPhases \cup AnswerPhases \cup QueuedPhases,
           n.phase \in RequestPhases => n.host = "none",
           n.phase \notin Unassigned => n.run \in Runs,
           slots' \subseteq Runs, UNCHANGED <<runs, threads, granted>>
    PROVE  /\ Request(t) /\ tasks'[t] = n
           /\ \A u \in Tasks \ {t} : tasks'[u] = tasks[u]
  BY DEF Request, RunInv, TypeOK

\* The start takes a row that is not made yet, and no row has its key.
LEMMA CommitKeeps ==
    ASSUME RunInv, NEW t \in Starts, NEW r \in Runs, StartCommit(t, r)
    PROVE  RunInv'
<1>1. /\ t \in Tasks /\ tasks[t] \in Task /\ tasks \in [Tasks -> Task] /\ runs \in [Runs -> Row]
      /\ tasks[t].phase = "unique" /\ r \notin Made /\ KeyInv /\ tasks[t].key # None
      /\ UNCHANGED <<threads, slots, granted>>
  BY DEF Tasks, RunInv, TypeOK, StartCommit, KeyInv
<1>2. tasks[t].host = "none" /\ tasks[t].phase \in RequestPhases
  BY <1>1 DEF RunInv, ReadyInv, TaskReady, RequestPhases
<1>3. CASE ~KeyFree(tasks[t].key)
  <2> DEFINE n == [tasks[t] EXCEPT !.phase = "error"]
  <2>1. tasks' = [tasks EXCEPT ![t] = n] /\ runs' = runs
    BY <1>3 DEF StartCommit
  <2>2. /\ n \in Task /\ n.phase = "error" /\ n.key = tasks[t].key /\ n.run = tasks[t].run
        /\ n.host = tasks[t].host /\ n.seen = tasks[t].seen /\ n.graph = tasks[t].graph
    BY <1>1 DEF Task, Phases, AnswerPhases
  <2> HIDE DEF n
  <2>3. /\ Request(t) /\ tasks'[t] = n
        /\ \A u \in Tasks \ {t} : tasks'[u] = tasks[u]
    <3>1. slots' \subseteq Runs
      BY <1>1 DEF RunInv, TypeOK
    <3>2. "error" \in AnswerPhases /\ "error" \notin RequestPhases /\ "error" \in Unassigned
      BY DEF AnswerPhases, RequestPhases, Unassigned
    <3>. QED  BY <1>1, <1>2, <2>1, <2>2, <3>1, <3>2, RequestGoesOn
  <2>4. ASSUME NEW u \in Starts
        PROVE  /\ Owns(u)' => Owns(u) /\ tasks'[u].run = tasks[u].run /\ tasks'[u].key = tasks[u].key
               /\ tasks'[u].phase # "eligible"
               /\ tasks'[u].phase = "unique" => tasks'[u].key # None
    <3>1. CASE u = t
      BY <1>2, <2>2, <2>3, <3>1 DEF Owns
    <3>2. CASE u # t
      BY <1>1, <2>3, <3>2 DEF Tasks, Owns, KeyInv
    <3>. QED  BY <3>1, <3>2
  <2>. QED  BY <1>1, <2>1, <2>3, <2>4, KeysKept, RequestKeeps DEF RunInv
<1>4. CASE KeyFree(tasks[t].key)
  <2> DEFINE n   == [tasks[t] EXCEPT !.phase = "inserted", !.run = r]
             row == [runs[r] EXCEPT !.key = tasks[t].key, !.payload = tasks[t].payload]
  <2>1. tasks' = [tasks EXCEPT ![t] = n] /\ runs' = [runs EXCEPT ![r] = row]
    BY <1>4 DEF StartCommit
  <2>2. /\ n \in Task /\ n.phase = "inserted" /\ n.key = tasks[t].key /\ n.run = r
        /\ n.host = tasks[t].host /\ n.seen = tasks[t].seen /\ n.graph = tasks[t].graph
    <3>1. "inserted" \in Phases
      BY DEF Phases, RequestPhases
    <3>2. tasks[t] \in Task
      BY <1>1
    <3>. QED  BY <3>1, <3>2 DEF Task
  <2>3. row \in Row /\ row.key = tasks[t].key /\ row.cells = runs[r].cells
    <3>1. runs[r] \in Row
      BY <1>1
    <3>2. tasks[t].key \in Keys \cup {None} /\ tasks[t].payload \in Payloads \cup {None}
      BY <1>1 DEF Task
    <3>. QED  BY <3>1, <3>2 DEF Row
  <2> HIDE DEF n, row
  <2>4. /\ tasks' \in [Tasks -> Task] /\ tasks'[t] = n
        /\ \A u \in Tasks \ {t} : tasks'[u] = tasks[u]
        /\ runs' \in [Runs -> Row] /\ runs'[r] = row
        /\ \A q \in Runs \ {r} : runs'[q] = runs[q]
    BY <1>1, <2>1, <2>2, <2>3
  <2>5. Request(t)
    <3>1. "inserted" \in RequestPhases
      BY DEF RequestPhases
    <3>. QED  BY <1>1, <1>2, <2>2, <2>3, <2>4, <3>1 DEF Request, RunInv, TypeOK
  <2>6. Made' = Made \cup {r}
    BY <1>1, <2>3, <2>4 DEF Made
  <2>7. \A q \in Made : runs[q].key # tasks[t].key
    BY <1>4 DEF KeyFree, WithKey
  <2>8. \A q \in Made : q \in Runs /\ q # r /\ runs'[q] = runs[q]
    BY <1>1, <2>4 DEF Made
  <2>9. \A p, q \in Made' : runs'[p].key = runs'[q].key => p = q
    <3>1. \A p, q \in Made : runs[p].key = runs[q].key => p = q
      BY <1>1 DEF KeyInv
    <3>. QED  BY <2>3, <2>4, <2>6, <2>7, <2>8, <3>1
  <2>10. ASSUME NEW u \in Starts
         PROVE  /\ u # t => tasks'[u] = tasks[u] /\ (Owns(u)' => Owns(u))
                /\ u # t /\ Owns(u) => Run(u) \in Made /\ Run(u) # r
                       /\ runs[Run(u)].key = tasks[u].key /\ tasks[u].key # None
    BY <1>1, <2>4 DEF Tasks, Owns, KeyInv
  <2>11. \A u \in Starts : Owns(u)' =>
             tasks'[u].run \in Made' /\ runs'[tasks'[u].run].key = tasks'[u].key /\ tasks'[u].key # None
    <3> TAKE u \in Starts
    <3>1. CASE u = t
      BY <1>1, <2>2, <2>3, <2>4, <2>6, <3>1
    <3>2. CASE u # t
      BY <2>6, <2>8, <2>10, <3>2 DEF Run
    <3>. QED  BY <3>1, <3>2
  <2>12. \A u, v \in Starts : u # v /\ Owns(u)' /\ Owns(v)' => tasks'[u].run # tasks'[v].run
    <3> TAKE u, v \in Starts
    <3>1. CASE u # t /\ v # t
      BY <1>1, <2>10, <3>1 DEF KeyInv, Run
    <3>2. CASE u = t \/ v = t
      BY <2>2, <2>4, <2>10, <3>2 DEF Run
    <3>. QED  BY <3>1, <3>2
  <2>13. \A u \in Starts : /\ tasks'[u].phase # "eligible"
                           /\ tasks'[u].phase = "unique" => tasks'[u].key # None
    BY <1>1, <2>2, <2>4, <2>10 DEF KeyInv
  <2>. QED  BY <1>1, <2>5, <2>9, <2>11, <2>12, <2>13, RequestKeeps DEF RunInv, KeyInv, Run
<1>. QED  BY <1>3, <1>4

\* The other steps of a call leave a start its row and its key.
LEMMA GoesOnKeeps ==
    ASSUME RunInv, NEW t \in Tasks, Request(t), runs' = runs,
           t \in Starts => /\ tasks[t].phase = "inserted"
                           /\ tasks'[t].run = tasks[t].run /\ tasks'[t].key = tasks[t].key
                           /\ tasks'[t].phase \notin {"eligible", "unique"}
    PROVE  RunInv'
<1>1. ASSUME NEW u \in Starts
      PROVE  /\ Owns(u)' => Owns(u) /\ tasks'[u].run = tasks[u].run /\ tasks'[u].key = tasks[u].key
             /\ tasks'[u].phase # "eligible"
             /\ tasks'[u].phase = "unique" => tasks'[u].key # None
  <2>1. CASE u = t
    BY <2>1 DEF Owns
  <2>2. CASE u # t
    BY <2>2 DEF Tasks, Request, Owns, RunInv, KeyInv
  <2>. QED  BY <2>1, <2>2
<1>. QED  BY <1>1, KeysKept, RequestKeeps DEF RunInv

LEMMA CheckKeeps ==
    ASSUME RunInv, NEW t \in Resumes, NEW r \in Runs, NEW approve \in BOOLEAN,
           ResumeCheck(t, r, approve)
    PROVE  RunInv'
<1>1. /\ t \in Tasks /\ t \notin Starts /\ tasks[t] \in Task /\ tasks[t].phase = "idle"
      /\ UNCHANGED <<runs, threads, slots, granted>>
  BY ConfigAssumption DEF Tasks, RunInv, TypeOK, ResumeCheck
<1>2. PICK phase \in {"eligible", "refused"} :
          tasks' = [tasks EXCEPT ![t] = [tasks[t] EXCEPT !.run = r, !.approve = approve, !.phase = phase]]
  BY DEF ResumeCheck
<1> DEFINE n == [tasks[t] EXCEPT !.run = r, !.approve = approve, !.phase = phase]
<1>3. /\ n \in Task /\ n.phase = phase /\ n.run = r /\ n.host = tasks[t].host
      /\ n.seen = tasks[t].seen /\ n.graph = tasks[t].graph
  BY <1>1, <1>2 DEF Task, Phases, RequestPhases, AnswerPhases
<1>4. tasks' = [tasks EXCEPT ![t] = n]
  BY <1>2
<1> HIDE DEF n
<1>5. tasks[t].host = "none" /\ "idle" \in RequestPhases
  BY <1>1 DEF RunInv, ReadyInv, TaskReady, RequestPhases
<1>6. slots' \subseteq Runs /\ phase \in RequestPhases \cup AnswerPhases
  BY <1>1 DEF RunInv, TypeOK, RequestPhases, AnswerPhases
<1>7. Request(t)
  BY <1>1, <1>3, <1>4, <1>5, <1>6, RequestGoesOn
<1>. QED  BY <1>1, <1>7, GoesOnKeeps

LEMMA HandsKeeps ==
    ASSUME RunInv, NEW t \in Tasks, Hands(t) \/ (t \in Resumes /\ InProgress(t))
    PROVE  RunInv'
<1>1. /\ tasks[t] \in Task /\ tasks[t].phase \in {"inserted", "eligible"}
      /\ UNCHANGED <<runs, threads, granted>>
  BY DEF RunInv, TypeOK, Hands, Enqueue, RunInProcess, EnqueueFails, HandOver, InProgress, MayHandOver
<1>2. /\ tasks[t].phase \in RequestPhases /\ tasks[t].run \in Runs /\ tasks[t].host = "none"
      /\ t \in Starts => tasks[t].phase = "inserted"
  BY <1>1 DEF RunInv, ReadyInv, TaskReady, KeyInv, RequestPhases, Unassigned
<1>3. slots' \subseteq Runs
  BY <1>2 DEF RunInv, TypeOK, Hands, Enqueue, RunInProcess, EnqueueFails, HandOver, InProgress
<1>4. PICK phase \in {"brokered", "scheduled", "unavailable", "in_progress"},
           host \in {"none", "api", "worker"} :
          tasks' = [tasks EXCEPT ![t] = [tasks[t] EXCEPT !.phase = phase, !.host = host]]
  <2>1. CASE Enqueue(t)
    BY <2>1 DEF Enqueue, HandOver
  <2>2. CASE RunInProcess(t)
    BY <2>2 DEF RunInProcess, HandOver
  <2>3. CASE EnqueueFails(t) \/ InProgress(t)
    <3>1. PICK phase \in {"unavailable", "in_progress"} : tasks' = [tasks EXCEPT ![t].phase = phase]
      BY <2>3 DEF EnqueueFails, InProgress
    <3>2. [tasks[t] EXCEPT !.phase = phase] = [tasks[t] EXCEPT !.phase = phase, !.host = "none"]
      BY <1>1, <1>2 DEF Task
    <3>. QED  BY <3>1, <3>2
  <2>. QED  BY <2>1, <2>2, <2>3 DEF Hands
<1> DEFINE n == [tasks[t] EXCEPT !.phase = phase, !.host = host]
<1>5. /\ n \in Task /\ n.phase = phase /\ n.run = tasks[t].run /\ n.key = tasks[t].key
      /\ n.seen = tasks[t].seen /\ n.graph = tasks[t].graph
  <2>1. phase \in Phases
    BY DEF Phases, AnswerPhases, QueuedPhases
  <2>2. tasks[t] \in Task /\ host \in {"none", "api", "worker"}
    BY <1>1
  <2>. QED  BY <2>1, <2>2 DEF Task
<1>6. tasks' = [tasks EXCEPT ![t] = n]
  BY <1>4
<1> HIDE DEF n
<1>7. /\ phase \in AnswerPhases \cup QueuedPhases /\ phase \notin RequestPhases
  BY DEF AnswerPhases, QueuedPhases, RequestPhases
<1>8. Request(t) /\ tasks'[t] = n
  BY <1>1, <1>2, <1>3, <1>5, <1>6, <1>7, RequestGoesOn
<1>. QED  BY <1>1, <1>2, <1>5, <1>8, GoesOnKeeps

-----------------------------------------------------------------------------
(* The end of a task: its session and its graph are gone.                  *)

\* Some tasks are gone, everything else of the run stays.
LEMMA GoneKeeps ==
    ASSUME RunInv, slots' \subseteq Runs, UNCHANGED <<runs, threads, granted>>,
           NEW phase \in {"ended", "killed"}, NEW dead \in SUBSET Tasks,
           tasks' = [u \in Tasks |-> IF u \in dead THEN Gone(tasks[u], phase) ELSE tasks[u]]
    PROVE  RunInv'
<1>1. ASSUME NEW u \in Tasks
      PROVE  /\ Gone(tasks[u], phase) \in Task
             /\ Gone(tasks[u], phase).phase = phase /\ Gone(tasks[u], phase).run = tasks[u].run
             /\ Gone(tasks[u], phase).key = tasks[u].key /\ Gone(tasks[u], phase).host = tasks[u].host
             /\ Gone(tasks[u], phase).payload = tasks[u].payload
             /\ Gone(tasks[u], phase).graph = NewGraph /\ Gone(tasks[u], phase).seen = NewCells
  <2>1. tasks[u] \in Task
    BY DEF RunInv, TypeOK
  <2>2. phase \in Phases
    BY DEF Phases
  <2>. QED  BY <2>1, <2>2, NewTypes DEF Gone, Task, IdleTask
<1>2. ASSUME NEW u \in Tasks
      PROVE  /\ tasks'[u] \in Task /\ tasks'[u].run = tasks[u].run /\ tasks'[u].key = tasks[u].key
             /\ tasks'[u].host = tasks[u].host
             /\ \/ tasks'[u] = tasks[u]
                \/ /\ tasks'[u].phase = phase
                   /\ tasks'[u].graph = NewGraph /\ tasks'[u].seen = NewCells
  BY <1>1 DEF RunInv, TypeOK
<1>3. tasks' \in [Tasks -> Task]
  BY <1>2
<1>4. TypeOK'
  BY <1>3 DEF RunInv, TypeOK
<1>5. ReadyInv'
  <2>1. ASSUME NEW u \in Tasks
        PROVE  /\ TaskReady(tasks'[u])
               /\ tasks'[u].seen.results = "items" =>
                      tasks'[u].run \in Runs /\ runs[tasks'[u].run].cells.results = "items"
    <3>1. CASE tasks'[u] = tasks[u]
      BY <3>1 DEF RunInv, ReadyInv, Run
    <3>2. CASE /\ tasks'[u].phase = phase
               /\ tasks'[u].graph = NewGraph /\ tasks'[u].seen = NewCells
      BY <3>2, NewReady DEF TaskReady, Unassigned, RequestPhases, NewCells
    <3>. QED  BY <1>2, <3>1, <3>2
  <2>. QED  BY <2>1 DEF RunInv, ReadyInv, Run
<1>6. GateInv'
  <2>1. ASSUME GateOn, NEW u \in Tasks
        PROVE  /\ GraphGated(Run(u), tasks[u].graph)'
               /\ CellsGated(Run(u), tasks[u].seen)'
               /\ tasks'[u].phase \in {"legacy_mark", "legacy_resolve", "legacy_done"}
                      => tasks'[u].poisoned
    <3>1. CASE tasks'[u] = tasks[u]
      BY <2>1, <3>1 DEF RunInv, GateInv, GateOn, GraphGated, CellsGated, Run
    <3>2. CASE /\ tasks'[u].phase = phase
               /\ tasks'[u].graph = NewGraph /\ tasks'[u].seen = NewCells
      BY <3>2 DEF GraphGated, CellsGated, NewGraph, NewCells
    <3>. QED  BY <1>2, <3>1, <3>2
  <2>. QED  BY <2>1 DEF RunInv, GateInv, GateOn, GraphGated, CellsGated
<1>7. KeyInv'
  <2>1. ASSUME NEW u \in Starts
        PROVE  /\ Owns(u)' => Owns(u) /\ tasks'[u].run = tasks[u].run /\ tasks'[u].key = tasks[u].key
               /\ tasks'[u].phase # "eligible"
               /\ tasks'[u].phase = "unique" => tasks'[u].key # None
    <3>1. u \in Tasks /\ tasks[u].phase # "eligible"
          /\ (tasks[u].phase = "unique" => tasks[u].key # None)
      BY DEF Tasks, RunInv, KeyInv
    <3>2. tasks'[u].phase \in {tasks[u].phase, "ended", "killed"}
      BY <1>2, <3>1
    <3>. QED  BY <1>2, <3>1, <3>2 DEF Owns
  <2>. QED  BY <2>1, KeysKept
<1>. QED  BY <1>4, <1>5, <1>6, <1>7 DEF RunInv

LEMMA EndKeeps ==
    ASSUME RunInv, \/ \E t \in Tasks : Finish(t) \/ WorkerCrash(t)
                   \/ ApiRestart
    PROVE  RunInv'
<1>1. slots' \subseteq Runs /\ UNCHANGED <<runs, threads, granted>>
  BY DEF Finish, WorkerCrash, ApiRestart, RunInv, TypeOK
<1>2. ASSUME NEW t \in Tasks, Finish(t) PROVE RunInv'
  <2>1. tasks \in [Tasks -> Task]
    BY DEF RunInv, TypeOK
  <2>2. tasks' = [u \in Tasks |-> IF u \in {t} THEN Gone(tasks[u], "ended") ELSE tasks[u]]
    BY <1>2, <2>1 DEF Finish
  <2>. QED  BY <1>1, <2>2, GoneKeeps
<1>3. ASSUME NEW t \in Tasks, WorkerCrash(t) PROVE RunInv'
  <2>1. tasks' = [u \in Tasks |-> IF u \in {t} THEN Gone(tasks[u], "killed") ELSE tasks[u]]
    BY <1>3 DEF WorkerCrash, Kill
  <2>. QED  BY <1>1, <2>1, GoneKeeps
<1>4. CASE ApiRestart
  <2>1. PICK dead \in SUBSET Tasks :
            tasks' = [u \in Tasks |-> IF u \in dead THEN Gone(tasks[u], "killed") ELSE tasks[u]]
    BY <1>4 DEF ApiRestart, Kill
  <2>. QED  BY <1>1, <2>1, GoneKeeps
<1>. QED  BY <1>2, <1>3, <1>4

-----------------------------------------------------------------------------
(* The theorems.                                                           *)

LEMMA InitKeeps == Init => RunInv
<1> SUFFICES ASSUME Init PROVE RunInv
  OBVIOUS
<1>1. /\ \A r \in Runs : /\ runs[r] = [key |-> None, payload |-> None, cells |-> NewCells]
                         /\ threads[r] = None
      /\ \A t \in Tasks : tasks[t] = IdleTask
      /\ Made = {}
  BY DEF Init, Made
<1>2. TypeOK
  BY NewTypes DEF Init, TypeOK, Row
<1>3. TaskReady(IdleTask)
  BY NewReady DEF TaskReady, IdleTask, Unassigned, RequestPhases
<1>4. ReadyInv
  BY <1>1, <1>3, NewReady DEF ReadyInv, IdleTask, NewCells
<1>5. KeyInv
  <2>1. ASSUME NEW t \in Starts PROVE ~Owns(t) /\ tasks[t].phase \notin {"eligible", "unique"}
    BY <1>1 DEF Tasks, Owns, IdleTask
  <2>. QED  BY <1>1, <2>1 DEF KeyInv
<1>6. GateInv
  BY <1>1, NewGated DEF GateInv, IdleTask
<1>. QED  BY <1>2, <1>4, <1>5, <1>6 DEF RunInv

LEMMA NextKeeps == RunInv /\ [Next]_vars => RunInv'
<1> SUFFICES ASSUME RunInv, [Next]_vars PROVE RunInv'
  OBVIOUS
<1>1. ASSUME NEW t \in Starts, Start(t) PROVE RunInv'
  BY <1>1, ReadKeeps, CommitKeeps DEF Start
<1>2. ASSUME NEW t \in Resumes, Resume(t) PROVE RunInv'
  <2>1. t \in Tasks
    BY DEF Tasks
  <2>. QED  BY <1>2, <2>1, CheckKeeps, HandsKeeps DEF Resume
<1>3. ASSUME NEW t \in Tasks, Hands(t) PROVE RunInv'
  BY <1>3, HandsKeeps
<1>4. ASSUME NEW t \in Tasks, Executes(t) PROVE RunInv'
  BY <1>4, StepKeeps, EndKeeps
<1>5. CASE (\E t \in Tasks : WorkerCrash(t)) \/ ApiRestart
  BY <1>5, EndKeeps
<1>6. CASE UNCHANGED vars
  BY <1>6 DEF vars, RunInv, TypeOK, ReadyInv, KeyInv, GateInv, Owns, Run, Made, GraphGated, CellsGated
<1>. QED  BY <1>1, <1>2, <1>3, <1>4, <1>5, <1>6 DEF Next

\* The inductive invariant holds, however many tasks execute a run at once:
\* the rows, the store and every session and graph are ready, a start owns a
\* row of its own, and with the gate on nothing is behind it unapproved.
THEOREM RunInvariant == Spec => []RunInv
  BY InitKeeps, NextKeeps, PTL DEF Spec

\* The table, the store, the slots and the tasks keep their types; so the retry
\* count of a graph or a checkpoint never exceeds the budget.
THEOREM TypeCorrect == Spec => []TypeOK
<1>1. RunInv => TypeOK
  BY DEF RunInv
<1>. QED  BY <1>1, RunInvariant, PTL

-----------------------------------------------------------------------------
(* run_autopilot implements the abstract creation under a key.             *)

\* No row is made or changes what it was made of.
RowsSame == \A r \in Runs : runs'[r].key = runs[r].key /\ runs'[r].payload = runs[r].payload

\* The start u stays who it is, and is not answered by the step.
StartSame(u) ==
    /\ tasks'[u].run = tasks[u].run /\ tasks'[u].key = tasks[u].key
    /\ tasks'[u].payload = tasks[u].payload /\ tasks'[u].host = tasks[u].host
    /\ Owns(u)' => Owns(u)
    /\ tasks'[u].phase = "unique" => tasks[u].phase = "unique"
    /\ tasks'[u].phase = "replayed" <=> tasks[u].phase = "replayed"

LEMMA RowsStay ==
    ASSUME RowsSame
    PROVE  Made' = Made /\ UNCHANGED MadeRuns /\ \A k : WithKey(k)' = WithKey(k)
<1>1. Made' = Made
  BY DEF RowsSame, Made
<1>2. \A r \in Made : runs'[r].key = runs[r].key /\ runs'[r].payload = runs[r].payload
  BY DEF RowsSame, Made
<1>3. UNCHANGED MadeRuns
  BY <1>1, <1>2 DEF MadeRuns
<1>. QED  BY <1>1, <1>2, <1>3 DEF WithKey

\* The answers that the start u has been given.
ToldTo(u) == {a \in AnsweredStarts : a.to = u}

LEMMA ToldSame ==
    ASSUME NEW u \in Starts, StartSame(u),
           \A k : k = tasks[u].key => WithKey(k)' = WithKey(k)
    PROVE  ToldTo(u)' = ToldTo(u)
<1>1. Told(u)' = Told(u)
  BY DEF StartSame, Told
<1>2. \A a : a.to = u =>
          (a.row \in IF tasks'[a.to].phase = "replayed" THEN WithKey(a.key)' ELSE {tasks'[a.to].run})
              /\ a.key = tasks[u].key
          <=> (a.row \in IF tasks[a.to].phase = "replayed" THEN WithKey(a.key) ELSE {tasks[a.to].run})
              /\ a.key = tasks[u].key
  BY DEF StartSame
<1>. QED  BY <1>1, <1>2 DEF ToldTo, AnsweredStarts, StartSame

LEMMA AnswersSplit ==
    /\ (\A u \in Starts : ToldTo(u)' = ToldTo(u)) => UNCHANGED AnsweredStarts
    /\ \A t \in Starts : \A a :
           /\ \A u \in Starts \ {t} : ToldTo(u)' = ToldTo(u)
           /\ ToldTo(t) = {} /\ ToldTo(t)' = {a}
           => AnsweredStarts' = AnsweredStarts \cup {a} /\ \A b \in AnsweredStarts : b.to # a.to
<1>1. /\ \A a \in AnsweredStarts : a.to \in Starts /\ a \in ToldTo(a.to)
      /\ \A a \in AnsweredStarts' : a.to \in Starts /\ a \in ToldTo(a.to)'
      /\ \A u \in Starts : /\ \A a \in ToldTo(u) : a \in AnsweredStarts /\ a.to = u
                           /\ \A a \in ToldTo(u)' : a \in AnsweredStarts' /\ a.to = u
  BY DEF ToldTo, AnsweredStarts
<1>2. ASSUME NEW t \in Starts, NEW a, \A u \in Starts \ {t} : ToldTo(u)' = ToldTo(u),
             ToldTo(t) = {}, ToldTo(t)' = {a}
      PROVE  AnsweredStarts' = AnsweredStarts \cup {a} /\ \A b \in AnsweredStarts : b.to # a.to
  <2>1. a.to = t /\ a \in AnsweredStarts'
    BY <1>1, <1>2
  <2>2. \A b \in AnsweredStarts : b.to # t
    BY <1>1, <1>2
  <2>3. AnsweredStarts' \subseteq AnsweredStarts \cup {a}
    BY <1>1, <1>2
  <2>4. AnsweredStarts \subseteq AnsweredStarts'
    BY <1>1, <1>2, <2>2
  <2>. QED  BY <2>1, <2>2, <2>3, <2>4
<1>3. (\A u \in Starts : ToldTo(u)' = ToldTo(u)) => UNCHANGED AnsweredStarts
  BY <1>1
<1>. QED  BY <1>2, <1>3

\* The table of keys and every start stay as they are: nothing is made or answered.
LEMMA NothingTold ==
    ASSUME RunInv, BodyInv, RowsSame, \A u \in Starts : StartSame(u)
    PROVE  BodyInv' /\ UNCHANGED <<MadeRuns, AnsweredStarts>>
<1>1. Made' = Made /\ UNCHANGED MadeRuns /\ \A k : WithKey(k)' = WithKey(k)
  BY RowsStay
<1>2. UNCHANGED AnsweredStarts
  BY <1>1, ToldSame, AnswersSplit
<1>3. ASSUME NEW t \in Starts
      PROVE  /\ tasks'[t].phase = "unique" => tasks'[t].payload # None
             /\ Owns(t)' => runs'[tasks'[t].run].payload = tasks'[t].payload
             /\ tasks'[t].phase = "replayed" =>
                    \E r \in Made' : runs'[r].key = tasks'[t].key /\ runs'[r].payload = tasks'[t].payload
  <2>1. Owns(t) => Run(t) \in Runs
    BY DEF RunInv, KeyInv, Made
  <2>. QED  BY <1>1, <2>1 DEF StartSame, BodyInv, RowsSame, Run, Made
<1>4. BodyInv'
  BY <1>1, <1>3 DEF BodyInv, RowsSame, Made, Run
<1>. QED  BY <1>1, <1>2, <1>4

\* A start that finds its key's row, made of what it asks for, is answered with it.
LEMMA ReadTells ==
    ASSUME RunInv, RunInv', BodyInv, NEW t \in Starts, NEW k \in Keys, NEW p \in Payloads,
           StartRead(t, k, p)
    PROVE  BodyInv' /\ Creations!CreationNext
<1>1. /\ t \in Tasks /\ tasks[t] \in Task /\ tasks \in [Tasks -> Task] /\ tasks[t].phase = "idle"
      /\ tasks[t].host = "none"
  BY DEF Tasks, RunInv, TypeOK, StartRead, ReadyInv, TaskReady, RequestPhases
<1>2. PICK phase \in {"unique", "replayed", "conflict"} :
          /\ tasks' = [tasks EXCEPT ![t] = [tasks[t] EXCEPT !.key = k, !.payload = p, !.phase = phase]]
          /\ phase = "replayed" =>
                 WithKey(k) # {} /\ \A r \in WithKey(k) : runs[r].payload = p
  BY <1>1 DEF StartRead
<1>3. /\ tasks'[t].phase = phase /\ tasks'[t].key = k /\ tasks'[t].payload = p
      /\ tasks'[t].host = "none" /\ tasks'[t].run = tasks[t].run
      /\ \A u \in Tasks \ {t} : tasks'[u] = tasks[u]
  BY <1>1, <1>2 DEF Task
<1>4. RowsSame /\ runs' = runs
  BY DEF StartRead, RowsSame
<1>5. Made' = Made /\ UNCHANGED MadeRuns /\ \A q : WithKey(q)' = WithKey(q)
  BY <1>4, RowsStay
<1>6. ASSUME NEW u \in Starts \ {t}
      PROVE  ToldTo(u)' = ToldTo(u)
  <2>1. StartSame(u)
    BY <1>3 DEF Tasks, StartSame, Owns
  <2>. QED  BY <1>5, <2>1, ToldSame
<1>7. ToldTo(t) = {}
  BY <1>1 DEF ToldTo, AnsweredStarts, Told
<1>8. BodyInv'
  <2>1. ASSUME NEW u \in Starts
        PROVE  /\ tasks'[u].phase = "unique" => tasks'[u].payload # None
               /\ Owns(u)' => runs'[tasks'[u].run].payload = tasks'[u].payload
               /\ tasks'[u].phase = "replayed" =>
                      \E r \in Made' : runs'[r].key = tasks'[u].key /\ runs'[r].payload = tasks'[u].payload
    <3>1. CASE u = t
      BY <1>2, <1>3, <1>4, <1>5, <3>1, ConfigAssumption DEF Owns, WithKey
    <3>2. CASE u # t
      BY <1>3, <1>4, <1>5, <3>2 DEF Tasks, Owns, BodyInv, Run
    <3>. QED  BY <3>1, <3>2
  <2>. QED  BY <1>4, <1>5, <2>1 DEF BodyInv, Run
<1>9. CASE phase # "replayed"
  <2>1. ToldTo(t)' = {}
    BY <1>3, <1>9 DEF ToldTo, AnsweredStarts, Told
  <2>. QED  BY <1>5, <1>6, <1>7, <1>8, <2>1, AnswersSplit DEF Creations!CreationNext
<1>10. CASE phase = "replayed"
  <2>1. PICK r \in WithKey(k) : runs[r].payload = p
    BY <1>2, <1>10
  <2>2. r \in Made /\ r \in Runs /\ runs[r].key = k /\ WithKey(k) = {r}
    BY <2>1 DEF WithKey, Made, RunInv, KeyInv
  <2> DEFINE a == [to |-> t, row |-> r, key |-> k, body |-> p]
  <2>3. a \in Creations!Answer
    BY <2>2 DEF Creations!Answer
  <2>4. ToldTo(t)' = {a}
    BY <1>3, <1>5, <1>10, <2>2 DEF ToldTo, AnsweredStarts, Told
  <2>5. [row |-> r, key |-> k, body |-> p] \in MadeRuns'
    BY <1>5, <2>1, <2>2 DEF MadeRuns
  <2>6. a.to = t /\ a.row = r /\ a.key = k /\ a.body = p
    OBVIOUS
  <2> HIDE DEF a
  <2>7. AnsweredStarts' = AnsweredStarts \cup {a} /\ \A b \in AnsweredStarts : b.to # a.to
    BY <1>6, <1>7, <2>4, AnswersSplit
  <2>8. Creations!Tell(a)
    BY <2>5, <2>6, <2>7 DEF Creations!Tell
  <2>. QED  BY <1>5, <1>8, <2>3, <2>8 DEF Creations!CreationNext
<1>. QED  BY <1>9, <1>10

\* A start that commits makes a row under a key that none has.
LEMMA CommitMakes ==
    ASSUME RunInv, RunInv', BodyInv, NEW t \in Starts, NEW r \in Runs, StartCommit(t, r)
    PROVE  BodyInv' /\ Creations!CreationNext
<1>1. /\ t \in Tasks /\ tasks[t] \in Task /\ tasks \in [Tasks -> Task] /\ runs \in [Runs -> Row]
      /\ tasks[t].phase = "unique" /\ r \notin Made /\ tasks[t].host = "none"
      /\ tasks[t].key \in Keys /\ tasks[t].key # None
      /\ tasks[t].payload \in Payloads /\ tasks[t].payload # None
  <2>1. /\ t \in Tasks /\ tasks[t] \in Task /\ tasks \in [Tasks -> Task] /\ runs \in [Runs -> Row]
        /\ tasks[t].phase = "unique" /\ r \notin Made
        /\ tasks[t].key # None /\ tasks[t].payload # None
    BY DEF Tasks, RunInv, TypeOK, StartCommit, KeyInv, BodyInv
  <2>2. tasks[t].key \in Keys \cup {None} /\ tasks[t].payload \in Payloads \cup {None}
    BY <2>1 DEF Task
  <2>3. tasks[t].host = "none"
    BY <2>1 DEF RunInv, ReadyInv, TaskReady, RequestPhases
  <2>. QED  BY <2>1, <2>2, <2>3
<1>2. CASE ~KeyFree(tasks[t].key)
  <2>1. tasks' = [tasks EXCEPT ![t] = [tasks[t] EXCEPT !.phase = "error"]] /\ runs' = runs
    BY <1>2 DEF StartCommit
  <2>2. RowsSame
    BY <2>1 DEF RowsSame
  <2>3. ASSUME NEW u \in Starts PROVE StartSame(u)
    <3>1. CASE u = t
      BY <1>1, <2>1, <3>1 DEF StartSame, Owns, Task
    <3>2. CASE u # t
      BY <1>1, <2>1, <3>2 DEF StartSame, Owns
    <3>. QED  BY <3>1, <3>2
  <2>. QED  BY <2>2, <2>3, NothingTold DEF Creations!CreationNext
<1>3. CASE KeyFree(tasks[t].key)
  <2> DEFINE k == tasks[t].key
             p == tasks[t].payload
             m == [row |-> r, key |-> k, body |-> p]
  <2>1. /\ tasks' = [tasks EXCEPT ![t] = [tasks[t] EXCEPT !.phase = "inserted", !.run = r]]
        /\ runs' = [runs EXCEPT ![r] = [runs[r] EXCEPT !.key = k, !.payload = p]]
    BY <1>3 DEF StartCommit
  <2>2. /\ tasks'[t].phase = "inserted" /\ tasks'[t].run = r /\ tasks'[t].payload = p
        /\ tasks'[t].host = "none"
        /\ \A u \in Tasks \ {t} : tasks'[u] = tasks[u]
    BY <1>1, <2>1 DEF Task
  <2>3. runs'[r].key = k /\ runs'[r].payload = p /\ \A q \in Runs \ {r} : runs'[q] = runs[q]
    BY <1>1, <2>1 DEF Row
  <2>4. \A q \in Made : q \in Runs /\ q # r /\ runs'[q] = runs[q] /\ runs[q].key # k
    BY <1>1, <1>3, <2>3 DEF KeyFree, WithKey, Made
  <2>5. Made' = Made \cup {r}
    BY <1>1, <2>3 DEF Made
  <2>6. MadeRuns' = MadeRuns \cup {m}
    <3>1. MadeRuns' = {[row |-> q, key |-> runs'[q].key, body |-> runs'[q].payload] : q \in Made'}
      BY DEF MadeRuns
    <3>. QED  BY <2>3, <2>4, <2>5, <3>1 DEF MadeRuns
  <2>7. Creations!Make(m)
    <3>1. \A n \in MadeRuns : n.row # r /\ n.key # k
      BY <2>4 DEF MadeRuns
    <3>2. m.row = r /\ m.key = k
      OBVIOUS
    <3>. QED  BY <2>6, <3>1, <3>2 DEF Creations!Make
  <2>8. m \in Creations!Creation
    BY <1>1 DEF Creations!Creation
  <2>9. ASSUME NEW u \in Starts PROVE ToldTo(u)' = ToldTo(u)
    <3>1. CASE u = t
      BY <1>1, <2>2, <3>1 DEF ToldTo, AnsweredStarts, Told
    <3>2. CASE u # t /\ tasks[u].phase = "replayed"
      <4>1. tasks[u].key # k
        BY <2>4, <3>2 DEF BodyInv
      <4>2. \A q : q = tasks[u].key => WithKey(q)' = WithKey(q)
        BY <2>3, <2>4, <2>5, <4>1 DEF WithKey
      <4>3. StartSame(u)
        BY <2>2, <3>2 DEF Tasks, StartSame, Owns
      <4>. QED  BY <4>2, <4>3, ToldSame
    <3>3. CASE u # t /\ tasks[u].phase # "replayed"
      <4>1. tasks'[u] = tasks[u]
        BY <2>2, <3>3 DEF Tasks
      <4>. QED  BY <3>3, <4>1 DEF ToldTo, AnsweredStarts, Told
    <3>. QED  BY <3>1, <3>2, <3>3
  <2>10. BodyInv'
    <3>1. \A q \in Made' : runs'[q].payload # None
      BY <1>1, <2>3, <2>4, <2>5 DEF BodyInv
    <3>2. ASSUME NEW u \in Starts
          PROVE  /\ tasks'[u].phase = "unique" => tasks'[u].payload # None
                 /\ Owns(u)' => runs'[tasks'[u].run].payload = tasks'[u].payload
                 /\ tasks'[u].phase = "replayed" =>
                        \E q \in Made' : runs'[q].key = tasks'[u].key /\ runs'[q].payload = tasks'[u].payload
      <4>1. CASE u = t
        BY <2>2, <2>3, <4>1
      <4>2. CASE u # t
        <5>1. tasks'[u] = tasks[u] /\ Owns(u)' = Owns(u) /\ (Owns(u) => Run(u) \in Made)
          BY <2>2, <4>2 DEF Tasks, Owns, RunInv, KeyInv
        <5>2. Owns(u)' => runs'[tasks'[u].run].payload = tasks'[u].payload
          <6>1. Owns(u)' => Run(u) \in Made /\ runs[Run(u)].payload = tasks[u].payload
            BY <5>1 DEF BodyInv
          <6>2. Owns(u)' => runs'[Run(u)] = runs[Run(u)]
            BY <2>4, <6>1
          <6>. QED  BY <5>1, <6>1, <6>2 DEF Run
        <5>3. tasks'[u].phase = "replayed" =>
                  \E q \in Made' : runs'[q].key = tasks'[u].key /\ runs'[q].payload = tasks'[u].payload
          BY <2>4, <2>5, <5>1 DEF BodyInv
        <5>. QED  BY <5>1, <5>2, <5>3 DEF BodyInv
      <4>. QED  BY <4>1, <4>2
    <3>. QED  BY <3>1, <3>2 DEF BodyInv, Run
  <2>. QED  BY <2>7, <2>8, <2>9, <2>10, AnswersSplit DEF Creations!CreationNext
<1>. QED  BY <1>2, <1>3

\* A start whose task is handed over is answered with the row it has made.
LEMMA HandsTells ==
    ASSUME RunInv, RunInv', BodyInv, NEW t \in Starts, NEW phase \in QueuedPhases,
           NEW host \in {"api", "worker"}, HandOver(t, phase, host)
    PROVE  BodyInv' /\ Creations!CreationNext
<1>1. /\ t \in Tasks /\ tasks[t] \in Task /\ tasks \in [Tasks -> Task]
      /\ tasks[t].phase = "inserted" /\ tasks[t].host = "none" /\ Owns(t)
  <2>1. tasks[t].phase = "inserted" /\ t \in Tasks
    BY DEF Tasks, RunInv, KeyInv, HandOver, MayHandOver
  <2>. QED  BY <2>1 DEF RunInv, TypeOK, ReadyInv, TaskReady, RequestPhases, Owns
<1>2. tasks' = [tasks EXCEPT ![t] = [tasks[t] EXCEPT !.phase = phase, !.host = host]] /\ runs' = runs
  BY DEF HandOver
<1>3. /\ tasks'[t].phase = phase /\ tasks'[t].host = host /\ tasks'[t].run = tasks[t].run
      /\ tasks'[t].key = tasks[t].key /\ tasks'[t].payload = tasks[t].payload
      /\ \A u \in Tasks \ {t} : tasks'[u] = tasks[u]
  BY <1>1, <1>2 DEF Task
<1>4. phase \notin {"unique", "replayed"} /\ host # "none"
  BY DEF QueuedPhases
<1>5. RowsSame
  BY <1>2 DEF RowsSame
<1>6. Made' = Made /\ UNCHANGED MadeRuns /\ \A k : WithKey(k)' = WithKey(k)
  BY <1>5, RowsStay
<1>7. ASSUME NEW u \in Starts \ {t}
      PROVE  ToldTo(u)' = ToldTo(u)
  <2>1. StartSame(u)
    BY <1>3 DEF Tasks, StartSame, Owns
  <2>. QED  BY <1>6, <2>1, ToldSame
<1>8. ToldTo(t) = {}
  BY <1>1 DEF ToldTo, AnsweredStarts, Told
<1> DEFINE r == Run(t)
           k == tasks[t].key
           p == tasks[t].payload
           a == [to |-> t, row |-> r, key |-> k, body |-> p]
<1>9. r \in Made /\ r \in Runs /\ runs[r].key = k /\ k \in Keys /\ runs[r].payload = p /\ p \in Payloads
  <2>1. r \in Made /\ r \in Runs /\ runs[r].key = k /\ k # None /\ runs[r].payload = p /\ p # None
    BY <1>1 DEF RunInv, KeyInv, BodyInv, Made
  <2>2. k \in Keys \cup {None} /\ p \in Payloads \cup {None}
    BY <1>1 DEF Task
  <2>. QED  BY <2>1, <2>2
<1>10. a \in Creations!Answer
  BY <1>9 DEF Creations!Answer
<1>11. [row |-> r, key |-> k, body |-> p] \in MadeRuns'
  BY <1>6, <1>9 DEF MadeRuns
<1>12. ToldTo(t)' = {a}
  <2>1. tasks'[t].run = r
    BY <1>3 DEF Run
  <2> HIDE DEF r
  <2>. QED  BY <1>3, <1>4, <1>9, <2>1 DEF ToldTo, AnsweredStarts, Told
<1>13. a.to = t /\ a.row = r /\ a.key = k /\ a.body = p
  OBVIOUS
<1>14. BodyInv'
  <2>1. ASSUME NEW u \in Starts
        PROVE  /\ tasks'[u].phase = "unique" => tasks'[u].payload # None
               /\ Owns(u)' => runs'[tasks'[u].run].payload = tasks'[u].payload
               /\ tasks'[u].phase = "replayed" =>
                      \E q \in Made' : runs'[q].key = tasks'[u].key /\ runs'[q].payload = tasks'[u].payload
    <3>1. CASE u = t
      BY <1>2, <1>3, <1>4, <1>9, <3>1 DEF Run
    <3>2. CASE u # t
      BY <1>2, <1>3, <1>6, <3>2 DEF Tasks, Owns, BodyInv, Run
    <3>. QED  BY <3>1, <3>2
  <2>. QED  BY <1>2, <1>6, <2>1 DEF BodyInv, Run
<1> HIDE DEF a
<1>15. AnsweredStarts' = AnsweredStarts \cup {a} /\ \A b \in AnsweredStarts : b.to # a.to
  BY <1>7, <1>8, <1>12, AnswersSplit
<1>16. Creations!Tell(a)
  BY <1>11, <1>13, <1>15 DEF Creations!Tell
<1>. QED  BY <1>6, <1>10, <1>14, <1>16 DEF Creations!CreationNext

\* Everything else leaves the keys and the starts' answers alone.
LEMMA OthersTellNothing ==
    ASSUME RunInv, Next,
           ~\E t \in Starts : \/ Start(t)
                              \/ \E phase \in QueuedPhases, host \in {"api", "worker"} :
                                     HandOver(t, phase, host)
    PROVE  RowsSame /\ \A u \in Starts : StartSame(u)
<1>1. tasks \in [Tasks -> Task] /\ Starts \subseteq Tasks /\ Starts \cap Resumes = {}
  BY ConfigAssumption DEF RunInv, TypeOK, Tasks
<1>2. ASSUME NEW u \in Tasks, tasks'[u] = tasks[u] PROVE StartSame(u)
  BY <1>2 DEF StartSame, Owns
<1>3. ASSUME NEW t \in Resumes, \A u \in Tasks \ {t} : tasks'[u] = tasks[u], runs' = runs
      PROVE  RowsSame /\ \A u \in Starts : StartSame(u)
  BY <1>1, <1>2, <1>3 DEF RowsSame
<1>4. ASSUME NEW t \in Resumes, Resume(t)
      PROVE  RowsSame /\ \A u \in Starts : StartSame(u)
  <2>1. (\A u \in Tasks \ {t} : tasks'[u] = tasks[u]) /\ runs' = runs
    BY <1>1, <1>4 DEF Resume, ResumeCheck, InProgress
  <2>. QED  BY <1>3, <2>1
<1>5. ASSUME NEW t \in Tasks, Hands(t)
      PROVE  RowsSame /\ \A u \in Starts : StartSame(u)
  <2>1. CASE t \in Resumes
    <3>1. (\A u \in Tasks \ {t} : tasks'[u] = tasks[u]) /\ runs' = runs
      BY <1>1, <1>5 DEF Hands, Enqueue, RunInProcess, EnqueueFails, HandOver
    <3>. QED  BY <1>3, <2>1, <3>1
  <2>2. CASE t \in Starts
    <3>1. EnqueueFails(t)
      BY <1>5, <2>2 DEF Hands, Enqueue, RunInProcess, QueuedPhases
    <3>2. tasks[t].phase = "inserted"
      BY <2>2, <3>1 DEF EnqueueFails, MayHandOver, RunInv, KeyInv
    <3>3. tasks' = [tasks EXCEPT ![t] = [tasks[t] EXCEPT !.phase = "unavailable"]] /\ runs' = runs
      BY <3>1 DEF EnqueueFails
    <3>4. StartSame(t)
      BY <1>1, <2>2, <3>2, <3>3 DEF StartSame, Owns, Task
    <3>5. \A u \in Starts \ {t} : StartSame(u)
      BY <1>1, <1>2, <3>3
    <3>. QED  BY <3>3, <3>4, <3>5 DEF RowsSame
  <2>. QED  BY <2>1, <2>2 DEF Tasks
<1>6. ASSUME NEW t \in Tasks, Executes(t), ~Finish(t)
      PROVE  RowsSame /\ \A u \in Starts : StartSame(u)
  <2>1. Step(t) /\ Executing(t)
    BY <1>6, ExecutesStep, ExecutesIsExecuting
  <2>2. RowsSame
    BY <2>1, RowAfterStep DEF NowHolds, RowsSame
  <2>3. tasks[t].phase # "replayed" /\ tasks'[t].phase \notin {"inserted", "unique", "replayed"}
    BY <2>1 DEF Step, MovedOn, Executing, QueuedPhases, RunPhases, GraphPhases
  <2>4. StartSame(t)
    BY <2>1, <2>3 DEF Step, MovedOn, StartSame, Owns
  <2>. QED  BY <1>1, <1>2, <2>1, <2>2, <2>4 DEF Step, MovedOn
<1>7. ASSUME runs' = runs,
             \A u \in Tasks : \/ tasks'[u] = tasks[u]
                              \/ /\ tasks[u].phase # "replayed"
                                 /\ tasks'[u] \in {Gone(tasks[u], "ended"), Gone(tasks[u], "killed")}
      PROVE  RowsSame /\ \A u \in Starts : StartSame(u)
  <2>1. ASSUME NEW u \in Tasks, NEW phase \in {"ended", "killed"}
        PROVE  LET n == Gone(tasks[u], phase) IN
               /\ n.phase = phase /\ n.run = tasks[u].run /\ n.key = tasks[u].key
               /\ n.host = tasks[u].host /\ n.payload = tasks[u].payload
    BY DEF Gone, IdleTask
  <2>2. ASSUME NEW u \in Starts PROVE StartSame(u)
    <3>1. CASE tasks'[u] = tasks[u]
      BY <1>1, <1>2, <3>1
    <3>2. CASE tasks'[u] # tasks[u]
      BY <1>1, <1>7, <2>1, <3>2 DEF StartSame, Owns
    <3>. QED  BY <3>1, <3>2
  <2>. QED  BY <1>7, <2>2 DEF RowsSame
<1>8. ASSUME NEW t \in Tasks, Finish(t)
      PROVE  RowsSame /\ \A u \in Starts : StartSame(u)
  <2>1. /\ \A u \in Tasks : tasks'[u] = tasks[u] \/ (u = t /\ tasks'[u] = Gone(tasks[u], "ended"))
        /\ runs' = runs /\ tasks[t].phase # "replayed"
    BY <1>1, <1>8 DEF Finish
  <2>. QED  BY <1>7, <2>1
<1>9. ASSUME NEW t \in Tasks, WorkerCrash(t)
      PROVE  RowsSame /\ \A u \in Starts : StartSame(u)
  <2>1. /\ \A u \in Tasks : tasks'[u] = tasks[u] \/ (u = t /\ tasks'[u] = Gone(tasks[u], "killed"))
        /\ runs' = runs /\ tasks[t].phase # "replayed"
    BY <1>9 DEF WorkerCrash, Kill, RunPhases, GraphPhases
  <2>. QED  BY <1>7, <2>1
<1>10. CASE ApiRestart
  <2>1. PICK dead \in SUBSET Tasks :
            /\ tasks' = Kill(dead)
            /\ \A u \in dead : tasks[u].phase # "replayed"
    BY <1>10 DEF ApiRestart, QueuedPhases, RunPhases, GraphPhases
  <2>. QED  BY <1>7, <1>10, <2>1 DEF ApiRestart, Kill
<1>. QED  BY <1>4, <1>5, <1>6, <1>8, <1>9, <1>10 DEF Next

LEMMA CreationStep ==
    ASSUME RunInv, RunInv', BodyInv, [Next]_vars
    PROVE  BodyInv' /\ [Creations!CreationNext]_(Creations!creationVars)
<1>1. ASSUME NEW t \in Starts, Start(t) PROVE BodyInv' /\ Creations!CreationNext
  BY <1>1, ReadTells, CommitMakes DEF Start
<1>2. ASSUME NEW t \in Starts, NEW phase \in QueuedPhases, NEW host \in {"api", "worker"},
             HandOver(t, phase, host)
      PROVE  BodyInv' /\ Creations!CreationNext
  BY <1>2, HandsTells
<1>3. CASE /\ Next
           /\ ~\E t \in Starts : \/ Start(t)
                                 \/ \E phase \in QueuedPhases, host \in {"api", "worker"} :
                                        HandOver(t, phase, host)
  BY <1>3, OthersTellNothing, NothingTold DEF Creations!CreationNext
<1>4. CASE UNCHANGED vars
  <2>1. RowsSame /\ \A u \in Starts : StartSame(u)
    BY <1>4 DEF vars, RowsSame, StartSame, Owns
  <2>. QED  BY <2>1, NothingTold DEF Creations!creationVars
<1>. QED  BY <1>1, <1>2, <1>3, <1>4

LEMMA InitBody == Init => BodyInv /\ Creations!CreationInit
<1> SUFFICES ASSUME Init PROVE BodyInv /\ Creations!CreationInit
  OBVIOUS
<1>1. Made = {} /\ \A t \in Starts : tasks[t] = IdleTask
  BY DEF Init, Made, Tasks
<1>2. BodyInv /\ AnsweredStarts = {}
  BY <1>1 DEF BodyInv, AnsweredStarts, Told, Owns, IdleTask
<1>3. MadeRuns = {}
  BY <1>1 DEF MadeRuns
<1>. QED  BY <1>2, <1>3 DEF Creations!CreationInit

\* run_autopilot implements KeyedCreation, whatever the starts interleave with and
\* wherever one of them fails or dies: an idempotency key starts one run, of what was
\* asked for, and hands it over once.
THEOREM KeyOnce == Spec => KeyStartsOnce
<1>1. RunInv => HandedOverOnce
  <2> SUFFICES ASSUME RunInv, NEW t \in Starts, NEW u \in Starts, t # u,
                      tasks[t].host # "none", tasks[u].host # "none"
               PROVE  tasks[t].key # tasks[u].key
    BY DEF HandedOverOnce
  <2>1. \A r, q \in Made : runs[r].key = runs[q].key => r = q
    BY DEF RunInv, KeyInv
  <2>2. /\ Run(t) \in Made /\ runs[Run(t)].key = tasks[t].key
        /\ Run(u) \in Made /\ runs[Run(u)].key = tasks[u].key
        /\ Run(t) # Run(u)
    BY DEF RunInv, KeyInv, Owns
  <2>. QED  BY <2>1, <2>2
<1>2. RunInv /\ RunInv' /\ BodyInv /\ [Next]_vars =>
          BodyInv' /\ [Creations!CreationNext]_(Creations!creationVars)
  BY CreationStep
<1>. QED  BY <1>1, <1>2, InitBody, RunInvariant, PTL DEF Spec, KeyStartsOnce, Creations!CreationSpec

\* While LangGraph's store does not fail, no run is done whose gate was not
\* passed with an approval.
THEOREM GateHonoured == ASSUME ~StoreFails PROVE Spec => []GateIsHonoured
<1>1. RunInv => GateIsHonoured
  BY DEF RunInv, GateInv, CellsGated, GateIsHonoured
<1>. QED  BY <1>1, RunInvariant, PTL

\* A run reported as done carries the results of its items.
THEOREM DoneReports == Spec => []DoneReportsItems
<1>1. RunInv => DoneReportsItems
  BY DEF RunInv, ReadyInv, CellsReady, DoneReportsItems
<1>. QED  BY <1>1, RunInvariant, PTL

-----------------------------------------------------------------------------
(* The slots of the API process.                                           *)

\* A holder that goes on executing, or that a worker was given, still holds its slot.
LEMMA SlotsHeld ==
    ASSUME SlotInv, slots' \subseteq slots,
           \A u \in Resumes : Run(u) \in slots' /\ Active(u) /\ tasks[u].host = "api" =>
               /\ tasks'[u].phase \in QueuedPhases \cup RunPhases
               /\ tasks'[u].host = "api" /\ tasks'[u].run = tasks[u].run,
           \A u \in Resumes : Run(u) \in slots' /\ tasks[u].host = "worker" =>
               tasks'[u].host = "worker" /\ tasks'[u].run = tasks[u].run
    PROVE  SlotInv'
<1> SUFFICES ASSUME NEW r \in slots' PROVE \E u \in Resumes : Occupies(u, r)'
  BY DEF SlotInv
<1>1. PICK u \in Resumes : Occupies(u, r)
  BY DEF SlotInv
<1>2. Occupies(u, r)'
  BY <1>1 DEF Occupies, Active, Run
<1>. QED  BY <1>2

LEMMA InitSlots == Init => SlotInv
  BY DEF Init, SlotInv

LEMMA NextSlots == RunInv /\ SlotInv /\ [Next]_vars => SlotInv'
<1> SUFFICES ASSUME RunInv, SlotInv, [Next]_vars PROVE SlotInv'
  OBVIOUS
<1>1. tasks \in [Tasks -> Task] /\ Resumes \subseteq Tasks /\ Starts \cap Resumes = {}
  BY ConfigAssumption DEF RunInv, TypeOK, Tasks
<1>. \A task, phase : Gone(task, phase).host = task.host /\ Gone(task, phase).run = task.run
  BY DEF Gone, IdleTask
<1>2. ASSUME NEW t \in Tasks, tasks[t].phase \in RequestPhases, slots' \subseteq slots,
             \A u \in Tasks \ {t} : tasks'[u] = tasks[u]
      PROVE  SlotInv'
  <2>1. tasks[t].phase \notin QueuedPhases \cup RunPhases /\ tasks[t].host = "none"
    BY <1>2 DEF RequestPhases, QueuedPhases, RunPhases, GraphPhases, RunInv, ReadyInv, TaskReady
  <2>. QED  BY <1>1, <1>2, <2>1, SlotsHeld DEF Active
<1>3. ASSUME NEW t \in Starts, Start(t) PROVE SlotInv'
  <2>1. tasks[t].phase \in RequestPhases /\ slots' \subseteq slots
    BY <1>3 DEF Start, StartRead, StartCommit, RequestPhases
  <2>2. \A u \in Tasks \ {t} : tasks'[u] = tasks[u]
    BY <1>1, <1>3 DEF Start, StartRead, StartCommit
  <2>. QED  BY <1>2, <2>1, <2>2 DEF Tasks
<1>4. ASSUME NEW t \in Resumes, Resume(t) PROVE SlotInv'
  <2>1. tasks[t].phase \in RequestPhases /\ slots' \subseteq slots
    BY <1>4 DEF Resume, ResumeCheck, InProgress, RequestPhases
  <2>2. \A u \in Tasks \ {t} : tasks'[u] = tasks[u]
    BY <1>1, <1>4 DEF Resume, ResumeCheck, InProgress
  <2>. QED  BY <1>2, <2>1, <2>2 DEF Tasks
<1>5. ASSUME NEW t \in Tasks, Hands(t) PROVE SlotInv'
  <2>1. CASE EnqueueFails(t)
    <3>1. tasks[t].phase \in RequestPhases /\ slots' = slots
      BY <2>1 DEF EnqueueFails, MayHandOver, RequestPhases
    <3>2. \A u \in Tasks \ {t} : tasks'[u] = tasks[u]
      BY <1>1, <2>1 DEF EnqueueFails
    <3>. QED  BY <1>2, <3>1, <3>2
  <2>2. ASSUME NEW phase \in QueuedPhases, NEW host \in {"api", "worker"},
               HandOver(t, phase, host)
        PROVE  SlotInv'
    <3>1. tasks[t].phase \in RequestPhases
      BY <2>2 DEF HandOver, MayHandOver, RequestPhases
    <3>2. /\ tasks[t] \in Task
          /\ tasks' = [tasks EXCEPT ![t] = [tasks[t] EXCEPT !.phase = phase, !.host = host]]
      BY <1>1, <2>2 DEF HandOver
    <3>3. /\ [tasks[t] EXCEPT !.phase = phase, !.host = host].phase = phase
          /\ [tasks[t] EXCEPT !.phase = phase, !.host = host].host = host
          /\ [tasks[t] EXCEPT !.phase = phase, !.host = host].run = tasks[t].run
      BY <3>2 DEF Task
    <3>4. /\ \A u \in Tasks \ {t} : tasks'[u] = tasks[u]
          /\ tasks'[t].phase = phase /\ tasks'[t].host = host /\ tasks'[t].run = tasks[t].run
      BY <1>1, <3>2, <3>3
    <3>5. CASE t \in Resumes
      <4>1. slots' = slots \cup {Run(t)}
        BY <2>2, <3>5 DEF HandOver, Run
      <4>2. tasks[t].host = "none"
        BY <1>1, <3>1 DEF RunInv, ReadyInv, TaskReady
      <4>3. ASSUME NEW r \in slots' PROVE \E u \in Resumes : Occupies(u, r)'
        <5>1. CASE r = Run(t)
          <6>1. Occupies(t, r)'
            BY <2>2, <3>4, <5>1 DEF Occupies, Active, Run
          <6>. QED  BY <3>5, <6>1
        <5>2. CASE r # Run(t)
          <6>1. PICK u \in Resumes : Occupies(u, r)
            BY <4>1, <5>2 DEF SlotInv
          <6>2. tasks'[u] = tasks[u]
            BY <1>1, <3>4, <5>2, <6>1 DEF Occupies
          <6>3. Occupies(u, r)'
            BY <6>1, <6>2 DEF Occupies, Active, Run
          <6>. QED  BY <6>3
        <5>. QED  BY <5>1, <5>2
      <4>. QED  BY <4>3 DEF SlotInv
    <3>6. CASE t \notin Resumes
      <4>1. slots' = slots
        BY <2>2, <3>6 DEF HandOver
      <4>. QED  BY <1>2, <3>1, <3>4, <4>1
    <3>. QED  BY <3>5, <3>6
  <2>. QED  BY <1>5, <2>1, <2>2 DEF Hands, Enqueue, RunInProcess, QueuedPhases
<1>6. ASSUME NEW t \in Tasks, Executes(t), ~Finish(t) PROVE SlotInv'
  <2>1. MovedOn(t) /\ slots' = slots
    BY <1>6, ExecutesStep DEF Step
  <2>2. ASSUME NEW u \in Resumes
        PROVE  /\ tasks'[u].host = tasks[u].host /\ tasks'[u].run = tasks[u].run
               /\ Active(u) => tasks'[u].phase \in QueuedPhases \cup RunPhases
    BY <1>1, <2>1 DEF MovedOn, Active
  <2>. QED  BY <2>1, <2>2, SlotsHeld
<1>7. ASSUME NEW t \in Tasks, Finish(t) PROVE SlotInv'
  <2>1. /\ \A u \in Tasks \ {t} : tasks'[u] = tasks[u]
        /\ tasks'[t] = Gone(tasks[t], "ended")
        /\ slots' = IF t \in Resumes /\ tasks[t].host = "api" THEN slots \ {Run(t)} ELSE slots
    BY <1>1, <1>7 DEF Finish
  <2>2. ASSUME NEW u \in Resumes, Run(u) \in slots', tasks[u].host = "api"
        PROVE  tasks'[u] = tasks[u]
    BY <1>1, <2>1, <2>2
  <2>3. \A u \in Resumes : tasks'[u].host = tasks[u].host /\ tasks'[u].run = tasks[u].run
    BY <1>1, <2>1
  <2>4. slots' \subseteq slots
    BY <2>1
  <2>. QED  BY <2>2, <2>3, <2>4, SlotsHeld DEF Active
<1>8. ASSUME NEW t \in Tasks, WorkerCrash(t) PROVE SlotInv'
  <2>1. /\ tasks[t].host = "worker" /\ slots' = slots
        /\ \A u \in Tasks \ {t} : tasks'[u] = tasks[u]
        /\ tasks'[t] = Gone(tasks[t], "killed")
    BY <1>8 DEF WorkerCrash, Kill
  <2>2. ASSUME NEW u \in Resumes, tasks[u].host = "api"
        PROVE  tasks'[u] = tasks[u]
    BY <1>1, <2>1, <2>2
  <2>3. \A u \in Resumes : tasks'[u].host = tasks[u].host /\ tasks'[u].run = tasks[u].run
    BY <1>1, <2>1
  <2>. QED  BY <2>1, <2>2, <2>3, SlotsHeld DEF Active
<1>9. CASE ApiRestart
  BY <1>9 DEF ApiRestart, SlotInv
<1>10. CASE UNCHANGED vars
  BY <1>10 DEF vars, SlotInv, Occupies, Active, Run
<1>. QED  BY <1>3, <1>4, <1>5, <1>6, <1>7, <1>8, <1>9, <1>10 DEF Next

\* A resume is refused as in progress only because another of its run occupies the slot,
\* under way in the API process or given to a worker, in every configuration.
THEOREM RefusedForOne == Spec => RefusedForAResume
<1> DEFINE ForOne == \A t \in Resumes : Refused(t) => \E u \in Resumes : Occupies(u, Run(t))
<1>1. RunInv /\ SlotInv /\ [Next]_vars => [ForOne]_vars
  <2> SUFFICES ASSUME RunInv, SlotInv, Next, NEW t \in Resumes,
                      tasks[t].phase # "in_progress", tasks'[t].phase = "in_progress"
               PROVE  \E u \in Resumes : Occupies(u, Run(t))
    BY DEF Refused
  <2>1. Run(t) \in slots
    <3>1. /\ tasks \in [Tasks -> Task] /\ Resumes \subseteq Tasks /\ Starts \cap Resumes = {}
          /\ tasks'[t] # tasks[t]
      BY ConfigAssumption DEF RunInv, TypeOK, Tasks
    <3>2. ~\E u \in Starts : Start(u)
      <4>1. ASSUME NEW u \in Starts, Start(u) PROVE FALSE
        <5>1. u # t
          BY <3>1
        <5>2. tasks'[t] = tasks[t]
          BY <3>1, <4>1, <5>1 DEF Start, StartRead, StartCommit
        <5>. QED  BY <3>1, <5>2
      <4>. QED  BY <4>1
    <3>3. ~\E u \in Tasks : Hands(u)
      <4>1. ASSUME NEW u \in Tasks, Hands(u) PROVE FALSE
        <5>1. PICK phase \in {"brokered", "scheduled", "unavailable"}, host \in {"none", "api", "worker"} :
                 tasks' \in { [tasks EXCEPT ![u].phase = phase, ![u].host = host],
                              [tasks EXCEPT ![u].phase = phase] }
          BY <4>1 DEF Hands, Enqueue, RunInProcess, EnqueueFails, HandOver
        <5>2. tasks[u] \in Task
          BY <3>1
        <5>3. tasks'[u].phase = phase /\ \A v \in Tasks \ {u} : tasks'[v] = tasks[v]
          BY <3>1, <5>1, <5>2 DEF Task
        <5>. QED  BY <3>1, <5>3
      <4>. QED  BY <4>1
    <3>4. ~\E u \in Tasks : Executes(u) /\ ~Finish(u)
      <4>1. ASSUME NEW u \in Tasks, Executes(u), ~Finish(u) PROVE FALSE
        <5>1. MovedOn(u)
          BY <4>1, ExecutesStep DEF Step
        <5>2. "in_progress" \notin RunPhases
          BY DEF RunPhases, GraphPhases
        <5>. QED  BY <3>1, <5>1, <5>2 DEF MovedOn
      <4>. QED  BY <4>1
    <3>. \A task : /\ Gone(task, "ended").phase = "ended"
                   /\ Gone(task, "killed").phase = "killed"
      BY DEF Gone, IdleTask
    <3>5. ~\E u \in Tasks : Finish(u)
      <4>1. ASSUME NEW u \in Tasks, Finish(u) PROVE FALSE
        <5>1. tasks'[t] \in {tasks[t], Gone(tasks[t], "ended")}
          BY <3>1, <4>1 DEF Finish
        <5>. QED  BY <3>1, <5>1
      <4>. QED  BY <4>1
    <3>6. ~(\E u \in Tasks : WorkerCrash(u)) /\ ~ApiRestart
      <4>1. ASSUME NEW dead, tasks' = Kill(dead) PROVE FALSE
        <5>1. tasks'[t] \in {tasks[t], Gone(tasks[t], "killed")}
          BY <3>1, <4>1 DEF Kill
        <5>. QED  BY <3>1, <5>1
      <4>. QED  BY <4>1 DEF WorkerCrash, ApiRestart
    <3>7. PICK u \in Resumes : Resume(u)
      BY <3>2, <3>3, <3>4, <3>5, <3>6 DEF Next
    <3>8. u = t
      BY <3>1, <3>7 DEF Resume, ResumeCheck, InProgress
    <3>9. ~\E r \in Runs, approve \in BOOLEAN : ResumeCheck(t, r, approve)
      <4>1. ASSUME NEW r \in Runs, NEW approve \in BOOLEAN, ResumeCheck(t, r, approve) PROVE FALSE
        <5>1. PICK phase \in {"eligible", "refused"} :
                 tasks' = [tasks EXCEPT ![t] = [tasks[t] EXCEPT !.run = r, !.approve = approve,
                                                               !.phase = phase]]
          BY <4>1 DEF ResumeCheck
        <5>2. [tasks[t] EXCEPT !.run = r, !.approve = approve, !.phase = phase].phase = phase
          BY <3>1 DEF Task
        <5>. QED  BY <3>1, <5>1, <5>2
      <4>. QED  BY <4>1
    <3>. QED  BY <3>7, <3>8, <3>9 DEF Resume, InProgress, Run
  <2>. QED  BY <2>1 DEF SlotInv
<1>2. Spec => [](RunInv /\ SlotInv)
  <2>1. RunInv /\ SlotInv /\ [Next]_vars => SlotInv'
    BY NextSlots
  <2>. QED  BY InitKeeps, InitSlots, NextKeeps, <2>1, PTL DEF Spec
<1>. QED  BY <1>1, <1>2, PTL DEF Spec, RefusedForAResume
-----------------------------------------------------------------------------
(* The steps of a task are bounded.                                        *)

LEMMA Ranks ==
    /\ NodeRank["mark_running"] = 6 /\ NodeRank["resolve_targets"] = 5
    /\ NodeRank["process_items"] = 4 /\ NodeRank["approval_interrupt"] = 3
    /\ NodeRank["persist_done"] = 2 /\ NodeRank["persist_failed"] = 1 /\ NodeRank["end"] = 0
    /\ PhaseRank["marker"] = 6 /\ PhaseRank["legacy_mark"] = 5
    /\ PhaseRank["legacy_resolve"] = 4 /\ PhaseRank["legacy_done"] = 3
    /\ PhaseRank["resume_failed"] = 3 /\ PhaseRank["handler"] = 2 /\ PhaseRank["finish"] = 1
  BY DEF NodeRank, PhaseRank

\* Inside the graph there is more to come than outside it, and less than there was
\* before the task began.
LEMMA GraphLeftType ==
    ASSUME NEW g \in Graph, NEW phase
    PROVE  GraphLeft(phase, g) \in Nat /\ 7 <= GraphLeft(phase, g)
           /\ GraphLeft(phase, g) <= 20 + 16 * MaxRetries
<1>1. NodeRank[g.at] \in 0 .. 6
  BY Ranks DEF Graph, Nodes
<1>2. MaxRetries \in Nat /\ g.retries \in 0 .. MaxRetries
  BY ConfigAssumption DEF Graph
<1> DEFINE n == NodeRank[g.at]
           d == MaxRetries - g.retries
           b == IF phase = "node" THEN 1 ELSE 0
<1>3. n \in 0 .. 6 /\ d \in 0 .. MaxRetries /\ b \in 0 .. 1
  BY <1>1, <1>2
<1>4. GraphLeft(phase, g) = 7 + 16 * d + 2 * n + b
  BY DEF GraphLeft
<1> HIDE DEF n, d, b
<1>. QED  BY <1>2, <1>3, <1>4

\* The end of a node uses up something, a retry included, whatever the graph holds.
LEMMA AfterLeft ==
    ASSUME NEW g \in Graph, g.at \in Nodes, NEW phase
    PROVE  GraphLeft("node", After(g)) < GraphLeft(phase, g)
<1>1. /\ MaxRetries \in Nat /\ g.retries \in 0 .. MaxRetries
      /\ NodeRank[g.at] \in 0 .. 6 /\ NodeRank[g.at] >= 1
  BY ConfigAssumption, Ranks DEF Graph, Nodes
<1>2. CASE g.error = "none" \/ g.at = "persist_failed"
  <2>1. /\ After(g).at = Route(g.at) /\ After(g).retries = g.retries
    BY <1>2 DEF After, Graph
  <2>2. NodeRank[Route(g.at)] \in 0 .. 6 /\ NodeRank[Route(g.at)] + 1 <= NodeRank[g.at]
    BY Ranks DEF Route, Nodes
  <2>. QED  BY <1>1, <2>1, <2>2 DEF GraphLeft
<1>3. CASE ~(g.error = "none" \/ g.at = "persist_failed")
           /\ g.at \in {"resolve_targets", "process_items"} /\ CanRetry(g)
  <2>1. After(g) = Retried(g)
    BY <1>3 DEF After
  <2>2. /\ After(g).retries = g.retries + 1 /\ After(g).at = g.error
        /\ g.error \in {"resolve_targets", "process_items"}
    BY <1>3, <2>1 DEF Retried, CanRetry, Graph
  <2>3. NodeRank[g.error] <= 5 /\ NodeRank[g.error] \in 0 .. 6 /\ NodeRank[g.at] >= 4
    BY <1>3, <2>2, Ranks
  <2>. QED  BY <1>1, <2>2, <2>3 DEF GraphLeft
<1>4. CASE ~(g.error = "none" \/ g.at = "persist_failed")
           /\ ~(g.at \in {"resolve_targets", "process_items"} /\ CanRetry(g))
  <2>1. After(g).at = "persist_failed" /\ After(g).retries = g.retries
    BY <1>4 DEF After, Graph
  <2>2. NodeRank[g.at] >= 2 /\ NodeRank["persist_failed"] = 1
    BY <1>4, Ranks DEF Nodes
  <2>. QED  BY <1>1, <2>1, <2>2 DEF GraphLeft
<1>. QED  BY <1>2, <1>3, <1>4

\* What is left of a task, by its phase.
LEMMA LeftByPhase ==
    ASSUME NEW task
    PROVE  /\ task.phase \in GraphPhases => StepsLeft(task) = GraphLeft(task.phase, task.graph)
           /\ task.phase = "marker" => StepsLeft(task) = 6
           /\ task.phase = "legacy_mark" => StepsLeft(task) = 5
           /\ task.phase = "legacy_resolve" => StepsLeft(task) = 4
           /\ task.phase \in {"legacy_done", "resume_failed"} => StepsLeft(task) = 3
           /\ task.phase = "handler" => StepsLeft(task) = 2
           /\ task.phase = "finish" => StepsLeft(task) = 1
           /\ task.phase \in QueuedPhases => StepsLeft(task) = 23 + 16 * MaxRetries
           /\ task.phase \in {"inserted", "eligible"} => StepsLeft(task) = 24 + 16 * MaxRetries
           /\ task.phase = "unique" => StepsLeft(task) = 25 + 16 * MaxRetries
           /\ task.phase = "idle" => StepsLeft(task) = 26 + 16 * MaxRetries
           /\ task.phase \in AnswerPhases \cup {"ended", "killed"} => StepsLeft(task) = 0
  BY Ranks DEF StepsLeft, GraphPhases, RunPhases, QueuedPhases, AnswerPhases

LEMMA StepsLeftType == \A task \in Task : StepsLeft(task) \in Nat
<1> SUFFICES ASSUME NEW task \in Task PROVE StepsLeft(task) \in Nat
  OBVIOUS
<1>1. task.graph \in Graph /\ task.phase \in Phases /\ MaxRetries \in Nat
  BY ConfigAssumption DEF Task
<1>2. CASE task.phase \in GraphPhases
  BY <1>1, <1>2, LeftByPhase, GraphLeftType
<1>3. CASE task.phase \notin GraphPhases
  BY <1>1, <1>3, LeftByPhase DEF Phases, RequestPhases, RunPhases, QueuedPhases, AnswerPhases
<1>. QED  BY <1>2, <1>3

\* One of the steps of t is used up, and no other task has taken one.
UsesUp(t) ==
    /\ StepsLeft(tasks'[t]) < StepsLeft(tasks[t])
    /\ \A u \in Tasks \ {t} : tasks'[u] = tasks[u]

\* Going on with a graph that has less before it.
LEMMA GraphUsed ==
    ASSUME TypeOK, NEW t \in Tasks, NEW g \in Graph, NEW phase \in GraphPhases,
           tasks' = [tasks EXCEPT ![t] = tasks'[t]], tasks'[t].phase = phase,
           tasks'[t].graph = g,
           \/ tasks[t].phase \in QueuedPhases
           \/ /\ tasks[t].phase \in GraphPhases
              /\ GraphLeft(phase, g) < GraphLeft(tasks[t].phase, tasks[t].graph)
    PROVE  UsesUp(t)
<1>1. GraphLeft(phase, g) \in Nat /\ GraphLeft(phase, g) <= 20 + 16 * MaxRetries /\ MaxRetries \in Nat
  BY GraphLeftType, ConfigAssumption
<1>2. StepsLeft(tasks'[t]) = GraphLeft(phase, g)
  BY LeftByPhase
<1>3. \A u \in Tasks \ {t} : tasks'[u] = tasks[u]
  BY DEF TypeOK
<1>. QED  BY <1>1, <1>2, <1>3, LeftByPhase DEF UsesUp

\* Going on outside of it, from the graph or from a phase that is further away.
LEMMA OthersUsed ==
    ASSUME TypeOK, NEW t \in Tasks, NEW phase,
           tasks' = [tasks EXCEPT ![t] = tasks'[t]], tasks'[t].phase = phase,
           \/ /\ tasks[t].phase \in GraphPhases \cup QueuedPhases
              /\ phase \in RunPhases \ GraphPhases
           \/ tasks[t].phase = "marker" /\ phase \in {"finish", "legacy_mark"}
           \/ tasks[t].phase = "legacy_mark" /\ phase \in {"legacy_resolve", "handler"}
           \/ tasks[t].phase = "legacy_resolve" /\ phase \in {"legacy_done", "handler"}
           \/ tasks[t].phase \in {"legacy_done", "resume_failed"} /\ phase \in {"finish", "handler"}
           \/ tasks[t].phase = "handler" /\ phase = "finish"
           \/ tasks[t].phase = "finish" /\ phase = "ended"
           \/ /\ tasks[t].phase \in {"inserted", "eligible"}
              /\ phase \in QueuedPhases \cup {"unavailable", "in_progress"}
           \/ tasks[t].phase = "unique" /\ phase \in {"inserted", "error"}
           \/ /\ tasks[t].phase = "idle"
              /\ phase \in {"unique", "replayed", "conflict", "eligible", "refused"}
    PROVE  UsesUp(t)
<1>1. tasks[t].graph \in Graph /\ MaxRetries \in Nat
  BY ConfigAssumption DEF TypeOK, Task
<1>2. \A u \in Tasks \ {t} : tasks'[u] = tasks[u]
  BY DEF TypeOK
<1>3. ASSUME tasks[t].phase \in GraphPhases PROVE StepsLeft(tasks[t]) \in Nat /\ 7 <= StepsLeft(tasks[t])
  BY <1>1, <1>3, LeftByPhase, GraphLeftType
<1>4. phase \in RunPhases \ GraphPhases => StepsLeft(tasks'[t]) \in 1 .. 6
  BY LeftByPhase DEF RunPhases
<1>5. StepsLeft(tasks'[t]) < StepsLeft(tasks[t])
  BY <1>1, <1>3, <1>4, LeftByPhase DEF RunPhases, QueuedPhases, AnswerPhases
<1>. QED  BY <1>2, <1>5 DEF UsesUp

\* What Goes and Superstep leave of t, and that nobody else is touched.
LEMMA GoesTo ==
    ASSUME TypeOK, NEW t \in Tasks, NEW task \in Task, NEW phase, Goes(t, task, phase)
    PROVE  /\ tasks' = [tasks EXCEPT ![t] = tasks'[t]]
           /\ tasks'[t].phase = phase /\ tasks'[t].graph = task.graph
           /\ tasks'[t].seen = task.seen /\ tasks'[t].poisoned = task.poisoned
           /\ tasks'[t].command = task.command
  BY DEF Goes, TypeOK, Task

LEMMA SuperstepTo ==
    ASSUME TypeOK, NEW t \in Tasks, NEW task \in Task, Superstep(t, task)
    PROVE  /\ tasks' = [tasks EXCEPT ![t] = tasks'[t]]
           /\ tasks'[t].phase = "node" /\ tasks'[t].graph = task.graph
           /\ tasks'[t].seen = task.seen /\ tasks'[t].poisoned = task.poisoned
           /\ tasks'[t].command = task.command
<1> DEFINE n == [task EXCEPT !.answer = FALSE]
<1>1. /\ n \in Task /\ n.graph = task.graph /\ n.seen = task.seen
      /\ n.poisoned = task.poisoned /\ n.command = task.command
  BY DEF Task
<1>2. Goes(t, n, "node")
  BY DEF Superstep
<1> HIDE DEF n
<1>. QED  BY <1>1, <1>2, GoesTo

LEMMA NodeEndsTo ==
    ASSUME TypeOK, NEW t \in Tasks, NEW task \in Task, task.graph.at \in Nodes, NodeEnds(t, task)
    PROVE  /\ tasks' = [tasks EXCEPT ![t] = tasks'[t]]
           /\ tasks'[t].seen = task.seen /\ tasks'[t].poisoned = task.poisoned
           /\ tasks'[t].command = task.command
           /\ \/ Checkpointing /\ tasks'[t].phase = "save" /\ tasks'[t].graph = task.graph
              \/ tasks'[t].phase = "node" /\ tasks'[t].graph = After(task.graph)
<1>1. CASE Checkpointing
  BY <1>1, GoesTo DEF NodeEnds
<1>2. CASE ~Checkpointing
  <2> DEFINE n == [task EXCEPT !.graph = After(@)]
  <2>1. After(task.graph) \in Graph
    BY AfterType DEF Task
  <2>2. /\ n \in Task /\ n.graph = After(task.graph) /\ n.seen = task.seen
        /\ n.poisoned = task.poisoned /\ n.command = task.command
    BY <2>1 DEF Task
  <2>3. Superstep(t, n)
    BY <1>2 DEF NodeEnds
  <2> HIDE DEF n
  <2>. QED  BY <2>2, <2>3, SuperstepTo
<1>. QED  BY <1>1, <1>2

LEMMA SavedLeft ==
    ASSUME NEW g \in Graph
    PROVE  GraphLeft("save", g) < GraphLeft("node", g) /\ GraphLeft("clear", g) < GraphLeft("node", g)
<1>1. /\ MaxRetries \in Nat /\ g.retries \in 0 .. MaxRetries /\ NodeRank[g.at] \in 0 .. 6
  BY ConfigAssumption, Ranks DEF Graph, Nodes
<1>. QED  BY <1>1 DEF GraphLeft

LEMMA SameLeft ==
    ASSUME NEW g \in Graph, NEW h \in Graph, h.at = g.at, h.retries = g.retries, NEW phase
    PROVE  GraphLeft(phase, h) = GraphLeft(phase, g)
  BY DEF GraphLeft

LEMMA EndOfNodeUsesUp ==
    ASSUME RunInv, NEW t \in Tasks, NEW task \in Task,
           tasks[t].phase = "node", tasks[t].graph.at \in SavedNodes, NodeEnds(t, task),
           task.graph.at = tasks[t].graph.at, task.graph.retries = tasks[t].graph.retries
    PROVE  UsesUp(t)
<1> DEFINE g == tasks[t].graph
           h == task.graph
<1>1. TypeOK /\ g \in Graph /\ h \in Graph /\ h.at \in Nodes
  BY DEF RunInv, TypeOK, Task, SavedNodes, Nodes
<1>2. GraphLeft("node", h) = GraphLeft("node", g)
  BY <1>1, SameLeft
<1>3. After(h) \in Graph /\ GraphLeft("node", After(h)) < GraphLeft("node", h)
  BY <1>1, AfterType, AfterLeft
<1>4. GraphLeft("save", h) < GraphLeft("node", h)
  BY <1>1, SavedLeft
<1>. QED  BY <1>1, <1>2, <1>3, <1>4, NodeEndsTo, GraphUsed DEF GraphPhases

LEMMA BeginUsesUp ==
    ASSUME RunInv, NEW t \in Tasks, Begin(t)
    PROVE  UsesUp(t)
<1> DEFINE cells  == runs[Run(t)].cells
           thread == threads[Run(t)]
           paused == LangGraph /\ cells.checkpoint # None /\ cells.checkpoint.pending
           task   == [tasks[t] EXCEPT !.seen = cells, !.command = paused, !.answer = paused]
<1>1. TypeOK /\ tasks[t].phase \in QueuedPhases /\ Executing(t)
  BY DEF Begin, RunInv, Executing
<1>2. cells \in Cells /\ thread \in Graph \cup {None}
  BY <1>1, ExecutingFacts
<1>3. paused \in BOOLEAN
  BY <1>2 DEF Cells, Checkpoint
<1>4. \/ Goes(t, task, "legacy_mark") \/ Goes(t, task, "resume_failed")
      \/ Goes(t, [task EXCEPT !.graph = Entered(cells, thread)], "node")
      \/ thread # None /\ Goes(t, [task EXCEPT !.graph = thread], "node")
  BY DEF Begin
<1> HIDE DEF paused
<1>5. task \in Task
  BY <1>1, <1>2, <1>3 DEF TypeOK, Task
<1>6. \A g \in Graph : [task EXCEPT !.graph = g] \in Task /\ [task EXCEPT !.graph = g].graph = g
  BY <1>5 DEF Task
<1>7. Entered(cells, thread) \in Graph
  BY <1>1, <1>2, ExecutingFacts, EnteredType
<1> HIDE DEF task, cells, thread
<1>8. ASSUME NEW g \in Graph, Goes(t, [task EXCEPT !.graph = g], "node") PROVE UsesUp(t)
  <2> DEFINE next == [task EXCEPT !.graph = g]
  <2>1. next \in Task /\ next.graph = g /\ Goes(t, next, "node")
    BY <1>6, <1>8
  <2> HIDE DEF next
  <2>2. /\ tasks' = [tasks EXCEPT ![t] = tasks'[t]]
        /\ tasks'[t].phase = "node" /\ tasks'[t].graph = g
    BY <1>1, <2>1, GoesTo
  <2>. QED  BY <1>1, <2>2, GraphUsed DEF GraphPhases
<1>9. ASSUME NEW phase \in {"legacy_mark", "resume_failed"}, Goes(t, task, phase) PROVE UsesUp(t)
  BY <1>1, <1>5, <1>9, GoesTo, OthersUsed DEF RunPhases, GraphPhases
<1>. QED  BY <1>2, <1>4, <1>7, <1>8, <1>9

LEMMA GraphUsesUp ==
    ASSUME RunInv, NEW t \in Tasks, InGraph(t)
    PROVE  UsesUp(t)
<1>1. /\ TypeOK /\ tasks[t] \in Task /\ tasks[t].graph \in Graph /\ tasks[t].seen \in Cells
      /\ TaskReady(tasks[t])
  BY DEF RunInv, TypeOK, Task, ReadyInv
<1> DEFINE g == tasks[t].graph
<1>2. ASSUME NEW h \in Graph
      PROVE  /\ [tasks[t] EXCEPT !.graph = h] \in Task /\ [tasks[t] EXCEPT !.graph = h].graph = h
             /\ \A c \in Cells : /\ [tasks[t] EXCEPT !.seen = c, !.graph = h] \in Task
                                 /\ [tasks[t] EXCEPT !.seen = c, !.graph = h].graph = h
             /\ \A b \in BOOLEAN : /\ [tasks[t] EXCEPT !.poisoned = b, !.graph = h] \in Task
                                   /\ [tasks[t] EXCEPT !.poisoned = b, !.graph = h].graph = h
  BY <1>1 DEF Task
<1>3. CASE MarkRunning(t)
  <2>1. Executing(t) /\ tasks[t].phase = "node" /\ g.at = "mark_running"
    BY <1>3 DEF MarkRunning, Node, Executing, RunPhases, GraphPhases
  <2>2. Fit(t, Running(tasks[t].seen)) /\ Commit(t, Running(tasks[t].seen))
    BY <1>3, <2>1, OutcomesFit DEF MarkRunning
  <2>3. runs'[Run(t)].cells \in Cells
    BY <2>1, <2>2, CommitReady
  <2>4. NodeEnds(t, [tasks[t] EXCEPT !.seen = runs'[Run(t)].cells])
    BY <1>3 DEF MarkRunning
  <2>5. [tasks[t] EXCEPT !.seen = runs'[Run(t)].cells].graph = g
        /\ [tasks[t] EXCEPT !.seen = runs'[Run(t)].cells] \in Task
    BY <1>1, <2>3 DEF Task
  <2>. QED  BY <2>1, <2>4, <2>5, EndOfNodeUsesUp DEF SavedNodes
<1>4. CASE ResolveTargets(t)
  BY <1>1, <1>4, EndOfNodeUsesUp DEF ResolveTargets, Node, SavedNodes
<1>5. CASE ProcessItems(t)
  <2>1. tasks[t].phase = "node" /\ g.at = "process_items"
    BY <1>5 DEF ProcessItems, Node
  <2>2. PICK b \in BOOLEAN : NodeEnds(t, [tasks[t] EXCEPT !.graph.items = TRUE, !.poisoned = b])
    BY <1>1, <1>5 DEF ProcessItems, AfterItems, Task
  <2> DEFINE n == [tasks[t] EXCEPT !.graph.items = TRUE, !.poisoned = b]
             h == [g EXCEPT !.items = TRUE]
  <2>3. h \in Graph /\ h.at = g.at /\ h.retries = g.retries
    BY <1>1 DEF Graph
  <2>4. n \in Task /\ n.graph = h
    BY <1>1, <2>3 DEF Task
  <2>5. NodeEnds(t, n)
    BY <2>2
  <2> HIDE DEF n, h
  <2>. QED  BY <2>1, <2>3, <2>4, <2>5, EndOfNodeUsesUp DEF SavedNodes
<1>6. ASSUME NEW h \in Graph, h.at = g.at, h.retries = g.retries, g.at \in Nodes,
             tasks[t].phase \in GraphPhases, NEW n \in Task, n.graph = After(h), Superstep(t, n)
      PROVE  UsesUp(t)
  <2>1. /\ GraphLeft(tasks[t].phase, h) = GraphLeft(tasks[t].phase, g)
        /\ GraphLeft("node", After(h)) < GraphLeft(tasks[t].phase, h)
        /\ After(h) \in Graph
    BY <1>1, <1>6, SameLeft, AfterLeft, AfterType
  <2>. QED  BY <1>1, <1>6, <2>1, SuperstepTo, GraphUsed DEF GraphPhases
<1>7. CASE SaveCheckpoint(t) \/ Clear(t)
  <2>1. /\ Executing(t) /\ tasks[t].phase \in {"save", "clear"} /\ tasks[t].phase \in GraphPhases
        /\ g.at \in Nodes /\ After(g) \in Graph
    BY <1>1, <1>7, AfterType DEF SaveCheckpoint, Clear, TaskReady, Executing, RunPhases, GraphPhases,
       SavedNodes, Nodes
  <2>2. PICK new : Superstep(t, [tasks[t] EXCEPT !.seen = new, !.graph = After(g)]) /\ new \in Cells
    <3>1. CASE Clear(t)
      <4>1. [tasks[t].seen EXCEPT !.checkpoint = None] \in Cells
        BY <1>1, CellsTypes
      <4>. QED  BY <3>1, <4>1 DEF Clear
    <3>2. CASE SaveCheckpoint(t)
      <4> DEFINE ck == [entry |-> NextEntry(g.at), pending |-> FALSE,
                        items |-> g.items, retries |-> g.retries]
      <4>1. NextEntry(g.at) \in Nodes
        BY <1>1, <3>2 DEF SaveCheckpoint, TaskReady, SavedNodes, NextEntry, Nodes
      <4>2. ck \in Checkpoint
        BY <1>1, <4>1 DEF Checkpoint, Graph
      <4>3. [tasks[t].seen EXCEPT !.checkpoint = ck] \in Cells
        BY <1>1, <4>2, CellsTypes
      <4>4. Superstep(t, [tasks[t] EXCEPT !.seen = [tasks[t].seen EXCEPT !.checkpoint = ck],
                                          !.graph = After(g)])
        BY <3>2 DEF SaveCheckpoint
      <4>. QED  BY <4>3, <4>4
    <3>. QED  BY <1>7, <3>1, <3>2
  <2>. QED  BY <1>1, <1>2, <1>6, <2>1, <2>2
<1>8. CASE PassGate(t)
  <2> DEFINE h == IF tasks[t].approve THEN g ELSE [g EXCEPT !.error = "fatal"]
  <2>1. /\ tasks[t].phase \in GraphPhases /\ g.at = "approval_interrupt" /\ g.at \in Nodes
        /\ Superstep(t, [tasks[t] EXCEPT !.graph = After(h)])
    BY <1>8 DEF PassGate, Node, GraphPhases, Nodes
  <2>2. h \in Graph /\ h.at = g.at /\ h.retries = g.retries
    BY <1>1 DEF Graph
  <2> HIDE DEF h
  <2>3. After(h) \in Graph
    BY <2>1, <2>2, AfterType
  <2>. QED  BY <1>2, <1>6, <2>1, <2>2, <2>3
<1>9. CASE Park(t) \/ Return(t)
  <2>1. PICK phase \in {"finish", "marker"} : Goes(t, tasks[t], phase)
    BY <1>9 DEF Park, Return
  <2>2. tasks[t].phase \in GraphPhases /\ phase \in RunPhases \ GraphPhases
    BY <1>9 DEF Park, Return, Node, RunPhases, GraphPhases
  <2>. QED  BY <1>1, <2>1, <2>2, GoesTo, OthersUsed
<1>10. CASE Marker(t)
  <2>1. PICK new : Goes(t, [tasks[t] EXCEPT !.seen = new], "finish") /\ tasks[t].phase = "marker"
    BY <1>10 DEF Marker
  <2>2. tasks' = [tasks EXCEPT ![t] = tasks'[t]] /\ tasks'[t].phase = "finish"
    BY <1>1, <2>1 DEF Goes, TypeOK, Task
  <2>. QED  BY <1>1, <2>1, <2>2, OthersUsed
<1>11. CASE PersistOutcome(t)
  <2>1. PICK new : Goes(t, [tasks[t] EXCEPT !.seen = new], "clear")
    BY <1>11 DEF PersistOutcome
  <2>2. tasks[t].phase = "node"
    BY <1>11 DEF PersistOutcome, Node
  <2>3. tasks' = [tasks EXCEPT ![t] = tasks'[t]] /\ tasks'[t].phase = "clear" /\ tasks'[t].graph = g
    BY <1>1, <2>1 DEF Goes, TypeOK, Task
  <2>. QED  BY <1>1, <2>2, <2>3, SavedLeft, GraphUsed DEF GraphPhases
<1>12. ASSUME NEW poisoned \in BOOLEAN, NodeRaises(t, poisoned) PROVE UsesUp(t)
  <2>1. PICK error \in ErrorsOf(t) :
            Superstep(t, [tasks[t] EXCEPT !.poisoned = poisoned,
                                          !.graph = After([g EXCEPT !.error = error])])
    BY <1>12 DEF NodeRaises
  <2>2. /\ tasks[t].phase \in GraphPhases
        /\ g.at \in {"mark_running", "resolve_targets", "process_items", "persist_done",
                     "persist_failed"}
    BY <1>1, <1>12 DEF NodeRaises, Raises, CallsDatabase, Place, Reads, Writes, GraphPhases,
       TaskReady, SavedNodes, Graph, Nodes
  <2>3. error \in Errors
    <3>1. g.at = "process_items" => tasks[t].phase = "save"
      BY <1>1, <1>12 DEF NodeRaises, Raises, CallsDatabase, Place, Reads, Writes, GraphPhases,
         TaskReady
    <3>. QED  BY <1>1, <2>1, <2>2, <3>1 DEF ErrorsOf, Errors, Graph
  <2> DEFINE h == [g EXCEPT !.error = error]
  <2>4. h \in Graph /\ h.at = g.at /\ h.retries = g.retries
    BY <1>1, <2>3 DEF Graph, Errors
  <2>5. Superstep(t, [tasks[t] EXCEPT !.poisoned = poisoned, !.graph = After(h)])
    BY <2>1
  <2> HIDE DEF h
  <2>6. After(h) \in Graph /\ g.at \in Nodes
    BY <2>2, <2>4, AfterType DEF Nodes
  <2>. QED  BY <1>2, <1>6, <1>12, <2>2, <2>4, <2>5, <2>6
<1>. QED  BY <1>3, <1>4, <1>5, <1>7, <1>8, <1>9, <1>10, <1>11, <1>12 DEF InGraph

LEMMA Relabelled ==
    ASSUME TypeOK, NEW t \in Tasks, NEW phase, NEW c, NEW b,
           \/ Goes(t, tasks[t], phase)
           \/ Goes(t, [tasks[t] EXCEPT !.seen = c], phase)
           \/ Goes(t, [tasks[t] EXCEPT !.poisoned = b], phase)
    PROVE  tasks' = [tasks EXCEPT ![t] = tasks'[t]] /\ tasks'[t].phase = phase
<1>1. ASSUME NEW task, Goes(t, task, phase), [task EXCEPT !.phase = phase].phase = phase
      PROVE  tasks' = [tasks EXCEPT ![t] = tasks'[t]] /\ tasks'[t].phase = phase
  BY <1>1 DEF Goes, TypeOK
<1>2. /\ [tasks[t] EXCEPT !.phase = phase].phase = phase
      /\ [[tasks[t] EXCEPT !.seen = c] EXCEPT !.phase = phase].phase = phase
      /\ [[tasks[t] EXCEPT !.poisoned = b] EXCEPT !.phase = phase].phase = phase
  BY DEF TypeOK, Task
<1>. QED  BY <1>1, <1>2

LEMMA OutsideUsesUp ==
    ASSUME RunInv, NEW t \in Tasks, OutOfGraph(t)
    PROVE  UsesUp(t)
<1>1. TypeOK /\ TaskReady(tasks[t])
  BY DEF RunInv, ReadyInv
<1>2. CASE FallBack(t) \/ GiveUpResume(t)
  <2>1. PICK phase \in {"legacy_mark", "resume_failed"} :
            /\ Goes(t, tasks[t], phase) \/ Goes(t, [tasks[t] EXCEPT !.poisoned = TRUE], phase)
            /\ tasks[t].phase = "node" \/ (tasks[t].phase = "marker" /\ phase = "legacy_mark")
    BY <1>2 DEF FallBack, GiveUpResume, GivesUp
  <2>2. tasks' = [tasks EXCEPT ![t] = tasks'[t]] /\ tasks'[t].phase = phase
    BY <1>1, <2>1, Relabelled
  <2>3. phase \in RunPhases \ GraphPhases /\ "node" \in GraphPhases
    BY DEF RunPhases, GraphPhases
  <2>. QED  BY <1>1, <2>1, <2>2, <2>3, OthersUsed
<1>3. CASE ResumeFailed(t) \/ LegacyMark(t) \/ LegacyDone(t)
  <2>1. PICK phase, c :
            /\ Goes(t, [tasks[t] EXCEPT !.seen = c], phase)
            /\ \/ tasks[t].phase \in {"resume_failed", "legacy_done"} /\ phase = "finish"
               \/ tasks[t].phase = "legacy_mark" /\ phase = "legacy_resolve"
    BY <1>3 DEF ResumeFailed, LegacyMark, LegacyDone
  <2>2. tasks' = [tasks EXCEPT ![t] = tasks'[t]] /\ tasks'[t].phase = phase
    BY <1>1, <2>1, Relabelled
  <2>. QED  BY <1>1, <2>1, <2>2, OthersUsed
<1>4. CASE LegacyItems(t)
  <2>1. PICK b : Goes(t, [tasks[t] EXCEPT !.poisoned = b], "legacy_done")
    BY <1>4 DEF LegacyItems
  <2>2. tasks' = [tasks EXCEPT ![t] = tasks'[t]] /\ tasks'[t].phase = "legacy_done"
    BY <1>1, <2>1, Relabelled
  <2>. QED  BY <1>1, <1>4, <2>2, OthersUsed DEF LegacyItems
<1>5. ASSUME NEW b \in BOOLEAN, Unhandled(t, b) PROVE UsesUp(t)
  <2>1. Goes(t, [tasks[t] EXCEPT !.poisoned = b], "handler")
    BY <1>5 DEF Unhandled
  <2>2. tasks' = [tasks EXCEPT ![t] = tasks'[t]] /\ tasks'[t].phase = "handler"
    BY <1>1, <2>1, Relabelled
  <2>3. "handler" \in RunPhases \ GraphPhases
    BY DEF RunPhases, GraphPhases
  <2>. QED  BY <1>1, <1>5, <2>2, <2>3, OthersUsed DEF Unhandled
<1>6. CASE Handler(t)
  <2>1. Goes(t, tasks[t], "finish")
    BY <1>6 DEF Handler
  <2>2. tasks' = [tasks EXCEPT ![t] = tasks'[t]] /\ tasks'[t].phase = "finish"
    BY <1>1, <2>1, Relabelled
  <2>. QED  BY <1>1, <1>6, <2>2, OthersUsed DEF Handler
<1>7. CASE Finish(t)
  <2>1. tasks' = [tasks EXCEPT ![t] = Gone(tasks[t], "ended")]
    BY <1>7 DEF Finish
  <2>2. Gone(tasks[t], "ended").phase = "ended"
    BY NewTypes DEF Gone, Task
  <2>3. tasks' = [tasks EXCEPT ![t] = tasks'[t]] /\ tasks'[t].phase = "ended"
    BY <1>1, <2>1, <2>2 DEF TypeOK
  <2>. QED  BY <1>1, <1>7, <2>3, OthersUsed DEF Finish
<1>. QED  BY <1>2, <1>3, <1>4, <1>5, <1>6, <1>7 DEF OutOfGraph

\* The steps of the routes.
LEMMA RouteUsesUp ==
    ASSUME RunInv, NEW t \in Tasks,
           \/ \E k \in Keys, p \in Payloads : StartRead(t, k, p)
           \/ \E r \in Runs : StartCommit(t, r)
           \/ \E r \in Runs, approve \in BOOLEAN : ResumeCheck(t, r, approve)
           \/ InProgress(t) \/ Hands(t)
    PROVE  UsesUp(t)
<1>1. TypeOK
  BY DEF RunInv
<1>2. ASSUME NEW k \in Keys, NEW p \in Payloads, StartRead(t, k, p) PROVE UsesUp(t)
  <2>1. /\ tasks' = [tasks EXCEPT ![t] = tasks'[t]] /\ tasks[t].phase = "idle"
        /\ tasks'[t].phase \in {"unique", "replayed", "conflict"}
    BY <1>1, <1>2 DEF StartRead, TypeOK, Task
  <2>. QED  BY <1>1, <2>1, OthersUsed
<1>3. ASSUME NEW r \in Runs, StartCommit(t, r) PROVE UsesUp(t)
  <2>1. /\ tasks' = [tasks EXCEPT ![t] = tasks'[t]] /\ tasks[t].phase = "unique"
        /\ tasks'[t].phase \in {"inserted", "error"}
    BY <1>1, <1>3 DEF StartCommit, TypeOK, Task
  <2>. QED  BY <1>1, <2>1, OthersUsed
<1>4. ASSUME NEW r \in Runs, NEW approve \in BOOLEAN, ResumeCheck(t, r, approve) PROVE UsesUp(t)
  <2>1. /\ tasks' = [tasks EXCEPT ![t] = tasks'[t]] /\ tasks[t].phase = "idle"
        /\ tasks'[t].phase \in {"eligible", "refused"}
    BY <1>1, <1>4 DEF ResumeCheck, TypeOK, Task
  <2>. QED  BY <1>1, <2>1, OthersUsed
<1>5. CASE InProgress(t) \/ Hands(t)
  <2>1. /\ tasks' = [tasks EXCEPT ![t] = tasks'[t]] /\ tasks[t].phase \in {"inserted", "eligible"}
        /\ tasks'[t].phase \in QueuedPhases \cup {"unavailable", "in_progress"}
    BY <1>1, <1>5 DEF InProgress, Hands, Enqueue, RunInProcess, EnqueueFails, HandOver, MayHandOver,
       QueuedPhases, TypeOK, Task
  <2>. QED  BY <1>1, <2>1, OthersUsed
<1>. QED  BY <1>2, <1>3, <1>4, <1>5

LEMMA GoesOnUsesUp ==
    ASSUME RunInv, NEW t \in Tasks, GoesOn(t)
    PROVE  UsesUp(t)
  BY RouteUsesUp, BeginUsesUp, GraphUsesUp, OutsideUsesUp DEF GoesOn, Executes

\* A task that dies has nothing before it.
LEMMA NobodyGains ==
    ASSUME RunInv, [Next]_vars, NEW u \in Tasks
    PROVE  StepsLeft(tasks'[u]) <= StepsLeft(tasks[u])
<1>1. StepsLeft(tasks[u]) \in Nat /\ TypeOK
  BY StepsLeftType DEF RunInv, TypeOK
<1>2. ASSUME NEW t \in Tasks, UsesUp(t) PROVE StepsLeft(tasks'[u]) <= StepsLeft(tasks[u])
  <2>1. CASE u = t
    <3>1. tasks'[u] \in Task
      BY NextKeeps DEF RunInv, TypeOK
    <3>2. StepsLeft(tasks'[u]) \in Nat
      BY <3>1, StepsLeftType
    <3>. QED  BY <1>1, <1>2, <2>1, <3>2 DEF UsesUp
  <2>2. CASE u # t
    BY <1>1, <1>2, <2>2 DEF UsesUp
  <2>. QED  BY <2>1, <2>2
<1>3. ASSUME NEW dead, tasks' = Kill(dead) PROVE StepsLeft(tasks'[u]) <= StepsLeft(tasks[u])
  <2>1. CASE u \in dead
    <3>1. tasks'[u].phase = "killed"
      BY <1>3, <2>1, NewTypes DEF Kill, Gone, Task
    <3>2. StepsLeft(tasks'[u]) = 0
      BY <3>1, LeftByPhase
    <3>. QED  BY <1>1, <3>2
  <2>2. CASE u \notin dead
    BY <1>1, <1>3, <2>2 DEF Kill
  <2>. QED  BY <2>1, <2>2
<1>4. CASE UNCHANGED vars
  BY <1>1, <1>4 DEF vars
<1>5. ASSUME NEW t \in Starts, Start(t) PROVE \E v \in Tasks : UsesUp(v)
  BY <1>5, RouteUsesUp DEF Start, Tasks
<1>6. ASSUME NEW t \in Resumes, Resume(t) PROVE \E v \in Tasks : UsesUp(v)
  BY <1>6, RouteUsesUp DEF Resume, Tasks
<1>7. ASSUME NEW t \in Tasks, Hands(t) \/ Executes(t) PROVE \E v \in Tasks : UsesUp(v)
  BY <1>7, GoesOnUsesUp DEF GoesOn
<1>8. CASE (\E t \in Tasks : WorkerCrash(t)) \/ ApiRestart
  BY <1>3, <1>8 DEF WorkerCrash, ApiRestart
<1>. QED  BY <1>2, <1>4, <1>5, <1>6, <1>7, <1>8 DEF Next

\* No task goes on for ever: the retries are counted against their budget wherever an
\* invocation enters, and the graph is left by ways that do not lead back into it.
THEOREM BoundedSteps == Spec => StepsAreBounded
<1>1. RunInv /\ [Next]_vars
          => [\A t \in Tasks : /\ StepsLeft(tasks[t])' <= StepsLeft(tasks[t])
                               /\ GoesOn(t) => StepsLeft(tasks[t])' < StepsLeft(tasks[t])]_vars
  <2> SUFFICES ASSUME RunInv, [Next]_vars, NEW t \in Tasks
               PROVE  /\ StepsLeft(tasks'[t]) <= StepsLeft(tasks[t])
                      /\ GoesOn(t) => StepsLeft(tasks'[t]) < StepsLeft(tasks[t])
    BY DEF StepsLeft, GraphLeft
  <2>. QED  BY NobodyGains, GoesOnUsesUp DEF UsesUp
<1>. QED  BY <1>1, RunInvariant, PTL DEF Spec, StepsAreBounded

-----------------------------------------------------------------------------
(* Without the gate and without failures, a quiet run is settled.          *)

Outcomes == {"done", "failed"}
Smooth == ~Interrupts /\ FaultAt = {}

\* Nothing is paused, no graph is at the gate, nothing has failed, and a session
\* that is done with the graph has written an outcome or seen one.
PlainCells(c) ==
    c.checkpoint # None => c.checkpoint.entry # "approval_interrupt" /\ ~c.checkpoint.pending

PlainTask(k) ==
    /\ ~k.poisoned /\ ~k.command /\ PlainCells(k.seen)
    /\ k.graph.at # "approval_interrupt" /\ k.graph.entry # "approval_interrupt"
    /\ k.phase \notin {"marker", "handler", "resume_failed"}
    /\ k.phase \in {"clear", "finish"} \/ (k.phase = "node" /\ k.graph.at = "end")
           => k.seen.status \in Outcomes

PlainInv ==
    /\ \A t \in Tasks : PlainTask(tasks[t])
    /\ \A r \in Runs : PlainCells(runs[r].cells)

\* A task that is to write an outcome into its row, because its session has not
\* seen one there.
Obliged(k) ==
    \/ k.phase \in QueuedPhases
    \/ k.phase \in RunPhases /\ k.seen.status \notin Outcomes

Attended(r) ==
    HandedOver(r) =>
        \/ runs[r].cells.status \in Outcomes
        \/ \E t \in Tasks : Run(t) = r /\ (Obliged(tasks[t]) \/ tasks[t].phase = "killed")

SettledInv == Smooth => PlainInv /\ \A r \in Runs : Attended(r)

\* What a step of an executing task does for this: it takes an outcome away only if
\* it is to write one, and it is quit of that only by an outcome in the row.
Duty(t) ==
    /\ \A r \in Runs \ {Run(t)} : runs'[r].cells = runs[r].cells
    /\ PlainCells(runs'[Run(t)].cells)
    /\ runs[Run(t)].cells.status \in Outcomes \/ Obliged(tasks[t])
           => runs'[Run(t)].cells.status \in Outcomes \/ Obliged(tasks'[t])

LEMMA AfterPlain ==
    ASSUME NEW g \in Graph, g.at \in Nodes, ~Interrupts, g.entry # "approval_interrupt",
           g.at # "approval_interrupt"
    PROVE  /\ After(g) \in Graph
           /\ After(g).at # "approval_interrupt" /\ After(g).entry # "approval_interrupt"
           /\ After(g).at = "end" => g.at \in {"persist_done", "persist_failed"}
  BY AfterType, AfterCases DEF Route, Nodes

LEMMA EnteredPlain ==
    ASSUME NEW cells \in Cells, NEW thread \in Graph \cup {None}, ~Interrupts, PlainCells(cells)
    PROVE  /\ Entered(cells, thread).at \notin {"approval_interrupt", "end"}
           /\ Entered(cells, thread).entry # "approval_interrupt"
<1> DEFINE ck == IF Checkpointing THEN cells.checkpoint ELSE None
           e0 == [NewGraph EXCEPT !.at = NewGraph.entry, !.retries = 0]
           e1 == [NewGraph EXCEPT !.at = ck.entry, !.entry = ck.entry, !.retries = ck.retries,
                                  !.items = ck.items \/ @]
<1>1. ck \in Checkpoint \cup {None} /\ (ck # None => ck.entry # "approval_interrupt")
  BY DEF Cells, PlainCells
<1>2. Entered(cells, thread) = IF ck = None THEN e0 ELSE e1
  BY DEF Entered
<1> HIDE DEF ck
<1>3. e0.at = "mark_running" /\ e0.entry = "mark_running"
  BY DEF NewGraph
<1>4. ck # None => e1.at = ck.entry /\ e1.entry = ck.entry /\ ck.entry \in Nodes
  BY <1>1 DEF NewGraph, Checkpoint
<1> HIDE DEF e0, e1
<1>. QED  BY <1>1, <1>2, <1>3, <1>4 DEF Nodes

\* The row after a commit of `new' by t.
LEMMA CommitPlain ==
    ASSUME RunInv, PlainInv, NEW t \in Tasks, Executing(t), NEW new, Fit(t, new), Commit(t, new),
           PlainCells(new)
    PROVE  /\ \A r \in Runs \ {Run(t)} : runs'[r].cells = runs[r].cells
           /\ runs'[Run(t)].cells \in Cells /\ PlainCells(runs'[Run(t)].cells)
           /\ runs'[Run(t)].cells.status =
                  IF new.status = tasks[t].seen.status THEN runs[Run(t)].cells.status ELSE new.status
<1>1. /\ runs' = [runs EXCEPT ![Run(t)].cells = Flush(@, tasks[t].seen, new)]
      /\ runs'[Run(t)].cells = Flush(runs[Run(t)].cells, tasks[t].seen, new)
      /\ runs'[Run(t)].cells \in Cells
  BY CommitReady
<1>2. \A r \in Runs \ {Run(t)} : runs'[r].cells = runs[r].cells
  BY <1>1 DEF RunInv, TypeOK
<1>3. Run(t) \in Runs
  BY ExecutingFacts
<1>. QED  BY <1>1, <1>2, <1>3 DEF Flush, Written, PlainCells, PlainInv

LEMMA NodeEndsPlain ==
    ASSUME RunInv, NEW t \in Tasks, ~Interrupts, NEW task \in Task, NodeEnds(t, task),
           ~task.poisoned, ~task.command, PlainCells(task.seen), task.graph.at \in SavedNodes,
           task.graph.entry # "approval_interrupt"
    PROVE  /\ PlainTask(tasks'[t]) /\ tasks'[t].seen = task.seen
           /\ tasks'[t].phase \in RunPhases
<1>1. TypeOK /\ task.graph \in Graph /\ task.graph.at \in Nodes
      /\ task.graph.at \notin {"approval_interrupt", "end", "persist_done", "persist_failed"}
  BY DEF RunInv, Task, SavedNodes, Nodes
<1>2. /\ tasks'[t].seen = task.seen /\ tasks'[t].poisoned = task.poisoned
      /\ tasks'[t].command = task.command
      /\ \/ tasks'[t].phase = "save" /\ tasks'[t].graph = task.graph
         \/ tasks'[t].phase = "node" /\ tasks'[t].graph = After(task.graph)
  BY <1>1, NodeEndsTo
<1>3. /\ After(task.graph).at \notin {"approval_interrupt", "end"}
      /\ After(task.graph).entry # "approval_interrupt"
  BY <1>1, AfterPlain
<1>. QED  BY <1>1, <1>2, <1>3 DEF PlainTask, RunPhases, GraphPhases

LEMMA SuperstepPlain ==
    ASSUME RunInv, NEW t \in Tasks, ~Interrupts, NEW n \in Task, Superstep(t, n),
           NEW g \in Graph, g.at \in Nodes, n.graph = After(g),
           g.at # "approval_interrupt", g.entry # "approval_interrupt",
           g.at \in SavedNodes \/ n.seen.status \in Outcomes,
           ~n.poisoned, ~n.command, PlainCells(n.seen)
    PROVE  /\ PlainTask(tasks'[t]) /\ tasks'[t].seen = n.seen /\ tasks'[t].phase \in RunPhases
<1>1. /\ After(g) \in Graph
      /\ After(g).at # "approval_interrupt" /\ After(g).entry # "approval_interrupt"
      /\ After(g).at = "end" => g.at \in {"persist_done", "persist_failed"}
  BY AfterPlain
<1>2. TypeOK
  BY DEF RunInv
<1>3. /\ tasks'[t].phase = "node" /\ tasks'[t].graph = n.graph
      /\ tasks'[t].seen = n.seen /\ tasks'[t].poisoned = n.poisoned
      /\ tasks'[t].command = n.command
  BY <1>2, SuperstepTo
<1>. QED  BY <1>1, <1>3 DEF PlainTask, SavedNodes, RunPhases, GraphPhases

LEMMA SmoothStep ==
    ASSUME RunInv, PlainInv, Smooth, NEW t \in Tasks, Executes(t)
    PROVE  PlainTask(tasks'[t]) /\ Duty(t)
<1> DEFINE g == tasks[t].graph
           seen == tasks[t].seen
<1>1. /\ TypeOK /\ Executing(t) /\ Run(t) \in Runs /\ tasks[t] \in Task
      /\ TaskReady(tasks[t]) /\ g \in Graph /\ seen \in Cells
      /\ runs[Run(t)].cells \in Cells /\ threads[Run(t)] \in Graph \cup {None}
  BY ExecutesIsExecuting, ExecutingFacts DEF RunInv
<1>2. /\ PlainTask(tasks[t]) /\ PlainCells(runs[Run(t)].cells) /\ PlainCells(seen)
      /\ ~Interrupts /\ FaultAt = {}
  BY <1>1 DEF PlainInv, PlainTask, Smooth
<1>3. ASSUME runs' = runs, tasks[t].phase \notin QueuedPhases, tasks'[t].seen = seen,
             tasks'[t].phase \in RunPhases
      PROVE  Duty(t)
  BY <1>2, <1>3 DEF Duty, Obliged
<1>4. CASE Begin(t)
  <2> DEFINE cells  == runs[Run(t)].cells
             thread == threads[Run(t)]
             paused == LangGraph /\ cells.checkpoint # None /\ cells.checkpoint.pending
             task   == [tasks[t] EXCEPT !.seen = cells, !.command = paused, !.answer = paused]
  <2>1. paused = FALSE
    BY <1>2 DEF PlainCells
  <2>2. \/ Goes(t, task, "legacy_mark")
        \/ Goes(t, [task EXCEPT !.graph = Entered(cells, thread)], "node")
    BY <1>4, <2>1 DEF Begin
  <2>3. UNCHANGED runs
    BY <1>4 DEF Begin
  <2> HIDE DEF paused
  <2>4. /\ task \in Task /\ task.seen = cells /\ task.graph = g /\ ~task.poisoned /\ ~task.command
    BY <1>1, <1>2, <2>1 DEF Task, PlainTask
  <2>5. /\ Entered(cells, thread) \in Graph
        /\ Entered(cells, thread).at \notin {"approval_interrupt", "end"}
        /\ Entered(cells, thread).entry # "approval_interrupt"
    BY <1>1, <1>2, EnteredType, EnteredPlain
  <2> DEFINE next == [task EXCEPT !.graph = Entered(cells, thread)]
  <2>6. /\ next \in Task /\ next.seen = cells /\ next.graph = Entered(cells, thread)
        /\ ~next.poisoned /\ ~next.command
    BY <2>4, <2>5 DEF Task
  <2>7. PlainCells(cells)
    BY <1>2
  <2> HIDE DEF task, next
  <2>9. /\ PlainTask(tasks'[t]) /\ tasks'[t].seen = cells
        /\ tasks'[t].phase \in RunPhases
    <3>1. CASE Goes(t, task, "legacy_mark")
      <4>1. /\ tasks'[t].phase = "legacy_mark" /\ tasks'[t].graph = task.graph
            /\ tasks'[t].seen = task.seen /\ tasks'[t].poisoned = task.poisoned
            /\ tasks'[t].command = task.command
        BY <1>1, <2>4, <3>1, GoesTo
      <4>. QED  BY <1>2, <2>4, <2>7, <4>1 DEF PlainTask, RunPhases
    <3>2. CASE Goes(t, next, "node")
      <4>1. /\ tasks'[t].phase = "node" /\ tasks'[t].graph = next.graph
            /\ tasks'[t].seen = next.seen /\ tasks'[t].poisoned = next.poisoned
            /\ tasks'[t].command = next.command
        BY <1>1, <2>6, <3>2, GoesTo
      <4>. QED  BY <2>5, <2>6, <2>7, <4>1 DEF PlainTask, RunPhases, GraphPhases
    <3>. QED  BY <2>2, <3>1, <3>2 DEF next
  <2>. QED  BY <2>3, <2>7, <2>9 DEF Duty, Obliged
<1>5. ASSUME NEW new, Fit(t, new), Commit(t, new), new.status = seen.status, PlainCells(new),
             tasks[t].phase \notin QueuedPhases, tasks'[t].seen = new, tasks'[t].phase \in RunPhases
      PROVE  Duty(t)
  <2>1. /\ \A r \in Runs \ {Run(t)} : runs'[r].cells = runs[r].cells
        /\ PlainCells(runs'[Run(t)].cells)
        /\ runs'[Run(t)].cells.status = runs[Run(t)].cells.status
    BY <1>1, <1>5, CommitPlain
  <2>. QED  BY <1>5, <2>1 DEF Duty, Obliged
<1>6. ASSUME NEW new, Fit(t, new), Commit(t, new), new.status \in Outcomes, PlainCells(new),
             tasks[t].phase \notin QueuedPhases
      PROVE  Duty(t)
  <2>1. /\ \A r \in Runs \ {Run(t)} : runs'[r].cells = runs[r].cells
        /\ PlainCells(runs'[Run(t)].cells)
        /\ runs'[Run(t)].cells.status =
               IF new.status = seen.status THEN runs[Run(t)].cells.status ELSE new.status
    BY <1>1, <1>6, CommitPlain
  <2>. QED  BY <1>6, <2>1 DEF Duty, Obliged
<1>7. ASSUME NEW new, Fit(t, new), Commit(t, new), PlainCells(new),
             tasks'[t].seen = runs'[Run(t)].cells, tasks'[t].phase \in RunPhases
      PROVE  Duty(t)
  <2>1. /\ \A r \in Runs \ {Run(t)} : runs'[r].cells = runs[r].cells
        /\ PlainCells(runs'[Run(t)].cells)
    BY <1>1, <1>7, CommitPlain
  <2>. QED  BY <1>7, <2>1 DEF Duty, Obliged
<1>8. PlainCells(Running(seen)) /\ PlainCells(Failed(seen)) /\ PlainCells(Done(seen, TRUE))
      /\ PlainCells(Done(seen, g.items))
      /\ Failed(seen).status \in Outcomes
      /\ \A b : Done(seen, b).status \in Outcomes
  BY <1>1, <1>2 DEF PlainCells, Running, Failed, Done, Cells, Outcomes
<1>9. TypeOK /\ tasks[t].phase \in Phases /\ ~tasks[t].poisoned /\ ~tasks[t].command
      /\ Fit(t, Running(seen)) /\ Fit(t, Failed(seen)) /\ Fit(t, Done(seen, TRUE))
  BY <1>1, <1>2, OutcomesFit DEF RunInv, Task, PlainTask, GateOn
<1>10. CASE MarkRunning(t)
  <2> DEFINE c == runs'[Run(t)].cells
             n == [tasks[t] EXCEPT !.seen = c]
  <2>1. Commit(t, Running(seen)) /\ NodeEnds(t, n) /\ g.at = "mark_running"
    BY <1>10 DEF MarkRunning, Node
  <2>2. c \in Cells /\ PlainCells(c)
    BY <1>1, <1>8, <1>9, <2>1, CommitPlain
  <2> HIDE DEF c
  <2>3. /\ n \in Task /\ n.seen = c /\ n.graph = g /\ ~n.poisoned /\ ~n.command
    BY <1>1, <1>9, <2>2 DEF Task
  <2> HIDE DEF n
  <2>4. /\ PlainTask(tasks'[t]) /\ tasks'[t].seen = c /\ tasks'[t].phase \in RunPhases
    BY <1>2, <2>1, <2>2, <2>3, NodeEndsPlain DEF PlainTask, SavedNodes
  <2>. QED  BY <1>7, <1>8, <1>9, <2>1, <2>4 DEF c
<1>11. CASE ResolveTargets(t)
  <2>1. NodeEnds(t, tasks[t]) /\ g.at = "resolve_targets" /\ runs' = runs
        /\ tasks[t].phase \notin QueuedPhases
    BY <1>11 DEF ResolveTargets, Node, QueuedPhases
  <2>2. /\ PlainTask(tasks'[t]) /\ tasks'[t].seen = seen /\ tasks'[t].phase \in RunPhases
    BY <1>1, <1>2, <1>9, <2>1, NodeEndsPlain DEF PlainTask, SavedNodes
  <2>. QED  BY <1>3, <2>1, <2>2
<1>12. CASE ProcessItems(t)
  <2> DEFINE n == [tasks[t] EXCEPT !.graph.items = TRUE, !.poisoned = FALSE]
  <2>1. NodeEnds(t, n) /\ g.at = "process_items" /\ runs' = runs
        /\ tasks[t].phase \notin QueuedPhases
    <3>1. AfterItems(t) = {FALSE}
      BY <1>1, <1>2, <1>9 DEF AfterItems, Task
    <3>. QED  BY <1>12, <3>1 DEF ProcessItems, Node, QueuedPhases
  <2>2. /\ n \in Task /\ n.seen = seen /\ ~n.poisoned /\ ~n.command
        /\ n.graph.at = g.at /\ n.graph.entry = g.entry
    BY <1>1, <1>9 DEF Task, Graph
  <2> HIDE DEF n
  <2>3. /\ PlainTask(tasks'[t]) /\ tasks'[t].seen = seen /\ tasks'[t].phase \in RunPhases
    BY <1>2, <2>1, <2>2, NodeEndsPlain DEF PlainTask, SavedNodes
  <2>. QED  BY <1>3, <2>1, <2>3
<1>13. CASE SaveCheckpoint(t)
  <2> DEFINE ck  == [entry |-> NextEntry(g.at), pending |-> FALSE,
                     items |-> g.items, retries |-> g.retries]
             new == [seen EXCEPT !.checkpoint = ck]
  <2>1. /\ Commit(t, new) /\ tasks[t].phase = "save"
        /\ Superstep(t, [tasks[t] EXCEPT !.seen = new, !.graph = After(g)])
    BY <1>13 DEF SaveCheckpoint
  <2>2. g.at \in SavedNodes /\ (g.at = "process_items" => g.items) /\ g.at \in Nodes
    BY <1>1, <2>1 DEF TaskReady, SavedNodes, Nodes
  <2>3. NextEntry(g.at) \in Nodes \ {"approval_interrupt"}
        /\ NextEntry(g.at) \in SavedNodes \cup GateAndOn
        /\ (NextEntry(g.at) \in GateAndOn => g.items)
    BY <1>2, <2>2 DEF NextEntry, Nodes, SavedNodes, GateAndOn
  <2>4. /\ ck \in Checkpoint
        /\ ck.entry \in SavedNodes \cup GateAndOn
        /\ ck.entry \in GateAndOn => ck.items
        /\ ck.entry # "approval_interrupt" /\ ~ck.pending
    BY <1>1, <2>3 DEF Checkpoint, Graph
  <2> HIDE DEF ck
  <2>5. new \in Cells /\ Fit(t, new)
    <3>1. Fit(t, [seen EXCEPT !.checkpoint = ck])
      <4>1. ~GateOn
        BY <1>2 DEF GateOn
      <4>2. ck # None => /\ ck.entry \in SavedNodes \cup GateAndOn
                         /\ ck.entry \in GateAndOn => ck.items
                         /\ GateOn => ck.entry # "persist_done"
        BY <2>4, <4>1
      <4>. QED  BY <1>1, <2>4, <4>2, OutcomesFit
    <3>. QED  BY <3>1 DEF Fit
  <2>6. PlainCells(new) /\ new.status = seen.status
    BY <1>1, <2>4 DEF PlainCells, Cells
  <2> HIDE DEF new
  <2> DEFINE n == [tasks[t] EXCEPT !.seen = new, !.graph = After(g)]
  <2>7. /\ PlainTask(tasks'[t]) /\ tasks'[t].seen = new /\ tasks'[t].phase \in RunPhases
    <3>1. n \in Task /\ n.seen = new /\ n.graph = After(g) /\ ~n.poisoned /\ ~n.command
      BY <1>1, <1>9, <2>2, <2>5, AfterType DEF Task
    <3>2. Superstep(t, n)
      BY <2>1
    <3> HIDE DEF n
    <3>3. g.at # "approval_interrupt" /\ g.entry # "approval_interrupt"
      BY <1>2 DEF PlainTask
    <3>. QED  BY <1>1, <1>2, <2>2, <2>6, <3>1, <3>2, <3>3, SuperstepPlain
  <2>. QED  BY <1>5, <2>1, <2>5, <2>6, <2>7 DEF QueuedPhases
<1>14. CASE PersistOutcome(t)
  <2>1. PICK new \in {Done(seen, TRUE), Failed(seen)} :
            /\ Commit(t, new) /\ tasks[t].phase = "node"
            /\ Goes(t, [tasks[t] EXCEPT !.seen = new], "clear")
    <3>1. Node(t, "persist_done") => Done(seen, g.items) = Done(seen, TRUE)
      BY <1>1 DEF TaskReady, GraphReady, GateAndOn, Node, Done
    <3>. QED  BY <1>14, <3>1 DEF PersistOutcome, Node
  <2>2. Fit(t, new) /\ new \in Cells /\ PlainCells(new) /\ new.status \in Outcomes
    BY <1>8, <1>9, <2>1 DEF Fit
  <2> DEFINE n == [tasks[t] EXCEPT !.seen = new]
  <2>3. Goes(t, n, "clear") /\ n \in Task /\ n.seen = new /\ n.graph = g
        /\ ~n.poisoned /\ ~n.command
    BY <1>1, <1>9, <2>1, <2>2 DEF Task
  <2> HIDE DEF n
  <2>4. /\ tasks'[t].phase = "clear" /\ tasks'[t].graph = g /\ tasks'[t].seen = new
        /\ ~tasks'[t].poisoned /\ ~tasks'[t].command
    BY <1>9, <2>3, GoesTo
  <2>5. PlainTask(tasks'[t])
    BY <1>2, <2>2, <2>4 DEF PlainTask
  <2>. QED  BY <1>6, <2>1, <2>2, <2>5 DEF QueuedPhases
<1>15. CASE Clear(t)
  <2> DEFINE new == [seen EXCEPT !.checkpoint = None]
  <2>1. /\ Commit(t, new) /\ tasks[t].phase = "clear"
        /\ Superstep(t, [tasks[t] EXCEPT !.seen = new, !.graph = After(g)])
    BY <1>15 DEF Clear
  <2>2. g.at \in {"persist_done", "persist_failed"} /\ seen.status \in Outcomes
    BY <1>1, <1>2, <2>1 DEF TaskReady, PlainTask
  <2>3. Fit(t, new) /\ new \in Cells
    BY <1>1, OutcomesFit DEF Fit
  <2>4. PlainCells(new) /\ new.status = seen.status
    BY <1>1 DEF PlainCells, Cells
  <2> HIDE DEF new
  <2>5. /\ PlainTask(tasks'[t]) /\ tasks'[t].seen = new /\ tasks'[t].phase \in RunPhases
    <3> DEFINE n == [tasks[t] EXCEPT !.seen = new, !.graph = After(g)]
    <3>1. g.at \in Nodes /\ g.at # "approval_interrupt" /\ g.entry # "approval_interrupt"
      BY <1>2, <2>2 DEF PlainTask, Nodes
    <3>2. n \in Task /\ n.seen = new /\ n.graph = After(g) /\ ~n.poisoned /\ ~n.command
      BY <1>1, <1>9, <2>3, <3>1, AfterType DEF Task
    <3>3. Superstep(t, n)
      BY <2>1
    <3> HIDE DEF n
    <3>. QED  BY <1>1, <1>2, <2>2, <2>4, <3>1, <3>2, <3>3, SuperstepPlain
  <2>. QED  BY <1>5, <2>1, <2>3, <2>4, <2>5 DEF QueuedPhases
<1>16. CASE Return(t)
  <2>1. Goes(t, tasks[t], "finish") /\ runs' = runs /\ seen.status \in Outcomes
        /\ tasks[t].phase = "node"
    BY <1>2, <1>16 DEF Return, Node, PlainTask
  <2>2. /\ tasks'[t].phase = "finish" /\ tasks'[t].graph = g /\ tasks'[t].seen = seen
        /\ ~tasks'[t].poisoned /\ ~tasks'[t].command
    BY <1>1, <1>9, <2>1, GoesTo
  <2>3. PlainTask(tasks'[t])
    BY <1>2, <2>1, <2>2 DEF PlainTask
  <2>. QED  BY <1>3, <2>1, <2>2, <2>3 DEF QueuedPhases, RunPhases
<1>17. CASE LegacyMark(t)
  <2> DEFINE c == runs'[Run(t)].cells
             n == [tasks[t] EXCEPT !.seen = c]
  <2>1. Commit(t, Running(seen)) /\ Goes(t, n, "legacy_resolve")
    BY <1>17 DEF LegacyMark
  <2>2. c \in Cells /\ PlainCells(c)
    BY <1>1, <1>8, <1>9, <2>1, CommitPlain
  <2> HIDE DEF c
  <2>3. /\ n \in Task /\ n.seen = c /\ n.graph = g /\ ~n.poisoned /\ ~n.command
    BY <1>1, <1>9, <2>2 DEF Task
  <2> HIDE DEF n
  <2>4. /\ tasks'[t].phase = "legacy_resolve" /\ tasks'[t].graph = g /\ tasks'[t].seen = c
        /\ ~tasks'[t].poisoned /\ ~tasks'[t].command
    BY <1>9, <2>1, <2>3, GoesTo
  <2>5. PlainTask(tasks'[t]) /\ tasks'[t].phase \in RunPhases
    BY <1>2, <2>2, <2>4 DEF PlainTask, RunPhases
  <2>. QED  BY <1>7, <1>8, <1>9, <2>1, <2>4, <2>5 DEF c
<1>18. CASE LegacyItems(t)
  <2> DEFINE n == [tasks[t] EXCEPT !.poisoned = FALSE]
  <2>1. Goes(t, n, "legacy_done") /\ runs' = runs /\ tasks[t].phase \notin QueuedPhases
    <3>1. AfterItems(t) = {FALSE}
      BY <1>1, <1>2, <1>9 DEF AfterItems, Task
    <3>. QED  BY <1>18, <3>1 DEF LegacyItems, QueuedPhases
  <2>2. /\ n \in Task /\ n.seen = seen /\ n.graph = g /\ ~n.poisoned /\ ~n.command
    BY <1>1, <1>9 DEF Task
  <2> HIDE DEF n
  <2>3. /\ tasks'[t].phase = "legacy_done" /\ tasks'[t].graph = g /\ tasks'[t].seen = seen
        /\ ~tasks'[t].poisoned /\ ~tasks'[t].command
    BY <1>9, <2>1, <2>2, GoesTo
  <2>4. PlainTask(tasks'[t]) /\ tasks'[t].phase \in RunPhases
    BY <1>2, <2>3 DEF PlainTask, RunPhases
  <2>. QED  BY <1>3, <2>1, <2>3, <2>4
<1>19. CASE LegacyDone(t)
  <2> DEFINE new == Done(seen, TRUE)
             n   == [tasks[t] EXCEPT !.seen = new]
  <2>1. Commit(t, new) /\ Goes(t, n, "finish") /\ tasks[t].phase \notin QueuedPhases
    BY <1>19 DEF LegacyDone, QueuedPhases
  <2>2. Fit(t, new) /\ new \in Cells /\ PlainCells(new) /\ new.status \in Outcomes
    BY <1>8, <1>9 DEF Fit
  <2> HIDE DEF new
  <2>3. /\ n \in Task /\ n.seen = new /\ n.graph = g /\ ~n.poisoned /\ ~n.command
    BY <1>1, <1>9, <2>2 DEF Task
  <2> HIDE DEF n
  <2>4. /\ tasks'[t].phase = "finish" /\ tasks'[t].graph = g /\ tasks'[t].seen = new
        /\ ~tasks'[t].poisoned /\ ~tasks'[t].command
    BY <1>9, <2>1, <2>3, GoesTo
  <2>5. PlainTask(tasks'[t])
    BY <1>2, <2>2, <2>4 DEF PlainTask
  <2>. QED  BY <1>6, <2>1, <2>2, <2>5
<1>20. CASE Finish(t)
  <2>1. tasks'[t] = Gone(tasks[t], "ended") /\ runs' = runs /\ tasks[t].phase = "finish"
    BY <1>9, <1>20 DEF Finish, TypeOK
  <2>2. PlainTask(Gone(tasks[t], "ended"))
    BY DEF Gone, IdleTask, PlainTask, PlainCells, NewCells, NewGraph
  <2>3. ~Obliged(tasks[t])
    BY <1>2, <2>1 DEF PlainTask, Obliged, QueuedPhases
  <2>. QED  BY <1>2, <2>1, <2>2, <2>3 DEF Duty
<1>21. /\ ~PassGate(t) /\ ~Park(t)
  BY <1>2 DEF PassGate, Park, Node, PlainTask
<1>22. /\ ~Marker(t) /\ ~ResumeFailed(t) /\ ~Handler(t) /\ ~FallBack(t) /\ ~GiveUpResume(t)
  BY <1>2 DEF Marker, ResumeFailed, Handler, FallBack, GiveUpResume, GivesUp, PlainTask
<1>23. ASSUME NEW b \in BOOLEAN PROVE ~NodeRaises(t, b) /\ ~Unhandled(t, b)
  <2>1. ~Raises(t, b)
    BY <1>2, <1>9 DEF Raises
  <2>2. ~NodeRaises(t, b)
    BY <2>1, Zenon DEF NodeRaises
  <2>3. ~Unhandled(t, b)
    BY <1>2, <2>1 DEF Unhandled
  <2>. QED  BY <2>2, <2>3
<1>. QED
  BY <1>4, <1>10, <1>11, <1>12, <1>13, <1>14, <1>15, <1>16, <1>17, <1>18, <1>19, <1>20,
     <1>21, <1>22, <1>23 DEF Executes, InGraph, OutOfGraph

\* A route leaves the cells alone, and a task it hands over is to write an outcome.
Routed(t) ==
    /\ tasks[t].phase \in RequestPhases /\ tasks[t].host = "none"
    /\ \A u \in Tasks \ {t} : tasks'[u] = tasks[u]
    /\ \A r \in Runs : runs'[r].cells = runs[r].cells
    /\ PlainTask(tasks'[t])
    /\ tasks'[t].host = "none" \/ tasks'[t].phase \in QueuedPhases

LEMMA RouteIsPlain ==
    ASSUME RunInv, PlainInv, NEW t \in Tasks, Start(t) \/ Resume(t) \/ Hands(t)
    PROVE  Routed(t)
<1>1. /\ TypeOK /\ PlainTask(tasks[t]) /\ tasks[t] \in Task
      /\ tasks[t].phase \in RequestPhases => tasks[t].host = "none"
  BY DEF RunInv, TypeOK, ReadyInv, TaskReady, PlainInv
<1>2. ASSUME NEW k \in Keys, NEW p \in Payloads, StartRead(t, k, p) PROVE Routed(t)
  <2>1. /\ tasks[t].phase \in RequestPhases /\ UNCHANGED runs
        /\ \A u \in Tasks \ {t} : tasks'[u] = tasks[u]
        /\ tasks'[t].phase \in {"unique", "replayed", "conflict"}
        /\ tasks'[t].host = tasks[t].host /\ tasks'[t].seen = tasks[t].seen
        /\ tasks'[t].graph = tasks[t].graph /\ tasks'[t].poisoned = tasks[t].poisoned
        /\ tasks'[t].command = tasks[t].command
    BY <1>1, <1>2 DEF StartRead, TypeOK, Task, RequestPhases
  <2>. QED  BY <1>1, <2>1 DEF Routed, PlainTask
<1>3. ASSUME NEW r \in Runs, StartCommit(t, r) PROVE Routed(t)
  <2>1. /\ tasks[t].phase \in RequestPhases
        /\ \A q \in Runs : runs'[q].cells = runs[q].cells
        /\ \A u \in Tasks \ {t} : tasks'[u] = tasks[u]
        /\ tasks'[t].phase \in {"inserted", "error"}
        /\ tasks'[t].host = tasks[t].host /\ tasks'[t].seen = tasks[t].seen
        /\ tasks'[t].graph = tasks[t].graph /\ tasks'[t].poisoned = tasks[t].poisoned
        /\ tasks'[t].command = tasks[t].command
    BY <1>1, <1>3 DEF StartCommit, TypeOK, Task, Row, RequestPhases
  <2>. QED  BY <1>1, <2>1 DEF Routed, PlainTask
<1>4. ASSUME NEW r \in Runs, NEW b \in BOOLEAN, ResumeCheck(t, r, b) PROVE Routed(t)
  <2>1. /\ tasks[t].phase \in RequestPhases /\ UNCHANGED runs
        /\ \A u \in Tasks \ {t} : tasks'[u] = tasks[u]
        /\ tasks'[t].phase \in {"eligible", "refused"}
        /\ tasks'[t].host = tasks[t].host /\ tasks'[t].seen = tasks[t].seen
        /\ tasks'[t].graph = tasks[t].graph /\ tasks'[t].poisoned = tasks[t].poisoned
        /\ tasks'[t].command = tasks[t].command
    BY <1>1, <1>4 DEF ResumeCheck, TypeOK, Task, RequestPhases
  <2>. QED  BY <1>1, <2>1 DEF Routed, PlainTask
<1>5. CASE InProgress(t) \/ EnqueueFails(t)
  <2>1. /\ tasks[t].phase \in RequestPhases /\ UNCHANGED runs
        /\ \A u \in Tasks \ {t} : tasks'[u] = tasks[u]
        /\ tasks'[t].phase \in {"in_progress", "unavailable"}
        /\ tasks'[t].host = tasks[t].host /\ tasks'[t].seen = tasks[t].seen
        /\ tasks'[t].graph = tasks[t].graph /\ tasks'[t].poisoned = tasks[t].poisoned
        /\ tasks'[t].command = tasks[t].command
    BY <1>1, <1>5 DEF InProgress, EnqueueFails, MayHandOver, TypeOK, Task, RequestPhases
  <2>. QED  BY <1>1, <2>1 DEF Routed, PlainTask
<1>6. ASSUME NEW phase \in QueuedPhases, NEW host, HandOver(t, phase, host) PROVE Routed(t)
  <2>1. /\ tasks[t].phase \in RequestPhases /\ UNCHANGED runs
        /\ \A u \in Tasks \ {t} : tasks'[u] = tasks[u]
        /\ tasks'[t].phase = phase /\ tasks'[t].seen = tasks[t].seen
        /\ tasks'[t].graph = tasks[t].graph /\ tasks'[t].poisoned = tasks[t].poisoned
        /\ tasks'[t].command = tasks[t].command
    BY <1>1, <1>6 DEF HandOver, MayHandOver, TypeOK, Task, RequestPhases
  <2>. QED  BY <1>1, <2>1 DEF Routed, PlainTask, QueuedPhases
<1>7. Enqueue(t) \/ RunInProcess(t) => Routed(t)
  <2>1. "brokered" \in QueuedPhases /\ "scheduled" \in QueuedPhases
    BY DEF QueuedPhases
  <2>. QED  BY <1>6, <2>1 DEF Enqueue, RunInProcess
<1>. QED  BY <1>2, <1>3, <1>4, <1>5, <1>7 DEF Start, Resume, Hands

LEMMA RoutedStaysSettled ==
    ASSUME PlainInv, \A r \in Runs : Attended(r), NEW t \in Tasks, Routed(t)
    PROVE  PlainInv' /\ \A r \in Runs : Attended(r)'
<1>1. PlainInv'
  <2>1. \A u \in Tasks : PlainTask(tasks'[u])
    BY DEF Routed, PlainInv
  <2>2. \A r \in Runs : PlainCells(runs'[r].cells)
    BY DEF Routed, PlainInv
  <2>. QED  BY <2>1, <2>2 DEF PlainInv, PlainTask, PlainCells
<1>2. ASSUME NEW r \in Runs, HandedOver(r)'
      PROVE  \/ runs'[r].cells.status \in Outcomes
             \/ \E u \in Tasks :
                    Run(u)' = r /\ (Obliged(tasks'[u]) \/ tasks'[u].phase = "killed")
  <2>1. PICK u \in Tasks : tasks'[u].run = r /\ tasks'[u].host # "none"
    BY <1>2 DEF HandedOver, Run
  <2>2. CASE u = t
    BY <2>1, <2>2 DEF Routed, Obliged, Run
  <2>3. CASE u # t
    <3>1. HandedOver(r)
      BY <2>1, <2>3 DEF Routed, HandedOver, Run
    <3>2. CASE runs[r].cells.status \in Outcomes
      BY <3>2 DEF Routed
    <3>3. CASE \E w \in Tasks : Run(w) = r /\ (Obliged(tasks[w]) \/ tasks[w].phase = "killed")
      <4>1. PICK w \in Tasks : Run(w) = r /\ (Obliged(tasks[w]) \/ tasks[w].phase = "killed")
        BY <3>3
      <4>2. w # t
        BY <4>1 DEF Routed, Obliged, RequestPhases, QueuedPhases, RunPhases, GraphPhases
      <4>3. tasks'[w] = tasks[w]
        BY <4>2 DEF Routed
      <4>. QED  BY <4>1, <4>3 DEF Run
    <3>. QED  BY <3>1, <3>2, <3>3 DEF Attended
  <2>. QED  BY <2>2, <2>3
<1>. QED  BY <1>1, <1>2 DEF Attended, Obliged

LEMMA ExecutedStaysSettled ==
    ASSUME RunInv, Smooth, PlainInv, \A r \in Runs : Attended(r), NEW t \in Tasks, Executes(t)
    PROVE  PlainInv' /\ \A r \in Runs : Attended(r)'
<1>1. PlainTask(tasks'[t]) /\ Duty(t)
  BY SmoothStep
<1>2. /\ \A u \in Tasks \ {t} : tasks'[u] = tasks[u]
      /\ tasks'[t].run = tasks[t].run /\ tasks'[t].host = tasks[t].host
  <2>1. CASE Finish(t)
    BY <2>1 DEF Finish, Gone, IdleTask, RunInv, TypeOK
  <2>2. CASE ~Finish(t)
    BY <2>2, ExecutesStep DEF Step, MovedOn
  <2>. QED  BY <2>1, <2>2
<1>3. PlainInv'
  <2>1. \A u \in Tasks : PlainTask(tasks'[u])
    BY <1>1, <1>2 DEF PlainInv
  <2>2. \A r \in Runs : PlainCells(runs'[r].cells)
    BY <1>1 DEF Duty, PlainInv
  <2>. QED  BY <2>1, <2>2 DEF PlainInv, PlainTask, PlainCells
<1>4. ASSUME NEW r \in Runs, HandedOver(r)'
      PROVE  \/ runs'[r].cells.status \in Outcomes
             \/ \E u \in Tasks :
                    Run(u)' = r /\ (Obliged(tasks'[u]) \/ tasks'[u].phase = "killed")
  <2>1. HandedOver(r)
    BY <1>2, <1>4 DEF HandedOver, Run
  <2>2. CASE runs[r].cells.status \in Outcomes
    BY <1>1, <1>2, <2>2 DEF Duty, Run
  <2>3. CASE \E w \in Tasks : Run(w) = r /\ (Obliged(tasks[w]) \/ tasks[w].phase = "killed")
    <3>1. PICK w \in Tasks : Run(w) = r /\ (Obliged(tasks[w]) \/ tasks[w].phase = "killed")
      BY <2>3
    <3>2. CASE w # t
      BY <1>2, <3>1, <3>2 DEF Run
    <3>3. CASE w = t
      <4>1. tasks[t].phase # "killed"
        BY ExecutesIsExecuting DEF Executing, RunPhases, GraphPhases, QueuedPhases
      <4>. QED  BY <1>1, <1>2, <3>1, <3>3, <4>1 DEF Duty, Run
    <3>. QED  BY <3>2, <3>3
  <2>. QED  BY <2>1, <2>2, <2>3 DEF Attended
<1>. QED  BY <1>3, <1>4 DEF Attended, Obliged

LEMMA KilledStaysSettled ==
    ASSUME PlainInv, \A r \in Runs : Attended(r), NEW dead, tasks' = Kill(dead), UNCHANGED runs
    PROVE  PlainInv' /\ \A r \in Runs : Attended(r)'
<1>1. ASSUME NEW u \in Tasks
      PROVE  /\ tasks'[u].run = tasks[u].run /\ tasks'[u].host = tasks[u].host
             /\ tasks'[u] = tasks[u] \/ tasks'[u].phase = "killed"
             /\ PlainTask(tasks'[u])
  <2> DEFINE gone == Gone(tasks[u], "killed")
  <2>1. /\ gone.run = tasks[u].run /\ gone.host = tasks[u].host /\ gone.phase = "killed"
        /\ gone.seen = NewCells /\ gone.graph = NewGraph /\ ~gone.poisoned /\ ~gone.command
    BY DEF Gone, IdleTask
  <2>2. PlainTask(gone)
    BY <2>1 DEF PlainTask, PlainCells, NewCells, NewGraph
  <2>3. tasks'[u] = tasks[u] \/ tasks'[u] = gone
    BY DEF Kill
  <2> HIDE DEF gone
  <2>. QED  BY <2>1, <2>2, <2>3 DEF PlainInv
<1>2. PlainInv'
  BY <1>1 DEF PlainInv, PlainTask, PlainCells
<1>3. ASSUME NEW r \in Runs, HandedOver(r)'
      PROVE  \/ runs'[r].cells.status \in Outcomes
             \/ \E u \in Tasks :
                    Run(u)' = r /\ (Obliged(tasks'[u]) \/ tasks'[u].phase = "killed")
  <2>1. HandedOver(r)
    BY <1>1, <1>3 DEF HandedOver, Run
  <2>. QED  BY <1>1, <2>1 DEF Attended, Run
<1>. QED  BY <1>2, <1>3 DEF Attended, Obliged

LEMMA InitSettled == Init => SettledInv
  BY DEF Init, SettledInv, PlainInv, PlainTask, PlainCells, Attended, HandedOver, Run, IdleTask,
         NewCells, NewGraph

LEMMA NextSettled == RunInv /\ SettledInv /\ [Next]_vars => SettledInv'
<1> SUFFICES ASSUME RunInv, Smooth, PlainInv, \A r \in Runs : Attended(r), [Next]_vars
             PROVE  PlainInv' /\ \A r \in Runs : Attended(r)'
  BY DEF SettledInv, Smooth
<1>1. ASSUME NEW t \in Tasks, Start(t) \/ Resume(t) \/ Hands(t)
      PROVE  PlainInv' /\ \A r \in Runs : Attended(r)'
  BY <1>1, RouteIsPlain, RoutedStaysSettled
<1>2. ASSUME NEW t \in Tasks, Executes(t)
      PROVE  PlainInv' /\ \A r \in Runs : Attended(r)'
  BY <1>2, ExecutedStaysSettled
<1>3. ASSUME NEW t \in Tasks, WorkerCrash(t)
      PROVE  PlainInv' /\ \A r \in Runs : Attended(r)'
  BY <1>3, KilledStaysSettled DEF WorkerCrash
<1>4. CASE ApiRestart
  BY <1>4, KilledStaysSettled DEF ApiRestart
<1>5. CASE UNCHANGED vars
  BY <1>5 DEF vars, PlainInv, PlainTask, PlainCells, Attended, HandedOver, Run, Obliged
<1>6. Starts \subseteq Tasks /\ Resumes \subseteq Tasks
  BY DEF Tasks
<1>. QED  BY <1>1, <1>2, <1>3, <1>4, <1>5, <1>6 DEF Next

\* Without the gate, and while the database does not fail, a run that was handed over
\* and that no task executes any more is done or failed (no task of it was killed):
\* however a start and resumes of one run overlap, each writes an outcome or has seen
\* one in the row, and none takes an outcome back without writing one itself.
THEOREM QuietRunsSettle == Spec => []QuietIsSettled
<1>1. SettledInv => QuietIsSettled
  <2> SUFFICES ASSUME SettledInv, Smooth, NEW r \in Runs, HandedOver(r), Quiet(r)
               PROVE  runs[r].cells.status \in Outcomes
    BY DEF QuietIsSettled, Smooth, Outcomes
  <2>. QED  BY DEF SettledInv, Attended, Quiet, Obliged, Active
<1>. QED  BY <1>1, RunInvariant, InitSettled, NextSettled, PTL DEF Spec
=============================================================================
