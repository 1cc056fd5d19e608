---------------------------- MODULE CatalogProofs ----------------------------
(***************************************************************************)
(* Proofs about Catalog, for any number of calls, postings, fingerprints   *)
(* and pages.                                                              *)
(***************************************************************************)
EXTENDS Catalog, FiniteSetTheorems, TLAPS

\* Where a call has a page in hand, and where its jobs are not committed yet.
Paging == {"records", "jobs", "complete"}
Unlisted == {"records", "jobs"}

\* What a call's own state says of where it is.
Control(c) ==
    /\ pc[c] \in {"idle", "scan"} => at[c] = 1
    /\ pc[c] \notin Unlisted \cup {"upserts"} => item[c] = None
    /\ pc[c] \in Paging => at[c] <= Len(plan[c])
    /\ kept[c] \subseteq In(feed[c])
    /\ pc[c] = "upserts" =>
          /\ todo[c] \cup inserted[c] \subseteq In(feed[c])
          /\ item[c] \in todo[c] \cup {None}
          /\ item[c] # None => session[c] = "usable"
    /\ pc[c] \notin {"upserts", "audit"} => inserted[c] = {}
    /\ pc[c] \notin Paging => kept[c] = {}

\* A session once broken stays so, and an aborted one has its error counted.
SessionInv(c) ==
    /\ session[c] = "aborted" =>
          pc[c] = "crashed" \/ (pc[c] = "upserts" /\ errors[c])
    /\ session[c] = "expired" => pc[c] \in {"score", "end"} \cup Ended

\* The rows a call has left.
RowsInv(c) ==
    /\ \A i \in Pages : runs[c][i] = "running" =>
          pc[c] = "crashed" \/ (pc[c] = "complete" /\ at[c] = i)
    /\ \A i \in asked[c] :
          /\ i <= at[c] /\ (i = at[c] => pc[c] \in Paging \cup {"crashed"})
          /\ (i < at[c] /\ pc[c] # "crashed" /\ session[c] \in {"usable", "aborted"})
                => runs[c][i] \in {"completed", "failed"}

ScanInv(c) ==
    /\ pc[c] \in {"scan", "score", "end"} => kind[c] = "scan"
    /\ scans[c] # None => kind[c] = "scan" /\ pc[c] \notin {"idle", "scan"}
    /\ scans[c] = "running" =>
          pc[c] # "done" /\ (pc[c] = "error" => session[c] = "broken")

OwnInv(c) == Control(c) /\ SessionInv(c) /\ RowsInv(c) /\ ScanInv(c)

\* No job that the dedupe's look-up finds has the fingerprint of a text.
Unfound(t) == \A j \in Keys : catalog[j] \in Plain => Fp[catalog[j]] # Fp[t]

\* What a call's page has to do with the catalog.
PageInv(c) ==
    /\ pc[c] \in Unlisted =>
          /\ \A j, k \in kept[c] : Fp[feed[c][j]] = Fp[feed[c][k]] => j = k
          /\ ~overtaken[c] => \A k \in kept[c] : Unfound(feed[c][k])
          /\ \A k \in In(feed[c]) :
                 Fp[feed[c][k]] \in listed \/ \E j \in kept[c] : Fp[feed[c][j]] = Fp[feed[c][k]]
    /\ pc[c] = "complete" => \A k \in In(feed[c]) : Fp[feed[c][k]] \in listed

\* What the records a call has committed have to do with it.
RecordOk(c, k) ==
    (records[k] # None /\ records[k].by = c) =>
        /\ runs[c][records[k].page] = "completed" => records[k].fp \in listed
        /\ \/ records[k].page < at[c]
           \/ pc[c] = "complete" /\ records[k].page = at[c] /\ records[k].fp \in listed
           \/ pc[c] = "crashed"
RecordInv(c) == \A k \in Keys : RecordOk(c, k)

AuditInv(c) ==
    /\ pc[c] = "audit" => errors[c] \/ inserted[c] \subseteq In(catalog)
    /\ audits[c] # None => (~audits[c].errors => audits[c].inserted \subseteq In(catalog))

SharedInv(c) == PageInv(c) /\ RecordInv(c) /\ AuditInv(c)

\* The fingerprints of the jobs are among those that have been in the catalog.
Known == \A k \in Keys : catalog[k] # None => Fp[catalog[k]] \in listed

CatalogInv == DuplicatesOnlyByOverlap /\ Known

IInv ==
    /\ TypeOK /\ CatalogInv
    /\ \A c \in Calls : OwnInv(c) /\ SharedInv(c)

-----------------------------------------------------------------------------
(* The initial states.                                                      *)

LEMMA InitIInv == Init => IInv
<1> SUFFICES ASSUME Init PROVE IInv
  OBVIOUS
<1>1. TypeOK
  <2>1. catalog \in Feeds /\ feed \in [Calls -> Feeds] /\ records \in [Keys -> Record \cup {None}]
    BY DEF Init, Feeds, Nothing
  <2>2. lock \in [Tables -> [Keys -> Calls \cup {None}]]
    BY DEF Init, Nothing
  <2>3. \A c \in Calls : at[c] <= Len(plan[c])  + 1
    BY DEF Init
  <2>4. /\ runs \in [Calls -> [Pages -> Status \cup {None}]]
        /\ scans \in [Calls -> ScanStatus \cup {None}]
        /\ audits \in [Calls -> [inserted: SUBSET Keys, errors: BOOLEAN] \cup {None}]
        /\ hashed \subseteq Keys
    BY DEF Init
  <2>5. /\ pc \in [Calls -> Phases]
        /\ kind \in [Calls -> AllKinds \cup {None}]
        /\ plan \in [Calls -> Plans \cup {<<>>}]
        /\ at \in [Calls -> Nat \ {0}]
        /\ item \in [Calls -> Keys \cup {None}]
        /\ session \in [Calls -> {"usable", "aborted", "broken", "expired"}]
        /\ outcome \in [Calls -> {"done", "failed", None}]
    BY DEF Init, Phases
  <2>6. /\ kept \in [Calls -> SUBSET Keys]
        /\ todo \in [Calls -> SUBSET Keys]
        /\ found \in [Calls -> BOOLEAN]
        /\ inserted \in [Calls -> SUBSET Keys]
        /\ errors \in [Calls -> BOOLEAN]
        /\ asked \in [Calls -> SUBSET Pages]
        /\ overtaken \in [Calls -> BOOLEAN]
        /\ loose \subseteq Keys /\ listed \subseteq Fps
    BY DEF Init
  <2>. QED  BY <2>1, <2>2, <2>3, <2>4, <2>5, <2>6 DEF TypeOK
<1>2. CatalogInv
  BY DEF Init, CatalogInv, Known, DuplicatesOnlyByOverlap, Alike, Nothing
<1>3. ASSUME NEW c \in Calls PROVE OwnInv(c) /\ SharedInv(c)
  <2>1. Control(c) /\ SessionInv(c)
    BY DEF Init, Control, SessionInv, Paging, Unlisted, In, Nothing
  <2>2. RowsInv(c) /\ ScanInv(c)
    BY CatalogAssumption DEF Init, RowsInv, ScanInv, Status, ScanStatus
  <2>3. SharedInv(c)
    BY DEF Init, SharedInv, PageInv, RecordInv, RecordOk, AuditInv, Unlisted, Nothing
  <2>. QED  BY <2>1, <2>2, <2>3 DEF OwnInv
<1>. QED  BY <1>1, <1>2, <1>3 DEF IInv

-----------------------------------------------------------------------------
(* Types.                                                                   *)

USE DEF tables, page, loop, engine, history, Goto

\* The page a call is at is one of its plan's.
LEMMA PageAt ==
    ASSUME TypeOK, NEW c \in Calls, at[c] <= Len(plan[c])
    PROVE  /\ at[c] \in Pages
           /\ plan[c][at[c]] \in Providers
           /\ \A i \in NextProvider(c) : i \in Nat \ {0} /\ at[c] < i /\ i <= Len(plan[c]) + 1
<1>1. at[c] \in Nat /\ at[c] >= 1
  BY DEF TypeOK
<1>2. CASE plan[c] = <<>>
  BY <1>1, <1>2
<1>3. CASE plan[c] \in Plans
  <2>1. plan[c] \in Seq(Providers) /\ DOMAIN plan[c] \subseteq Pages
    BY <1>3, CatalogAssumption
  <2>2. at[c] \in DOMAIN plan[c]
    BY <1>1, <2>1
  <2>3. Len(plan[c]) \in Nat
    BY <2>1
  <2>. QED  BY <1>1, <2>1, <2>2, <2>3 DEF NextProvider
<1>. QED  BY <1>2, <1>3 DEF TypeOK

LEMMA RecordedType ==
    ASSUME TypeOK, NEW c \in Calls, at[c] \in Pages
    PROVE  Recorded(c) \in [Keys -> Record \cup {None}]
<1>1. feed[c] \in [Keys -> Texts \cup {None}] /\ Fp \in [Texts -> Fps]
  BY CatalogAssumption DEF TypeOK, Feeds
<1>2. ASSUME NEW k \in Keys PROVE Recorded(c)[k] \in Record \cup {None}
  <2>1. CASE feed[c][k] = None
    BY <2>1 DEF Recorded, TypeOK
  <2>2. CASE feed[c][k] # None
    BY <1>1, <2>2 DEF Recorded, Record
  <2>. QED  BY <2>1, <2>2
<1>. QED  BY <1>2 DEF Recorded

LEMMA ReleaseType ==
    ASSUME TypeOK, NEW c \in Calls, Release(c)
    PROVE  lock' \in [Tables -> [Keys -> Calls \cup {None}]]
<1>1. ASSUME NEW t \in Tables, NEW k \in Keys
      PROVE  (IF lock[t][k] = c THEN None ELSE lock[t][k]) \in Calls \cup {None}
  BY DEF TypeOK
<1>. QED  BY <1>1 DEF Release

LEMMA ForgetType ==
    ASSUME TypeOK, NEW c \in Calls, Forget(c)
    PROVE  /\ feed' \in [Calls -> Feeds] /\ kept' \in [Calls -> SUBSET Keys]
           /\ found' \in [Calls -> BOOLEAN]
<1>1. Nothing \in Feeds
  BY DEF Nothing, Feeds
<1>. QED  BY <1>1 DEF TypeOK, Forget

LEMMA TableType == \A c : Table(c) \in Tables
  BY DEF Table, Tables

\* The step to the next provider.
LEMMA SkipType ==
    ASSUME TypeOK, NEW c \in Calls, at[c] <= Len(plan[c]),
           NEW i \in NextProvider(c), at' = [at EXCEPT ![c] = i], plan' = plan
    PROVE  at' \in [Calls -> Nat \ {0}] /\ \A d \in Calls : at'[d] <= Len(plan'[d]) + 1
<1>1. i \in Nat \ {0} /\ i <= Len(plan[c]) + 1
  BY PageAt
<1>. QED  BY <1>1 DEF TypeOK

\* The parts of TypeOK.
TablesType ==
    /\ catalog \in Feeds
    /\ records \in [Keys -> Record \cup {None}]
    /\ runs \in [Calls -> [Pages -> Status \cup {None}]]
    /\ scans \in [Calls -> ScanStatus \cup {None}]
    /\ audits \in [Calls -> [inserted: SUBSET Keys, errors: BOOLEAN] \cup {None}]
    /\ hashed \subseteq Keys
    /\ lock \in [Tables -> [Keys -> Calls \cup {None}]]
PlanType ==
    /\ pc \in [Calls -> Phases]
    /\ kind \in [Calls -> AllKinds \cup {None}]
    /\ plan \in [Calls -> Plans \cup {<<>>}]
    /\ at \in [Calls -> Nat \ {0}]
    /\ \A c \in Calls : at[c] <= Len(plan[c]) + 1
PageType ==
    /\ feed \in [Calls -> Feeds]
    /\ kept \in [Calls -> SUBSET Keys]
    /\ todo \in [Calls -> SUBSET Keys]
    /\ item \in [Calls -> Keys \cup {None}]
    /\ found \in [Calls -> BOOLEAN]
SessionType ==
    /\ session \in [Calls -> {"usable", "aborted", "broken", "expired"}]
    /\ inserted \in [Calls -> SUBSET Keys]
    /\ errors \in [Calls -> BOOLEAN]
    /\ outcome \in [Calls -> {"done", "failed", None}]
    /\ asked \in [Calls -> SUBSET Pages]
    /\ overtaken \in [Calls -> BOOLEAN]
    /\ loose \subseteq Keys /\ listed \subseteq Fps

LEMMA TypeParts == TypeOK <=> TablesType /\ PlanType /\ PageType /\ SessionType
  BY DEF TypeOK, TablesType, PlanType, PageType, SessionType

LEMMA TypePartsNext == TypeOK' <=> TablesType' /\ PlanType' /\ PageType' /\ SessionType'
  BY DEF TypeOK, TablesType, PlanType, PageType, SessionType

LEMMA InType == \A f \in Feeds : In(f) \subseteq Keys
  BY DEF In

LEMMA PicksType ==
    \A f \in Feeds : \A S \in Picks(f) : S \subseteq In(f) /\ S \subseteq Keys
  BY DEF Picks, Fresh, In

\* The catalog and the fingerprints seen, after the commit of keys of a feed.
LEMMA CatalogType ==
    ASSUME TypeOK, NEW c \in Calls, NEW S \in SUBSET In(feed[c])
    PROVE  [k \in Keys |-> IF k \in S THEN feed[c][k] ELSE catalog[k]] \in Feeds
  BY DEF TypeOK, Feeds

LEMMA ListedType ==
    ASSUME TypeOK, NEW c \in Calls, NEW S \in SUBSET In(feed[c])
    PROVE  {Fp[feed[c][k]] : k \in S} \subseteq Fps
<1>1. \A k \in In(feed[c]) : feed[c][k] \in Texts
  BY DEF TypeOK, Feeds, In
<1>2. \A k \in In(feed[c]) : Fp[feed[c][k]] \in Fps
  BY <1>1, CatalogAssumption
<1>. QED  BY <1>2

LEMMA IngestTypes ==
    ASSUME TypeOK, NEW c \in Calls, Control(c), Ingest(c)
    PROVE  TypeOK'
<1>. USE TypeParts
<1>1. CASE AddRunRaises(c)
  <2>1. TablesType'
    BY <1>1 DEF AddRunRaises, TablesType
  <2>2. PlanType'
    BY <1>1, SkipType DEF AddRunRaises, PlanType
  <2>3. PageType'
    BY <1>1 DEF AddRunRaises, PageType
  <2>4. SessionType'
    BY <1>1 DEF AddRunRaises, SessionType
  <2>. QED  BY <2>1, <2>2, <2>3, <2>4, TypePartsNext
<1>2. ASSUME NEW f \in Feeds, Fetch(c, f) PROVE TypeOK'
  <2>1. TablesType'
    BY <1>2 DEF Fetch, TablesType, Asks, Phases
  <2>2. PlanType'
    BY <1>2 DEF Fetch, PlanType, Asks, Phases
  <2>3. PageType'
    BY <1>2, PicksType, InType DEF Fetch, PageType, Asks, Phases
  <2>4. SessionType'
    BY <1>2, PageAt DEF Fetch, SessionType, Asks, Phases
  <2>. QED  BY <2>1, <2>2, <2>3, <2>4, TypePartsNext
<1>3. CASE FetchFails(c)
  <2>1. TablesType'
    BY <1>3, PageAt, ReleaseType DEF FetchFails, TablesType, Asks, CommitFailed, Status, Phases
  <2>2. PlanType'
    BY <1>3, SkipType DEF FetchFails, PlanType, Asks, CommitFailed, Status, Phases
  <2>3. PageType'
    BY <1>3, ForgetType DEF FetchFails, PageType, Asks, CommitFailed, Status, Phases
  <2>4. SessionType'
    BY <1>3, PageAt DEF FetchFails, SessionType, Asks, CommitFailed, Status, Phases
  <2>. QED  BY <2>1, <2>2, <2>3, <2>4, TypePartsNext
<1>4. ASSUME NEW k \in Keys, Look(c, k) PROVE TypeOK'
  <2>1. TablesType'
    BY <1>4 DEF Look, TablesType
  <2>2. PlanType'
    BY <1>4 DEF Look, PlanType
  <2>3. PageType'
    BY <1>4 DEF Look, PageType
  <2>4. SessionType'
    BY <1>4 DEF Look, SessionType
  <2>. QED  BY <2>1, <2>2, <2>3, <2>4, TypePartsNext
<1>5. CASE Write(c)
  <2>1. TablesType'
    BY <1>5, TableType DEF Write, TablesType
  <2>2. PlanType'
    BY <1>5 DEF Write, PlanType
  <2>3. PageType'
    BY <1>5 DEF Write, PageType
  <2>4. SessionType'
    BY <1>5 DEF Write, SessionType
  <2>. QED  BY <2>1, <2>2, <2>3, <2>4, TypePartsNext
<1>6. CASE WriteClashes(c)
  <2>1. TablesType'
    BY <1>6, ReleaseType DEF WriteClashes, TablesType, FlushFails, Paging, Control, Phases
  <2>2. PlanType'
    BY <1>6, SkipType DEF WriteClashes, PlanType, FlushFails, Paging, Control, Phases
  <2>3. PageType'
    BY <1>6, ForgetType DEF WriteClashes, PageType, FlushFails, Paging, Control, Phases
  <2>4. SessionType'
    BY <1>6 DEF WriteClashes, SessionType, FlushFails, Paging, Control, Phases
  <2>. QED  BY <2>1, <2>2, <2>3, <2>4, TypePartsNext
<1>7. CASE DeadlockVictim(c)
  <2>1. TablesType'
    BY <1>7, ReleaseType DEF DeadlockVictim, TablesType, FlushFails, Paging, Control, Phases
  <2>2. PlanType'
    BY <1>7, SkipType DEF DeadlockVictim, PlanType, FlushFails, Paging, Control, Phases
  <2>3. PageType'
    BY <1>7, ForgetType DEF DeadlockVictim, PageType, FlushFails, Paging, Control, Phases
  <2>4. SessionType'
    BY <1>7 DEF DeadlockVictim, SessionType, FlushFails, Paging, Control, Phases
  <2>. QED  BY <2>1, <2>2, <2>3, <2>4, TypePartsNext
<1>8. CASE ToJobs(c)
  <2>1. TablesType'
    BY <1>8 DEF ToJobs, TablesType, RecordsDone, Phases
  <2>2. PlanType'
    BY <1>8 DEF ToJobs, PlanType, RecordsDone, Phases
  <2>3. PageType'
    BY <1>8 DEF ToJobs, PageType, RecordsDone, Phases
  <2>4. SessionType'
    BY <1>8 DEF ToJobs, SessionType, RecordsDone, Phases
  <2>. QED  BY <2>1, <2>2, <2>3, <2>4, TypePartsNext
<1>9. CASE TooManyJobs(c)
  <2>1. TablesType'
    BY <1>9, PageAt, ReleaseType, RecordedType DEF TooManyJobs, TablesType, RecordsDone,
       CommitFailed, Status, Phases, Paging, Control
  <2>2. PlanType'
    BY <1>9, SkipType DEF TooManyJobs, PlanType, RecordsDone, CommitFailed, Status, Phases,
       Paging, Control
  <2>3. PageType'
    BY <1>9, ForgetType DEF TooManyJobs, PageType, RecordsDone, CommitFailed, Status, Phases,
       Paging, Control
  <2>4. SessionType'
    BY <1>9 DEF TooManyJobs, SessionType, RecordsDone, CommitFailed, Status, Phases, Paging,
       Control
  <2>. QED  BY <2>1, <2>2, <2>3, <2>4, TypePartsNext
<1>10. CASE NoJobs(c)
  <2>1. TablesType'
    BY <1>10, PageAt, ReleaseType, RecordedType DEF NoJobs, TablesType, RecordsDone, CommitRun,
       Status, Phases, Paging, Control
  <2>2. PlanType'
    BY <1>10 DEF NoJobs, PlanType, RecordsDone, CommitRun, Status, Phases, Paging, Control
  <2>3. PageType'
    BY <1>10, ForgetType DEF NoJobs, PageType, RecordsDone, CommitRun, Status, Phases, Paging,
       Control
  <2>4. SessionType'
    BY <1>10 DEF NoJobs, SessionType, RecordsDone, CommitRun, Status, Phases, Paging, Control
  <2>. QED  BY <2>1, <2>2, <2>3, <2>4, TypePartsNext
<1>11. CASE CommitJobs(c)
  <2>1. TablesType'
    BY <1>11, PageAt, ReleaseType, RecordedType, CatalogType DEF CommitJobs, TablesType, Status,
       Phases, Paging, Control, Overtaken
  <2>2. PlanType'
    BY <1>11 DEF CommitJobs, PlanType, Status, Phases, Paging, Control, Overtaken
  <2>3. PageType'
    BY <1>11 DEF CommitJobs, PageType, Status, Phases, Paging, Control, Overtaken
  <2>4. SessionType'
    <3>1. {Fp[feed[c][k]] : k \in kept[c]} \subseteq Fps /\ kept[c] \subseteq Keys
      BY ListedType DEF Control, TypeOK
    <3>2. overtaken' \in [Calls -> BOOLEAN]
      BY <1>11 DEF CommitJobs, Overtaken, SessionType
    <3>. QED  BY <1>11, <3>1, <3>2 DEF CommitJobs, SessionType
  <2>. QED  BY <2>1, <2>2, <2>3, <2>4, TypePartsNext
<1>12. CASE Complete(c)
  <2>1. TablesType'
    BY <1>12, PageAt, ReleaseType DEF Complete, TablesType, CommitRun, Status, Phases, Paging,
       Control
  <2>2. PlanType'
    BY <1>12 DEF Complete, PlanType, CommitRun, Status, Phases, Paging, Control
  <2>3. PageType'
    BY <1>12, ForgetType DEF Complete, PageType, CommitRun, Status, Phases, Paging, Control
  <2>4. SessionType'
    BY <1>12 DEF Complete, SessionType, CommitRun, Status, Phases, Paging, Control
  <2>. QED  BY <2>1, <2>2, <2>3, <2>4, TypePartsNext
<1>13. CASE PagesDone(c)
  <2>1. TablesType'
    BY <1>13 DEF PagesDone, TablesType, Phases, Ended
  <2>2. PlanType'
    BY <1>13 DEF PagesDone, PlanType, Phases, Ended
  <2>3. PageType'
    BY <1>13 DEF PagesDone, PageType, Phases, Ended
  <2>4. SessionType'
    BY <1>13 DEF PagesDone, SessionType, Phases, Ended
  <2>. QED  BY <2>1, <2>2, <2>3, <2>4, TypePartsNext
<1>. QED  BY <1>1, <1>2, <1>3, <1>4, <1>5, <1>6, <1>7, <1>8, <1>9, <1>10, <1>11, <1>12, <1>13
             DEF Ingest

LEMMA EngineTypes ==
    ASSUME TypeOK, NEW c \in Calls, Control(c), Engine(c)
    PROVE  TypeOK'
<1>. USE TypeParts
<1>1. ASSUME NEW f \in Feeds, Hashes(c, f) PROVE TypeOK'
  <2>1. TablesType'
    BY <1>1 DEF Hashes, TablesType, Phases
  <2>2. PlanType'
    BY <1>1 DEF Hashes, PlanType, Phases
  <2>3. PageType'
    BY <1>1, InType DEF Hashes, PageType, Phases
  <2>4. SessionType'
    BY <1>1 DEF Hashes, SessionType, Phases
  <2>. QED  BY <2>1, <2>2, <2>3, <2>4, TypePartsNext
<1>2. ASSUME NEW k \in Keys, Upsert(c, k) PROVE TypeOK'
  <2>1. TablesType'
    BY <1>2 DEF Upsert, TablesType
  <2>2. PlanType'
    BY <1>2 DEF Upsert, PlanType
  <2>3. PageType'
    BY <1>2 DEF Upsert, PageType
  <2>4. SessionType'
    BY <1>2 DEF Upsert, SessionType
  <2>. QED  BY <2>1, <2>2, <2>3, <2>4, TypePartsNext
<1>3. ASSUME NEW k \in Keys, UpsertRefused(c, k) PROVE TypeOK'
  <2>1. TablesType'
    BY <1>3 DEF UpsertRefused, TablesType
  <2>2. PlanType'
    BY <1>3 DEF UpsertRefused, PlanType
  <2>3. PageType'
    BY <1>3 DEF UpsertRefused, PageType
  <2>4. SessionType'
    BY <1>3 DEF UpsertRefused, SessionType
  <2>. QED  BY <2>1, <2>2, <2>3, <2>4, TypePartsNext
<1>4. CASE Upserted(c)
  <2>1. TablesType'
    BY <1>4 DEF Upserted, TablesType, Tables
  <2>2. PlanType'
    BY <1>4 DEF Upserted, PlanType, Tables
  <2>3. PageType'
    BY <1>4 DEF Upserted, PageType, Tables
  <2>4. SessionType'
    <3>1. inserted[c] \cup {item[c]} \subseteq Keys
      BY <1>4 DEF Upserted, TypeOK
    <3>. QED  BY <1>4, <3>1 DEF Upserted, SessionType
  <2>. QED  BY <2>1, <2>2, <2>3, <2>4, TypePartsNext
<1>5. CASE UpsertFails(c)
  <2>1. TablesType'
    BY <1>5, ReleaseType DEF UpsertFails, TablesType, Abort
  <2>2. PlanType'
    BY <1>5 DEF UpsertFails, PlanType, Abort
  <2>3. PageType'
    BY <1>5 DEF UpsertFails, PageType, Abort
  <2>4. SessionType'
    BY <1>5 DEF UpsertFails, SessionType, Abort
  <2>. QED  BY <2>1, <2>2, <2>3, <2>4, TypePartsNext
<1>6. CASE CommitUpserts(c)
  <2>. DEFINE S == IF session[c] = "usable" THEN inserted[c] ELSE {}
  <2>5. S \subseteq In(feed[c]) /\ S \subseteq Keys
    BY <1>6 DEF CommitUpserts, UpsertsDone, Control, TypeOK
  <2>6. [k \in Keys |-> IF k \in S THEN feed[c][k] ELSE catalog[k]] \in Feeds
    BY <2>5, CatalogType
  <2>7. {Fp[feed[c][k]] : k \in S} \subseteq Fps
    BY <2>5, ListedType
  <2>1. TablesType'
    <3>1. catalog' \in Feeds
      BY <1>6, <2>6 DEF CommitUpserts
    <3>2. hashed' \subseteq Keys
      BY <1>6, <2>5 DEF CommitUpserts, TablesType
    <3>. QED  BY <1>6, <3>1, <3>2, ReleaseType DEF CommitUpserts, TablesType
  <2>2. PlanType'
    BY <1>6 DEF CommitUpserts, PlanType, Phases, Overtaken
  <2>3. PageType'
    BY <1>6, ForgetType DEF CommitUpserts, PageType, Phases, Overtaken
  <2>4. SessionType'
    <3>1. listed' \subseteq Fps /\ loose' \subseteq Keys
      BY <1>6, <2>5, <2>7 DEF CommitUpserts, SessionType
    <3>2. overtaken' \in [Calls -> BOOLEAN]
      BY <1>6 DEF CommitUpserts, Overtaken, SessionType
    <3>. QED  BY <1>6, <3>1, <3>2 DEF CommitUpserts, SessionType
  <2>. QED  BY <2>1, <2>2, <2>3, <2>4, TypePartsNext
<1>7. CASE CommitUpsertsRaises(c)
  <2>1. TablesType'
    BY <1>7 DEF CommitUpsertsRaises, TablesType, Phases
  <2>2. PlanType'
    BY <1>7 DEF CommitUpsertsRaises, PlanType, Phases
  <2>3. PageType'
    BY <1>7, ForgetType DEF CommitUpsertsRaises, PageType, Phases
  <2>4. SessionType'
    BY <1>7 DEF CommitUpsertsRaises, SessionType, Phases
  <2>. QED  BY <2>1, <2>2, <2>3, <2>4, TypePartsNext
<1>8. CASE Audit(c)
  <2>1. TablesType'
    <3>1. [inserted |-> inserted[c], errors |-> errors[c]] \in [inserted: SUBSET Keys, errors: BOOLEAN]
      BY DEF TypeOK
    <3>. QED  BY <1>8, <3>1 DEF Audit, TablesType
  <2>2. PlanType'
    BY <1>8 DEF Audit, PlanType, Phases, Ended
  <2>3. PageType'
    BY <1>8 DEF Audit, PageType, Phases, Ended
  <2>4. SessionType'
    BY <1>8 DEF Audit, SessionType, Phases, Ended
  <2>. QED  BY <2>1, <2>2, <2>3, <2>4, TypePartsNext
<1>9. CASE Backfill(c)
  <2>1. TablesType'
    BY <1>9 DEF Backfill, TablesType, Phases, Ended
  <2>2. PlanType'
    BY <1>9 DEF Backfill, PlanType, Phases, Ended
  <2>3. PageType'
    BY <1>9 DEF Backfill, PageType, Phases, Ended
  <2>4. SessionType'
    BY <1>9 DEF Backfill, SessionType, Phases, Ended
  <2>. QED  BY <2>1, <2>2, <2>3, <2>4, TypePartsNext
<1>. QED  BY <1>1, <1>2, <1>3, <1>4, <1>5, <1>6, <1>7, <1>8, <1>9 DEF Engine

LEMMA ScanTypes ==
    ASSUME TypeOK, NEW c \in Calls, Control(c), Scan(c)
    PROVE  TypeOK'
<1>. USE TypeParts
<1>1. CASE ScanStart(c)
  <2>1. TablesType'
    BY <1>1 DEF ScanStart, TablesType, Phases, ScanStatus
  <2>2. PlanType'
    BY <1>1 DEF ScanStart, PlanType, Phases, Ended
  <2>3. PageType'
    BY <1>1 DEF ScanStart, PageType, Phases, ScanStatus
  <2>4. SessionType'
    BY <1>1 DEF ScanStart, SessionType, Phases, ScanStatus
  <2>. QED  BY <2>1, <2>2, <2>3, <2>4, TypePartsNext
<1>2. ASSUME NEW o \in {"done", "failed"}, Score(c, o) PROVE TypeOK'
  <2>1. TablesType'
    BY <1>2 DEF Score, TablesType, Phases
  <2>2. PlanType'
    BY <1>2 DEF Score, PlanType, Phases
  <2>3. PageType'
    BY <1>2 DEF Score, PageType, Phases
  <2>4. SessionType'
    BY <1>2 DEF Score, SessionType, Phases
  <2>. QED  BY <2>1, <2>2, <2>3, <2>4, TypePartsNext
<1>3. CASE ScanEnds(c)
  <2>1. TablesType'
    BY <1>3 DEF ScanEnds, TablesType, SessionType, ScanStatus
  <2>2. PlanType'
    BY <1>3 DEF ScanEnds, PlanType, Phases, Ended, ScanStatus
  <2>3. PageType'
    BY <1>3 DEF ScanEnds, PageType, Phases, Ended, ScanStatus
  <2>4. SessionType'
    BY <1>3 DEF ScanEnds, SessionType, Phases, Ended, ScanStatus
  <2>. QED  BY <2>1, <2>2, <2>3, <2>4, TypePartsNext
<1>4. CASE ScanEndRaises(c)
  <2>1. TablesType'
    BY <1>4 DEF ScanEndRaises, TablesType, Phases, Ended
  <2>2. PlanType'
    BY <1>4 DEF ScanEndRaises, PlanType, Phases, Ended
  <2>3. PageType'
    BY <1>4 DEF ScanEndRaises, PageType, Phases, Ended
  <2>4. SessionType'
    BY <1>4 DEF ScanEndRaises, SessionType, Phases, Ended
  <2>. QED  BY <2>1, <2>2, <2>3, <2>4, TypePartsNext
<1>. QED  BY <1>1, <1>2, <1>3, <1>4 DEF Scan

LEMMA EdgeTypes ==
    ASSUME TypeOK, NEW c \in Calls, Control(c), (\E k \in Kinds, p \in Plans : Begin(c, k, p)) \/ Crash(c)
    PROVE  TypeOK'
<1>. USE TypeParts
<1>1. ASSUME NEW k \in Kinds, NEW p \in Plans, Begin(c, k, p) PROVE TypeOK'
  <2>1. TablesType'
    BY <1>1 DEF Begin, TablesType, Phases
  <2>2. PlanType'
    <3>1. at[c] = 1
      BY <1>1 DEF Begin, Control
    <3>2. Len(plan'[c]) \in Nat
      <4>1. p \in Seq(Providers)
        BY CatalogAssumption
      <4>2. plan'[c] = <<>> \/ plan'[c] = p
        BY <1>1 DEF Begin, PlanType
      <4>. QED  BY <4>1, <4>2
    <3>3. \A d \in Calls : at'[d] <= Len(plan'[d]) + 1
      BY <1>1, <3>1, <3>2 DEF Begin, PlanType
    <3>4. pc' \in [Calls -> Phases] /\ kind' \in [Calls -> AllKinds \cup {None}]
      BY <1>1, CatalogAssumption DEF Begin, PlanType, Phases, AllKinds
    <3>5. plan' \in [Calls -> Plans \cup {<<>>}] /\ at' \in [Calls -> Nat \ {0}]
      BY <1>1 DEF Begin, PlanType
    <3>. QED  BY <3>3, <3>4, <3>5 DEF PlanType
  <2>3. PageType'
    BY <1>1 DEF Begin, PageType, Phases
  <2>4. SessionType'
    BY <1>1 DEF Begin, SessionType, Phases
  <2>. QED  BY <2>1, <2>2, <2>3, <2>4, TypePartsNext
<1>2. CASE Crash(c)
  <2>1. TablesType'
    BY <1>2, ReleaseType DEF Crash, TablesType, Phases, Ended
  <2>2. PlanType'
    BY <1>2 DEF Crash, PlanType, Phases, Ended
  <2>3. PageType'
    BY <1>2, ForgetType DEF Crash, PageType, Phases, Ended
  <2>4. SessionType'
    BY <1>2 DEF Crash, SessionType, Phases, Ended
  <2>. QED  BY <2>1, <2>2, <2>3, <2>4, TypePartsNext
<1>. QED  BY <1>1, <1>2

-----------------------------------------------------------------------------
(* A step of one call leaves the others' state alone.                       *)

Act(c) == (\E k \in Kinds, p \in Plans : Begin(c, k, p)) \/ Step(c) \/ Crash(c)

Same(d) ==
    /\ pc'[d] = pc[d] /\ kind'[d] = kind[d] /\ plan'[d] = plan[d] /\ at'[d] = at[d]
    /\ feed'[d] = feed[d] /\ kept'[d] = kept[d] /\ todo'[d] = todo[d] /\ item'[d] = item[d]
    /\ session'[d] = session[d] /\ inserted'[d] = inserted[d] /\ errors'[d] = errors[d]
    /\ runs'[d] = runs[d] /\ scans'[d] = scans[d] /\ audits'[d] = audits[d]
    /\ asked'[d] = asked[d]

LEMMA Framed ==
    ASSUME TypeOK, NEW c \in Calls, Act(c), NEW d \in Calls, d # c
    PROVE  Same(d)
<1>1. ASSUME NEW k \in Kinds, NEW p \in Plans, Begin(c, k, p) PROVE Same(d)
  BY <1>1 DEF Begin, Same, TypeOK
<1>2. CASE Crash(c)
  BY <1>2 DEF Crash, Forget, Same, TypeOK
<1>3. CASE AddRunRaises(c)
  BY <1>3 DEF AddRunRaises, Same, TypeOK
<1>4. ASSUME NEW f \in Feeds, Fetch(c, f) PROVE Same(d)
  BY <1>4 DEF Fetch, Asks, Same, TypeOK
<1>5. CASE FetchFails(c)
  BY <1>5 DEF FetchFails, Asks, CommitFailed, Forget, Same, TypeOK
<1>6. ASSUME NEW k \in Keys, Look(c, k) PROVE Same(d)
  BY <1>6 DEF Look, Same, TypeOK
<1>7. CASE Write(c)
  BY <1>7 DEF Write, Same, TypeOK
<1>8. CASE WriteClashes(c)
  BY <1>8 DEF WriteClashes, FlushFails, Forget, Same, TypeOK
<1>9. CASE DeadlockVictim(c)
  BY <1>9 DEF DeadlockVictim, FlushFails, Forget, Same, TypeOK
<1>10. CASE ToJobs(c)
  BY <1>10 DEF ToJobs, Same, TypeOK
<1>11. CASE TooManyJobs(c)
  BY <1>11 DEF TooManyJobs, CommitFailed, Forget, Same, TypeOK
<1>12. CASE NoJobs(c)
  BY <1>12 DEF NoJobs, CommitRun, Forget, Same, TypeOK
<1>13. CASE CommitJobs(c)
  BY <1>13 DEF CommitJobs, Overtaken, Same, TypeOK
<1>14. CASE Complete(c)
  BY <1>14 DEF Complete, CommitRun, Forget, Same, TypeOK
<1>15. CASE PagesDone(c)
  BY <1>15 DEF PagesDone, Same, TypeOK
<1>16. ASSUME NEW f \in Feeds, Hashes(c, f) PROVE Same(d)
  BY <1>16 DEF Hashes, Same, TypeOK
<1>17. ASSUME NEW k \in Keys, Upsert(c, k) PROVE Same(d)
  BY <1>17 DEF Upsert, Same, TypeOK
<1>18. ASSUME NEW k \in Keys, UpsertRefused(c, k) PROVE Same(d)
  BY <1>18 DEF UpsertRefused, Same, TypeOK
<1>19. CASE Upserted(c)
  BY <1>19 DEF Upserted, Same, TypeOK
<1>20. CASE UpsertFails(c)
  BY <1>20 DEF UpsertFails, Abort, Same, TypeOK
<1>21. CASE CommitUpserts(c)
  BY <1>21 DEF CommitUpserts, Overtaken, Forget, Same, TypeOK
<1>22. CASE CommitUpsertsRaises(c)
  BY <1>22 DEF CommitUpsertsRaises, Forget, Same, TypeOK
<1>23. CASE Audit(c)
  BY <1>23 DEF Audit, Same, TypeOK
<1>24. CASE Backfill(c)
  BY <1>24 DEF Backfill, Same, TypeOK
<1>25. CASE ScanStart(c)
  BY <1>25 DEF ScanStart, Same, TypeOK
<1>26. ASSUME NEW o \in {"done", "failed"}, Score(c, o) PROVE Same(d)
  BY <1>26 DEF Score, Same, TypeOK
<1>27. CASE ScanEnds(c)
  BY <1>27 DEF ScanEnds, Same, TypeOK
<1>28. CASE ScanEndRaises(c)
  BY <1>28 DEF ScanEndRaises, Same, TypeOK
<1>. QED  BY <1>1, <1>2, <1>3, <1>4, <1>5, <1>6, <1>7, <1>8, <1>9, <1>10, <1>11, <1>12, <1>13,
             <1>14, <1>15, <1>16, <1>17, <1>18, <1>19, <1>20, <1>21, <1>22, <1>23, <1>24, <1>25,
             <1>26, <1>27, <1>28 DEF Act, Step, Ingest, Engine, Scan

LEMMA SameOwn ==
    ASSUME NEW d \in Calls, OwnInv(d), Same(d)
    PROVE  OwnInv(d)'
<1>1. Control(d)'
  BY DEF Same, OwnInv, Control
<1>2. SessionInv(d)' /\ ScanInv(d)'
  BY DEF Same, OwnInv, SessionInv, ScanInv
<1>3. RowsInv(d)'
  BY DEF Same, OwnInv, RowsInv
<1>. QED  BY <1>1, <1>2, <1>3 DEF OwnInv

-----------------------------------------------------------------------------
(* A step of a call and its own state.                                      *)

LEMMA BeginPlace ==
    ASSUME TypeOK, NEW c \in Calls, NEW k \in Kinds, NEW p \in Plans, Begin(c, k, p)
    PROVE  /\ pc[c] = "idle" /\ pc'[c] \in {"page", "scan", "hashes"}
           /\ kind'[c] = k /\ (k = "scan" <=> pc'[c] = "scan")
<1>1. k \in {"pass", "scan", "engine"}
  BY CatalogAssumption DEF AllKinds
<1>. QED  BY <1>1 DEF Begin, TypeOK

LEMMA ControlKept ==
    ASSUME TypeOK, NEW c \in Calls, Act(c), OwnInv(c)
    PROVE  Control(c)'
<1>1. ASSUME NEW k \in Kinds, NEW p \in Plans, Begin(c, k, p) PROVE Control(c)'
  BY <1>1, PageAt, PicksType, InType, BeginPlace DEF Begin, Control, OwnInv, TypeOK, Paging,
     Unlisted, Ended, UpsertsDone, RecordsDone
<1>2. CASE Crash(c)
  BY <1>2, PageAt, PicksType, InType, BeginPlace DEF Crash, Forget, Control, OwnInv, TypeOK,
     Paging, Unlisted, Ended, UpsertsDone, RecordsDone
<1>3. CASE AddRunRaises(c)
  BY <1>3, PageAt, PicksType, InType, BeginPlace DEF AddRunRaises, Control, OwnInv, TypeOK,
     Paging, Unlisted, Ended, UpsertsDone, RecordsDone
<1>4. ASSUME NEW f \in Feeds, Fetch(c, f) PROVE Control(c)'
  BY <1>4, PageAt, PicksType, InType, BeginPlace DEF Fetch, Asks, Control, OwnInv, TypeOK,
     Paging, Unlisted, Ended, UpsertsDone, RecordsDone
<1>5. CASE FetchFails(c)
  BY <1>5, PageAt, PicksType, InType, BeginPlace DEF FetchFails, Asks, CommitFailed, Forget,
     Control, OwnInv, TypeOK, Paging, Unlisted, Ended, UpsertsDone, RecordsDone
<1>6. ASSUME NEW k \in Keys, Look(c, k) PROVE Control(c)'
  BY <1>6, PageAt, PicksType, InType, BeginPlace DEF Look, Control, OwnInv, TypeOK, Paging,
     Unlisted, Ended, UpsertsDone, RecordsDone
<1>7. CASE Write(c)
  BY <1>7, PageAt, PicksType, InType, BeginPlace DEF Write, Control, OwnInv, TypeOK, Paging,
     Unlisted, Ended, UpsertsDone, RecordsDone
<1>8. CASE WriteClashes(c)
  BY <1>8, PageAt, PicksType, InType, BeginPlace DEF WriteClashes, FlushFails, Forget, Control,
     OwnInv, TypeOK, Paging, Unlisted, Ended, UpsertsDone, RecordsDone
<1>9. CASE DeadlockVictim(c)
  BY <1>9, PageAt, PicksType, InType, BeginPlace DEF DeadlockVictim, FlushFails, Forget,
     Control, OwnInv, TypeOK, Paging, Unlisted, Ended, UpsertsDone, RecordsDone
<1>10. CASE ToJobs(c)
  BY <1>10, PageAt, PicksType, InType, BeginPlace DEF ToJobs, Control, OwnInv, TypeOK, Paging,
     Unlisted, Ended, UpsertsDone, RecordsDone
<1>11. CASE TooManyJobs(c)
  BY <1>11, PageAt, PicksType, InType, BeginPlace DEF TooManyJobs, CommitFailed, Forget,
     Control, OwnInv, TypeOK, Paging, Unlisted, Ended, UpsertsDone, RecordsDone
<1>12. CASE NoJobs(c)
  BY <1>12, PageAt, PicksType, InType, BeginPlace DEF NoJobs, CommitRun, Forget, Control,
     OwnInv, TypeOK, Paging, Unlisted, Ended, UpsertsDone, RecordsDone
<1>13. CASE CommitJobs(c)
  BY <1>13, PageAt, PicksType, InType, BeginPlace DEF CommitJobs, Overtaken, Control, OwnInv,
     TypeOK, Paging, Unlisted, Ended, UpsertsDone, RecordsDone
<1>14. CASE Complete(c)
  BY <1>14, PageAt, PicksType, InType, BeginPlace DEF Complete, CommitRun, Forget, Control,
     OwnInv, TypeOK, Paging, Unlisted, Ended, UpsertsDone, RecordsDone
<1>15. CASE PagesDone(c)
  BY <1>15, PageAt, PicksType, InType, BeginPlace DEF PagesDone, Control, OwnInv, TypeOK,
     Paging, Unlisted, Ended, UpsertsDone, RecordsDone
<1>16. ASSUME NEW f \in Feeds, Hashes(c, f) PROVE Control(c)'
  <2>1. feed'[c] = f /\ kept'[c] = kept[c] /\ item'[c] = item[c] /\ inserted'[c] = inserted[c]
    BY <1>16 DEF Hashes, TypeOK
  <2>2. todo'[c] \subseteq In(f) /\ pc[c] = "hashes" /\ pc'[c] = "upserts"
    BY <1>16 DEF Hashes, TypeOK
  <2>3. kept[c] = {}
    BY <2>2 DEF OwnInv, Control, Paging
  <2>. QED  BY <2>1, <2>2, <2>3 DEF OwnInv, Control, Paging, Unlisted
<1>17. ASSUME NEW k \in Keys, Upsert(c, k) PROVE Control(c)'
  BY <1>17, PageAt, PicksType, InType, BeginPlace DEF Upsert, Control, OwnInv, TypeOK, Paging,
     Unlisted, Ended, UpsertsDone, RecordsDone
<1>18. ASSUME NEW k \in Keys, UpsertRefused(c, k) PROVE Control(c)'
  BY <1>18, PageAt, PicksType, InType, BeginPlace DEF UpsertRefused, Control, OwnInv, TypeOK,
     Paging, Unlisted, Ended, UpsertsDone, RecordsDone
<1>19. CASE Upserted(c)
  BY <1>19, PageAt, PicksType, InType, BeginPlace DEF Upserted, Control, OwnInv, TypeOK, Paging,
     Unlisted, Ended, UpsertsDone, RecordsDone
<1>20. CASE UpsertFails(c)
  BY <1>20, PageAt, PicksType, InType, BeginPlace DEF UpsertFails, Abort, Control, OwnInv,
     TypeOK, Paging, Unlisted, Ended, UpsertsDone, RecordsDone
<1>21. CASE CommitUpserts(c)
  BY <1>21, PageAt, PicksType, InType, BeginPlace DEF CommitUpserts, Overtaken, Forget, Control,
     OwnInv, TypeOK, Paging, Unlisted, Ended, UpsertsDone, RecordsDone
<1>22. CASE CommitUpsertsRaises(c)
  BY <1>22, PageAt, PicksType, InType, BeginPlace DEF CommitUpsertsRaises, Forget, Control,
     OwnInv, TypeOK, Paging, Unlisted, Ended, UpsertsDone, RecordsDone
<1>23. CASE Audit(c)
  BY <1>23, PageAt, PicksType, InType, BeginPlace DEF Audit, Control, OwnInv, TypeOK, Paging,
     Unlisted, Ended, UpsertsDone, RecordsDone
<1>24. CASE Backfill(c)
  BY <1>24, PageAt, PicksType, InType, BeginPlace DEF Backfill, Control, OwnInv, TypeOK, Paging,
     Unlisted, Ended, UpsertsDone, RecordsDone
<1>25. CASE ScanStart(c)
  BY <1>25, PageAt, PicksType, InType, BeginPlace DEF ScanStart, Control, OwnInv, TypeOK,
     Paging, Unlisted, Ended, UpsertsDone, RecordsDone
<1>26. ASSUME NEW o \in {"done", "failed"}, Score(c, o) PROVE Control(c)'
  BY <1>26, PageAt, PicksType, InType, BeginPlace DEF Score, Control, OwnInv, TypeOK, Paging,
     Unlisted, Ended, UpsertsDone, RecordsDone
<1>27. CASE ScanEnds(c)
  BY <1>27, PageAt, PicksType, InType, BeginPlace DEF ScanEnds, Control, OwnInv, TypeOK, Paging,
     Unlisted, Ended, UpsertsDone, RecordsDone
<1>28. CASE ScanEndRaises(c)
  BY <1>28, PageAt, PicksType, InType, BeginPlace DEF ScanEndRaises, Control, OwnInv, TypeOK,
     Paging, Unlisted, Ended, UpsertsDone, RecordsDone
<1>. QED  BY <1>1, <1>2, <1>3, <1>4, <1>5, <1>6, <1>7, <1>8, <1>9, <1>10, <1>11, <1>12, <1>13,
             <1>14, <1>15, <1>16, <1>17, <1>18, <1>19, <1>20, <1>21, <1>22, <1>23, <1>24, <1>25,
             <1>26, <1>27, <1>28 DEF Act, Step, Ingest, Engine, Scan

LEMMA SessionKept ==
    ASSUME TypeOK, NEW c \in Calls, Act(c), OwnInv(c)
    PROVE  SessionInv(c)'
<1>1. ASSUME NEW k \in Kinds, NEW p \in Plans, Begin(c, k, p) PROVE SessionInv(c)'
  BY <1>1, BeginPlace DEF Begin, SessionInv, Control, OwnInv, TypeOK, Ended, UpsertsDone,
     RecordsDone
<1>2. CASE Crash(c)
  BY <1>2, BeginPlace DEF Crash, Forget, SessionInv, Control, OwnInv, TypeOK, Ended,
     UpsertsDone, RecordsDone
<1>3. CASE AddRunRaises(c)
  BY <1>3, BeginPlace DEF AddRunRaises, SessionInv, Control, OwnInv, TypeOK, Ended, UpsertsDone,
     RecordsDone
<1>4. ASSUME NEW f \in Feeds, Fetch(c, f) PROVE SessionInv(c)'
  BY <1>4, BeginPlace DEF Fetch, Asks, SessionInv, Control, OwnInv, TypeOK, Ended, UpsertsDone,
     RecordsDone
<1>5. CASE FetchFails(c)
  BY <1>5, BeginPlace DEF FetchFails, Asks, CommitFailed, Forget, SessionInv, Control, OwnInv,
     TypeOK, Ended, UpsertsDone, RecordsDone
<1>6. ASSUME NEW k \in Keys, Look(c, k) PROVE SessionInv(c)'
  BY <1>6, BeginPlace DEF Look, SessionInv, Control, OwnInv, TypeOK, Ended, UpsertsDone,
     RecordsDone
<1>7. CASE Write(c)
  BY <1>7, BeginPlace DEF Write, SessionInv, Control, OwnInv, TypeOK, Ended, UpsertsDone,
     RecordsDone
<1>8. CASE WriteClashes(c)
  BY <1>8, BeginPlace DEF WriteClashes, FlushFails, Forget, SessionInv, Control, OwnInv, TypeOK,
     Ended, UpsertsDone, RecordsDone
<1>9. CASE DeadlockVictim(c)
  BY <1>9, BeginPlace DEF DeadlockVictim, FlushFails, Forget, SessionInv, Control, OwnInv,
     TypeOK, Ended, UpsertsDone, RecordsDone
<1>10. CASE ToJobs(c)
  BY <1>10, BeginPlace DEF ToJobs, SessionInv, Control, OwnInv, TypeOK, Ended, UpsertsDone,
     RecordsDone
<1>11. CASE TooManyJobs(c)
  BY <1>11, BeginPlace DEF TooManyJobs, CommitFailed, Forget, SessionInv, Control, OwnInv,
     TypeOK, Ended, UpsertsDone, RecordsDone
<1>12. CASE NoJobs(c)
  BY <1>12, BeginPlace DEF NoJobs, CommitRun, Forget, SessionInv, Control, OwnInv, TypeOK,
     Ended, UpsertsDone, RecordsDone
<1>13. CASE CommitJobs(c)
  BY <1>13, BeginPlace DEF CommitJobs, Overtaken, SessionInv, Control, OwnInv, TypeOK, Ended,
     UpsertsDone, RecordsDone
<1>14. CASE Complete(c)
  BY <1>14, BeginPlace DEF Complete, CommitRun, Forget, SessionInv, Control, OwnInv, TypeOK,
     Ended, UpsertsDone, RecordsDone
<1>15. CASE PagesDone(c)
  BY <1>15, BeginPlace DEF PagesDone, SessionInv, Control, OwnInv, TypeOK, Ended, UpsertsDone,
     RecordsDone
<1>16. ASSUME NEW f \in Feeds, Hashes(c, f) PROVE SessionInv(c)'
  BY <1>16, BeginPlace DEF Hashes, SessionInv, Control, OwnInv, TypeOK, Ended, UpsertsDone,
     RecordsDone
<1>17. ASSUME NEW k \in Keys, Upsert(c, k) PROVE SessionInv(c)'
  BY <1>17, BeginPlace DEF Upsert, SessionInv, Control, OwnInv, TypeOK, Ended, UpsertsDone,
     RecordsDone
<1>18. ASSUME NEW k \in Keys, UpsertRefused(c, k) PROVE SessionInv(c)'
  BY <1>18, BeginPlace DEF UpsertRefused, SessionInv, Control, OwnInv, TypeOK, Ended,
     UpsertsDone, RecordsDone
<1>19. CASE Upserted(c)
  BY <1>19, BeginPlace DEF Upserted, SessionInv, Control, OwnInv, TypeOK, Ended, UpsertsDone,
     RecordsDone
<1>20. CASE UpsertFails(c)
  BY <1>20, BeginPlace DEF UpsertFails, Abort, SessionInv, Control, OwnInv, TypeOK, Ended,
     UpsertsDone, RecordsDone
<1>21. CASE CommitUpserts(c)
  BY <1>21, BeginPlace DEF CommitUpserts, Overtaken, Forget, SessionInv, Control, OwnInv,
     TypeOK, Ended, UpsertsDone, RecordsDone
<1>22. CASE CommitUpsertsRaises(c)
  BY <1>22, BeginPlace DEF CommitUpsertsRaises, Forget, SessionInv, Control, OwnInv, TypeOK,
     Ended, UpsertsDone, RecordsDone
<1>23. CASE Audit(c)
  BY <1>23, BeginPlace DEF Audit, SessionInv, Control, OwnInv, TypeOK, Ended, UpsertsDone,
     RecordsDone
<1>24. CASE Backfill(c)
  BY <1>24, BeginPlace DEF Backfill, SessionInv, Control, OwnInv, TypeOK, Ended, UpsertsDone,
     RecordsDone
<1>25. CASE ScanStart(c)
  BY <1>25, BeginPlace DEF ScanStart, SessionInv, Control, OwnInv, TypeOK, Ended, UpsertsDone,
     RecordsDone
<1>26. ASSUME NEW o \in {"done", "failed"}, Score(c, o) PROVE SessionInv(c)'
  BY <1>26, BeginPlace DEF Score, SessionInv, Control, OwnInv, TypeOK, Ended, UpsertsDone,
     RecordsDone
<1>27. CASE ScanEnds(c)
  BY <1>27, BeginPlace DEF ScanEnds, SessionInv, Control, OwnInv, TypeOK, Ended, UpsertsDone,
     RecordsDone
<1>28. CASE ScanEndRaises(c)
  BY <1>28, BeginPlace DEF ScanEndRaises, SessionInv, Control, OwnInv, TypeOK, Ended,
     UpsertsDone, RecordsDone
<1>. QED  BY <1>1, <1>2, <1>3, <1>4, <1>5, <1>6, <1>7, <1>8, <1>9, <1>10, <1>11, <1>12, <1>13,
             <1>14, <1>15, <1>16, <1>17, <1>18, <1>19, <1>20, <1>21, <1>22, <1>23, <1>24, <1>25,
             <1>26, <1>27, <1>28 DEF Act, Step, Ingest, Engine, Scan

LEMMA ScanKept ==
    ASSUME TypeOK, NEW c \in Calls, Act(c), OwnInv(c)
    PROVE  ScanInv(c)'
<1>1. ASSUME NEW k \in Kinds, NEW p \in Plans, Begin(c, k, p) PROVE ScanInv(c)'
  BY <1>1, CatalogAssumption, BeginPlace DEF Begin, ScanInv, Control, OwnInv, TypeOK, Ended,
     ScanStatus
<1>2. CASE Crash(c)
  BY <1>2, CatalogAssumption, BeginPlace DEF Crash, Forget, ScanInv, Control, OwnInv, TypeOK,
     Ended, ScanStatus
<1>3. CASE AddRunRaises(c)
  BY <1>3, CatalogAssumption, BeginPlace DEF AddRunRaises, ScanInv, Control, OwnInv, TypeOK,
     Ended, ScanStatus
<1>4. ASSUME NEW f \in Feeds, Fetch(c, f) PROVE ScanInv(c)'
  BY <1>4, CatalogAssumption, BeginPlace DEF Fetch, Asks, ScanInv, Control, OwnInv, TypeOK,
     Ended, ScanStatus
<1>5. CASE FetchFails(c)
  BY <1>5, CatalogAssumption, BeginPlace DEF FetchFails, Asks, CommitFailed, Forget, ScanInv,
     Control, OwnInv, TypeOK, Ended, ScanStatus
<1>6. ASSUME NEW k \in Keys, Look(c, k) PROVE ScanInv(c)'
  BY <1>6, CatalogAssumption, BeginPlace DEF Look, ScanInv, Control, OwnInv, TypeOK, Ended,
     ScanStatus
<1>7. CASE Write(c)
  BY <1>7, CatalogAssumption, BeginPlace DEF Write, ScanInv, Control, OwnInv, TypeOK, Ended,
     ScanStatus
<1>8. CASE WriteClashes(c)
  BY <1>8, CatalogAssumption, BeginPlace DEF WriteClashes, FlushFails, Forget, ScanInv, Control,
     OwnInv, TypeOK, Ended, ScanStatus
<1>9. CASE DeadlockVictim(c)
  BY <1>9, CatalogAssumption, BeginPlace DEF DeadlockVictim, FlushFails, Forget, ScanInv,
     Control, OwnInv, TypeOK, Ended, ScanStatus
<1>10. CASE ToJobs(c)
  BY <1>10, CatalogAssumption, BeginPlace DEF ToJobs, ScanInv, Control, OwnInv, TypeOK, Ended,
     ScanStatus
<1>11. CASE TooManyJobs(c)
  BY <1>11, CatalogAssumption, BeginPlace DEF TooManyJobs, CommitFailed, Forget, ScanInv,
     Control, OwnInv, TypeOK, Ended, ScanStatus
<1>12. CASE NoJobs(c)
  BY <1>12, CatalogAssumption, BeginPlace DEF NoJobs, CommitRun, Forget, ScanInv, Control,
     OwnInv, TypeOK, Ended, ScanStatus
<1>13. CASE CommitJobs(c)
  BY <1>13, CatalogAssumption, BeginPlace DEF CommitJobs, Overtaken, ScanInv, Control, OwnInv,
     TypeOK, Ended, ScanStatus
<1>14. CASE Complete(c)
  BY <1>14, CatalogAssumption, BeginPlace DEF Complete, CommitRun, Forget, ScanInv, Control,
     OwnInv, TypeOK, Ended, ScanStatus
<1>15. CASE PagesDone(c)
  BY <1>15, CatalogAssumption, BeginPlace DEF PagesDone, ScanInv, Control, OwnInv, TypeOK,
     Ended, ScanStatus
<1>16. ASSUME NEW f \in Feeds, Hashes(c, f) PROVE ScanInv(c)'
  BY <1>16, CatalogAssumption, BeginPlace DEF Hashes, ScanInv, Control, OwnInv, TypeOK, Ended,
     ScanStatus
<1>17. ASSUME NEW k \in Keys, Upsert(c, k) PROVE ScanInv(c)'
  BY <1>17, CatalogAssumption, BeginPlace DEF Upsert, ScanInv, Control, OwnInv, TypeOK, Ended,
     ScanStatus
<1>18. ASSUME NEW k \in Keys, UpsertRefused(c, k) PROVE ScanInv(c)'
  BY <1>18, CatalogAssumption, BeginPlace DEF UpsertRefused, ScanInv, Control, OwnInv, TypeOK,
     Ended, ScanStatus
<1>19. CASE Upserted(c)
  BY <1>19, CatalogAssumption, BeginPlace DEF Upserted, ScanInv, Control, OwnInv, TypeOK, Ended,
     ScanStatus
<1>20. CASE UpsertFails(c)
  BY <1>20, CatalogAssumption, BeginPlace DEF UpsertFails, Abort, ScanInv, Control, OwnInv,
     TypeOK, Ended, ScanStatus
<1>21. CASE CommitUpserts(c)
  BY <1>21, CatalogAssumption, BeginPlace DEF CommitUpserts, Overtaken, Forget, ScanInv,
     Control, OwnInv, TypeOK, Ended, ScanStatus
<1>22. CASE CommitUpsertsRaises(c)
  BY <1>22, CatalogAssumption, BeginPlace DEF CommitUpsertsRaises, Forget, ScanInv, Control,
     OwnInv, TypeOK, Ended, ScanStatus
<1>23. CASE Audit(c)
  BY <1>23, CatalogAssumption, BeginPlace DEF Audit, ScanInv, Control, OwnInv, TypeOK, Ended,
     ScanStatus
<1>24. CASE Backfill(c)
  BY <1>24, CatalogAssumption, BeginPlace DEF Backfill, ScanInv, Control, OwnInv, TypeOK, Ended,
     ScanStatus
<1>25. CASE ScanStart(c)
  BY <1>25, CatalogAssumption, BeginPlace DEF ScanStart, ScanInv, Control, OwnInv, TypeOK,
     Ended, ScanStatus
<1>26. ASSUME NEW o \in {"done", "failed"}, Score(c, o) PROVE ScanInv(c)'
  BY <1>26, CatalogAssumption, BeginPlace DEF Score, ScanInv, Control, OwnInv, TypeOK, Ended,
     ScanStatus
<1>27. CASE ScanEnds(c)
  <2>1. /\ pc[c] = "end" /\ pc'[c] = "done" /\ kind'[c] = kind[c] /\ scans'[c] = outcome[c]
    BY <1>27 DEF ScanEnds, TypeOK
  <2>2. outcome[c] # "running"
    BY CatalogAssumption DEF TypeOK, ScanStatus
  <2>. QED  BY <2>1, <2>2 DEF OwnInv, ScanInv
<1>28. CASE ScanEndRaises(c)
  BY <1>28, CatalogAssumption, BeginPlace DEF ScanEndRaises, ScanInv, Control, OwnInv, TypeOK,
     Ended, ScanStatus
<1>. QED  BY <1>1, <1>2, <1>3, <1>4, <1>5, <1>6, <1>7, <1>8, <1>9, <1>10, <1>11, <1>12, <1>13,
             <1>14, <1>15, <1>16, <1>17, <1>18, <1>19, <1>20, <1>21, <1>22, <1>23, <1>24, <1>25,
             <1>26, <1>27, <1>28 DEF Act, Step, Ingest, Engine, Scan

LEMMA RowsKept ==
    ASSUME TypeOK, NEW c \in Calls, Act(c), OwnInv(c)
    PROVE  RowsInv(c)'
<1>1. ASSUME NEW k \in Kinds, NEW p \in Plans, Begin(c, k, p) PROVE RowsInv(c)'
  BY <1>1, PageAt, BeginPlace DEF Begin, RowsInv, Control, SessionInv, OwnInv, TypeOK, Paging,
     Ended, RecordsDone
<1>2. CASE Crash(c)
  BY <1>2, PageAt, BeginPlace DEF Crash, Forget, RowsInv, Control, SessionInv, OwnInv, TypeOK,
     Paging, Ended, RecordsDone
<1>3. CASE AddRunRaises(c)
  <2>1. PICK n \in NextProvider(c) : at' = [at EXCEPT ![c] = n]
    BY <1>3 DEF AddRunRaises
  <2>2. /\ at[c] \in Nat /\ at'[c] \in Nat /\ at[c] < at'[c] /\ at[c] \in Pages
        /\ asked[c] \subseteq Pages /\ Pages \subseteq Nat
    BY <1>3, <2>1, PageAt, CatalogAssumption DEF AddRunRaises, Control, OwnInv, Paging,
       RecordsDone, TypeOK
  <2>3. /\ pc[c] \in {"page"} /\ pc'[c] = "page" /\ session'[c] = "broken"
        /\ runs'[c] = runs[c]
        /\ asked'[c] = asked[c]
    BY <1>3, <2>2 DEF AddRunRaises, RecordsDone, TypeOK, SessionInv, OwnInv, Ended
  <2>4. RowsInv(c)
    BY DEF OwnInv
  <2>5. \A j \in Pages : runs'[c][j] # "running"
    BY <2>2, <2>3, <2>4 DEF RowsInv, TypeOK
  <2>6. ASSUME NEW j \in asked'[c]
        PROVE  /\ j \in Nat /\ j < at'[c]
               /\ session'[c] \in {"usable", "aborted"} => runs'[c][j] \in {"completed", "failed"}
    <3>1. j \in Pages /\ j \in Nat /\ runs[c] \in [Pages -> Status \cup {None}]
      BY <2>2, <2>3, <2>6 DEF TypeOK
    <3>2. CASE j = at[c]
      BY <2>2, <2>3, <2>4, <2>6, <3>1, <3>2 DEF RowsInv, Paging
    <3>3. CASE j # at[c]
      BY <2>2, <2>3, <2>4, <2>6, <3>1, <3>3 DEF RowsInv
    <3>. QED  BY <3>2, <3>3
  <2>7. \A j \in asked'[c] : j <= at'[c] /\ j # at'[c]
    BY <2>2, <2>6
  <2>. QED  BY <2>5, <2>6, <2>7 DEF RowsInv
<1>4. ASSUME NEW f \in Feeds, Fetch(c, f) PROVE RowsInv(c)'
  BY <1>4, PageAt, BeginPlace DEF Fetch, Asks, RowsInv, Control, SessionInv, OwnInv, TypeOK,
     Paging, Ended, RecordsDone
<1>5. CASE FetchFails(c)
  <2>1. PICK n \in NextProvider(c) : at' = [at EXCEPT ![c] = n]
    BY <1>5 DEF FetchFails, Asks, CommitFailed, Forget
  <2>2. /\ at[c] \in Nat /\ at'[c] \in Nat /\ at[c] < at'[c] /\ at[c] \in Pages
        /\ asked[c] \subseteq Pages /\ Pages \subseteq Nat
    BY <1>5, <2>1, PageAt, CatalogAssumption DEF FetchFails, Asks, CommitFailed, Forget,
       Control, OwnInv, Paging, RecordsDone, TypeOK
  <2>3. /\ pc[c] \in {"page"} /\ pc'[c] = "page" /\ session'[c] = session[c]
        /\ runs'[c] = [runs[c] EXCEPT ![at[c]] = "failed"]
        /\ asked'[c] = asked[c] \cup {at[c]}
    BY <1>5, <2>2 DEF FetchFails, Asks, CommitFailed, Forget, RecordsDone, TypeOK, SessionInv,
       OwnInv, Ended
  <2>4. RowsInv(c)
    BY DEF OwnInv
  <2>5. \A j \in Pages : runs'[c][j] # "running"
    BY <2>2, <2>3, <2>4 DEF RowsInv, TypeOK
  <2>6. ASSUME NEW j \in asked'[c]
        PROVE  /\ j \in Nat /\ j < at'[c]
               /\ session'[c] \in {"usable", "aborted"} => runs'[c][j] \in {"completed", "failed"}
    <3>1. j \in Pages /\ j \in Nat /\ runs[c] \in [Pages -> Status \cup {None}]
      BY <2>2, <2>3, <2>6 DEF TypeOK
    <3>2. CASE j = at[c]
      BY <2>2, <2>3, <2>4, <2>6, <3>1, <3>2 DEF RowsInv, Paging
    <3>3. CASE j # at[c]
      BY <2>2, <2>3, <2>4, <2>6, <3>1, <3>3 DEF RowsInv
    <3>. QED  BY <3>2, <3>3
  <2>7. \A j \in asked'[c] : j <= at'[c] /\ j # at'[c]
    BY <2>2, <2>6
  <2>. QED  BY <2>5, <2>6, <2>7 DEF RowsInv
<1>6. ASSUME NEW k \in Keys, Look(c, k) PROVE RowsInv(c)'
  BY <1>6, PageAt, BeginPlace DEF Look, RowsInv, Control, SessionInv, OwnInv, TypeOK, Paging,
     Ended, RecordsDone
<1>7. CASE Write(c)
  BY <1>7, PageAt, BeginPlace DEF Write, RowsInv, Control, SessionInv, OwnInv, TypeOK, Paging,
     Ended, RecordsDone
<1>8. CASE WriteClashes(c)
  <2>1. PICK n \in NextProvider(c) : at' = [at EXCEPT ![c] = n]
    BY <1>8 DEF WriteClashes, FlushFails, Forget
  <2>2. /\ at[c] \in Nat /\ at'[c] \in Nat /\ at[c] < at'[c] /\ at[c] \in Pages
        /\ asked[c] \subseteq Pages /\ Pages \subseteq Nat
    BY <1>8, <2>1, PageAt, CatalogAssumption DEF WriteClashes, FlushFails, Forget, Control,
       OwnInv, Paging, RecordsDone, TypeOK
  <2>3. /\ pc[c] \in {"records", "jobs"} /\ pc'[c] = "page" /\ session'[c] = "broken"
        /\ runs'[c] = runs[c]
        /\ asked'[c] = asked[c]
    BY <1>8, <2>2 DEF WriteClashes, FlushFails, Forget, RecordsDone, TypeOK, SessionInv, OwnInv,
       Ended
  <2>4. RowsInv(c)
    BY DEF OwnInv
  <2>5. \A j \in Pages : runs'[c][j] # "running"
    BY <2>2, <2>3, <2>4 DEF RowsInv, TypeOK
  <2>6. ASSUME NEW j \in asked'[c]
        PROVE  /\ j \in Nat /\ j < at'[c]
               /\ session'[c] \in {"usable", "aborted"} => runs'[c][j] \in {"completed", "failed"}
    <3>1. j \in Pages /\ j \in Nat /\ runs[c] \in [Pages -> Status \cup {None}]
      BY <2>2, <2>3, <2>6 DEF TypeOK
    <3>2. CASE j = at[c]
      BY <2>2, <2>3, <2>4, <2>6, <3>1, <3>2 DEF RowsInv, Paging
    <3>3. CASE j # at[c]
      BY <2>2, <2>3, <2>4, <2>6, <3>1, <3>3 DEF RowsInv
    <3>. QED  BY <3>2, <3>3
  <2>7. \A j \in asked'[c] : j <= at'[c] /\ j # at'[c]
    BY <2>2, <2>6
  <2>. QED  BY <2>5, <2>6, <2>7 DEF RowsInv
<1>9. CASE DeadlockVictim(c)
  <2>1. PICK n \in NextProvider(c) : at' = [at EXCEPT ![c] = n]
    BY <1>9 DEF DeadlockVictim, FlushFails, Forget
  <2>2. /\ at[c] \in Nat /\ at'[c] \in Nat /\ at[c] < at'[c] /\ at[c] \in Pages
        /\ asked[c] \subseteq Pages /\ Pages \subseteq Nat
    BY <1>9, <2>1, PageAt, CatalogAssumption DEF DeadlockVictim, FlushFails, Forget, Control,
       OwnInv, Paging, RecordsDone, TypeOK
  <2>3. /\ pc[c] \in {"records", "jobs"} /\ pc'[c] = "page" /\ session'[c] = "broken"
        /\ runs'[c] = runs[c]
        /\ asked'[c] = asked[c]
    BY <1>9, <2>2 DEF DeadlockVictim, FlushFails, Forget, RecordsDone, TypeOK, SessionInv,
       OwnInv, Ended
  <2>4. RowsInv(c)
    BY DEF OwnInv
  <2>5. \A j \in Pages : runs'[c][j] # "running"
    BY <2>2, <2>3, <2>4 DEF RowsInv, TypeOK
  <2>6. ASSUME NEW j \in asked'[c]
        PROVE  /\ j \in Nat /\ j < at'[c]
               /\ session'[c] \in {"usable", "aborted"} => runs'[c][j] \in {"completed", "failed"}
    <3>1. j \in Pages /\ j \in Nat /\ runs[c] \in [Pages -> Status \cup {None}]
      BY <2>2, <2>3, <2>6 DEF TypeOK
    <3>2. CASE j = at[c]
      BY <2>2, <2>3, <2>4, <2>6, <3>1, <3>2 DEF RowsInv, Paging
    <3>3. CASE j # at[c]
      BY <2>2, <2>3, <2>4, <2>6, <3>1, <3>3 DEF RowsInv
    <3>. QED  BY <3>2, <3>3
  <2>7. \A j \in asked'[c] : j <= at'[c] /\ j # at'[c]
    BY <2>2, <2>6
  <2>. QED  BY <2>5, <2>6, <2>7 DEF RowsInv
<1>10. CASE ToJobs(c)
  BY <1>10, PageAt, BeginPlace DEF ToJobs, RowsInv, Control, SessionInv, OwnInv, TypeOK, Paging,
     Ended, RecordsDone
<1>11. CASE TooManyJobs(c)
  <2>1. PICK n \in NextProvider(c) : at' = [at EXCEPT ![c] = n]
    BY <1>11 DEF TooManyJobs, CommitFailed, Forget
  <2>2. /\ at[c] \in Nat /\ at'[c] \in Nat /\ at[c] < at'[c] /\ at[c] \in Pages
        /\ asked[c] \subseteq Pages /\ Pages \subseteq Nat
    BY <1>11, <2>1, PageAt, CatalogAssumption DEF TooManyJobs, CommitFailed, Forget, Control,
       OwnInv, Paging, RecordsDone, TypeOK
  <2>3. /\ pc[c] \in {"records"} /\ pc'[c] = "page" /\ session'[c] = session[c]
        /\ runs'[c] = [runs[c] EXCEPT ![at[c]] = "failed"]
        /\ asked'[c] = asked[c]
    BY <1>11, <2>2 DEF TooManyJobs, CommitFailed, Forget, RecordsDone, TypeOK, SessionInv,
       OwnInv, Ended
  <2>4. RowsInv(c)
    BY DEF OwnInv
  <2>5. \A j \in Pages : runs'[c][j] # "running"
    BY <2>2, <2>3, <2>4 DEF RowsInv, TypeOK
  <2>6. ASSUME NEW j \in asked'[c]
        PROVE  /\ j \in Nat /\ j < at'[c]
               /\ session'[c] \in {"usable", "aborted"} => runs'[c][j] \in {"completed", "failed"}
    <3>1. j \in Pages /\ j \in Nat /\ runs[c] \in [Pages -> Status \cup {None}]
      BY <2>2, <2>3, <2>6 DEF TypeOK
    <3>2. CASE j = at[c]
      BY <2>2, <2>3, <2>4, <2>6, <3>1, <3>2 DEF RowsInv, Paging
    <3>3. CASE j # at[c]
      BY <2>2, <2>3, <2>4, <2>6, <3>1, <3>3 DEF RowsInv
    <3>. QED  BY <3>2, <3>3
  <2>7. \A j \in asked'[c] : j <= at'[c] /\ j # at'[c]
    BY <2>2, <2>6
  <2>. QED  BY <2>5, <2>6, <2>7 DEF RowsInv
<1>12. CASE NoJobs(c)
  <2>2. /\ at[c] \in Nat /\ at'[c] \in Nat /\ at'[c] = at[c] + 1 /\ at[c] \in Pages
        /\ asked[c] \subseteq Pages /\ Pages \subseteq Nat
    BY <1>12, PageAt, CatalogAssumption DEF NoJobs, CommitRun, Forget, Control, OwnInv, Paging,
       RecordsDone, TypeOK
  <2>3. /\ pc[c] = "records" /\ pc'[c] = "page" /\ session'[c] = session[c]
        /\ runs'[c] = [runs[c] EXCEPT ![at[c]] = "completed"]
        /\ asked'[c] = asked[c]
    BY <1>12, <2>2 DEF NoJobs, CommitRun, Forget, RecordsDone, TypeOK
  <2>4. RowsInv(c)
    BY DEF OwnInv
  <2>5. \A j \in Pages : runs'[c][j] # "running"
    BY <2>2, <2>3, <2>4 DEF RowsInv, TypeOK
  <2>6. ASSUME NEW j \in asked'[c]
        PROVE  /\ j \in Nat /\ j < at'[c]
               /\ session'[c] \in {"usable", "aborted"} => runs'[c][j] \in {"completed", "failed"}
    <3>1. j \in Pages /\ j \in Nat /\ runs[c] \in [Pages -> Status \cup {None}]
      BY <2>2, <2>3, <2>6 DEF TypeOK
    <3>2. CASE j = at[c]
      BY <2>2, <2>3, <2>4, <2>6, <3>1, <3>2 DEF RowsInv, Paging
    <3>3. CASE j # at[c]
      BY <2>2, <2>3, <2>4, <2>6, <3>1, <3>3 DEF RowsInv
    <3>. QED  BY <3>2, <3>3
  <2>7. \A j \in asked'[c] : j <= at'[c] /\ j # at'[c]
    BY <2>2, <2>6
  <2>. QED  BY <2>5, <2>6, <2>7 DEF RowsInv
<1>13. CASE CommitJobs(c)
  BY <1>13, PageAt, BeginPlace DEF CommitJobs, Overtaken, RowsInv, Control, SessionInv, OwnInv,
     TypeOK, Paging, Ended, RecordsDone
<1>14. CASE Complete(c)
  <2>2. /\ at[c] \in Nat /\ at'[c] \in Nat /\ at'[c] = at[c] + 1 /\ at[c] \in Pages
        /\ asked[c] \subseteq Pages /\ Pages \subseteq Nat
    BY <1>14, PageAt, CatalogAssumption DEF Complete, CommitRun, Forget, Control, OwnInv,
       Paging, RecordsDone, TypeOK
  <2>3. /\ pc[c] = "complete" /\ pc'[c] = "page" /\ session'[c] = session[c]
        /\ runs'[c] = [runs[c] EXCEPT ![at[c]] = "completed"]
        /\ asked'[c] = asked[c]
    BY <1>14, <2>2 DEF Complete, CommitRun, Forget, RecordsDone, TypeOK
  <2>4. RowsInv(c)
    BY DEF OwnInv
  <2>5. \A j \in Pages : runs'[c][j] # "running"
    BY <2>2, <2>3, <2>4 DEF RowsInv, TypeOK
  <2>6. ASSUME NEW j \in asked'[c]
        PROVE  /\ j \in Nat /\ j < at'[c]
               /\ session'[c] \in {"usable", "aborted"} => runs'[c][j] \in {"completed", "failed"}
    <3>1. j \in Pages /\ j \in Nat /\ runs[c] \in [Pages -> Status \cup {None}]
      BY <2>2, <2>3, <2>6 DEF TypeOK
    <3>2. CASE j = at[c]
      BY <2>2, <2>3, <2>4, <2>6, <3>1, <3>2 DEF RowsInv, Paging
    <3>3. CASE j # at[c]
      BY <2>2, <2>3, <2>4, <2>6, <3>1, <3>3 DEF RowsInv
    <3>. QED  BY <3>2, <3>3
  <2>7. \A j \in asked'[c] : j <= at'[c] /\ j # at'[c]
    BY <2>2, <2>6
  <2>. QED  BY <2>5, <2>6, <2>7 DEF RowsInv
<1>15. CASE PagesDone(c)
  BY <1>15, PageAt, BeginPlace DEF PagesDone, RowsInv, Control, SessionInv, OwnInv, TypeOK,
     Paging, Ended, RecordsDone
<1>16. ASSUME NEW f \in Feeds, Hashes(c, f) PROVE RowsInv(c)'
  BY <1>16, PageAt, BeginPlace DEF Hashes, RowsInv, Control, SessionInv, OwnInv, TypeOK, Paging,
     Ended, RecordsDone
<1>17. ASSUME NEW k \in Keys, Upsert(c, k) PROVE RowsInv(c)'
  BY <1>17, PageAt, BeginPlace DEF Upsert, RowsInv, Control, SessionInv, OwnInv, TypeOK, Paging,
     Ended, RecordsDone
<1>18. ASSUME NEW k \in Keys, UpsertRefused(c, k) PROVE RowsInv(c)'
  BY <1>18, PageAt, BeginPlace DEF UpsertRefused, RowsInv, Control, SessionInv, OwnInv, TypeOK,
     Paging, Ended, RecordsDone
<1>19. CASE Upserted(c)
  BY <1>19, PageAt, BeginPlace DEF Upserted, RowsInv, Control, SessionInv, OwnInv, TypeOK,
     Paging, Ended, RecordsDone
<1>20. CASE UpsertFails(c)
  BY <1>20, PageAt, BeginPlace DEF UpsertFails, Abort, RowsInv, Control, SessionInv, OwnInv,
     TypeOK, Paging, Ended, RecordsDone
<1>21. CASE CommitUpserts(c)
  <2>1. /\ runs'[c] = runs[c] /\ asked'[c] = asked[c] /\ at'[c] = at[c]
        /\ pc[c] = "upserts" /\ pc'[c] \in {"audit", "backfill"}
        /\ session'[c] \in {"usable", "aborted"} => session[c] \in {"usable", "aborted"}
    BY <1>21 DEF CommitUpserts, Forget, UpsertsDone, TypeOK, SessionInv, OwnInv, Ended
  <2>2. RowsInv(c)
    BY DEF OwnInv
  <2>. QED  BY <2>1, <2>2 DEF RowsInv, Paging
<1>22. CASE CommitUpsertsRaises(c)
  <2>1. /\ runs'[c] = runs[c] /\ asked'[c] = asked[c] /\ at'[c] = at[c]
        /\ pc[c] = "upserts" /\ pc'[c] \in {"audit", "backfill"}
        /\ session'[c] \in {"usable", "aborted"} => session[c] \in {"usable", "aborted"}
    BY <1>22 DEF CommitUpsertsRaises, Forget, UpsertsDone, TypeOK, SessionInv, OwnInv, Ended
  <2>2. RowsInv(c)
    BY DEF OwnInv
  <2>. QED  BY <2>1, <2>2 DEF RowsInv, Paging
<1>23. CASE Audit(c)
  BY <1>23, PageAt, BeginPlace DEF Audit, RowsInv, Control, SessionInv, OwnInv, TypeOK, Paging,
     Ended, RecordsDone
<1>24. CASE Backfill(c)
  BY <1>24, PageAt, BeginPlace DEF Backfill, RowsInv, Control, SessionInv, OwnInv, TypeOK,
     Paging, Ended, RecordsDone
<1>25. CASE ScanStart(c)
  BY <1>25, PageAt, BeginPlace DEF ScanStart, RowsInv, Control, SessionInv, OwnInv, TypeOK,
     Paging, Ended, RecordsDone
<1>26. ASSUME NEW o \in {"done", "failed"}, Score(c, o) PROVE RowsInv(c)'
  BY <1>26, PageAt, BeginPlace DEF Score, RowsInv, Control, SessionInv, OwnInv, TypeOK, Paging,
     Ended, RecordsDone
<1>27. CASE ScanEnds(c)
  BY <1>27, PageAt, BeginPlace DEF ScanEnds, RowsInv, Control, SessionInv, OwnInv, TypeOK,
     Paging, Ended, RecordsDone
<1>28. CASE ScanEndRaises(c)
  BY <1>28, PageAt, BeginPlace DEF ScanEndRaises, RowsInv, Control, SessionInv, OwnInv, TypeOK,
     Paging, Ended, RecordsDone
<1>. QED  BY <1>1, <1>2, <1>3, <1>4, <1>5, <1>6, <1>7, <1>8, <1>9, <1>10, <1>11, <1>12, <1>13,
             <1>14, <1>15, <1>16, <1>17, <1>18, <1>19, <1>20, <1>21, <1>22, <1>23, <1>24, <1>25,
             <1>26, <1>27, <1>28 DEF Act, Step, Ingest, Engine, Scan

LEMMA OwnKept ==
    ASSUME TypeOK, NEW c \in Calls, Act(c), OwnInv(c)
    PROVE  OwnInv(c)'
  BY ControlKept, SessionKept, ScanKept, RowsKept DEF OwnInv

-----------------------------------------------------------------------------
(* A step and what the calls have to do with the tables.                    *)

\* The catalog and its history only grow, and an overlap is never forgotten.
Grown(c) ==
    /\ listed \subseteq listed'
    /\ \A k \in Keys : catalog[k] # None => catalog'[k] # None
    /\ \A k \in Keys : records'[k] = records[k] \/ records'[k].by = c
    /\ \A d \in Calls \ {c} :
          /\ overtaken[d] => overtaken'[d]
          /\ catalog' = catalog \/ (pc[d] \in Unlisted => overtaken'[d])

LEMMA Growth ==
    ASSUME TypeOK, NEW c \in Calls, Act(c), OwnInv(c)
    PROVE  Grown(c)
<1>1. ASSUME NEW k \in Kinds, NEW p \in Plans, Begin(c, k, p) PROVE Grown(c)
  BY <1>1 DEF Begin, Grown, TypeOK, In, Recorded, Control, OwnInv, Unlisted, UpsertsDone
<1>2. CASE Crash(c)
  BY <1>2 DEF Crash, Forget, Grown, TypeOK, In, Recorded, Control, OwnInv, Unlisted, UpsertsDone
<1>3. CASE AddRunRaises(c)
  BY <1>3 DEF AddRunRaises, Grown, TypeOK, In, Recorded, Control, OwnInv, Unlisted, UpsertsDone
<1>4. ASSUME NEW f \in Feeds, Fetch(c, f) PROVE Grown(c)
  BY <1>4 DEF Fetch, Asks, Grown, TypeOK, In, Recorded, Control, OwnInv, Unlisted, UpsertsDone
<1>5. CASE FetchFails(c)
  BY <1>5 DEF FetchFails, Asks, CommitFailed, Forget, Grown, TypeOK, In, Recorded, Control,
     OwnInv, Unlisted, UpsertsDone
<1>6. ASSUME NEW k \in Keys, Look(c, k) PROVE Grown(c)
  BY <1>6 DEF Look, Grown, TypeOK, In, Recorded, Control, OwnInv, Unlisted, UpsertsDone
<1>7. CASE Write(c)
  BY <1>7 DEF Write, Grown, TypeOK, In, Recorded, Control, OwnInv, Unlisted, UpsertsDone
<1>8. CASE WriteClashes(c)
  BY <1>8 DEF WriteClashes, FlushFails, Forget, Grown, TypeOK, In, Recorded, Control, OwnInv,
     Unlisted, UpsertsDone
<1>9. CASE DeadlockVictim(c)
  BY <1>9 DEF DeadlockVictim, FlushFails, Forget, Grown, TypeOK, In, Recorded, Control, OwnInv,
     Unlisted, UpsertsDone
<1>10. CASE ToJobs(c)
  BY <1>10 DEF ToJobs, Grown, TypeOK, In, Recorded, Control, OwnInv, Unlisted, UpsertsDone
<1>11. CASE TooManyJobs(c)
  BY <1>11 DEF TooManyJobs, CommitFailed, Forget, Grown, TypeOK, In, Recorded, Control, OwnInv,
     Unlisted, UpsertsDone
<1>12. CASE NoJobs(c)
  BY <1>12 DEF NoJobs, CommitRun, Forget, Grown, TypeOK, In, Recorded, Control, OwnInv,
     Unlisted, UpsertsDone
<1>13. CASE CommitJobs(c)
  BY <1>13 DEF CommitJobs, Overtaken, Grown, TypeOK, In, Recorded, Control, OwnInv, Unlisted,
     UpsertsDone
<1>14. CASE Complete(c)
  BY <1>14 DEF Complete, CommitRun, Forget, Grown, TypeOK, In, Recorded, Control, OwnInv,
     Unlisted, UpsertsDone
<1>15. CASE PagesDone(c)
  BY <1>15 DEF PagesDone, Grown, TypeOK, In, Recorded, Control, OwnInv, Unlisted, UpsertsDone
<1>16. ASSUME NEW f \in Feeds, Hashes(c, f) PROVE Grown(c)
  BY <1>16 DEF Hashes, Grown, TypeOK, In, Recorded, Control, OwnInv, Unlisted, UpsertsDone
<1>17. ASSUME NEW k \in Keys, Upsert(c, k) PROVE Grown(c)
  BY <1>17 DEF Upsert, Grown, TypeOK, In, Recorded, Control, OwnInv, Unlisted, UpsertsDone
<1>18. ASSUME NEW k \in Keys, UpsertRefused(c, k) PROVE Grown(c)
  BY <1>18 DEF UpsertRefused, Grown, TypeOK, In, Recorded, Control, OwnInv, Unlisted, UpsertsDone
<1>19. CASE Upserted(c)
  BY <1>19 DEF Upserted, Grown, TypeOK, In, Recorded, Control, OwnInv, Unlisted, UpsertsDone
<1>20. CASE UpsertFails(c)
  BY <1>20 DEF UpsertFails, Abort, Grown, TypeOK, In, Recorded, Control, OwnInv, Unlisted,
     UpsertsDone
<1>21. CASE CommitUpserts(c)
  BY <1>21 DEF CommitUpserts, Overtaken, Forget, Grown, TypeOK, In, Recorded, Control, OwnInv,
     Unlisted, UpsertsDone
<1>22. CASE CommitUpsertsRaises(c)
  BY <1>22 DEF CommitUpsertsRaises, Forget, Grown, TypeOK, In, Recorded, Control, OwnInv,
     Unlisted, UpsertsDone
<1>23. CASE Audit(c)
  BY <1>23 DEF Audit, Grown, TypeOK, In, Recorded, Control, OwnInv, Unlisted, UpsertsDone
<1>24. CASE Backfill(c)
  BY <1>24 DEF Backfill, Grown, TypeOK, In, Recorded, Control, OwnInv, Unlisted, UpsertsDone
<1>25. CASE ScanStart(c)
  BY <1>25 DEF ScanStart, Grown, TypeOK, In, Recorded, Control, OwnInv, Unlisted, UpsertsDone
<1>26. ASSUME NEW o \in {"done", "failed"}, Score(c, o) PROVE Grown(c)
  BY <1>26 DEF Score, Grown, TypeOK, In, Recorded, Control, OwnInv, Unlisted, UpsertsDone
<1>27. CASE ScanEnds(c)
  BY <1>27 DEF ScanEnds, Grown, TypeOK, In, Recorded, Control, OwnInv, Unlisted, UpsertsDone
<1>28. CASE ScanEndRaises(c)
  BY <1>28 DEF ScanEndRaises, Grown, TypeOK, In, Recorded, Control, OwnInv, Unlisted, UpsertsDone
<1>. QED  BY <1>1, <1>2, <1>3, <1>4, <1>5, <1>6, <1>7, <1>8, <1>9, <1>10, <1>11, <1>12, <1>13,
             <1>14, <1>15, <1>16, <1>17, <1>18, <1>19, <1>20, <1>21, <1>22, <1>23, <1>24, <1>25,
             <1>26, <1>27, <1>28 DEF Act, Step, Ingest, Engine, Scan

LEMMA SameShared ==
    ASSUME NEW c \in Calls, Grown(c), NEW d \in Calls, d # c, Same(d), SharedInv(d)
    PROVE  SharedInv(d)'
<1>1. PageInv(d)'
  BY DEF Same, Grown, SharedInv, PageInv, Unfound, Unlisted, In
<1>2. RecordInv(d)'
  BY DEF Same, Grown, SharedInv, RecordInv, RecordOk
<1>3. AuditInv(d)'
  BY DEF Same, Grown, SharedInv, AuditInv, In
<1>. QED  BY <1>1, <1>2, <1>3 DEF SharedInv

LEMMA AuditKept ==
    ASSUME TypeOK, CatalogInv, NEW c \in Calls, Act(c), OwnInv(c), SharedInv(c)
    PROVE  AuditInv(c)'
<1>1. ASSUME NEW k \in Kinds, NEW p \in Plans, Begin(c, k, p) PROVE AuditInv(c)'
  BY <1>1, CatalogAssumption, BeginPlace DEF Begin, AuditInv, SharedInv, Control, SessionInv,
     OwnInv, TypeOK, Ended, UpsertsDone, RecordsDone, In
<1>2. CASE Crash(c)
  BY <1>2, CatalogAssumption, BeginPlace DEF Crash, Forget, AuditInv, SharedInv, Control,
     SessionInv, OwnInv, TypeOK, Ended, UpsertsDone, RecordsDone, In
<1>3. CASE AddRunRaises(c)
  BY <1>3, CatalogAssumption, BeginPlace DEF AddRunRaises, AuditInv, SharedInv, Control,
     SessionInv, OwnInv, TypeOK, Ended, UpsertsDone, RecordsDone, In
<1>4. ASSUME NEW f \in Feeds, Fetch(c, f) PROVE AuditInv(c)'
  BY <1>4, CatalogAssumption, BeginPlace DEF Fetch, Asks, AuditInv, SharedInv, Control,
     SessionInv, OwnInv, TypeOK, Ended, UpsertsDone, RecordsDone, In
<1>5. CASE FetchFails(c)
  BY <1>5, CatalogAssumption, BeginPlace DEF FetchFails, Asks, CommitFailed, Forget, AuditInv,
     SharedInv, Control, SessionInv, OwnInv, TypeOK, Ended, UpsertsDone, RecordsDone, In
<1>6. ASSUME NEW k \in Keys, Look(c, k) PROVE AuditInv(c)'
  BY <1>6, CatalogAssumption, BeginPlace DEF Look, AuditInv, SharedInv, Control, SessionInv,
     OwnInv, TypeOK, Ended, UpsertsDone, RecordsDone, In
<1>7. CASE Write(c)
  BY <1>7, CatalogAssumption, BeginPlace DEF Write, AuditInv, SharedInv, Control, SessionInv,
     OwnInv, TypeOK, Ended, UpsertsDone, RecordsDone, In
<1>8. CASE WriteClashes(c)
  BY <1>8, CatalogAssumption, BeginPlace DEF WriteClashes, FlushFails, Forget, AuditInv,
     SharedInv, Control, SessionInv, OwnInv, TypeOK, Ended, UpsertsDone, RecordsDone, In
<1>9. CASE DeadlockVictim(c)
  BY <1>9, CatalogAssumption, BeginPlace DEF DeadlockVictim, FlushFails, Forget, AuditInv,
     SharedInv, Control, SessionInv, OwnInv, TypeOK, Ended, UpsertsDone, RecordsDone, In
<1>10. CASE ToJobs(c)
  BY <1>10, CatalogAssumption, BeginPlace DEF ToJobs, AuditInv, SharedInv, Control, SessionInv,
     OwnInv, TypeOK, Ended, UpsertsDone, RecordsDone, In
<1>11. CASE TooManyJobs(c)
  BY <1>11, CatalogAssumption, BeginPlace DEF TooManyJobs, CommitFailed, Forget, AuditInv,
     SharedInv, Control, SessionInv, OwnInv, TypeOK, Ended, UpsertsDone, RecordsDone, In
<1>12. CASE NoJobs(c)
  BY <1>12, CatalogAssumption, BeginPlace DEF NoJobs, CommitRun, Forget, AuditInv, SharedInv,
     Control, SessionInv, OwnInv, TypeOK, Ended, UpsertsDone, RecordsDone, In
<1>13. CASE CommitJobs(c)
  BY <1>13, CatalogAssumption, BeginPlace DEF CommitJobs, Overtaken, AuditInv, SharedInv,
     Control, SessionInv, OwnInv, TypeOK, Ended, UpsertsDone, RecordsDone, In
<1>14. CASE Complete(c)
  BY <1>14, CatalogAssumption, BeginPlace DEF Complete, CommitRun, Forget, AuditInv, SharedInv,
     Control, SessionInv, OwnInv, TypeOK, Ended, UpsertsDone, RecordsDone, In
<1>15. CASE PagesDone(c)
  BY <1>15, CatalogAssumption, BeginPlace DEF PagesDone, AuditInv, SharedInv, Control,
     SessionInv, OwnInv, TypeOK, Ended, UpsertsDone, RecordsDone, In
<1>16. ASSUME NEW f \in Feeds, Hashes(c, f) PROVE AuditInv(c)'
  BY <1>16, CatalogAssumption, BeginPlace DEF Hashes, AuditInv, SharedInv, Control, SessionInv,
     OwnInv, TypeOK, Ended, UpsertsDone, RecordsDone, In
<1>17. ASSUME NEW k \in Keys, Upsert(c, k) PROVE AuditInv(c)'
  BY <1>17, CatalogAssumption, BeginPlace DEF Upsert, AuditInv, SharedInv, Control, SessionInv,
     OwnInv, TypeOK, Ended, UpsertsDone, RecordsDone, In
<1>18. ASSUME NEW k \in Keys, UpsertRefused(c, k) PROVE AuditInv(c)'
  BY <1>18, CatalogAssumption, BeginPlace DEF UpsertRefused, AuditInv, SharedInv, Control,
     SessionInv, OwnInv, TypeOK, Ended, UpsertsDone, RecordsDone, In
<1>19. CASE Upserted(c)
  BY <1>19, CatalogAssumption, BeginPlace DEF Upserted, AuditInv, SharedInv, Control,
     SessionInv, OwnInv, TypeOK, Ended, UpsertsDone, RecordsDone, In
<1>20. CASE UpsertFails(c)
  BY <1>20, CatalogAssumption, BeginPlace DEF UpsertFails, Abort, AuditInv, SharedInv, Control,
     SessionInv, OwnInv, TypeOK, Ended, UpsertsDone, RecordsDone, In
<1>21. CASE CommitUpserts(c)
  BY <1>21, CatalogAssumption, BeginPlace DEF CommitUpserts, Overtaken, Forget, AuditInv,
     SharedInv, Control, SessionInv, OwnInv, TypeOK, Ended, UpsertsDone, RecordsDone, In
<1>22. CASE CommitUpsertsRaises(c)
  BY <1>22, CatalogAssumption, BeginPlace DEF CommitUpsertsRaises, Forget, AuditInv, SharedInv,
     Control, SessionInv, OwnInv, TypeOK, Ended, UpsertsDone, RecordsDone, In
<1>23. CASE Audit(c)
  BY <1>23, CatalogAssumption, BeginPlace DEF Audit, AuditInv, SharedInv, Control, SessionInv,
     OwnInv, TypeOK, Ended, UpsertsDone, RecordsDone, In
<1>24. CASE Backfill(c)
  BY <1>24, CatalogAssumption, BeginPlace DEF Backfill, AuditInv, SharedInv, Control,
     SessionInv, OwnInv, TypeOK, Ended, UpsertsDone, RecordsDone, In
<1>25. CASE ScanStart(c)
  BY <1>25, CatalogAssumption, BeginPlace DEF ScanStart, AuditInv, SharedInv, Control,
     SessionInv, OwnInv, TypeOK, Ended, UpsertsDone, RecordsDone, In
<1>26. ASSUME NEW o \in {"done", "failed"}, Score(c, o) PROVE AuditInv(c)'
  BY <1>26, CatalogAssumption, BeginPlace DEF Score, AuditInv, SharedInv, Control, SessionInv,
     OwnInv, TypeOK, Ended, UpsertsDone, RecordsDone, In
<1>27. CASE ScanEnds(c)
  BY <1>27, CatalogAssumption, BeginPlace DEF ScanEnds, AuditInv, SharedInv, Control,
     SessionInv, OwnInv, TypeOK, Ended, UpsertsDone, RecordsDone, In
<1>28. CASE ScanEndRaises(c)
  BY <1>28, CatalogAssumption, BeginPlace DEF ScanEndRaises, AuditInv, SharedInv, Control,
     SessionInv, OwnInv, TypeOK, Ended, UpsertsDone, RecordsDone, In
<1>. QED  BY <1>1, <1>2, <1>3, <1>4, <1>5, <1>6, <1>7, <1>8, <1>9, <1>10, <1>11, <1>12, <1>13,
             <1>14, <1>15, <1>16, <1>17, <1>18, <1>19, <1>20, <1>21, <1>22, <1>23, <1>24, <1>25,
             <1>26, <1>27, <1>28 DEF Act, Step, Ingest, Engine, Scan

LEMMA PageKept ==
    ASSUME TypeOK, CatalogInv, NEW c \in Calls, Act(c), OwnInv(c), SharedInv(c)
    PROVE  PageInv(c)'
<1>1. ASSUME NEW k \in Kinds, NEW p \in Plans, Begin(c, k, p) PROVE PageInv(c)'
  BY <1>1, BeginPlace DEF Begin, PageInv, Unfound, SharedInv, Control, OwnInv, TypeOK, Unlisted,
     Paging, Ended, UpsertsDone, RecordsDone, In
<1>2. CASE Crash(c)
  BY <1>2, BeginPlace DEF Crash, Forget, PageInv, Unfound, SharedInv, Control, OwnInv, TypeOK,
     Unlisted, Paging, Ended, UpsertsDone, RecordsDone, In
<1>3. CASE AddRunRaises(c)
  BY <1>3, BeginPlace DEF AddRunRaises, PageInv, Unfound, SharedInv, Control, OwnInv, TypeOK,
     Unlisted, Paging, Ended, UpsertsDone, RecordsDone, In
<1>4. ASSUME NEW f \in Feeds, Fetch(c, f) PROVE PageInv(c)'
  <2>1. PICK S \in Picks(f) : kept' = [kept EXCEPT ![c] = S]
    BY <1>4 DEF Fetch
  <2>2. /\ feed'[c] = f /\ kept'[c] = S /\ pc'[c] = "records" /\ catalog' = catalog /\ listed' = listed
    BY <1>4, <2>1 DEF Fetch, Asks, TypeOK
  <2>3. /\ S \subseteq Fresh(f) /\ S \subseteq Keys /\ S \subseteq In(f)
        /\ \A j, k \in S : Fp[f[j]] = Fp[f[k]] => j = k
        /\ \A k \in Fresh(f) : \E j \in S : Fp[f[j]] = Fp[f[k]]
    BY PicksType DEF Picks
  <2>4. \A k \in S : Unfound(f[k])
    BY <2>3 DEF Fresh, Unfound
  <2>5. ASSUME NEW k \in In(f)
        PROVE  Fp[f[k]] \in listed \/ \E j \in S : Fp[f[j]] = Fp[f[k]]
    <3>1. CASE k \in Fresh(f)
      BY <2>3, <3>1
    <3>2. CASE k \notin Fresh(f)
      <4>1. PICK j \in Keys : catalog[j] \in Plain /\ Fp[catalog[j]] = Fp[f[k]]
        BY <3>2 DEF Fresh
      <4>. QED  BY <4>1, CatalogAssumption DEF CatalogInv, Known
    <3>. QED  BY <3>1, <3>2
  <2>. QED  BY <2>2, <2>3, <2>4, <2>5 DEF PageInv, Unfound, Unlisted
<1>5. CASE FetchFails(c)
  BY <1>5, BeginPlace DEF FetchFails, Asks, CommitFailed, Forget, PageInv, Unfound, SharedInv,
     Control, OwnInv, TypeOK, Unlisted, Paging, Ended, UpsertsDone, RecordsDone, In
<1>6. ASSUME NEW k \in Keys, Look(c, k) PROVE PageInv(c)'
  BY <1>6, BeginPlace DEF Look, PageInv, Unfound, SharedInv, Control, OwnInv, TypeOK, Unlisted,
     Paging, Ended, UpsertsDone, RecordsDone, In
<1>7. CASE Write(c)
  BY <1>7, BeginPlace DEF Write, PageInv, Unfound, SharedInv, Control, OwnInv, TypeOK, Unlisted,
     Paging, Ended, UpsertsDone, RecordsDone, In
<1>8. CASE WriteClashes(c)
  BY <1>8, BeginPlace DEF WriteClashes, FlushFails, Forget, PageInv, Unfound, SharedInv,
     Control, OwnInv, TypeOK, Unlisted, Paging, Ended, UpsertsDone, RecordsDone, In
<1>9. CASE DeadlockVictim(c)
  BY <1>9, BeginPlace DEF DeadlockVictim, FlushFails, Forget, PageInv, Unfound, SharedInv,
     Control, OwnInv, TypeOK, Unlisted, Paging, Ended, UpsertsDone, RecordsDone, In
<1>10. CASE ToJobs(c)
  BY <1>10, BeginPlace DEF ToJobs, PageInv, Unfound, SharedInv, Control, OwnInv, TypeOK,
     Unlisted, Paging, Ended, UpsertsDone, RecordsDone, In
<1>11. CASE TooManyJobs(c)
  BY <1>11, BeginPlace DEF TooManyJobs, CommitFailed, Forget, PageInv, Unfound, SharedInv,
     Control, OwnInv, TypeOK, Unlisted, Paging, Ended, UpsertsDone, RecordsDone, In
<1>12. CASE NoJobs(c)
  BY <1>12, BeginPlace DEF NoJobs, CommitRun, Forget, PageInv, Unfound, SharedInv, Control,
     OwnInv, TypeOK, Unlisted, Paging, Ended, UpsertsDone, RecordsDone, In
<1>13. CASE CommitJobs(c)
  <2>1. /\ pc[c] = "jobs" /\ pc'[c] = "complete" /\ feed' = feed
        /\ listed' = listed \cup {Fp[feed[c][k]] : k \in kept[c]}
    BY <1>13 DEF CommitJobs, TypeOK
  <2>2. \A k \in In(feed[c]) :
            Fp[feed[c][k]] \in listed \/ \E j \in kept[c] : Fp[feed[c][j]] = Fp[feed[c][k]]
    BY <2>1 DEF SharedInv, PageInv, Unlisted
  <2>3. \A k \in In(feed[c]) : Fp[feed[c][k]] \in listed'
    BY <2>1, <2>2
  <2>. QED  BY <2>1, <2>3 DEF PageInv, Unlisted
<1>14. CASE Complete(c)
  BY <1>14, BeginPlace DEF Complete, CommitRun, Forget, PageInv, Unfound, SharedInv, Control,
     OwnInv, TypeOK, Unlisted, Paging, Ended, UpsertsDone, RecordsDone, In
<1>15. CASE PagesDone(c)
  BY <1>15, BeginPlace DEF PagesDone, PageInv, Unfound, SharedInv, Control, OwnInv, TypeOK,
     Unlisted, Paging, Ended, UpsertsDone, RecordsDone, In
<1>16. ASSUME NEW f \in Feeds, Hashes(c, f) PROVE PageInv(c)'
  BY <1>16, BeginPlace DEF Hashes, PageInv, Unfound, SharedInv, Control, OwnInv, TypeOK,
     Unlisted, Paging, Ended, UpsertsDone, RecordsDone, In
<1>17. ASSUME NEW k \in Keys, Upsert(c, k) PROVE PageInv(c)'
  BY <1>17, BeginPlace DEF Upsert, PageInv, Unfound, SharedInv, Control, OwnInv, TypeOK,
     Unlisted, Paging, Ended, UpsertsDone, RecordsDone, In
<1>18. ASSUME NEW k \in Keys, UpsertRefused(c, k) PROVE PageInv(c)'
  BY <1>18, BeginPlace DEF UpsertRefused, PageInv, Unfound, SharedInv, Control, OwnInv, TypeOK,
     Unlisted, Paging, Ended, UpsertsDone, RecordsDone, In
<1>19. CASE Upserted(c)
  BY <1>19, BeginPlace DEF Upserted, PageInv, Unfound, SharedInv, Control, OwnInv, TypeOK,
     Unlisted, Paging, Ended, UpsertsDone, RecordsDone, In
<1>20. CASE UpsertFails(c)
  BY <1>20, BeginPlace DEF UpsertFails, Abort, PageInv, Unfound, SharedInv, Control, OwnInv,
     TypeOK, Unlisted, Paging, Ended, UpsertsDone, RecordsDone, In
<1>21. CASE CommitUpserts(c)
  BY <1>21, BeginPlace DEF CommitUpserts, Overtaken, Forget, PageInv, Unfound, SharedInv,
     Control, OwnInv, TypeOK, Unlisted, Paging, Ended, UpsertsDone, RecordsDone, In
<1>22. CASE CommitUpsertsRaises(c)
  BY <1>22, BeginPlace DEF CommitUpsertsRaises, Forget, PageInv, Unfound, SharedInv, Control,
     OwnInv, TypeOK, Unlisted, Paging, Ended, UpsertsDone, RecordsDone, In
<1>23. CASE Audit(c)
  BY <1>23, BeginPlace DEF Audit, PageInv, Unfound, SharedInv, Control, OwnInv, TypeOK,
     Unlisted, Paging, Ended, UpsertsDone, RecordsDone, In
<1>24. CASE Backfill(c)
  BY <1>24, BeginPlace DEF Backfill, PageInv, Unfound, SharedInv, Control, OwnInv, TypeOK,
     Unlisted, Paging, Ended, UpsertsDone, RecordsDone, In
<1>25. CASE ScanStart(c)
  BY <1>25, BeginPlace DEF ScanStart, PageInv, Unfound, SharedInv, Control, OwnInv, TypeOK,
     Unlisted, Paging, Ended, UpsertsDone, RecordsDone, In
<1>26. ASSUME NEW o \in {"done", "failed"}, Score(c, o) PROVE PageInv(c)'
  BY <1>26, BeginPlace DEF Score, PageInv, Unfound, SharedInv, Control, OwnInv, TypeOK,
     Unlisted, Paging, Ended, UpsertsDone, RecordsDone, In
<1>27. CASE ScanEnds(c)
  BY <1>27, BeginPlace DEF ScanEnds, PageInv, Unfound, SharedInv, Control, OwnInv, TypeOK,
     Unlisted, Paging, Ended, UpsertsDone, RecordsDone, In
<1>28. CASE ScanEndRaises(c)
  BY <1>28, BeginPlace DEF ScanEndRaises, PageInv, Unfound, SharedInv, Control, OwnInv, TypeOK,
     Unlisted, Paging, Ended, UpsertsDone, RecordsDone, In
<1>. QED  BY <1>1, <1>2, <1>3, <1>4, <1>5, <1>6, <1>7, <1>8, <1>9, <1>10, <1>11, <1>12, <1>13,
             <1>14, <1>15, <1>16, <1>17, <1>18, <1>19, <1>20, <1>21, <1>22, <1>23, <1>24, <1>25,
             <1>26, <1>27, <1>28 DEF Act, Step, Ingest, Engine, Scan

\* The records of a call are of pages it has left, but where it completes one.
LEMMA OldRecord ==
    ASSUME TypeOK, NEW c \in Calls, RecordInv(c), pc[c] \notin {"complete", "crashed"},
           NEW k \in Keys, records[k] # None, records[k].by = c
    PROVE  /\ records[k].page \in Pages /\ records[k].page \in Nat /\ records[k].page < at[c]
           /\ runs[c][records[k].page] = "completed" => records[k].fp \in listed
<1>1. records[k] \in Record
  BY DEF TypeOK
<1>2. records[k].page \in Pages /\ records[k].page \in Nat
  BY <1>1, CatalogAssumption DEF Record
<1>. QED  BY <1>2 DEF RecordInv, RecordOk

LEMMA RecordKept ==
    ASSUME TypeOK, CatalogInv, NEW c \in Calls, Act(c), OwnInv(c), SharedInv(c)
    PROVE  RecordInv(c)'
<1>1. ASSUME NEW k \in Kinds, NEW p \in Plans, Begin(c, k, p) PROVE RecordInv(c)'
  BY <1>1, PageAt, BeginPlace DEF Begin, RecordInv, RecordOk, SharedInv, Control, OwnInv,
     TypeOK, Paging, Ended, RecordsDone
<1>2. CASE Crash(c)
  BY <1>2, PageAt, BeginPlace DEF Crash, Forget, RecordInv, RecordOk, SharedInv, Control,
     OwnInv, TypeOK, Paging, Ended, RecordsDone
<1>3. CASE AddRunRaises(c)
  <2>1. PICK n \in NextProvider(c) : at' = [at EXCEPT ![c] = n]
    BY <1>3 DEF AddRunRaises
  <2>2. /\ at[c] \in Nat /\ at'[c] \in Nat /\ at[c] < at'[c] /\ at[c] \in Pages
        /\ Pages \subseteq Nat
    BY <1>3, <2>1, PageAt, CatalogAssumption DEF AddRunRaises, Control, OwnInv, Paging,
       RecordsDone, TypeOK
  <2>3. /\ pc[c] \in {"page"} /\ records' = records /\ listed' = listed
        /\ \A i \in Pages \ {at[c]} : runs'[c][i] = runs[c][i]
    BY <1>3, <2>2 DEF AddRunRaises, RecordsDone, TypeOK
  <2>4. RecordInv(c)
    BY DEF SharedInv
  <2>5. ASSUME NEW k \in Keys, records[k] # None, records[k].by = c
        PROVE  /\ records[k].page \in Pages /\ records[k].page \in Nat /\ records[k].page < at[c]
               /\ runs[c][records[k].page] = "completed" => records[k].fp \in listed
    BY <2>3, <2>4, <2>5, OldRecord
  <2>6. ASSUME NEW k \in Keys PROVE RecordOk(c, k)'
    BY <2>2, <2>3, <2>5 DEF RecordOk
  <2>. QED  BY <2>6 DEF RecordInv
<1>4. ASSUME NEW f \in Feeds, Fetch(c, f) PROVE RecordInv(c)'
  BY <1>4, PageAt, BeginPlace DEF Fetch, Asks, RecordInv, RecordOk, SharedInv, Control, OwnInv,
     TypeOK, Paging, Ended, RecordsDone
<1>5. CASE FetchFails(c)
  <2>1. PICK n \in NextProvider(c) : at' = [at EXCEPT ![c] = n]
    BY <1>5 DEF FetchFails, Asks, CommitFailed, Forget
  <2>2. /\ at[c] \in Nat /\ at'[c] \in Nat /\ at[c] < at'[c] /\ at[c] \in Pages
        /\ Pages \subseteq Nat
    BY <1>5, <2>1, PageAt, CatalogAssumption DEF FetchFails, Asks, CommitFailed, Forget,
       Control, OwnInv, Paging, RecordsDone, TypeOK
  <2>3. /\ pc[c] \in {"page"} /\ records' = records /\ listed' = listed
        /\ \A i \in Pages \ {at[c]} : runs'[c][i] = runs[c][i]
    BY <1>5, <2>2 DEF FetchFails, Asks, CommitFailed, Forget, RecordsDone, TypeOK
  <2>4. RecordInv(c)
    BY DEF SharedInv
  <2>5. ASSUME NEW k \in Keys, records[k] # None, records[k].by = c
        PROVE  /\ records[k].page \in Pages /\ records[k].page \in Nat /\ records[k].page < at[c]
               /\ runs[c][records[k].page] = "completed" => records[k].fp \in listed
    BY <2>3, <2>4, <2>5, OldRecord
  <2>6. ASSUME NEW k \in Keys PROVE RecordOk(c, k)'
    BY <2>2, <2>3, <2>5 DEF RecordOk
  <2>. QED  BY <2>6 DEF RecordInv
<1>6. ASSUME NEW k \in Keys, Look(c, k) PROVE RecordInv(c)'
  BY <1>6, PageAt, BeginPlace DEF Look, RecordInv, RecordOk, SharedInv, Control, OwnInv, TypeOK,
     Paging, Ended, RecordsDone
<1>7. CASE Write(c)
  BY <1>7, PageAt, BeginPlace DEF Write, RecordInv, RecordOk, SharedInv, Control, OwnInv,
     TypeOK, Paging, Ended, RecordsDone
<1>8. CASE WriteClashes(c)
  <2>1. PICK n \in NextProvider(c) : at' = [at EXCEPT ![c] = n]
    BY <1>8 DEF WriteClashes, FlushFails, Forget
  <2>2. /\ at[c] \in Nat /\ at'[c] \in Nat /\ at[c] < at'[c] /\ at[c] \in Pages
        /\ Pages \subseteq Nat
    BY <1>8, <2>1, PageAt, CatalogAssumption DEF WriteClashes, FlushFails, Forget, Control,
       OwnInv, Paging, RecordsDone, TypeOK
  <2>3. /\ pc[c] \in {"records", "jobs"} /\ records' = records /\ listed' = listed
        /\ \A i \in Pages \ {at[c]} : runs'[c][i] = runs[c][i]
    BY <1>8, <2>2 DEF WriteClashes, FlushFails, Forget, RecordsDone, TypeOK
  <2>4. RecordInv(c)
    BY DEF SharedInv
  <2>5. ASSUME NEW k \in Keys, records[k] # None, records[k].by = c
        PROVE  /\ records[k].page \in Pages /\ records[k].page \in Nat /\ records[k].page < at[c]
               /\ runs[c][records[k].page] = "completed" => records[k].fp \in listed
    BY <2>3, <2>4, <2>5, OldRecord
  <2>6. ASSUME NEW k \in Keys PROVE RecordOk(c, k)'
    BY <2>2, <2>3, <2>5 DEF RecordOk
  <2>. QED  BY <2>6 DEF RecordInv
<1>9. CASE DeadlockVictim(c)
  <2>1. PICK n \in NextProvider(c) : at' = [at EXCEPT ![c] = n]
    BY <1>9 DEF DeadlockVictim, FlushFails, Forget
  <2>2. /\ at[c] \in Nat /\ at'[c] \in Nat /\ at[c] < at'[c] /\ at[c] \in Pages
        /\ Pages \subseteq Nat
    BY <1>9, <2>1, PageAt, CatalogAssumption DEF DeadlockVictim, FlushFails, Forget, Control,
       OwnInv, Paging, RecordsDone, TypeOK
  <2>3. /\ pc[c] \in {"records", "jobs"} /\ records' = records /\ listed' = listed
        /\ \A i \in Pages \ {at[c]} : runs'[c][i] = runs[c][i]
    BY <1>9, <2>2 DEF DeadlockVictim, FlushFails, Forget, RecordsDone, TypeOK
  <2>4. RecordInv(c)
    BY DEF SharedInv
  <2>5. ASSUME NEW k \in Keys, records[k] # None, records[k].by = c
        PROVE  /\ records[k].page \in Pages /\ records[k].page \in Nat /\ records[k].page < at[c]
               /\ runs[c][records[k].page] = "completed" => records[k].fp \in listed
    BY <2>3, <2>4, <2>5, OldRecord
  <2>6. ASSUME NEW k \in Keys PROVE RecordOk(c, k)'
    BY <2>2, <2>3, <2>5 DEF RecordOk
  <2>. QED  BY <2>6 DEF RecordInv
<1>10. CASE ToJobs(c)
  BY <1>10, PageAt, BeginPlace DEF ToJobs, RecordInv, RecordOk, SharedInv, Control, OwnInv,
     TypeOK, Paging, Ended, RecordsDone
<1>11. CASE TooManyJobs(c)
  <2>1. PICK n \in NextProvider(c) : at' = [at EXCEPT ![c] = n]
    BY <1>11 DEF TooManyJobs, CommitFailed, Forget
  <2>2. /\ at[c] \in Nat /\ at'[c] \in Nat /\ at[c] < at'[c] /\ at[c] \in Pages
        /\ Pages \subseteq Nat
    BY <1>11, <2>1, PageAt, CatalogAssumption DEF TooManyJobs, CommitFailed, Forget, Control,
       OwnInv, Paging, RecordsDone, TypeOK
  <2>3. /\ pc[c] = "records" /\ records' = Recorded(c) /\ listed \subseteq listed'
        /\ \A i \in Pages \ {at[c]} : runs'[c][i] = runs[c][i]
        /\ runs'[c][at[c]] = "failed"
    BY <1>11, <2>2 DEF TooManyJobs, CommitFailed, Forget, RecordsDone, TypeOK
  <2>4. RecordInv(c)
    BY DEF SharedInv
  <2>5. ASSUME NEW k \in Keys, records[k] # None, records[k].by = c
        PROVE  /\ records[k].page \in Pages /\ records[k].page \in Nat /\ records[k].page < at[c]
               /\ runs[c][records[k].page] = "completed" => records[k].fp \in listed
    BY <2>3, <2>4, <2>5, OldRecord
  <2>6. ASSUME NEW k \in Keys PROVE RecordOk(c, k)'
    <3>1. CASE feed[c][k] = None
      <4>1. records'[k] = records[k]
        BY <2>3, <3>1 DEF Recorded
      <4>. QED  BY <2>2, <2>3, <2>5, <4>1 DEF RecordOk
    <3>2. CASE feed[c][k] # None
      <4>1. records'[k].fp = Fp[feed[c][k]] /\ records'[k].page = at[c]
        BY <2>3, <3>2 DEF Recorded
      <4>. QED  BY <2>2, <2>3, <3>2, <4>1 DEF RecordOk
    <3>. QED  BY <3>1, <3>2
  <2>. QED  BY <2>6 DEF RecordInv
<1>12. CASE NoJobs(c)
  <2>2. /\ at[c] \in Nat /\ at'[c] \in Nat /\ at[c] + 1 = at'[c] /\ at[c] \in Pages
        /\ Pages \subseteq Nat
    BY <1>12, PageAt, CatalogAssumption DEF NoJobs, CommitRun, Forget, Control, OwnInv, Paging,
       RecordsDone, TypeOK
  <2>3. /\ pc[c] = "records" /\ records' = Recorded(c) /\ listed \subseteq listed'
        /\ \A i \in Pages \ {at[c]} : runs'[c][i] = runs[c][i]
        /\ runs'[c][at[c]] = "completed"
    BY <1>12, <2>2 DEF NoJobs, CommitRun, Forget, RecordsDone, TypeOK
  <2>4. RecordInv(c)
    BY DEF SharedInv
  <2>5. ASSUME NEW k \in Keys, records[k] # None, records[k].by = c
        PROVE  /\ records[k].page \in Pages /\ records[k].page \in Nat /\ records[k].page < at[c]
               /\ runs[c][records[k].page] = "completed" => records[k].fp \in listed
    BY <2>3, <2>4, <2>5, OldRecord
  <2>7. \A k \in Keys : feed[c][k] # None => Fp[feed[c][k]] \in listed'
    BY <1>12, <2>3 DEF NoJobs, SharedInv, PageInv, Unlisted, In
  <2>6. ASSUME NEW k \in Keys PROVE RecordOk(c, k)'
    <3>1. CASE feed[c][k] = None
      <4>1. records'[k] = records[k]
        BY <2>3, <3>1 DEF Recorded
      <4>. QED  BY <2>2, <2>3, <2>5, <4>1 DEF RecordOk
    <3>2. CASE feed[c][k] # None
      <4>1. records'[k].fp = Fp[feed[c][k]] /\ records'[k].page = at[c]
        BY <2>3, <3>2 DEF Recorded
      <4>. QED  BY <2>2, <2>3, <2>7, <3>2, <4>1 DEF RecordOk
    <3>. QED  BY <3>1, <3>2
  <2>. QED  BY <2>6 DEF RecordInv
<1>13. CASE CommitJobs(c)
  <2>2. /\ at[c] \in Nat /\ at'[c] \in Nat /\ at[c] = at'[c] /\ at[c] \in Pages
        /\ Pages \subseteq Nat
    BY <1>13, PageAt, CatalogAssumption DEF CommitJobs, Control, OwnInv, Paging, RecordsDone,
       TypeOK
  <2>3. /\ pc[c] = "jobs" /\ records' = Recorded(c) /\ listed \subseteq listed'
        /\ \A i \in Pages \ {at[c]} : runs'[c][i] = runs[c][i]
        /\ runs'[c][at[c]] = "running"
    BY <1>13, <2>2 DEF CommitJobs, RecordsDone, TypeOK
  <2>4. RecordInv(c)
    BY DEF SharedInv
  <2>5. ASSUME NEW k \in Keys, records[k] # None, records[k].by = c
        PROVE  /\ records[k].page \in Pages /\ records[k].page \in Nat /\ records[k].page < at[c]
               /\ runs[c][records[k].page] = "completed" => records[k].fp \in listed
    BY <2>3, <2>4, <2>5, OldRecord
  <2>7. \A k \in Keys : feed[c][k] # None => pc'[c] = "complete" /\ Fp[feed[c][k]] \in listed'
    <3>1. \A k \in In(feed[c]) :
              Fp[feed[c][k]] \in listed \/ \E j \in kept[c] : Fp[feed[c][j]] = Fp[feed[c][k]]
      BY <2>3 DEF SharedInv, PageInv, Unlisted
    <3>2. listed' = listed \cup {Fp[feed[c][k]] : k \in kept[c]} /\ pc'[c] = "complete"
      BY <1>13 DEF CommitJobs, TypeOK
    <3>. QED  BY <3>1, <3>2 DEF In
  <2>6. ASSUME NEW k \in Keys PROVE RecordOk(c, k)'
    <3>1. CASE feed[c][k] = None
      <4>1. records'[k] = records[k]
        BY <2>3, <3>1 DEF Recorded
      <4>. QED  BY <2>2, <2>3, <2>5, <4>1 DEF RecordOk
    <3>2. CASE feed[c][k] # None
      <4>1. records'[k].fp = Fp[feed[c][k]] /\ records'[k].page = at[c]
        BY <2>3, <3>2 DEF Recorded
      <4>. QED  BY <2>2, <2>3, <2>7, <3>2, <4>1 DEF RecordOk
    <3>. QED  BY <3>1, <3>2
  <2>. QED  BY <2>6 DEF RecordInv
<1>14. CASE Complete(c)
  <2>2. /\ at[c] \in Nat /\ at'[c] \in Nat /\ at[c] + 1 = at'[c] /\ at[c] \in Pages
        /\ Pages \subseteq Nat
    BY <1>14, PageAt, CatalogAssumption DEF Complete, CommitRun, Forget, Control, OwnInv,
       Paging, RecordsDone, TypeOK
  <2>3. /\ pc[c] = "complete" /\ records' = records /\ listed' = listed
        /\ \A i \in Pages \ {at[c]} : runs'[c][i] = runs[c][i]
    BY <1>14, <2>2 DEF Complete, CommitRun, Forget, TypeOK
  <2>4. RecordInv(c)
    BY DEF SharedInv
  <2>6. ASSUME NEW k \in Keys PROVE RecordOk(c, k)'
    <3>1. SUFFICES ASSUME records[k] # None, records[k].by = c
                   PROVE  /\ runs'[c][records[k].page] = "completed" => records[k].fp \in listed
                          /\ records[k].page < at'[c]
      BY <2>3 DEF RecordOk
    <3>2. records[k].page \in Pages /\ records[k].page \in Nat
      BY <2>2, <3>1 DEF TypeOK, Record
    <3>3. CASE records[k].page < at[c]
      BY <2>2, <2>3, <2>4, <3>1, <3>2, <3>3 DEF RecordInv, RecordOk
    <3>4. CASE records[k].page = at[c] /\ records[k].fp \in listed
      BY <2>2, <3>4
    <3>. QED  BY <2>3, <2>4, <3>1, <3>3, <3>4 DEF RecordInv, RecordOk
  <2>. QED  BY <2>6 DEF RecordInv
<1>15. CASE PagesDone(c)
  BY <1>15, PageAt, BeginPlace DEF PagesDone, RecordInv, RecordOk, SharedInv, Control, OwnInv,
     TypeOK, Paging, Ended, RecordsDone
<1>16. ASSUME NEW f \in Feeds, Hashes(c, f) PROVE RecordInv(c)'
  BY <1>16, PageAt, BeginPlace DEF Hashes, RecordInv, RecordOk, SharedInv, Control, OwnInv,
     TypeOK, Paging, Ended, RecordsDone
<1>17. ASSUME NEW k \in Keys, Upsert(c, k) PROVE RecordInv(c)'
  BY <1>17, PageAt, BeginPlace DEF Upsert, RecordInv, RecordOk, SharedInv, Control, OwnInv,
     TypeOK, Paging, Ended, RecordsDone
<1>18. ASSUME NEW k \in Keys, UpsertRefused(c, k) PROVE RecordInv(c)'
  BY <1>18, PageAt, BeginPlace DEF UpsertRefused, RecordInv, RecordOk, SharedInv, Control,
     OwnInv, TypeOK, Paging, Ended, RecordsDone
<1>19. CASE Upserted(c)
  BY <1>19, PageAt, BeginPlace DEF Upserted, RecordInv, RecordOk, SharedInv, Control, OwnInv,
     TypeOK, Paging, Ended, RecordsDone
<1>20. CASE UpsertFails(c)
  BY <1>20, PageAt, BeginPlace DEF UpsertFails, Abort, RecordInv, RecordOk, SharedInv, Control,
     OwnInv, TypeOK, Paging, Ended, RecordsDone
<1>21. CASE CommitUpserts(c)
  <2>1. /\ pc[c] = "upserts" /\ records' = records /\ listed \subseteq listed'
        /\ runs' = runs /\ at' = at
    BY <1>21 DEF CommitUpserts, UpsertsDone
  <2>2. RecordInv(c)
    BY DEF SharedInv
  <2>. QED  BY <2>1, <2>2 DEF RecordInv, RecordOk
<1>22. CASE CommitUpsertsRaises(c)
  <2>1. /\ pc[c] = "upserts" /\ records' = records /\ listed \subseteq listed'
        /\ runs' = runs /\ at' = at
    BY <1>22 DEF CommitUpsertsRaises, UpsertsDone
  <2>2. RecordInv(c)
    BY DEF SharedInv
  <2>. QED  BY <2>1, <2>2 DEF RecordInv, RecordOk
<1>23. CASE Audit(c)
  BY <1>23, PageAt, BeginPlace DEF Audit, RecordInv, RecordOk, SharedInv, Control, OwnInv,
     TypeOK, Paging, Ended, RecordsDone
<1>24. CASE Backfill(c)
  BY <1>24, PageAt, BeginPlace DEF Backfill, RecordInv, RecordOk, SharedInv, Control, OwnInv,
     TypeOK, Paging, Ended, RecordsDone
<1>25. CASE ScanStart(c)
  BY <1>25, PageAt, BeginPlace DEF ScanStart, RecordInv, RecordOk, SharedInv, Control, OwnInv,
     TypeOK, Paging, Ended, RecordsDone
<1>26. ASSUME NEW o \in {"done", "failed"}, Score(c, o) PROVE RecordInv(c)'
  BY <1>26, PageAt, BeginPlace DEF Score, RecordInv, RecordOk, SharedInv, Control, OwnInv,
     TypeOK, Paging, Ended, RecordsDone
<1>27. CASE ScanEnds(c)
  BY <1>27, PageAt, BeginPlace DEF ScanEnds, RecordInv, RecordOk, SharedInv, Control, OwnInv,
     TypeOK, Paging, Ended, RecordsDone
<1>28. CASE ScanEndRaises(c)
  BY <1>28, PageAt, BeginPlace DEF ScanEndRaises, RecordInv, RecordOk, SharedInv, Control,
     OwnInv, TypeOK, Paging, Ended, RecordsDone
<1>. QED  BY <1>1, <1>2, <1>3, <1>4, <1>5, <1>6, <1>7, <1>8, <1>9, <1>10, <1>11, <1>12, <1>13,
             <1>14, <1>15, <1>16, <1>17, <1>18, <1>19, <1>20, <1>21, <1>22, <1>23, <1>24, <1>25,
             <1>26, <1>27, <1>28 DEF Act, Step, Ingest, Engine, Scan

LEMMA SharedKept ==
    ASSUME TypeOK, CatalogInv, NEW c \in Calls, Act(c), OwnInv(c), SharedInv(c)
    PROVE  SharedInv(c)'
  BY PageKept, RecordKept, AuditKept DEF SharedInv

LEMMA CatalogKept ==
    ASSUME TypeOK, CatalogInv, NEW c \in Calls, Act(c), OwnInv(c), SharedInv(c)
    PROVE  CatalogInv'
<1>1. CASE CommitJobs(c)
  <2>1. /\ catalog' = [k \in Keys |-> IF k \in kept[c] THEN feed[c][k] ELSE catalog[k]]
        /\ listed' = listed \cup {Fp[feed[c][k]] : k \in kept[c]}
        /\ loose' = IF overtaken[c] THEN loose \cup kept[c] ELSE loose \ kept[c]
        /\ pc[c] = "jobs"
    BY <1>1 DEF CommitJobs
  <2>2. /\ \A j, k \in kept[c] : Fp[feed[c][j]] = Fp[feed[c][k]] => j = k
        /\ ~overtaken[c] => \A k \in kept[c] : Unfound(feed[c][k])
    BY <2>1 DEF SharedInv, PageInv, Unlisted
  <2>3. Known'
    BY <2>1 DEF CatalogInv, Known
  <2>4. ASSUME NEW j \in Keys, NEW k \in Keys, Alike(j, k)',
               catalog'[j] \in Plain, catalog'[k] \in Plain
        PROVE  j = k \/ j \in loose' \/ k \in loose'
    <3>1. CASE j \notin kept[c] /\ k \notin kept[c]
      BY <2>1, <2>4, <3>1 DEF CatalogInv, DuplicatesOnlyByOverlap, Alike
    <3>2. CASE overtaken[c] /\ (j \in kept[c] \/ k \in kept[c])
      BY <2>1, <3>2
    <3>3. CASE ~overtaken[c] /\ (j \in kept[c] \/ k \in kept[c])
      BY <2>1, <2>2, <2>4, <3>3 DEF Alike, Unfound
    <3>. QED  BY <3>1, <3>2, <3>3
  <2>. QED  BY <2>3, <2>4 DEF CatalogInv, DuplicatesOnlyByOverlap
<1>2. CASE CommitUpserts(c)
  <2>. DEFINE S == IF session[c] = "usable" THEN inserted[c] ELSE {}
  <2>1. /\ catalog' = [k \in Keys |-> IF k \in S THEN feed[c][k] ELSE catalog[k]]
        /\ listed' = listed \cup {Fp[feed[c][k]] : k \in S}
        /\ loose' = loose \cup S
    BY <1>2 DEF CommitUpserts
  <2>. HIDE DEF S
  <2>2. Known'
    BY <2>1 DEF CatalogInv, Known
  <2>3. ASSUME NEW j \in Keys, NEW k \in Keys, Alike(j, k)',
               catalog'[j] \in Plain, catalog'[k] \in Plain
        PROVE  j = k \/ j \in loose' \/ k \in loose'
    <3>1. CASE j \notin S /\ k \notin S
      BY <2>1, <2>3, <3>1 DEF CatalogInv, DuplicatesOnlyByOverlap, Alike
    <3>2. CASE j \in S \/ k \in S
      BY <2>1, <3>2
    <3>. QED  BY <3>1, <3>2
  <2>. QED  BY <2>2, <2>3 DEF CatalogInv, DuplicatesOnlyByOverlap
<1>3. CASE catalog' = catalog /\ loose' = loose /\ listed' = listed
  BY <1>3 DEF CatalogInv, Known, DuplicatesOnlyByOverlap, Alike
<1>4. ASSUME ~CommitJobs(c), ~CommitUpserts(c)
      PROVE  catalog' = catalog /\ loose' = loose /\ listed' = listed
  <2>1. ASSUME (\E k \in Kinds, p \in Plans : Begin(c, k, p)) \/ Crash(c)
        PROVE  catalog' = catalog /\ loose' = loose /\ listed' = listed
    BY <1>4, <2>1 DEF Begin, Crash
  <2>2. ASSUME Ingest(c) PROVE catalog' = catalog /\ loose' = loose /\ listed' = listed
    BY <1>4, <2>2 DEF Ingest, AddRunRaises, Fetch, FetchFails, Asks, CommitFailed, Look, Write,
       WriteClashes, DeadlockVictim, FlushFails, ToJobs, TooManyJobs, NoJobs, Complete,
       CommitRun, PagesDone
  <2>3. ASSUME Engine(c) PROVE catalog' = catalog /\ loose' = loose /\ listed' = listed
    BY <1>4, <2>3 DEF Engine, Hashes, Upsert, UpsertRefused, Upserted, UpsertFails,
       CommitUpsertsRaises, Audit, Backfill
  <2>4. ASSUME Scan(c) PROVE catalog' = catalog /\ loose' = loose /\ listed' = listed
    BY <1>4, <2>4 DEF Scan, ScanStart, Score, ScanEnds, ScanEndRaises
  <2>. QED  BY <2>1, <2>2, <2>3, <2>4 DEF Act, Step
<1>. QED  BY <1>1, <1>2, <1>3, <1>4

-----------------------------------------------------------------------------
(* The invariant and what follows from it.                                  *)

LEMMA TypesKept ==
    ASSUME TypeOK, NEW c \in Calls, Act(c), OwnInv(c)
    PROVE  TypeOK'
<1>1. Control(c)
  BY DEF OwnInv
<1>. QED  BY <1>1, IngestTypes, EngineTypes, ScanTypes, EdgeTypes DEF Act, Step

LEMMA NextIInv == IInv /\ [Next]_vars => IInv'
<1> SUFFICES ASSUME IInv, [Next]_vars PROVE IInv'
  OBVIOUS
<1>. USE DEF IInv
<1>1. CASE Next
  <2>1. PICK c \in Calls : Act(c)
    BY <1>1 DEF Next, Act
  <2>2. TypeOK'
    BY <2>1, TypesKept
  <2>3. CatalogInv'
    BY <2>1, CatalogKept
  <2>4. Grown(c)
    BY <2>1, Growth
  <2>5. ASSUME NEW d \in Calls PROVE OwnInv(d)' /\ SharedInv(d)'
    <3>1. CASE d = c
      BY <2>1, <3>1, OwnKept, SharedKept
    <3>2. CASE d # c
      <4>1. Same(d)
        BY <2>1, <3>2, Framed
      <4>. QED  BY <2>4, <3>2, <4>1, SameOwn, SameShared
    <3>. QED  BY <3>1, <3>2
  <2>. QED  BY <2>2, <2>3, <2>5
<1>2. CASE UNCHANGED vars
  <2>. USE <1>2 DEF vars
  <2>1. TypeOK'
    BY DEF TypeOK
  <2>2. CatalogInv'
    BY DEF CatalogInv, Known, DuplicatesOnlyByOverlap, Alike
  <2>3. ASSUME NEW d \in Calls PROVE OwnInv(d)' /\ SharedInv(d)'
    <3>1. OwnInv(d)'
      <4>1. Same(d)
        BY DEF Same
      <4>. QED  BY <4>1, SameOwn
    <3>2. PageInv(d)' /\ RecordInv(d)' /\ AuditInv(d)'
      BY DEF SharedInv, PageInv, Unfound, RecordInv, RecordOk, AuditInv, In, Unlisted
    <3>. QED  BY <3>1, <3>2 DEF SharedInv
  <2>. QED  BY <2>1, <2>2, <2>3
<1>. QED  BY <1>1, <1>2

THEOREM Invariant == Spec => []IInv
  BY InitIInv, NextIInv, PTL DEF Spec

\* Every variable keeps its type, and a call is at a page of its plan: what the
\* orchestrator's loops guarantee.
THEOREM TypeCorrect == Spec => []TypeOK
<1>1. IInv => TypeOK
  BY DEF IInv
<1>. QED  BY <1>1, Invariant, PTL

\* Duplicates come of a connector, of an overlapping commit, or of a company whose
\* spelling hides a job from the dedupe of a pass: but for those jobs the dedupe of a
\* pass that nothing overtakes is complete.
THEOREM Deduped == Spec => []DuplicatesOnlyByOverlap
<1>1. IInv => DuplicatesOnlyByOverlap
  BY DEF IInv, CatalogInv
<1>. QED  BY <1>1, Invariant, PTL

\* What a completed run has recorded has been in the catalog.
THEOREM Listed == Spec => []CompletedIsListed
<1>1. IInv => CompletedIsListed
  <2> SUFFICES ASSUME IInv, NEW k \in Keys, records[k] # None,
                      runs[records[k].by][records[k].page] = "completed"
               PROVE  records[k].fp \in listed
    BY DEF CompletedIsListed
  <2>1. records[k].by \in Calls
    BY DEF IInv, TypeOK, Record
  <2>. QED  BY <2>1 DEF IInv, SharedInv, RecordInv, RecordOk
<1>. QED  BY <1>1, Invariant, PTL

\* A running row, of a page or of a scan, is true of its call.
THEOREM Running == Spec => []RunningIsTrue
<1>1. IInv => RunningIsTrue
  BY CatalogAssumption DEF IInv, OwnInv, RowsInv, ScanInv, RunningIsTrue, ScanStatus
<1>. QED  BY <1>1, Invariant, PTL

\* An audit without errors counts only what is in the catalog.
THEOREM Audited == Spec => []CleanAuditIsTrue
<1>1. IInv => CleanAuditIsTrue
  BY DEF IInv, SharedInv, AuditInv, CleanAuditIsTrue, In
<1>. QED  BY <1>1, Invariant, PTL

\* A page left behind has its row, while no flush of the call has failed.
THEOREM PagesAudited == Spec => []PageIsAudited
<1>1. IInv => PageIsAudited
  BY DEF IInv, OwnInv, RowsInv, PageIsAudited
<1>. QED  BY <1>1, Invariant, PTL

-----------------------------------------------------------------------------
(* Someone goes on.                                                         *)

\* The phases in which a session has uncommitted rows.
Holding == Unlisted \cup {"upserts"}

\* A session that holds a row is one that can still commit or be rolled back: the
\* call is writing, and no failure has struck its session.
LocksInv(c) ==
    /\ pc[c] \in Unlisted => session[c] = "usable"
    /\ \A t \in Tables : \A k \in Keys :
          lock[t][k] = c => pc[c] \in Holding /\ session[c] = "usable"

\* A step takes rows for its own session only, and gives back its own only.
Untouched(c) ==
    \A t \in Tables : \A k \in Keys : lock'[t][k] \notin {None, c} => lock'[t][k] = lock[t][k]

LEMMA LeftAlone ==
    ASSUME NEW c \in Calls, LocksInv(c), lock' = lock, pc[c] \notin Unlisted,
           pc'[c] \notin Unlisted, pc[c] # "upserts" \/ session[c] # "usable"
    PROVE  LocksInv(c)' /\ Untouched(c)
  BY DEF LocksInv, Holding, Untouched

LEMMA LeftHeld ==
    ASSUME NEW c \in Calls, LocksInv(c), lock' = lock, pc'[c] \in Holding,
           pc[c] \in Holding, pc'[c] \in Unlisted => pc[c] \in Unlisted,
           session'[c] = session[c]
    PROVE  LocksInv(c)' /\ Untouched(c)
  BY DEF LocksInv, Untouched

LEMMA GivenBack ==
    ASSUME TypeOK, NEW c \in Calls, LocksInv(c), Release(c), pc'[c] \notin Unlisted
    PROVE  LocksInv(c)' /\ Untouched(c)
<1>1. \A t \in Tables : \A k \in Keys :
          lock'[t][k] = IF lock[t][k] = c THEN None ELSE lock[t][k]
  BY DEF Release
<1>2. c # None
  BY CatalogAssumption
<1>. QED  BY <1>1, <1>2 DEF LocksInv, Untouched

LEMMA Taken ==
    ASSUME TypeOK, NEW c \in Calls, LocksInv(c), NEW u \in Tables, NEW j \in Keys,
           lock' = [lock EXCEPT ![u][j] = c], pc'[c] = pc[c], pc[c] \in Holding,
           session'[c] = session[c], session[c] = "usable"
    PROVE  LocksInv(c)' /\ Untouched(c)
<1>1. \A t \in Tables : \A k \in Keys : lock'[t][k] \in {lock[t][k], c}
  BY DEF TypeOK
<1>. QED  BY <1>1 DEF LocksInv, Untouched

LEMMA LocksKept ==
    ASSUME TypeOK, NEW c \in Calls, Act(c), Control(c), LocksInv(c)
    PROVE  LocksInv(c)' /\ Untouched(c)
<1>. USE DEF TypeOK
<1>1. ASSUME NEW k \in Kinds, NEW p \in Plans, Begin(c, k, p) PROVE LocksInv(c)' /\ Untouched(c)
  <2>1. pc'[c] \notin Unlisted
    BY <1>1, CatalogAssumption DEF Begin, Unlisted, AllKinds
  <2>. QED  BY <1>1, <2>1, LeftAlone DEF Begin, Unlisted
<1>2. CASE Crash(c)
  BY <1>2, GivenBack DEF Crash, Unlisted
<1>3. CASE AddRunRaises(c)
  BY <1>3, LeftAlone DEF AddRunRaises, Unlisted
<1>4. ASSUME NEW f \in Feeds, Fetch(c, f) PROVE LocksInv(c)' /\ Untouched(c)
  BY <1>4 DEF Fetch, Asks, LocksInv, Untouched, Holding, Unlisted
<1>5. CASE FetchFails(c)
  BY <1>5, GivenBack DEF FetchFails, CommitFailed, Unlisted
<1>6. ASSUME NEW k \in Keys, Look(c, k) PROVE LocksInv(c)' /\ Untouched(c)
  BY <1>6, LeftHeld DEF Look, Holding, Unlisted
<1>7. CASE Write(c)
  <2>1. session[c] = "usable" /\ pc[c] \in Holding
    BY <1>7 DEF Write, LocksInv, Holding, Unlisted
  <2>2. Table(c) \in Tables /\ item[c] \in Keys
    BY <1>7, TableType DEF Write
  <2>3. /\ lock' = [lock EXCEPT ![Table(c)][item[c]] = c]
        /\ pc'[c] = pc[c] /\ session'[c] = session[c]
    BY <1>7 DEF Write
  <2>. QED  BY <2>1, <2>2, <2>3, Taken
<1>8. CASE WriteClashes(c)
  BY <1>8, GivenBack DEF WriteClashes, FlushFails, Unlisted
<1>9. CASE DeadlockVictim(c)
  BY <1>9, GivenBack DEF DeadlockVictim, FlushFails, Unlisted
<1>10. CASE ToJobs(c)
  BY <1>10, LeftHeld DEF ToJobs, RecordsDone, Holding, Unlisted
<1>11. CASE TooManyJobs(c)
  BY <1>11, GivenBack DEF TooManyJobs, CommitFailed, Unlisted
<1>12. CASE NoJobs(c)
  BY <1>12, GivenBack DEF NoJobs, CommitRun, Unlisted
<1>13. CASE CommitJobs(c)
  BY <1>13, GivenBack DEF CommitJobs, Unlisted
<1>14. CASE Complete(c)
  BY <1>14, GivenBack DEF Complete, CommitRun, Unlisted
<1>15. CASE PagesDone(c)
  BY <1>15, LeftAlone DEF PagesDone, Unlisted
<1>16. ASSUME NEW f \in Feeds, Hashes(c, f) PROVE LocksInv(c)' /\ Untouched(c)
  BY <1>16, LeftAlone DEF Hashes, Unlisted
<1>17. ASSUME NEW k \in Keys, Upsert(c, k) PROVE LocksInv(c)' /\ Untouched(c)
  BY <1>17, LeftHeld DEF Upsert, Holding, Unlisted
<1>18. ASSUME NEW k \in Keys, UpsertRefused(c, k) PROVE LocksInv(c)' /\ Untouched(c)
  BY <1>18, LeftHeld DEF UpsertRefused, Holding, Unlisted
<1>19. CASE Upserted(c)
  <2>1. session[c] = "usable" /\ pc[c] \in Holding
    BY <1>19 DEF Upserted, Control, Holding
  <2>2. "jobs" \in Tables /\ item[c] \in Keys
    BY <1>19 DEF Upserted, Tables
  <2>3. /\ lock' = [lock EXCEPT !["jobs"][item[c]] = c]
        /\ pc'[c] = pc[c] /\ session'[c] = session[c]
    BY <1>19 DEF Upserted
  <2>. QED  BY <2>1, <2>2, <2>3, Taken
<1>20. CASE UpsertFails(c)
  BY <1>20, GivenBack DEF UpsertFails, Abort, Unlisted
<1>21. CASE CommitUpserts(c)
  BY <1>21, GivenBack DEF CommitUpserts, Unlisted
<1>22. CASE CommitUpsertsRaises(c)
  BY <1>22, LeftAlone DEF CommitUpsertsRaises, UpsertsDone, Unlisted
<1>23. CASE Audit(c)
  BY <1>23, LeftAlone DEF Audit, Unlisted
<1>24. CASE Backfill(c)
  BY <1>24, LeftAlone DEF Backfill, Unlisted
<1>25. CASE ScanStart(c)
  BY <1>25, LeftAlone DEF ScanStart, Unlisted
<1>26. ASSUME NEW o \in {"done", "failed"}, Score(c, o) PROVE LocksInv(c)' /\ Untouched(c)
  BY <1>26, LeftAlone DEF Score, Unlisted
<1>27. CASE ScanEnds(c)
  BY <1>27, LeftAlone DEF ScanEnds, Unlisted
<1>28. CASE ScanEndRaises(c)
  BY <1>28, LeftAlone DEF ScanEndRaises, Unlisted
<1>. QED  BY <1>1, <1>2, <1>3, <1>4, <1>5, <1>6, <1>7, <1>8, <1>9, <1>10, <1>11, <1>12, <1>13,
             <1>14, <1>15, <1>16, <1>17, <1>18, <1>19, <1>20, <1>21, <1>22, <1>23, <1>24, <1>25,
             <1>26, <1>27, <1>28 DEF Act, Step, Ingest, Engine, Scan

LEMMA LocksHold == Spec => [](\A c \in Calls : LocksInv(c))
<1>1. Init => \A c \in Calls : LocksInv(c)
  BY CatalogAssumption DEF Init, LocksInv, Nothing, Unlisted
<1>2. IInv /\ (\A c \in Calls : LocksInv(c)) /\ [Next]_vars => (\A c \in Calls : LocksInv(c))'
  <2> SUFFICES ASSUME IInv, \A c \in Calls : LocksInv(c), [Next]_vars, NEW d \in Calls
               PROVE  LocksInv(d)'
    OBVIOUS
  <2>1. CASE Next
    <3>1. PICK c \in Calls : Act(c)
      BY <2>1 DEF Next, Act
    <3>2. LocksInv(c)' /\ Untouched(c)
      BY <3>1, LocksKept DEF IInv, OwnInv
    <3>3. CASE d # c
      <4>1. pc'[d] = pc[d] /\ session'[d] = session[d]
        BY <3>1, <3>3, Framed DEF IInv, Same
      <4>2. d # None
        BY CatalogAssumption
      <4>. QED  BY <3>2, <3>3, <4>1, <4>2 DEF LocksInv, Untouched
    <3>. QED  BY <3>2, <3>3
  <2>2. CASE UNCHANGED vars
    BY <2>2 DEF vars, LocksInv
  <2>. QED  BY <2>1, <2>2
<1>. QED  BY <1>1, <1>2, Invariant, PTL DEF Spec

\* While calls are under way one of them has a step to take: every row that holds up
\* a statement is of a session that still writes, so if all were held up they would
\* hold up one another, and that the detector sees.
THEOREM NoMissedDeadlock == Spec => []SomeoneGoes
<1>1. IInv /\ (\A c \in Calls : LocksInv(c)) => SomeoneGoes
  <2> SUFFICES ASSUME IInv, \A c \in Calls : LocksInv(c), NEW c \in Calls, Busy(c),
                      \A d \in Calls : Busy(d) => Waits(d) /\ ~Deadlocked(d)
               PROVE  FALSE
    BY DEF SomeoneGoes
  <2>1. ASSUME NEW d \in Calls, Busy(d) PROVE Blocked(d) /\ Holder(d) \in Calls /\ Busy(Holder(d))
    <3>1. Blocked(d) /\ item[d] \in Keys
      BY <2>1 DEF Waits, IInv, TypeOK
    <3>2. Table(d) \in Tables /\ Holder(d) = lock[Table(d)][item[d]]
      BY <2>1, TableType DEF Waits, Holder
    <3>3. Holder(d) \in Calls
      BY <3>1, <3>2 DEF Blocked, IInv, TypeOK
    <3>4. pc[Holder(d)] \in Holding
      BY <3>1, <3>2, <3>3 DEF LocksInv
    <3>. QED  BY <3>1, <3>3, <3>4 DEF Busy, Holding, Unlisted, Ended
  <2>2. Deadlocked(c)
    <3>. DEFINE S == {d \in Calls : Busy(d)}
    <3>1. S \in SUBSET Calls /\ c \in S
      OBVIOUS
    <3>2. \A d \in S : Blocked(d) /\ Holder(d) \in S
      BY <2>1
    <3>. QED  BY <3>1, <3>2 DEF Deadlocked
  <2>. QED  BY <2>2
<1>. QED  BY <1>1, Invariant, LocksHold, PTL

-----------------------------------------------------------------------------
(* No call repeats anything without an end.                                 *)

\* The row a call is at is one that it has still before it.
TodoInv == \A c \in Calls : item[c] \in todo[c] \cup {None}

LEMMA TodoKept ==
    ASSUME TypeOK, TodoInv, NEW c \in Calls, Act(c), Control(c)
    PROVE  item'[c] \in todo'[c] \cup {None}
<1>. USE DEF TypeOK, TodoInv
<1>1. CASE UNCHANGED <<item, todo>>
  BY <1>1
<1>2. CASE item'[c] = None
  BY <1>2
<1>3. ASSUME NEW k \in Keys, Look(c, k) \/ Upsert(c, k) PROVE item'[c] \in todo'[c] \cup {None}
  BY <1>3 DEF Look, Upsert
<1>4. ASSUME NEW k \in Keys, UpsertRefused(c, k) PROVE item'[c] \in todo'[c] \cup {None}
  BY <1>4 DEF UpsertRefused
<1>5. ASSUME NEW f \in Feeds, Fetch(c, f) \/ Hashes(c, f) PROVE item'[c] = None
  BY <1>5 DEF Fetch, Asks, Hashes, Control, Unlisted
<1>6. ToJobs(c) => item'[c] = None
  BY DEF ToJobs, RecordsDone
<1>7. \/ Crash(c) \/ Write(c) \/ WriteClashes(c) \/ DeadlockVictim(c) \/ Upserted(c) \/ UpsertFails(c)
      => item'[c] = None
  BY DEF Crash, Write, WriteClashes, DeadlockVictim, FlushFails, Upserted, UpsertFails, Abort
<1>8. ASSUME NEW k \in Kinds, NEW p \in Plans, Begin(c, k, p) PROVE UNCHANGED <<item, todo>>
  BY <1>8 DEF Begin, loop
<1>9. /\ AddRunRaises(c) => UNCHANGED <<item, todo>>
      /\ FetchFails(c) => UNCHANGED <<item, todo>>
      /\ TooManyJobs(c) => UNCHANGED <<item, todo>>
      /\ NoJobs(c) => UNCHANGED <<item, todo>>
      /\ CommitJobs(c) => UNCHANGED <<item, todo>>
      /\ Complete(c) => UNCHANGED <<item, todo>>
      /\ PagesDone(c) => UNCHANGED <<item, todo>>
      /\ CommitUpserts(c) => UNCHANGED <<item, todo>>
      /\ CommitUpsertsRaises(c) => UNCHANGED <<item, todo>>
      /\ Audit(c) => UNCHANGED <<item, todo>>
      /\ Backfill(c) => UNCHANGED <<item, todo>>
  BY DEF AddRunRaises, FetchFails, TooManyJobs, CommitFailed, NoJobs, CommitRun, CommitJobs,
         Complete, PagesDone, CommitUpserts, CommitUpsertsRaises, Audit, Backfill, loop
<1>10. Scan(c) => UNCHANGED <<item, todo>>
  BY DEF Scan, ScanStart, Score, ScanEnds, ScanEndRaises, loop
<1>. QED  BY <1>1, <1>2, <1>3, <1>4, <1>5, <1>6, <1>7, <1>8, <1>9, <1>10
             DEF Act, Step, Ingest, Engine

LEMMA TodoHolds == Spec => []TodoInv
<1>1. Init => TodoInv
  BY DEF Init, TodoInv
<1>2. IInv /\ TodoInv /\ [Next]_vars => TodoInv'
  <2> SUFFICES ASSUME IInv, TodoInv, [Next]_vars, NEW d \in Calls
               PROVE  item'[d] \in todo'[d] \cup {None}
    BY DEF TodoInv
  <2>1. CASE Next
    <3>1. PICK c \in Calls : Act(c)
      BY <2>1 DEF Next, Act
    <3>2. CASE d = c
      BY <3>1, <3>2, TodoKept DEF IInv, OwnInv
    <3>3. CASE d # c
      <4>1. item'[d] = item[d] /\ todo'[d] = todo[d]
        BY <3>1, <3>3, Framed DEF IInv, Same
      <4>. QED  BY <4>1 DEF TodoInv
    <3>. QED  BY <3>2, <3>3
  <2>2. CASE UNCHANGED vars
    BY <2>2 DEF vars, loop, TodoInv
  <2>. QED  BY <2>1, <2>2
<1>. QED  BY <1>1, <1>2, Invariant, PTL DEF Spec

LEMMA AllRowsType == AllRows \in Nat
  BY CatalogAssumption, FS_CardinalityType DEF AllRows

\* What rows are left, of the rows S and at the row k.
LEMMA RowsCount ==
    ASSUME NEW S \in SUBSET Keys, NEW k \in S \cup {None}
    PROVE  /\ Cardinality(S) \in Nat
           /\ 2 * Cardinality(S) - (IF k = None THEN 0 ELSE 1) \in 0..AllRows
<1>1. /\ Cardinality(Keys) \in Nat /\ Cardinality(S) \in Nat
      /\ Cardinality(S) <= Cardinality(Keys)
      /\ Cardinality(S) = 0 <=> S = {}
  <2>1. IsFiniteSet(S)
    BY CatalogAssumption, FS_Subset
  <2>. QED  BY <2>1, CatalogAssumption, FS_CardinalityType, FS_Subset, FS_EmptySet
<1>2. k # None => Cardinality(S) >= 1
  BY <1>1
<1>. QED  BY <1>1, <1>2 DEF AllRows

LEMMA RowsFall ==
    ASSUME NEW S \in SUBSET Keys, NEW k \in S
    PROVE  Cardinality(S) \in Nat /\ Cardinality(S \ {k}) = Cardinality(S) - 1
  BY CatalogAssumption, FS_Subset, FS_CardinalityType, FS_RemoveElement

LEMMA PagesUsed ==
    ASSUME TypeOK, NEW c \in Calls, plan'[c] = plan[c], at'[c] \in Nat, at'[c] > at[c]
    PROVE  Advances(c)
<1>1. Len(plan[c]) \in Nat /\ at[c] \in Nat
  BY CatalogAssumption DEF TypeOK
<1>. QED  BY <1>1 DEF Advances, PagesLeft

LEMMA StepsUsed ==
    ASSUME NEW c \in Calls, plan'[c] = plan[c], at'[c] = at[c], StepsLeft(c)' < StepsLeft(c)
    PROVE  Advances(c)
  BY DEF Advances, PagesLeft

\* Every step of a call uses up pages, or steps of its page.
LEMMA StepAdvances ==
    ASSUME TypeOK, TypeOK', TodoInv, TodoInv', NEW c \in Calls, Step(c), Control(c)
    PROVE  Advances(c)
<1>1. /\ AllRows \in Nat /\ AllRows' = AllRows
      /\ RowsLeft(c) \in 0..AllRows /\ RowsLeft(c)' \in 0..AllRows
  <2>1. /\ todo[c] \in SUBSET Keys /\ item[c] \in todo[c] \cup {None}
        /\ todo'[c] \in SUBSET Keys /\ item'[c] \in todo'[c] \cup {None}
    BY DEF TypeOK, TodoInv
  <2>2. RowsLeft(c) \in 0..AllRows
    BY <2>1, RowsCount DEF RowsLeft
  <2>3. RowsLeft(c)' \in 0..AllRows
    BY <2>1, RowsCount DEF RowsLeft
  <2>. QED  BY <2>2, <2>3, AllRowsType DEF AllRows
<1>2. ASSUME at[c] <= Len(plan[c]), plan' = plan,
             \E i \in NextProvider(c) : at' = [at EXCEPT ![c] = i]
      PROVE  Advances(c)
  <2>1. at'[c] \in Nat /\ at'[c] > at[c]
    BY <1>2, PageAt DEF NextProvider, TypeOK
  <2>. QED  BY <1>2, <2>1, PagesUsed
<1>3. CASE AddRunRaises(c)
  BY <1>2, <1>3 DEF AddRunRaises
<1>4. CASE FetchFails(c)
  BY <1>2, <1>4 DEF FetchFails, Asks, CommitFailed
<1>5. CASE WriteClashes(c) \/ DeadlockVictim(c)
  BY <1>2, <1>5 DEF WriteClashes, DeadlockVictim, FlushFails, Control, Paging
<1>6. CASE TooManyJobs(c)
  BY <1>2, <1>6 DEF TooManyJobs, RecordsDone, CommitFailed, Control, Paging
<1>7. CASE NoJobs(c) \/ Complete(c)
  <2>1. plan' = plan /\ at' = [at EXCEPT ![c] = @ + 1]
    BY <1>7 DEF NoJobs, Complete, CommitRun
  <2>2. at[c] \in Nat /\ at'[c] = at[c] + 1
    BY <2>1 DEF TypeOK
  <2>. QED  BY <2>1, <2>2, PagesUsed
<1>8. ASSUME plan' = plan, at' = at, StepsLeft(c)' < StepsLeft(c)
      PROVE  Advances(c)
  BY <1>8, StepsUsed
<1>9. ASSUME pc[c] \in {"page", "records", "jobs", "hashes", "upserts", "scan", "score", "audit",
                        "backfill", "end"},
             \/ pc[c] = "page" /\ pc'[c] \in {"records", "hashes", "score", "done"}
             \/ pc[c] = "records" /\ pc'[c] = "jobs"
             \/ pc[c] = "jobs" /\ pc'[c] = "complete"
             \/ pc[c] = "hashes" /\ pc'[c] = "upserts"
             \/ pc[c] = "upserts" /\ pc'[c] \in {"audit", "backfill"}
             \/ pc[c] = "audit" /\ pc'[c] \in {"done", "backfill"}
             \/ pc[c] = "backfill" /\ pc'[c] \in {"score", "done"}
             \/ pc[c] = "scan" /\ pc'[c] \in {"page", "score", "error"}
             \/ pc[c] = "score" /\ pc'[c] = "end"
             \/ pc[c] = "end" /\ pc'[c] \in {"done", "error"}
      PROVE  StepsLeft(c)' < StepsLeft(c)
  BY <1>1, <1>9 DEF StepsLeft
<1>10. ASSUME pc[c] \in {"records", "jobs", "upserts"}, pc'[c] = pc[c],
              RowsLeft(c)' < RowsLeft(c)
       PROVE  StepsLeft(c)' < StepsLeft(c)
  BY <1>1, <1>10 DEF StepsLeft
<1>11. ASSUME NEW k \in Keys, Look(c, k) \/ Upsert(c, k) PROVE Advances(c)
  <2>1. /\ plan' = plan /\ at' = at /\ pc' = pc /\ pc[c] \in {"records", "jobs", "upserts"}
        /\ todo' = todo /\ item[c] = None /\ item'[c] # None
    BY <1>11, CatalogAssumption DEF Look, Upsert, page, TypeOK
  <2>2. Cardinality(todo[c]) \in Nat
    BY RowsCount DEF TypeOK, TodoInv
  <2>3. RowsLeft(c)' < RowsLeft(c)
    BY <2>1, <2>2 DEF RowsLeft
  <2>. QED  BY <1>8, <1>10, <2>1, <2>3
<1>12. ASSUME NEW k \in Keys, UpsertRefused(c, k) PROVE Advances(c)
  <2>1. /\ plan' = plan /\ at' = at /\ pc' = pc /\ pc[c] = "upserts"
        /\ todo'[c] = todo[c] \ {k} /\ k \in todo[c] /\ item' = item
    BY <1>12 DEF UpsertRefused, page, TypeOK
  <2>2. Cardinality(todo[c]) \in Nat /\ Cardinality(todo'[c]) = Cardinality(todo[c]) - 1
    BY <2>1, RowsFall DEF TypeOK
  <2>3. RowsLeft(c)' < RowsLeft(c)
    BY <2>1, <2>2 DEF RowsLeft
  <2>. QED  BY <1>8, <1>10, <2>1, <2>3
<1>13. CASE Write(c) \/ Upserted(c) \/ UpsertFails(c)
  <2>1. /\ plan' = plan /\ at' = at /\ pc' = pc /\ pc[c] \in {"records", "jobs", "upserts"}
        /\ todo'[c] = todo[c] \ {item[c]} /\ item[c] \in todo[c] /\ item[c] # None
        /\ item'[c] = None
    BY <1>13 DEF Write, Upserted, UpsertFails, Abort, page, TypeOK, TodoInv
  <2>2. Cardinality(todo[c]) \in Nat /\ Cardinality(todo'[c]) = Cardinality(todo[c]) - 1
    BY <2>1, RowsFall DEF TypeOK
  <2>3. RowsLeft(c)' < RowsLeft(c)
    BY <2>1, <2>2 DEF RowsLeft
  <2>. QED  BY <1>8, <1>10, <2>1, <2>3
<1>14. ASSUME NEW f \in Feeds, Fetch(c, f) \/ Hashes(c, f) PROVE Advances(c)
  BY <1>8, <1>9, <1>14 DEF Fetch, Asks, Hashes, Goto, TypeOK
<1>15. CASE ToJobs(c) \/ CommitJobs(c) \/ PagesDone(c)
  BY <1>8, <1>9, <1>15 DEF ToJobs, RecordsDone, CommitJobs, PagesDone, Goto, page, TypeOK
<1>16. CASE CommitUpserts(c) \/ CommitUpsertsRaises(c)
  BY <1>8, <1>9, <1>16 DEF CommitUpserts, CommitUpsertsRaises, UpsertsDone, Goto, TypeOK
<1>17. CASE Audit(c) \/ Backfill(c)
  BY <1>8, <1>9, <1>17 DEF Audit, Backfill, Goto, page, TypeOK
<1>18. CASE Scan(c)
  BY <1>8, <1>9, <1>18 DEF Scan, ScanStart, Score, ScanEnds, ScanEndRaises, Goto, page, TypeOK
<1>. QED  BY <1>3, <1>4, <1>5, <1>6, <1>7, <1>11, <1>12, <1>13, <1>14, <1>15, <1>16, <1>17, <1>18
             DEF Step, Ingest, Engine

\* A call that has begun comes to its end after boundedly many steps, whatever fails on
\* the way and whatever runs beside it: a step leaves fewer pages, or of the same page
\* fewer steps, and no step of another call changes what is left.
THEOREM BoundedSteps == Spec => StepsAreBounded
<1>1. IInv /\ IInv' /\ TodoInv /\ TodoInv' /\ [Next]_vars =>
          [\A c \in Calls : pc[c] # "idle" =>
              \/ Advances(c)
              \/ ~Step(c) /\ PagesLeft(c)' = PagesLeft(c) /\ StepsLeft(c)' = StepsLeft(c)]_vars
  <2> SUFFICES ASSUME IInv, IInv', TodoInv, TodoInv', Next, NEW c \in Calls, pc[c] # "idle",
                      ~Step(c)
               PROVE  \/ Advances(c)
                      \/ PagesLeft(c)' = PagesLeft(c) /\ StepsLeft(c)' = StepsLeft(c)
    BY StepAdvances DEF IInv, OwnInv
  <2>1. PICK d \in Calls : Act(d)
    BY DEF Next, Act
  <2>2. CASE d # c
    BY <2>1, <2>2, Framed DEF IInv, Same, PagesLeft, StepsLeft, RowsLeft, AllRows
  <2>3. CASE d = c
    <3>1. Crash(c)
      BY <2>1, <2>3 DEF Act, Begin
    <3>2. /\ plan'[c] = plan[c] /\ at'[c] = at[c] /\ pc'[c] = "crashed"
          /\ pc[c] \in Phases \ (Ended \cup {"idle"})
      BY <3>1 DEF Crash, Goto, IInv, TypeOK
    <3>3. AllRows \in Nat /\ RowsLeft(c) \in 0..AllRows
      BY AllRowsType, RowsCount DEF RowsLeft, TodoInv, IInv, TypeOK
    <3>4. StepsLeft(c)' < StepsLeft(c)
      BY <3>2, <3>3 DEF StepsLeft, Phases, Ended
    <3>. QED  BY <3>2, <3>4, StepsUsed
  <2>. QED  BY <2>2, <2>3
<1>. QED  BY <1>1, Invariant, TodoHolds, PTL DEF Spec, StepsAreBounded
=============================================================================
