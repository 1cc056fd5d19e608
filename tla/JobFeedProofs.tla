---------------------------- MODULE JobFeedProofs ----------------------------
(***************************************************************************)
(* Proofs about JobFeed, for any number of calls and jobs.                 *)
(***************************************************************************)
EXTENDS JobFeed, FiniteSetTheorems, WellFoundedInduction, TLAPS

\* Sessions whose transaction is open with rows in hand.
Holding == {"lock", "commit", "hide"}
\* A sync that has looked at the dismissals and has not committed yet.
UnderWay(c) == pc[c] \in {"scored", "lock", "commit"} /\ op[c] # "dismiss"
\* An upload whose refresh is committed.
Refreshed(c) == op[c] = "upload" /\ pc[c] \in {"scan", "drop", "done"}
\* An upload whose refresh has looked at the catalog.
Refreshing(c) == op[c] = "upload" /\ UnderWay(c)
\* A sync about to commit scores of a resume older than the upload of c.
Older(d, c) == pc[d] = "commit" /\ version[d] < uploaded[c]

\* Which operation is where, and what its row sets are made of.
CallOk(c) ==
    /\ uploaded[c] <= resume
    /\ pc[c] \in {"cached", "read", "put"} => op[c] = "list"
    /\ pc[c] = "commit" => op[c] # "dismiss"
    /\ pc[c] = "lock" => op[c] \in Forced \cup {"dismiss"}
    /\ pc[c] \in {"idle", "cached", "save", "import", "look", "scored"} => deleted[c] = {}
    /\ pc[c] \in {"cached", "save", "import", "look", "scored"} => op[c] # "dismiss"
    /\ UnderWay(c) => eligible[c] \subseteq catalog
    /\ pc[c] = "commit" => /\ pending[c] \subseteq eligible[c]
                           /\ deleted[c] \subseteq pending[c]
                           /\ op[c] \in Forced => pending[c] = eligible[c]
                           /\ op[c] \notin Forced => deleted[c] = {}
                           /\ op[c] = "upload" => uploaded[c] <= version[c]
    /\ pc[c] = "lock" /\ op[c] # "dismiss" =>
          /\ deleted[c] \subseteq eligible[c]
          /\ \A j \in Jobs : found[c][j] # None => j \in eligible[c]
    /\ op[c] = "dismiss" /\ pc[c] \in Holding =>
          /\ deleted[c] \subseteq {job[c]}
          /\ \A j \in Jobs : found[c][j] # None => j = job[c]
    /\ pc[c] = "hide" => /\ op[c] = "dismiss"
                         /\ pending[c] \subseteq {job[c]}
                         /\ job[c] \in pending[c] \cup dismissed
    /\ pc[c] \in Holding => \A j \in deleted[c] : lock[j] = c

Control ==
    /\ \A j \in Jobs : score[j] # None => j \in catalog
    /\ \A c \in Calls : CallOk(c)

\* A page not yet written and not overtaken is what the tables hold.
PageInv ==
    /\ StaleOnlyByRace
    /\ \A c \in Calls : pc[c] = "put" /\ ~raced[c] => feed[c] = score

DismissInv ==
    /\ DismissalIsFinal
    /\ \A c \in Calls : UnderWay(c) => eligible[c] \cap dismissed \subseteq overlap
    /\ \A c \in Calls : op[c] = "dismiss" /\ pc[c] \in Holding /\ score[job[c]] # None =>
          \/ job[c] \in overlap \cup deleted[c]
          \/ pc[c] = "lock" /\ found[c][job[c]] = score[job[c]]

\* After a refresh the rows are of its resume or a later one, and an older sync
\* finds a row in its way.
ScoredFor(c) == \A j \in Jobs \ dismissed : score[j] # None => score[j].ver >= uploaded[c]
Blocked(d, c) ==
    Older(d, c) => \A j \in pending[d] : j \in dismissed \/ (score[j] # None /\ j \notin deleted[d])

\* During a refresh, what it will not replace is of its resume already.
RestScoredFor(c) ==
    \A j \in Jobs \ (dismissed \cup eligible[c]) : score[j] # None => score[j].ver >= uploaded[c]
Within(d, c) == Older(d, c) => pending[d] \subseteq eligible[c] \cup dismissed

UploadOk(c) ==
    /\ Refreshed(c) => ScoredFor(c) /\ \A d \in Calls : Blocked(d, c)
    /\ Refreshing(c) => RestScoredFor(c) /\ \A d \in Calls : Within(d, c)

UploadInv == \A c \in Calls : UploadOk(c)

IInv == TypeOK /\ Control /\ PageInv /\ DismissInv /\ UploadInv

-----------------------------------------------------------------------------
(* Types.                                                                   *)

USE DEF AllOps, Forced, Syncing, Ended

LEMMA InitTypes == Init => TypeOK
<1> SUFFICES ASSUME Init PROVE TypeOK
  OBVIOUS
<1>1. PICK S \in SUBSET catalog :
         score = [j \in Jobs |-> IF j \in S THEN [by |-> None, ver |-> 1] ELSE None]
  BY DEF Init
<1>2. score \in [Jobs -> Row \cup {None}]
  BY <1>1 DEF Row
<1>3. \A c \in Calls : op[c] # "dismiss"
  BY JobFeedAssumption DEF Init
<1>. QED  BY <1>2, <1>3 DEF Init, TypeOK

LEMMA AfterSyncType ==
    \A c : AfterSync(c) \in {"read", "done"} /\ (AfterSync(c) = "read" => op[c] = "list")
  BY DEF AfterSync

LEMMA StepTypes ==
    ASSUME TypeOK, NEW c \in Calls, Step(c)
    PROVE  TypeOK'
<1>1. ASSUME NEW v \in Views, CacheGet(c, v) PROVE TypeOK'
  BY <1>1 DEF TypeOK, CacheGet, Goto, tables, session, history
<1>2. ASSUME NEW v \in Views, PutPage(c, v) PROVE TypeOK'
  <2>1. CASE UNCHANGED cache
    BY <1>2, <2>1 DEF TypeOK, PutPage, Goto, tables, session, history
  <2>2. CASE cache' = [cache EXCEPT ![v] = [rows |-> feed[c], raced |-> raced[c]]]
    <3>1. [rows |-> feed[c], raced |-> raced[c]] \in [rows: [Jobs -> Row \cup {None}], raced: BOOLEAN]
      BY DEF TypeOK
    <3>2. /\ DOMAIN cache' = Views
          /\ \A w \in Views : cache'[w] # None =>
                cache'[w] \in [rows: [Jobs -> Row \cup {None}], raced: BOOLEAN]
      BY <2>2, <3>1 DEF TypeOK
    <3>. QED  BY <1>2, <3>2 DEF TypeOK, PutPage, Goto, tables, session, history
  <2>. QED  BY <1>2, <2>1, <2>2 DEF PutPage
<1>3. CASE SaveResume(c)
  BY <1>3 DEF TypeOK, SaveResume, Goto, session, history
<1>4. ASSUME NEW j \in Jobs, ImportJob(c, j) PROVE TypeOK'
  BY <1>4 DEF TypeOK, ImportJob, Goto, session, history
<1>5. ASSUME NEW j \in Jobs, LockRow(c, j) PROVE TypeOK'
  <2>1. found' \in [Calls -> [Jobs -> Row \cup {None}]]
    BY <1>5 DEF TypeOK, LockRow
  <2>2. lock' \in [Jobs -> Calls \cup {None}] /\ deleted' \in [Calls -> SUBSET Jobs]
    <3>1. /\ lock' = lock \/ lock' = [lock EXCEPT ![j] = c]
          /\ deleted' = deleted \/ deleted' = [deleted EXCEPT ![c] = deleted[c] \cup {j}]
      BY <1>5 DEF LockRow
    <3>2. lock' \in [Jobs -> Calls \cup {None}]
      BY <3>1 DEF TypeOK
    <3>3. deleted' \in [Calls -> SUBSET Jobs]
      <4>1. deleted[c] \cup {j} \in SUBSET Jobs
        BY DEF TypeOK
      <4>2. deleted \in [Calls -> SUBSET Jobs]
        BY DEF TypeOK
      <4>3. CASE deleted' = deleted
        BY <4>2, <4>3
      <4>4. CASE deleted' = [deleted EXCEPT ![c] = deleted[c] \cup {j}]
        BY <4>1, <4>2, <4>4
      <4>. QED  BY <3>1, <4>3, <4>4
    <3>. QED  BY <3>2, <3>3
  <2>. QED  BY <1>5, <2>1, <2>2 DEF TypeOK, LockRow, tables, history
<1>6. CASE SyncLook(c)
  BY <1>6, AfterSyncType DEF TypeOK, SyncLook, Goto, tables, history
<1>7. CASE SyncScored(c)
  BY <1>7 DEF TypeOK, SyncScored, Goto, tables, history
<1>8. CASE SyncDelete(c)
  BY <1>8 DEF TypeOK, SyncDelete, Goto, tables, history
<1>9. CASE SyncDeleted(c)
  BY <1>9 DEF TypeOK, SyncDeleted, AllLocked, Goto, tables, history
<1>10. CASE SyncCommit(c)
  <2>1. score' \in [Jobs -> Row \cup {None}]
    BY <1>10 DEF TypeOK, SyncCommit, Row
  <2>2. overlap' \subseteq Jobs
    BY <1>10 DEF TypeOK, SyncCommit
  <2>3. raced' \in [Calls -> BOOLEAN]
    BY <1>10 DEF TypeOK, SyncCommit
  <2>4. pc' \in [Calls -> {"idle", "cached", "save", "import", "scan", "drop", "read",
                         "put", "hide"} \cup Syncing \cup Ended]
    BY <1>10, AfterSyncType DEF TypeOK, SyncCommit, Goto
  <2>. QED  BY <1>10, <2>1, <2>2, <2>3, <2>4 DEF TypeOK, SyncCommit, Release, session
<1>11. ASSUME Fail(c) PROVE TypeOK'
  BY <1>11 DEF TypeOK, Fail, Release, Goto, tables, session, history
<1>12. CASE DismissLook(c)
  BY <1>12 DEF TypeOK, DismissLook, AllLocked, Goto, tables, history
<1>13. CASE DismissCommit(c)
  <2>1. score' \in [Jobs -> Row \cup {None}] /\ dismissed' \subseteq Jobs
    BY <1>13 DEF TypeOK, DismissCommit
  <2>2. overlap' \subseteq Jobs
    BY <1>13 DEF TypeOK, DismissCommit
  <2>3. raced' \in [Calls -> BOOLEAN]
    BY <1>13 DEF TypeOK, DismissCommit
  <2>. QED  BY <1>13, <2>1, <2>2, <2>3 DEF TypeOK, DismissCommit, Release, Goto, session
<1>14. CASE Scan(c)
  BY <1>14 DEF TypeOK, Scan, Goto, tables, session, history
<1>15. CASE Drop(c)
  BY <1>15, AfterSyncType DEF TypeOK, Drop, Goto, tables, session, history
<1>16. CASE InvalidateFails(c)
  BY <1>16, AfterSyncType DEF TypeOK, InvalidateFails, Goto, tables, session
<1>17. CASE ReadPage(c)
  BY <1>17 DEF TypeOK, ReadPage, Goto, tables, session, history
<1>. QED  BY <1>1, <1>2, <1>3, <1>4, <1>5, <1>6, <1>7, <1>8, <1>9, <1>10, <1>11, <1>12, <1>13,
             <1>14, <1>15, <1>16, <1>17
          DEF Step, SyncConflict, DeadlockVictim, DismissConflict

LEMMA NextTypes == TypeOK /\ [Next]_vars => TypeOK'
<1> SUFFICES ASSUME TypeOK, [Next]_vars PROVE TypeOK'
  OBVIOUS
<1>1. ASSUME NEW c \in Calls, NEW o \in Ops, Begin(c, o) PROVE TypeOK'
  <2>1. o \in {"list", "recompute", "upload", "discover"}
    BY <1>1, JobFeedAssumption DEF Begin
  <2>2. FirstStep[o] \in {"cached", "look", "save", "import"}
    BY <2>1 DEF FirstStep
  <2>. QED  BY <1>1, <2>1, <2>2 DEF TypeOK, Begin, Goto, tables, session, history
<1>2. ASSUME NEW c \in Calls, NEW j \in Jobs, DismissBegin(c, j) PROVE TypeOK'
  BY <1>2 DEF TypeOK, DismissBegin, Goto, tables, history
<1>3. ASSUME NEW c \in Calls, Crash(c) PROVE TypeOK'
  BY <1>3 DEF TypeOK, Crash, Release, Goto, tables, session
<1>4. ASSUME NEW v \in Views, Expire(v) PROVE TypeOK'
  BY <1>4 DEF TypeOK, Expire, tables, session, history
<1>5. CASE UNCHANGED vars
  BY <1>5 DEF TypeOK, vars, tables, session, history
<1>. QED  BY <1>1, <1>2, <1>3, <1>4, <1>5, StepTypes DEF Next

\* Every variable stays within its type: the states, row sets and versions the
\* code can hold.
THEOREM TypeCorrect == Spec => []TypeOK
  BY InitTypes, NextTypes, PTL DEF Spec

-----------------------------------------------------------------------------
(* What a step of one call leaves alone.                                    *)

\* The call d is where it was.
Same(d) ==
    /\ pc'[d] = pc[d] /\ op'[d] = op[d] /\ job'[d] = job[d]
    /\ eligible'[d] = eligible[d] /\ found'[d] = found[d] /\ deleted'[d] = deleted[d]
    /\ pending'[d] = pending[d] /\ version'[d] = version[d]
    /\ keys'[d] = keys[d] /\ feed'[d] = feed[d] /\ uploaded'[d] = uploaded[d]

\* Jobs, dismissals and resumes are only added.
Grows == /\ catalog \subseteq catalog' /\ dismissed \subseteq dismissed' /\ resume <= resume'
         /\ overlap \subseteq overlap' /\ (missed => missed')

\* A step of the call c leaves the other calls and their locks alone.
Framed(c) ==
    /\ Grows
    /\ \A d \in Calls \ {c} : Same(d) /\ (raced[d] => raced'[d])
    /\ \A j \in Jobs : lock[j] \notin {None, c} => lock'[j] = lock[j]

LEMMA StepFramed ==
    ASSUME TypeOK, NEW c \in Calls, Step(c) \/ Crash(c)
    PROVE  Framed(c)
<1> USE DEF Framed, Grows, Same, tables, session, history, Goto, TypeOK
<1>1. ASSUME NEW v \in Views, CacheGet(c, v) \/ PutPage(c, v) PROVE Framed(c)
  BY <1>1 DEF CacheGet, PutPage
<1>2. ASSUME SaveResume(c) \/ SyncLook(c) \/ SyncScored(c) \/ SyncDelete(c) \/ SyncDeleted(c)
      PROVE  Framed(c)
  BY <1>2 DEF SaveResume, SyncLook, SyncScored, SyncDelete, SyncDeleted
<1>3. ASSUME NEW j \in Jobs, ImportJob(c, j) PROVE Framed(c)
  BY <1>3 DEF ImportJob
<1>4. ASSUME NEW j \in Jobs, LockRow(c, j) PROVE Framed(c)
  <2>1. /\ lock' = lock \/ lock' = [lock EXCEPT ![j] = c]
        /\ deleted' = deleted \/ deleted' = [deleted EXCEPT ![c] = deleted[c] \cup {j}]
        /\ lock[j] = None
    BY <1>4 DEF LockRow
  <2>2. \A d \in Calls \ {c} : deleted'[d] = deleted[d]
    BY <2>1
  <2>3. \A k \in Jobs : lock[k] \notin {None, c} => lock'[k] = lock[k]
    BY <2>1
  <2>. QED  BY <1>4, <2>2, <2>3 DEF LockRow
<1>5. CASE SyncCommit(c)
  BY <1>5 DEF SyncCommit, Release
<1>6. ASSUME Fail(c) PROVE Framed(c)
  BY <1>6 DEF Fail, Release
<1>7. CASE DismissLook(c)
  BY <1>7 DEF DismissLook
<1>8. CASE DismissCommit(c)
  BY <1>8 DEF DismissCommit, Release
<1>9. ASSUME Scan(c) \/ Drop(c) \/ InvalidateFails(c) \/ ReadPage(c) PROVE Framed(c)
  BY <1>9 DEF Scan, Drop, InvalidateFails, ReadPage
<1>10. CASE Crash(c)
  BY <1>10 DEF Crash, Release
<1> HIDE DEF Framed, Grows, Same, tables, session, history, Goto, TypeOK
<1>. QED  BY <1>1, <1>2, <1>3, <1>4, <1>5, <1>6, <1>7, <1>8, <1>9, <1>10
          DEF Step, SyncConflict, DeadlockVictim, DismissConflict

\* What holds of a call goes on to hold while the others work.
LEMMA SameCallOk ==
    ASSUME TypeOK, TypeOK', NEW c, NEW d \in Calls \ {c}, Framed(c), CallOk(d)
    PROVE  CallOk(d)'
<1>1. /\ Same(d) /\ catalog \subseteq catalog' /\ dismissed \subseteq dismissed' /\ resume <= resume'
      /\ \A j \in Jobs : lock[j] = d => lock'[j] = d
  BY JobFeedAssumption DEF Framed, Grows
<1>2. deleted[d] \subseteq Jobs /\ uploaded[d] \in Nat /\ resume \in Nat
  BY DEF TypeOK
<1>3. resume' \in Nat
  BY DEF TypeOK
<1>4. (uploaded[d] <= resume)' /\ (pc[d] \in Holding => \A j \in deleted[d] : lock[j] = d)'
  BY <1>1, <1>2, <1>3 DEF CallOk, Same
<1>. QED  BY <1>1, <1>4 DEF CallOk, Same, UnderWay

-----------------------------------------------------------------------------
(* Control.                                                                 *)

LEMMA StepCallOk ==
    ASSUME TypeOK, TypeOK', Control, NEW c \in Calls, Step(c) \/ Crash(c)
    PROVE  CallOk(c)'
<1>0. CallOk(c) /\ uploaded[c] \in Nat /\ resume \in Nat
  BY DEF Control, TypeOK
<1> USE <1>0 DEF CallOk, UnderWay, Holding, Goto
<1>a. pc \in [Calls -> {"idle", "cached", "save", "import", "scan", "drop", "read", "put", "hide",
                        "look", "scored", "lock", "commit", "done", "error", "crashed"}]
  BY DEF TypeOK
<1>1. ASSUME NEW v \in Views, CacheGet(c, v) \/ PutPage(c, v) PROVE CallOk(c)'
  BY <1>1, <1>a DEF CacheGet, PutPage, tables, session
<1>2. CASE SaveResume(c)
  <2>1. (uploaded[c] <= resume)'
    BY <1>2 DEF SaveResume, TypeOK
  <2>. QED  BY <1>2, <1>a, <2>1 DEF SaveResume, session
<1>3. CASE SyncLook(c)
  <2>1. eligible'[c] \subseteq catalog
    BY <1>3 DEF SyncLook, TypeOK
  <2>. QED  BY <1>3, <1>a, <2>1, AfterSyncType DEF SyncLook, tables
<1>4. CASE SyncScored(c)
  <2>1. /\ pending'[c] \subseteq eligible[c] /\ deleted'[c] = {} /\ pc'[c] = "commit"
    BY <1>4, <1>a DEF SyncScored, TypeOK
  <2>. QED  BY <1>4, <1>a, <2>1 DEF SyncScored, tables
<1>5. CASE SyncDelete(c)
  <2>1. \A j \in Jobs : found'[c][j] # None => j \in eligible[c]
    BY <1>5 DEF SyncDelete, TypeOK
  <2>. QED  BY <1>5, <1>a, <2>1 DEF SyncDelete, tables
<1>6. CASE SyncDeleted(c)
  <2>1. pending'[c] = eligible[c] /\ version'[c] = resume /\ pc'[c] = "commit" /\ pc[c] = "lock"
    BY <1>6, <1>a DEF SyncDeleted, AllLocked, TypeOK
  <2>. QED  BY <1>6, <1>a, <2>1 DEF SyncDeleted, tables
<1>7. ASSUME NEW j \in Jobs, ImportJob(c, j) PROVE CallOk(c)'
  BY <1>7, <1>a DEF ImportJob, session
<1>8. ASSUME NEW j \in Jobs, LockRow(c, j) PROVE CallOk(c)'
  <2>1. \A k \in Jobs : found'[c][k] # None => found[c][k] # None
    BY <1>8 DEF LockRow, TypeOK
  <2>2. CASE UNCHANGED <<lock, deleted>>
    BY <1>8, <2>1, <2>2, <1>a DEF LockRow, tables
  <2>3. CASE lock' = [lock EXCEPT ![j] = c] /\ deleted' = [deleted EXCEPT ![c] = deleted[c] \cup {j}]
    <3>1. deleted'[c] = deleted[c] \cup {j} /\ found[c][j] # None
      BY <1>8, <2>3 DEF TypeOK, LockRow
    <3>2. \A k \in deleted'[c] : lock'[k] = c
      BY <1>8, <2>3, <3>1 DEF TypeOK, LockRow
    <3>. QED  BY <1>8, <2>1, <2>3, <3>1, <3>2, <1>a DEF LockRow, tables
  <2>. QED  BY <1>8, <2>2, <2>3 DEF LockRow
<1>9. CASE SyncCommit(c)
  <2>1. pc'[c] \in {"scan", "read", "done"} /\ (pc'[c] = "read" => op[c] = "list")
    BY <1>9, <1>a, AfterSyncType DEF SyncCommit
  <2>. QED  BY <1>9, <2>1 DEF SyncCommit, session
<1>10. ASSUME Fail(c) PROVE CallOk(c)'
  BY <1>10, <1>a DEF Fail, tables, session
<1>11. CASE DismissLook(c)
  <2>1. /\ pending'[c] = {job[c]} \ dismissed /\ pc'[c] = "hide" /\ op[c] = "dismiss"
        /\ pc[c] = "lock"
    BY <1>11, <1>a DEF DismissLook, AllLocked, TypeOK
  <2>. QED  BY <1>11, <1>a, <2>1 DEF DismissLook, tables
<1>12. CASE DismissCommit(c)
  BY <1>12, <1>a DEF DismissCommit, session
<1>13. CASE Scan(c)
  BY <1>13, <1>a DEF Scan, tables, session
<1>14. CASE Drop(c) \/ InvalidateFails(c)
  BY <1>14, <1>a, AfterSyncType DEF Drop, InvalidateFails, tables, session
<1>15. CASE ReadPage(c) \/ Crash(c)
  BY <1>15, <1>a DEF ReadPage, Crash, tables, session
<1>. HIDE DEF CallOk
<1>. QED  BY <1>1, <1>2, <1>3, <1>4, <1>5, <1>6, <1>7, <1>8, <1>9, <1>10, <1>11, <1>12, <1>13,
             <1>14, <1>15
          DEF Step, SyncConflict, DeadlockVictim, DismissConflict

\* Only a commit changes the rows.
LEMMA WhoWrites ==
    ASSUME NEW c \in Calls, Step(c) \/ Crash(c)
    PROVE  \/ UNCHANGED <<score, dismissed, overlap>> /\ (UNCHANGED catalog \/ pc[c] = "import")
           \/ SyncCommit(c) \/ DismissCommit(c)
  BY DEF Step, Crash, CacheGet, PutPage, SaveResume, ImportJob, LockRow, SyncLook, SyncScored,
         SyncDelete, SyncDeleted, SyncConflict, DeadlockVictim, DismissConflict, Fail, DismissLook,
         Scan, Drop, InvalidateFails, ReadPage, tables, session, history

LEMMA InitControl == Init => Control
<1> SUFFICES ASSUME Init PROVE Control
  OBVIOUS
<1>1. ASSUME NEW c \in Calls PROVE CallOk(c)
  BY <1>1 DEF Init, CallOk, UnderWay, Holding
<1>2. \A j \in Jobs : score[j] # None => j \in catalog
  BY DEF Init
<1>. QED  BY <1>1, <1>2 DEF Control

LEMMA StepControl ==
    ASSUME TypeOK, TypeOK', Control, NEW c \in Calls, Step(c) \/ Crash(c)
    PROVE  Control'
<1>1. ASSUME NEW d \in Calls PROVE CallOk(d)'
  <2>1. CASE d = c
    BY <2>1, StepCallOk
  <2>2. CASE d # c
    <3>1. CallOk(d) /\ Framed(c)
      BY StepFramed DEF Control
    <3>. QED  BY <2>2, <3>1, SameCallOk
  <2>. QED  BY <2>1, <2>2
<1>2. ASSUME NEW j \in Jobs, score'[j] # None PROVE j \in catalog'
  <2>1. catalog \subseteq catalog'
    BY StepFramed DEF Framed, Grows
  <2>2. score[j] # None => j \in catalog
    BY DEF Control
  <2>3. CASE SyncCommit(c)
    <3>1. pending[c] \subseteq catalog
      BY <2>3 DEF Control, CallOk, UnderWay, SyncCommit
    <3>2. j \in pending[c] \/ score[j] # None
      BY <1>2, <2>3 DEF SyncCommit
    <3>. QED  BY <2>1, <2>2, <3>1, <3>2
  <2>4. CASE DismissCommit(c)
    BY <1>2, <2>1, <2>2, <2>4 DEF DismissCommit
  <2>. QED  BY <1>2, <2>1, <2>2, <2>3, <2>4, WhoWrites
<1>. QED  BY <1>1, <1>2 DEF Control

\* A step that is not one of a call that has begun.
Begins(c) == (\E o \in Ops : Begin(c, o)) \/ \E j \in Jobs : DismissBegin(c, j)

LEMMA BeginFramed ==
    ASSUME TypeOK, NEW c \in Calls, Begins(c)
    PROVE  /\ Framed(c) /\ UNCHANGED <<tables, lock, cache, deleted, pending, keys, feed, history>>
           /\ pc[c] = "idle" /\ pc'[c] \in {"cached", "save", "import", "look", "lock"}
  BY JobFeedAssumption
     DEF Framed, Grows, Same, Begins, Begin, DismissBegin, FirstStep, Goto, TypeOK, tables, session,
         history

LEMMA BeginControl ==
    ASSUME TypeOK, TypeOK', Control, NEW c \in Calls, Begins(c)
    PROVE  Control'
<1>0. CallOk(c) /\ Framed(c) /\ UNCHANGED <<catalog, score>>
  BY BeginFramed DEF Control, tables
<1>1. CallOk(c)'
  <2>1. ASSUME NEW o \in Ops, Begin(c, o) PROVE CallOk(c)'
    <3>1. /\ op'[c] = o /\ o # "dismiss" /\ pc'[c] \in {"cached", "save", "import", "look"}
          /\ pc'[c] = "cached" => o = "list"
      BY <2>1, JobFeedAssumption DEF Begin, FirstStep, TypeOK, Goto
    <3>. QED  BY <1>0, <2>1, <3>1 DEF CallOk, UnderWay, Holding, Begin, tables, session
  <2>2. ASSUME NEW j \in Jobs, DismissBegin(c, j) PROVE CallOk(c)'
    <3>1. /\ op'[c] = "dismiss" /\ pc'[c] = "lock" /\ job'[c] = j
          /\ \A k \in Jobs : found'[c][k] # None => k = j
      BY <2>2 DEF DismissBegin, TypeOK, Goto
    <3>. QED  BY <1>0, <2>2, <3>1 DEF CallOk, UnderWay, Holding, DismissBegin, tables
  <2>. QED  BY <2>1, <2>2 DEF Begins
<1>2. ASSUME NEW d \in Calls, d # c PROVE CallOk(d)'
  BY <1>0, <1>2, SameCallOk DEF Control
<1>. QED  BY <1>0, <1>1, <1>2 DEF Control

LEMMA NextControl == TypeOK /\ TypeOK' /\ Control /\ [Next]_vars => Control'
<1> SUFFICES ASSUME TypeOK, TypeOK', Control, [Next]_vars PROVE Control'
  OBVIOUS
<1>1. ASSUME UNCHANGED <<tables, lock, pc, op, job, session, uploaded>> PROVE Control'
  BY <1>1 DEF Control, CallOk, UnderWay, Holding, tables, session
<1>. QED  BY <1>1, StepControl, BeginControl DEF Next, Begins, Expire, vars

-----------------------------------------------------------------------------
(* The cached pages.                                                        *)

\* Something is still to remove the page v.
ToGo(v) == missed \/ \E c \in Calls : pc[c] = "scan" \/ (pc[c] = "drop" /\ v \in keys[c])

LEMMA ToGoSame ==
    ASSUME NEW c \in Calls, Framed(c), pc[c] \notin {"scan", "drop"}, NEW v \in Views, ToGo(v)
    PROVE  ToGo(v)'
<1>1. CASE missed
  BY <1>1 DEF ToGo, Framed, Grows
<1>2. ASSUME NEW d \in Calls, pc[d] = "scan" \/ (pc[d] = "drop" /\ v \in keys[d]) PROVE ToGo(v)'
  <2>1. Same(d)
    BY <1>2 DEF Framed
  <2>. QED  BY <1>2, <2>1 DEF Same, ToGo
<1>. QED  BY <1>1, <1>2 DEF ToGo

Fresh(c) == pc[c] = "put" /\ ~raced[c] => feed[c] = score
Backed(v) == cache[v] # None /\ cache[v].rows # score => cache[v].raced \/ ToGo(v)

LEMMA PageParts == PageInv <=> (\A v \in Views : Backed(v)) /\ \A c \in Calls : Fresh(c)
  BY DEF PageInv, StaleOnlyByRace, Backed, Fresh, ToGo

LEMMA PagesNext ==
    ASSUME \A v \in Views : Backed(v)', \A c \in Calls : Fresh(c)'
    PROVE  PageInv'
  BY DEF PageInv, StaleOnlyByRace, Backed, Fresh, ToGo

\* Steps that neither commit nor touch the cache.
LEMMA QuietPages ==
    ASSUME PageInv, NEW c \in Calls, Framed(c), UNCHANGED <<score, cache>>,
           pc[c] \notin {"scan", "drop"} \/ missed',
           Fresh(c)'
    PROVE  PageInv'
<1>1. ASSUME NEW v \in Views PROVE Backed(v)'
  <2>1. Backed(v) /\ (ToGo(v) => ToGo(v)')
    BY PageParts, ToGoSame DEF ToGo
  <2>. QED  BY <2>1 DEF Backed
<1>2. ASSUME NEW d \in Calls, d # c PROVE Fresh(d)'
  BY <1>2, PageParts DEF Fresh, Framed, Same
<1>3. \A d \in Calls : Fresh(d)'
  BY <1>2
<1>. QED  BY <1>1, <1>3, PagesNext

LEMMA CommitPages ==
    ASSUME PageInv, NEW c \in Calls, Framed(c), UNCHANGED cache,
           pc[c] \notin {"scan", "drop"}, pc'[c] # "put",
           \A d \in Calls : raced'[d] = (raced[d] \/ (pc[d] = "put" /\ score' # score)),
           score' = score \/ pc'[c] = "scan"
    PROVE  PageInv'
<1>1. ASSUME NEW v \in Views PROVE Backed(v)'
  <2>1. Backed(v) /\ (ToGo(v) => ToGo(v)')
    BY PageParts, ToGoSame
  <2>. QED  BY <2>1 DEF Backed, ToGo
<1>2. ASSUME NEW d \in Calls PROVE Fresh(d)'
  BY PageParts DEF Fresh, Framed, Same
<1>. QED  BY <1>1, <1>2, PagesNext

LEMMA StepPages ==
    ASSUME TypeOK, Control, PageInv, NEW c \in Calls, Step(c) \/ Crash(c)
    PROVE  PageInv'
<1>0. Framed(c)
  BY StepFramed
<1>a. pc \in [Calls -> {"idle", "cached", "save", "import", "scan", "drop", "read", "put", "hide",
                        "look", "scored", "lock", "commit", "done", "error", "crashed"}]
  BY DEF TypeOK
<1>1. ASSUME NEW v \in Views, CacheGet(c, v) PROVE PageInv'
  <2>1. pc[c] = "cached" /\ pc'[c] \in {"done", "look"} /\ UNCHANGED <<score, cache>>
    BY <1>1, <1>a DEF CacheGet, Goto, tables
  <2>. QED  BY <1>0, <2>1, QuietPages DEF Fresh
<1>2. ASSUME NEW v \in Views, PutPage(c, v) PROVE PageInv'
  <2>1. pc[c] = "put" /\ pc'[c] = "done" /\ UNCHANGED <<score, raced, feed>>
    BY <1>2, <1>a DEF PutPage, Goto, tables, history
  <2>2. CASE UNCHANGED cache
    BY <1>0, <2>1, <2>2, QuietPages DEF Fresh
  <2>3. CASE cache' = [cache EXCEPT ![v] = [rows |-> feed[c], raced |-> raced[c]]]
    <3>1. ASSUME NEW w \in Views PROVE Backed(w)'
      <4>1. Backed(w) /\ (ToGo(w) => ToGo(w)') /\ Fresh(c)
        BY <1>0, <2>1, ToGoSame, PageParts
      <4>2. cache'[w] = IF w = v THEN [rows |-> feed[c], raced |-> raced[c]] ELSE cache[w]
        BY <2>3 DEF TypeOK
      <4>. QED  BY <2>1, <4>1, <4>2 DEF Backed, Fresh
    <3>2. ASSUME NEW d \in Calls PROVE Fresh(d)'
      BY <1>0, <2>1, PageParts DEF Fresh, Framed, Same
    <3>. QED  BY <3>1, <3>2, PagesNext
  <2>. QED  BY <1>2, <2>2, <2>3 DEF PutPage
<1>3. CASE SyncCommit(c)
  <2>1. /\ pc[c] = "commit" /\ pc'[c] \in {"scan", "read", "done"} /\ UNCHANGED cache
        /\ pc'[c] # "scan" => pending[c] = {} /\ op[c] \notin Forced
    BY <1>3, <1>a, AfterSyncType DEF SyncCommit, Goto
  <2>2. \A d \in Calls : raced'[d] = (raced[d] \/ (pc[d] = "put" /\ score' # score))
    BY <1>3 DEF SyncCommit
  <2>3. pc'[c] # "scan" => score' = score
    <3>1. pc'[c] # "scan" => deleted[c] = {} /\ pending[c] = {}
      BY <2>1 DEF Control, CallOk
    <3>. QED  BY <1>3, <3>1 DEF SyncCommit, TypeOK
  <2>. QED  BY <1>0, <2>1, <2>2, <2>3, CommitPages
<1>4. CASE DismissCommit(c)
  <2>1. /\ pc[c] = "hide" /\ pc'[c] = "scan" /\ UNCHANGED cache
    BY <1>4, <1>a DEF DismissCommit, Goto
  <2>2. \A d \in Calls : raced'[d] = (raced[d] \/ (pc[d] = "put" /\ score' # score))
    BY <1>4 DEF DismissCommit
  <2>. QED  BY <1>0, <2>1, <2>2, CommitPages
<1>5. CASE Scan(c)
  <2>1. /\ pc[c] = "scan" /\ pc'[c] = "drop" /\ UNCHANGED <<cache, score, raced, feed, missed>>
        /\ keys'[c] = {v \in Views : cache[v] # None}
    BY <1>5, <1>a DEF Scan, Goto, tables, history, TypeOK
  <2>2. ASSUME NEW v \in Views PROVE Backed(v)'
    BY <2>1 DEF Backed, ToGo
  <2>3. ASSUME NEW d \in Calls PROVE Fresh(d)'
    BY <1>0, <2>1, PageParts DEF Fresh, Framed, Same
  <2>. QED  BY <2>2, <2>3, PagesNext
<1>6. CASE Drop(c)
  <2>1. /\ pc[c] = "drop" /\ pc'[c] \in {"read", "done"} /\ UNCHANGED <<score, raced, feed, missed>>
        /\ \A v \in Views : cache'[v] = IF v \in keys[c] THEN None ELSE cache[v]
    BY <1>6, <1>a, AfterSyncType DEF Drop, Goto, tables, history
  <2>2. ASSUME NEW v \in Views PROVE Backed(v)'
    <3>1. ToGo(v) => v \in keys[c] \/ ToGo(v)'
      BY <1>0, <2>1 DEF ToGo, Framed, Same
    <3>. QED  BY <2>1, <3>1, PageParts DEF Backed
  <2>3. ASSUME NEW d \in Calls PROVE Fresh(d)'
    BY <1>0, <2>1, PageParts DEF Fresh, Framed, Same
  <2>. QED  BY <2>2, <2>3, PagesNext
<1>7. CASE InvalidateFails(c)
  <2>1. missed' /\ pc'[c] \in {"read", "done"} /\ UNCHANGED <<score, cache>>
    BY <1>7, <1>a, AfterSyncType DEF InvalidateFails, Goto, tables
  <2>. QED  BY <1>0, <2>1, QuietPages DEF Fresh
<1>8. CASE ReadPage(c)
  <2>1. /\ pc[c] = "read" /\ feed'[c] = score /\ UNCHANGED <<score, cache>>
    BY <1>8, <1>a DEF ReadPage, Goto, tables, TypeOK
  <2>. QED  BY <1>0, <2>1, QuietPages DEF Fresh
<1>9. CASE Crash(c)
  <2>1. (pc[c] \notin {"scan", "drop"} \/ missed') /\ pc'[c] = "crashed" /\ UNCHANGED <<score, cache>>
    BY <1>9, <1>a DEF Crash, Goto, tables
  <2>. QED  BY <1>0, <2>1, QuietPages DEF Fresh
<1>10. ASSUME \/ SaveResume(c) \/ (\E j \in Jobs : ImportJob(c, j) \/ LockRow(c, j))
              \/ SyncLook(c) \/ SyncScored(c) \/ SyncDelete(c) \/ SyncDeleted(c) \/ DismissLook(c)
              \/ (Fail(c) /\ pc[c] \notin {"scan", "drop", "put"})
       PROVE  PageInv'
  <2>1. pc[c] \notin {"scan", "drop", "put"} /\ UNCHANGED <<score, cache>>
    BY <1>10 DEF SaveResume, ImportJob, LockRow, SyncLook, SyncScored, SyncDelete, SyncDeleted,
                 DismissLook, AllLocked, Fail, tables
  <2>2. pc'[c] # "put"
    BY <1>10, <1>a, AfterSyncType
       DEF SaveResume, ImportJob, LockRow, SyncLook, SyncScored, SyncDelete, SyncDeleted,
           DismissLook, Fail, Goto
  <2>. QED  BY <1>0, <2>1, <2>2, QuietPages DEF Fresh
<1>11. DeadlockVictim(c) => Fail(c) /\ pc[c] \notin {"scan", "drop", "put"}
  BY DEF DeadlockVictim, Deadlocked, WaitsFor
<1>. QED  BY <1>1, <1>2, <1>3, <1>4, <1>5, <1>6, <1>7, <1>8, <1>9, <1>10, <1>11
          DEF Step, SyncConflict, DismissConflict

LEMMA NextPages == TypeOK /\ Control /\ PageInv /\ [Next]_vars => PageInv'
<1> SUFFICES ASSUME TypeOK, Control, PageInv, [Next]_vars PROVE PageInv'
  OBVIOUS
<1>1. ASSUME NEW c \in Calls, Begins(c) PROVE PageInv'
  <2>1. Framed(c) /\ pc[c] = "idle" /\ pc'[c] # "put" /\ UNCHANGED <<score, cache>>
    BY <1>1, BeginFramed DEF tables
  <2>. QED  BY <2>1, QuietPages DEF Fresh
<1>2. ASSUME NEW v \in Views, Expire(v) PROVE PageInv'
  <2>1. \A w \in Views : cache'[w] = IF w = v THEN None ELSE cache[w]
    BY <1>2 DEF Expire, TypeOK
  <2>. QED  BY <1>2, <2>1 DEF PageInv, StaleOnlyByRace, Expire, tables, history
<1>3. CASE UNCHANGED vars
  BY <1>3 DEF PageInv, StaleOnlyByRace, vars, tables, history
<1>. QED  BY <1>1, <1>2, <1>3, StepPages DEF Next, Begins

-----------------------------------------------------------------------------
(* Dismissals.                                                              *)

\* The row of the dismissed job will be deleted, if the dismissal has one to see.
Hides(c) ==
    op[c] = "dismiss" /\ pc[c] \in Holding /\ score[job[c]] # None =>
        \/ job[c] \in overlap \cup deleted[c]
        \/ pc[c] = "lock" /\ found[c][job[c]] = score[job[c]]
Unseen(c) == UnderWay(c) => eligible[c] \cap dismissed \subseteq overlap

\* Steps that do not commit.
LEMMA QuietDismissals ==
    ASSUME TypeOK, DismissInv, NEW c \in Calls, Framed(c), UNCHANGED <<score, dismissed, overlap>>,
           Unseen(c)', Hides(c)'
    PROVE  DismissInv'
<1>1. \A d \in Calls : Unseen(d)' /\ Hides(d)'
  <2>1. ASSUME NEW d \in Calls, d # c PROVE Unseen(d)' /\ Hides(d)'
    <3>1. Same(d) /\ Unseen(d) /\ Hides(d)
      BY <2>1 DEF Framed, DismissInv, Unseen, Hides
    <3>. QED  BY <3>1 DEF Same, Unseen, Hides, UnderWay
  <2>. QED  BY <2>1
<1>2. DismissalIsFinal'
  BY DEF DismissInv, DismissalIsFinal
<1>. QED  BY <1>1, <1>2 DEF DismissInv, Unseen, Hides, UnderWay

LEMMA StepDismissals ==
    ASSUME TypeOK, Control, DismissInv, NEW c \in Calls, Step(c) \/ Crash(c)
    PROVE  DismissInv'
<1>0. Framed(c) /\ CallOk(c) /\ Unseen(c) /\ Hides(c)
  BY StepFramed DEF Control, DismissInv, Unseen, Hides
<1>a. pc \in [Calls -> {"idle", "cached", "save", "import", "scan", "drop", "read", "put", "hide",
                        "look", "scored", "lock", "commit", "done", "error", "crashed"}]
  BY DEF TypeOK
<1>1. CASE SyncLook(c)
  <2>1. /\ eligible'[c] = catalog \ dismissed /\ pc'[c] \notin Holding
        /\ UNCHANGED <<score, dismissed, overlap>>
    BY <1>1, <1>a, AfterSyncType DEF SyncLook, Goto, TypeOK, tables, history, Holding
  <2>. QED  BY <1>0, <2>1, QuietDismissals DEF Unseen, Hides
<1>2. ASSUME NEW j \in Jobs, LockRow(c, j) PROVE DismissInv'
  <2>1. /\ pc[c] = "lock" /\ found[c][j] # None
        /\ UNCHANGED <<score, dismissed, overlap, pc, op, job, eligible>>
    BY <1>2 DEF LockRow, tables, history
  <2>2. CASE op[c] # "dismiss"
    BY <1>0, <2>1, <2>2, QuietDismissals DEF Unseen, Hides, UnderWay
  <2>3. CASE op[c] = "dismiss"
    <3>1. j = job[c]
      BY <1>0, <2>1, <2>3 DEF CallOk, Holding
    <3>2. score[j] = found[c][j] => j \in deleted'[c]
      BY <1>2 DEF LockRow, TypeOK
    <3>3. deleted[c] \subseteq deleted'[c]
      BY <1>2 DEF LockRow, TypeOK
    <3>4. Hides(c)'
      BY <1>0, <2>1, <3>1, <3>2, <3>3 DEF Hides, Holding
    <3>. QED  BY <1>0, <2>1, <3>4, QuietDismissals DEF Unseen, UnderWay
  <2>. QED  BY <2>2, <2>3
<1>3. CASE DismissLook(c)
  <2>1. /\ pc[c] = "lock" /\ op[c] = "dismiss" /\ pc'[c] = "hide" /\ (\A j \in Jobs : found[c][j] = None)
        /\ UNCHANGED <<score, dismissed, overlap, op, job, found, deleted>>
        /\ job[c] \in Jobs
    BY <1>3, <1>a DEF DismissLook, AllLocked, Goto, TypeOK, tables, history
  <2>. QED  BY <1>0, <2>1, QuietDismissals DEF Unseen, Hides, Holding, UnderWay
<1>4. CASE SyncCommit(c)
  <2>1. /\ pc[c] = "commit" /\ op[c] # "dismiss" /\ UNCHANGED <<dismissed, op>>
        /\ pc'[c] \in {"scan", "read", "done"} /\ pending[c] \subseteq eligible[c]
    BY <1>0, <1>4, <1>a, AfterSyncType DEF SyncCommit, Goto, tables, CallOk
  <2>2. overlap' = overlap \cup {j \in pending[c] : \E d \in Calls :
                     op[d] = "dismiss" /\ pc[d] \in {"lock", "hide"} /\ job[d] = j}
    BY <1>4 DEF SyncCommit
  <2>3. \A j \in Jobs : score'[j] # None => j \in pending[c] \/ score'[j] = score[j]
    BY <1>4 DEF SyncCommit
  <2>4. DismissalIsFinal'
    <3>1. pending[c] \cap dismissed \subseteq overlap
      BY <1>0, <2>1 DEF Unseen, UnderWay
    <3>2. \A j \in dismissed : j \in Jobs /\ (score[j] # None => j \in overlap)
      BY DEF DismissInv, DismissalIsFinal, TypeOK
    <3>. QED  BY <2>1, <2>2, <2>3, <3>1, <3>2 DEF DismissalIsFinal
  <2>5. ASSUME NEW d \in Calls PROVE Unseen(d)' /\ Hides(d)'
    <3>1. CASE d = c
      BY <2>1, <3>1 DEF Unseen, Hides, UnderWay, Holding
    <3>2. CASE d # c
      <4>1. Same(d) /\ Unseen(d) /\ Hides(d) /\ CallOk(d) /\ (op[d] = "dismiss" => job[d] \in Jobs)
        BY <1>0, <3>2 DEF Framed, DismissInv, Unseen, Hides, Control, TypeOK
      <4>2. Unseen(d)'
        BY <2>1, <2>2, <4>1 DEF Unseen, Same, UnderWay
      <4>3. Hides(d)'
        <5>1. SUFFICES ASSUME op[d] = "dismiss", pc[d] \in Holding, score'[job[d]] # None
                       PROVE  Hides(d)'
          BY <4>1 DEF Hides, Same
        <5>2. CASE job[d] \in pending[c]
          <6>1. pc[d] \in {"lock", "hide"}
            BY <4>1, <5>1 DEF CallOk, Holding
          <6>2. job[d] \in overlap'
            BY <2>2, <5>1, <5>2, <6>1
          <6>. QED  BY <4>1, <6>2 DEF Hides, Same
        <5>3. CASE score'[job[d]] = score[job[d]]
          BY <2>2, <4>1, <5>1, <5>3 DEF Hides, Same
        <5>. QED  BY <2>3, <4>1, <5>1, <5>2, <5>3
      <4>. QED  BY <4>2, <4>3
    <3>. QED  BY <3>1, <3>2
  <2>. QED  BY <2>4, <2>5 DEF DismissInv, Unseen, Hides, UnderWay
<1>5. CASE DismissCommit(c)
  <2>1. /\ pc[c] = "hide" /\ op[c] = "dismiss" /\ pc'[c] = "scan" /\ pending[c] \subseteq {job[c]}
        /\ dismissed' = dismissed \cup pending[c]
    BY <1>0, <1>5, <1>a DEF DismissCommit, Goto, CallOk
  <2>2. overlap' = overlap \cup {j \in {job[c]} : \E d \in Calls :
                     pc[d] \in Syncing \ {"look"} /\ op[d] # "dismiss" /\ j \in eligible[d]}
    BY <1>5 DEF DismissCommit
  <2>3. \A j \in Jobs : score'[j] # None => score'[j] = score[j] /\ j \notin deleted[c]
    BY <1>5 DEF DismissCommit
  <2>4. DismissalIsFinal'
    <3>1. \A j \in dismissed' : j \in Jobs
      BY <2>1 DEF TypeOK
    <3>2. \A j \in dismissed : score[j] # None => j \in overlap
      BY DEF DismissInv, DismissalIsFinal
    <3>3. score[job[c]] # None => job[c] \in overlap \cup deleted[c]
      BY <1>0, <2>1 DEF Hides, Holding
    <3>. QED  BY <2>1, <2>2, <2>3, <3>1, <3>2, <3>3 DEF DismissalIsFinal
  <2>5. ASSUME NEW d \in Calls PROVE Unseen(d)' /\ Hides(d)'
    <3>1. CASE d = c
      BY <2>1, <3>1 DEF Unseen, Hides, UnderWay, Holding
    <3>2. CASE d # c
      <4>1. Same(d) /\ Unseen(d) /\ Hides(d) /\ (op[d] = "dismiss" => job[d] \in Jobs)
        BY <1>0, <3>2 DEF Framed, DismissInv, Unseen, Hides, TypeOK
      <4>2. Unseen(d)'
        BY <2>1, <2>2, <4>1 DEF Unseen, Same, UnderWay
      <4>3. Hides(d)'
        BY <2>2, <2>3, <4>1 DEF Hides, Same
      <4>. QED  BY <4>2, <4>3
    <3>. QED  BY <3>1, <3>2
  <2>. QED  BY <2>4, <2>5 DEF DismissInv, Unseen, Hides, UnderWay
<1>6. ASSUME \/ (\E v \in Views : CacheGet(c, v) \/ PutPage(c, v))
             \/ SaveResume(c) \/ (\E j \in Jobs : ImportJob(c, j)) \/ Fail(c)
             \/ Scan(c) \/ Drop(c) \/ InvalidateFails(c) \/ ReadPage(c) \/ Crash(c)
       PROVE  DismissInv'
  <2>1. /\ UNCHANGED <<score, dismissed, overlap>> /\ pc'[c] \notin Holding \cup {"scored"}
    BY <1>6, <1>a, AfterSyncType
       DEF CacheGet, PutPage, SaveResume, ImportJob, Fail, Scan, Drop, InvalidateFails, ReadPage,
           Crash, Holding, Goto, tables, history
  <2>. QED  BY <1>0, <2>1, QuietDismissals DEF Unseen, UnderWay, Hides, Holding
<1>7. ASSUME SyncScored(c) \/ SyncDelete(c) \/ SyncDeleted(c)
      PROVE  DismissInv'
  <2>1. UNCHANGED <<score, dismissed, overlap, op, eligible>> /\ UnderWay(c) /\ op[c] # "dismiss"
    BY <1>0, <1>7 DEF SyncScored, SyncDelete, SyncDeleted, AllLocked, tables, history, UnderWay,
       CallOk
  <2>. QED  BY <1>0, <2>1, QuietDismissals DEF Unseen, UnderWay, Hides
<1>. QED  BY <1>1, <1>2, <1>3, <1>4, <1>5, <1>6, <1>7
          DEF Step, SyncConflict, DeadlockVictim, DismissConflict

LEMMA InitDismissals == Init => DismissInv
  BY DEF Init, DismissInv, DismissalIsFinal, UnderWay, Holding

LEMMA NextDismissals == TypeOK /\ Control /\ DismissInv /\ [Next]_vars => DismissInv'
<1> SUFFICES ASSUME TypeOK, Control, DismissInv, [Next]_vars PROVE DismissInv'
  OBVIOUS
<1>1. ASSUME NEW c \in Calls, Begins(c) PROVE DismissInv'
  <2>1. /\ Framed(c) /\ UNCHANGED <<score, dismissed, overlap>>
        /\ pc'[c] \in {"cached", "save", "import", "look", "lock"}
    BY <1>1, BeginFramed DEF tables, history
  <2>2. pc'[c] = "lock" => op'[c] = "dismiss" /\ found'[c][job'[c]] = score[job'[c]]
    BY <1>1, JobFeedAssumption DEF Begins, Begin, DismissBegin, Goto, TypeOK, FirstStep
  <2>. QED  BY <2>1, <2>2, QuietDismissals DEF Unseen, UnderWay, Hides, Holding
<1>2. ASSUME UNCHANGED <<tables, pc, op, job, session, overlap>> PROVE DismissInv'
  BY <1>2 DEF DismissInv, DismissalIsFinal, UnderWay, Holding, tables, session
<1>. QED  BY <1>1, <1>2, StepDismissals DEF Next, Begins, Expire, vars, history

-----------------------------------------------------------------------------
(* Uploads and scores.                                                      *)

LEMMA StepKeepsScores ==
    ASSUME TypeOK, Control, NEW c \in Calls, Step(c) \/ Crash(c), NEW j \in Jobs,
           score[j] # None, score'[j] = None
    PROVE  j \in dismissed'
<1>0. CallOk(c)
  BY DEF Control
<1>1. CASE SyncCommit(c)
  <2>1. deleted[c] \subseteq pending[c]
    BY <1>0, <1>1 DEF SyncCommit, CallOk
  <2>2. j \in pending[c]
    BY <1>1, <2>1 DEF SyncCommit
  <2>3. score'[j] = [by |-> c, ver |-> version[c]]
    BY <1>1, <2>2 DEF SyncCommit
  <2>4. [by |-> c, ver |-> version[c]] # None
    BY JobFeedAssumption DEF TypeOK
  <2>. QED  BY <2>3, <2>4
<1>2. CASE DismissCommit(c)
  <2>1. deleted[c] \subseteq {job[c]} /\ job[c] \in pending[c] \cup dismissed
    BY <1>0, <1>2 DEF DismissCommit, CallOk, Holding
  <2>. QED  BY <1>2, <2>1 DEF DismissCommit
<1>. QED  BY <1>1, <1>2, WhoWrites

\* Steps that do not commit.
LEMMA QuietUploads ==
    ASSUME TypeOK, TypeOK', Control, UploadInv, NEW c \in Calls, Framed(c),
           UNCHANGED <<score, dismissed>>,
           pc'[c] = "commit" => version'[c] = resume,
           Refreshed(c)' => Refreshed(c) /\ uploaded'[c] = uploaded[c],
           Refreshing(c)' => Refreshing(c) /\ eligible'[c] = eligible[c] /\ uploaded'[c] = uploaded[c]
    PROVE  UploadInv'
<1>1. ASSUME NEW b \in Calls PROVE UploadOk(b)'
  <2>1. /\ Refreshed(b)' => Refreshed(b) /\ uploaded'[b] = uploaded[b]
        /\ Refreshing(b)' => Refreshing(b) /\ eligible'[b] = eligible[b] /\ uploaded'[b] = uploaded[b]
    BY DEF Framed, Same, Refreshed, Refreshing, UnderWay
  <2>2. UploadOk(b) /\ uploaded[b] <= resume /\ uploaded[b] \in Nat /\ resume \in Nat
    BY DEF UploadInv, Control, CallOk, TypeOK
  <2>3. uploaded'[b] = uploaded[b] => \A d \in Calls :
           Older(d, b)' => Older(d, b) /\ pending'[d] = pending[d] /\ deleted'[d] = deleted[d]
    <3>1. SUFFICES ASSUME uploaded'[b] = uploaded[b], NEW d \in Calls, Older(d, b)'
                   PROVE  Older(d, b) /\ pending'[d] = pending[d] /\ deleted'[d] = deleted[d]
      OBVIOUS
    <3>2. d # c
      BY <2>2, <3>1 DEF Older
    <3>. QED  BY <3>1, <3>2 DEF Framed, Same, Older
  <2>4. Refreshed(b)' => (ScoredFor(b) /\ \A d \in Calls : Blocked(d, b))'
    BY <2>1, <2>2, <2>3 DEF UploadOk, ScoredFor, Blocked
  <2>5. Refreshing(b)' => (RestScoredFor(b) /\ \A d \in Calls : Within(d, b))'
    BY <2>1, <2>2, <2>3 DEF UploadOk, RestScoredFor, Within
  <2>. QED  BY <2>4, <2>5 DEF UploadOk
<1>. QED  BY <1>1 DEF UploadInv

\* A refresh looks at the catalog: it will replace every row that is not of a
\* dismissed job.
LEMMA LookUploads ==
    ASSUME TypeOK, TypeOK', Control, UploadInv, NEW c \in Calls, SyncLook(c)
    PROVE  UploadInv'
<1>0. /\ Framed(c) /\ pc[c] = "look" /\ eligible'[c] = catalog \ dismissed
      /\ UNCHANGED <<score, dismissed, catalog, op, uploaded, pending, deleted, version>>
      /\ pc'[c] = IF catalog = {} THEN AfterSync(c) ELSE "scored"
  <2>1. Framed(c)
    BY StepFramed DEF Step
  <2>. QED  BY <2>1 DEF SyncLook, Goto, TypeOK, tables
<1>1. CASE op[c] # "upload"
  <2>1. ~Refreshed(c)' /\ ~Refreshing(c)'
    BY <1>0, <1>1 DEF Refreshed, Refreshing
  <2>2. pc'[c] # "commit"
    BY <1>0, AfterSyncType
  <2>. QED  BY <1>0, <2>1, <2>2, QuietUploads
<1>2. CASE op[c] = "upload"
  <2>1. pc'[c] = IF catalog = {} THEN "done" ELSE "scored"
    BY <1>0, <1>2 DEF AfterSync
  <2>2. \A d \in Calls : Older(d, c)' => Older(d, c) /\ pending[d] \subseteq catalog
    <3>1. SUFFICES ASSUME NEW d \in Calls, Older(d, c)'
                   PROVE  Older(d, c) /\ pending[d] \subseteq catalog
      OBVIOUS
    <3>2. d # c
      BY <2>1, <3>1 DEF Older
    <3>3. Same(d) /\ CallOk(d)
      BY <1>0, <3>2 DEF Framed, Control
    <3>4. Older(d, c)
      BY <1>0, <3>1, <3>3 DEF Same, Older
    <3>5. pending[d] \subseteq eligible[d] /\ eligible[d] \subseteq catalog
      BY <3>3, <3>4 DEF Older, CallOk, UnderWay
    <3>. QED  BY <3>4, <3>5
  <2>3. ASSUME NEW b \in Calls PROVE UploadOk(b)'
    <3>1. CASE b = c
      <4>1. Refreshed(c)' => catalog = {}
        BY <2>1 DEF Refreshed
      <4>2. Refreshed(c)' => (ScoredFor(c) /\ \A d \in Calls : Blocked(d, c))'
        BY <1>0, <2>2, <4>1 DEF ScoredFor, Blocked, Control, TypeOK
      <4>3. RestScoredFor(c)' /\ \A d \in Calls : Within(d, c)'
        BY <1>0, <2>2 DEF RestScoredFor, Within, Control, TypeOK
      <4>. QED  BY <3>1, <4>2, <4>3 DEF UploadOk
    <3>2. CASE b # c
      <4>1. UploadOk(b) /\ Same(b)
        BY <1>0, <3>2 DEF Framed, UploadInv
      <4>2. \A d \in Calls : Older(d, b)' => Older(d, b)
        BY <1>0, <2>1, <4>1 DEF Older, Framed, Same
      <4>3. Refreshed(b)' => (ScoredFor(b) /\ \A d \in Calls : Blocked(d, b))'
        BY <1>0, <4>1, <4>2 DEF UploadOk, ScoredFor, Blocked, Same, Refreshed
      <4>4. Refreshing(b)' => (RestScoredFor(b) /\ \A d \in Calls : Within(d, b))'
        BY <1>0, <4>1, <4>2 DEF UploadOk, RestScoredFor, Within, Same, Refreshing, UnderWay
      <4>. QED  BY <4>3, <4>4 DEF UploadOk
    <3>. QED  BY <3>1, <3>2
  <2>. QED  BY <2>3 DEF UploadInv
<1>. QED  BY <1>1, <1>2

\* A commit of the call c leaves what was established for another upload.
LEMMA CommitUploads ==
    ASSUME TypeOK, TypeOK', Control, UploadInv, NEW c \in Calls, SyncCommit(c) \/ DismissCommit(c),
           NEW b \in Calls, b # c
    PROVE  UploadOk(b)'
<1>0. /\ Framed(c) /\ Same(b) /\ UploadOk(b) /\ uploaded[b] \in Nat /\ version[c] \in Nat
      /\ dismissed \subseteq dismissed' /\ pc'[c] # "commit"
  <2>1. Framed(c)
    BY StepFramed DEF Step
  <2>2. pc'[c] # "commit"
    <3>1. DOMAIN pc = Calls
      BY DEF TypeOK
    <3>2. pc'[c] \in {"scan", "read", "done"}
      BY <3>1, AfterSyncType DEF SyncCommit, DismissCommit, Goto
    <3>. QED  BY <3>2
  <2>. QED  BY <2>1, <2>2 DEF Framed, UploadInv, TypeOK, Grows
<1>1. \A d \in Calls : Older(d, b)' => d # c /\ Older(d, b) /\ Same(d)
  BY <1>0 DEF Older, Framed, Same
<1>2. \A j \in Jobs : score[j] # None /\ score'[j] = None => j \in dismissed'
  BY StepKeepsScores DEF Step
<1>3. \A j \in Jobs : score'[j] # None =>
         \/ score'[j] = score[j]
         \/ SyncCommit(c) /\ j \in pending[c] /\ score'[j].ver = version[c]
  BY DEF SyncCommit, DismissCommit
<1>4. Refreshed(b)' => (ScoredFor(b) /\ \A d \in Calls : Blocked(d, b))'
  <2>1. SUFFICES ASSUME Refreshed(b)' PROVE (ScoredFor(b) /\ \A d \in Calls : Blocked(d, b))'
    OBVIOUS
  <2>2. ScoredFor(b) /\ \A d \in Calls : Blocked(d, b)
    BY <1>0, <2>1 DEF UploadOk, Refreshed, Same
  <2>3. ASSUME SyncCommit(c), NEW j \in pending[c] \ dismissed PROVE version[c] >= uploaded[b]
    <3>1. ~Conflict(c) /\ pc[c] = "commit"
      BY <2>3 DEF SyncCommit
    <3>2. SUFFICES ASSUME Older(c, b) PROVE FALSE
      BY <1>0, <3>1 DEF Older
    <3>3. score[j] # None /\ j \notin deleted[c]
      BY <2>2, <2>3, <3>2 DEF Blocked
    <3>. QED  BY <2>3, <3>1, <3>3 DEF Conflict
  <2>4. ScoredFor(b)'
    BY <1>0, <1>3, <2>2, <2>3 DEF ScoredFor, Same
  <2>5. ASSUME NEW d \in Calls PROVE Blocked(d, b)'
    <3>1. SUFFICES ASSUME Older(d, b)', NEW j \in pending'[d], j \notin dismissed'
                   PROVE  score'[j] # None /\ j \notin deleted'[d]
      BY DEF Blocked
    <3>2. Older(d, b) /\ Same(d) /\ j \in pending[d] /\ j \notin dismissed /\ j \in Jobs
      BY <1>0, <1>1, <3>1 DEF Same, TypeOK
    <3>. QED  BY <1>2, <2>2, <3>1, <3>2 DEF Blocked, Same
  <2>. QED  BY <2>4, <2>5
<1>5. Refreshing(b)' => (RestScoredFor(b) /\ \A d \in Calls : Within(d, b))'
  <2>1. SUFFICES ASSUME Refreshing(b)' PROVE (RestScoredFor(b) /\ \A d \in Calls : Within(d, b))'
    OBVIOUS
  <2>2. RestScoredFor(b) /\ \A d \in Calls : Within(d, b)
    BY <1>0, <2>1 DEF UploadOk, Refreshing, UnderWay, Same
  <2>3. ASSUME SyncCommit(c), NEW j \in pending[c] \ (dismissed \cup eligible[b])
        PROVE  version[c] >= uploaded[b]
    <3>1. pc[c] = "commit" /\ Within(c, b)
      BY <2>2, <2>3 DEF SyncCommit
    <3>. QED  BY <1>0, <2>3, <3>1 DEF Older, Within
  <2>4. RestScoredFor(b)'
    BY <1>0, <1>3, <2>2, <2>3 DEF RestScoredFor, Same
  <2>5. ASSUME NEW d \in Calls PROVE Within(d, b)'
    BY <1>0, <1>1, <2>2 DEF Within, Same
  <2>. QED  BY <2>4, <2>5
<1>. QED  BY <1>4, <1>5 DEF UploadOk

\* The commit of a refresh: an older sync that is still to commit has not got to
\* the rows first, or the commit would wait for it.
LEMMA RefreshCommits ==
    ASSUME TypeOK, TypeOK', Control, UploadInv, NEW c \in Calls, SyncCommit(c)
    PROVE  UploadOk(c)'
<1>1. CASE op[c] # "upload"
  BY <1>1 DEF SyncCommit, UploadOk, Refreshed, Refreshing
<1>2. CASE op[c] = "upload"
  <2>1. /\ Framed(c) /\ CallOk(c) /\ UploadOk(c) /\ pc[c] = "commit" /\ pc'[c] = "scan"
        /\ WaitsFor(c) = {}
        /\ UNCHANGED <<dismissed, op, uploaded, pending, deleted, version>>
    BY <1>2, StepFramed DEF Step, SyncCommit, Goto, TypeOK, session, Control, UploadInv
  <2>2. /\ pending[c] = eligible[c] /\ uploaded[c] <= version[c]
        /\ uploaded[c] \in Nat /\ version[c] \in Nat
    BY <1>2, <2>1 DEF CallOk, TypeOK
  <2>3. RestScoredFor(c) /\ \A d \in Calls : Within(d, c)
    BY <1>2, <2>1 DEF UploadOk, Refreshing, UnderWay
  <2>4. /\ \A j \in Jobs : score'[j] # None =>
             \/ j \in pending[c] /\ score'[j].ver = version[c]
             \/ j \notin pending[c] /\ score'[j] = score[j]
        /\ \A j \in pending[c] : score'[j] = [by |-> c, ver |-> version[c]]
    <3>1. pending[c] \subseteq Jobs
      BY DEF TypeOK
    <3>2. \A j \in Jobs : score'[j] = IF j \in pending[c] THEN [by |-> c, ver |-> version[c]]
                                       ELSE IF j \in deleted[c] THEN None ELSE score[j]
      BY DEF SyncCommit
    <3>3. \A j \in pending[c] : score'[j] = [by |-> c, ver |-> version[c]]
      BY <3>1, <3>2
    <3>4. \A j \in pending[c] : score'[j].ver = version[c]
      BY <3>3
    <3>5. \A j \in Jobs \ pending[c] : score'[j] # None => score'[j] = score[j]
      BY <3>2
    <3>. QED  BY <3>3, <3>4, <3>5
  <2>5. \A j \in pending[c] : score'[j] # None
    BY <2>4, JobFeedAssumption DEF TypeOK
  <2>6. ScoredFor(c)'
    BY <2>1, <2>2, <2>3, <2>4 DEF ScoredFor, RestScoredFor
  <2>7. ASSUME NEW d \in Calls PROVE Blocked(d, c)'
    <3>1. SUFFICES ASSUME Older(d, c)', NEW j \in pending[d], j \notin dismissed
                   PROVE  score'[j] # None /\ j \notin deleted[d]
      BY <2>1 DEF Blocked
    <3>2. d # c /\ Older(d, c) /\ CallOk(d)
      BY <2>1, <3>1 DEF Older, Framed, Same, Control
    <3>3. j \in pending[c]
      BY <2>2, <2>3, <3>1, <3>2 DEF Within
    <3>4. ASSUME j \in deleted[d] PROVE FALSE
      <4>1. lock[j] = d
        BY <3>2, <3>4 DEF CallOk, Older, Holding
      <4>2. d \in WaitsFor(c)
        BY <2>1, <3>2, <3>3, <4>1, JobFeedAssumption DEF WaitsFor
      <4>. QED  BY <2>1, <4>2
    <3>. QED  BY <2>5, <3>3, <3>4
  <2>. QED  BY <2>1, <2>6, <2>7 DEF UploadOk, Refreshing, UnderWay
<1>. QED  BY <1>1, <1>2

LEMMA StepUploads ==
    ASSUME TypeOK, TypeOK', Control, UploadInv, NEW c \in Calls, Step(c) \/ Crash(c)
    PROVE  UploadInv'
<1>0. Framed(c) /\ DOMAIN pc = Calls /\ CallOk(c)
  BY StepFramed DEF TypeOK, Control
<1>1. CASE SyncLook(c)
  BY <1>1, LookUploads
<1>2. CASE SyncCommit(c) \/ DismissCommit(c)
  <2>1. UploadOk(c)'
    <3>1. ASSUME DismissCommit(c) PROVE UploadOk(c)'
      BY <1>0, <3>1 DEF DismissCommit, CallOk, UploadOk, Refreshed, Refreshing
    <3>. QED  BY <1>2, <3>1, RefreshCommits
  <2>2. ASSUME NEW b \in Calls PROVE UploadOk(b)'
    BY <1>2, <2>1, CommitUploads
  <2>. QED  BY <2>2 DEF UploadInv
<1>3. CASE SyncScored(c) \/ SyncDelete(c) \/ SyncDeleted(c)
  <2>1. /\ pc'[c] \in {"lock", "commit"}
        /\ pc'[c] = "commit" => version'[c] = resume
        /\ UNCHANGED <<score, dismissed, eligible, uploaded, op>>
        /\ pc[c] \in {"scored", "lock"}
    BY <1>0, <1>3 DEF SyncScored, SyncDelete, SyncDeleted, AllLocked, Goto, TypeOK, tables
  <2>. QED  BY <1>0, <2>1, QuietUploads DEF Refreshed, Refreshing, UnderWay
<1>4. ASSUME (\E j \in Jobs : LockRow(c, j)) \/ Scan(c) \/ Drop(c) \/ InvalidateFails(c) PROVE UploadInv'
  <2>1. /\ UNCHANGED <<score, dismissed, eligible, uploaded, op>>
        /\ \/ pc[c] = "lock" /\ pc'[c] = "lock"
           \/ pc[c] \in {"scan", "drop"} /\ pc'[c] \in {"drop", "read", "done"}
    BY <1>0, <1>4, AfterSyncType
       DEF LockRow, Scan, Drop, InvalidateFails, Goto, tables, session
  <2>. QED  BY <1>0, <2>1, QuietUploads DEF Refreshed, Refreshing, UnderWay
<1>5. ASSUME \/ (\E v \in Views : CacheGet(c, v) \/ PutPage(c, v))
             \/ SaveResume(c) \/ (\E j \in Jobs : ImportJob(c, j)) \/ Fail(c)
             \/ DismissLook(c) \/ ReadPage(c) \/ Crash(c)
       PROVE  UploadInv'
  <2>1. UNCHANGED <<score, dismissed>>
    BY <1>5 DEF CacheGet, PutPage, SaveResume, ImportJob, Fail, DismissLook, ReadPage, Crash,
       tables
  <2>2. pc'[c] \in {"done", "look", "error", "hide", "put", "crashed"}
    BY <1>0, <1>5
       DEF CacheGet, PutPage, SaveResume, ImportJob, Fail, DismissLook, ReadPage, Crash, Goto
  <2>3. ASSUME pc'[c] = "done" PROVE op'[c] # "upload"
    <3>1. pc[c] \in {"cached", "put"} /\ UNCHANGED op
      BY <1>0, <1>5, <2>3
         DEF CacheGet, PutPage, SaveResume, ImportJob, Fail, DismissLook, ReadPage, Crash, Goto
    <3>. QED  BY <1>0, <3>1 DEF CallOk
  <2>. QED  BY <1>0, <2>1, <2>2, <2>3, QuietUploads DEF Refreshed, Refreshing, UnderWay
<1>. QED  BY <1>1, <1>2, <1>3, <1>4, <1>5
          DEF Step, SyncConflict, DeadlockVictim, DismissConflict

LEMMA NextUploads == TypeOK /\ TypeOK' /\ Control /\ UploadInv /\ [Next]_vars => UploadInv'
<1> SUFFICES ASSUME TypeOK, TypeOK', Control, UploadInv, [Next]_vars PROVE UploadInv'
  OBVIOUS
<1>1. ASSUME NEW c \in Calls, Begins(c) PROVE UploadInv'
  <2>1. /\ Framed(c) /\ UNCHANGED <<score, dismissed>>
        /\ pc'[c] \in {"cached", "save", "import", "look", "lock"}
    BY <1>1, BeginFramed DEF tables
  <2>2. pc'[c] = "lock" => op'[c] = "dismiss"
    BY <1>1, JobFeedAssumption DEF Begins, Begin, DismissBegin, Goto, TypeOK, FirstStep
  <2>. QED  BY <2>1, <2>2, QuietUploads DEF Refreshed, Refreshing, UnderWay
<1>2. ASSUME UNCHANGED <<tables, pc, op, session, uploaded>> PROVE UploadInv'
  BY <1>2 DEF UploadInv, UploadOk, ScoredFor, Blocked, RestScoredFor, Within, Older, Refreshed,
              Refreshing, UnderWay, tables, session
<1>. QED  BY <1>1, <1>2, StepUploads DEF Next, Begins, Expire, vars

-----------------------------------------------------------------------------
(* The theorems.                                                            *)

LEMMA InitInv == Init => IInv
<1> SUFFICES ASSUME Init PROVE IInv
  OBVIOUS
<1>1. PageInv
  BY DEF Init, PageInv, StaleOnlyByRace
<1>2. UploadInv
  BY DEF Init, UploadInv, UploadOk, Refreshed, Refreshing, UnderWay
<1>. QED  BY <1>1, <1>2, InitTypes, InitControl, InitDismissals DEF IInv

LEMMA NextInv == IInv /\ [Next]_vars => IInv'
  BY NextTypes, NextControl, NextPages, NextDismissals, NextUploads DEF IInv

LEMMA InvHolds == Spec => []IInv
  BY InitInv, NextInv, PTL DEF Spec

\* A cached page differs from the tables only if a commit overtook its listing,
\* or its removal is under way or was lost.
THEOREM StalePages == Spec => []StaleOnlyByRace
<1>1. IInv => StaleOnlyByRace
  BY DEF IInv, PageInv
<1>. QED  BY <1>1, InvHolds, PTL

\* Outside a sync that was under way during the dismissal, no call gives a
\* dismissed job a score again.
THEOREM DismissalsAreFinal == Spec => []DismissalIsFinal
<1>1. IInv => DismissalIsFinal
  BY DEF IInv, DismissInv
<1>. QED  BY <1>1, InvHolds, PTL

\* An upload that answers leaves no score of an older resume, however many syncs
\* run beside its refresh.
THEOREM UploadsAreScored == Spec => []UploadedIsScored
<1>1. IInv => UploadedIsScored
  BY DEF IInv, UploadInv, UploadOk, Refreshed, ScoredFor, UploadedIsScored
<1>. QED  BY <1>1, InvHolds, PTL

\* Only a dismissal takes a score away.
THEOREM ScoresKept == Spec => ScoresAreKept
<1>1. IInv /\ [Next]_vars => [\A j \in Jobs : score[j] # None /\ score'[j] = None
                                            => j \in dismissed']_vars
  <2> SUFFICES ASSUME IInv, [Next]_vars, NEW j \in Jobs, score[j] # None, score'[j] = None
               PROVE  j \in dismissed'
    OBVIOUS
  <2>1. ASSUME UNCHANGED score PROVE FALSE
    BY <2>1
  <2>. QED  BY <2>1, StepKeepsScores, BeginFramed DEF Next, Begins, Expire, IInv, vars, tables
<1>. QED  BY <1>1, InvHolds, PTL DEF Spec, ScoresAreKept

-----------------------------------------------------------------------------
(* No circle of waiting sessions is missed.                                 *)

\* A locked row is one that a session with an open transaction has deleted, and
\* the DELETE of that session does not come back to it.
LockInv ==
    /\ \A j \in Jobs : lock[j] # None => pc[lock[j]] \in Holding /\ j \in deleted[lock[j]]
    /\ \A c \in Calls : pc[c] = "lock" => \A j \in deleted[c] : found[c][j] = None

LEMMA StepLocks ==
    ASSUME TypeOK, TypeOK', Control, LockInv, NEW c \in Calls, Step(c) \/ Crash(c)
    PROVE  LockInv'
<1>1. Framed(c) /\ CallOk(c)
  BY StepFramed DEF Control
<1>2. ASSUME \A j \in Jobs : lock'[j] = c => pc'[c] \in Holding /\ j \in deleted'[c],
             pc'[c] = "lock" => \A j \in deleted'[c] : found'[c][j] = None,
             \A j \in Jobs : lock'[j] \in {lock[j], c, None}
      PROVE  LockInv'
  <2>1. ASSUME NEW j \in Jobs, lock'[j] # None
        PROVE  pc'[lock'[j]] \in Holding /\ j \in deleted'[lock'[j]]
    <3>1. CASE lock'[j] = c
      BY <1>2, <3>1
    <3>2. CASE lock'[j] # c
      <4>1. lock'[j] = lock[j] /\ lock[j] \in Calls \ {c}
        BY <1>2, <2>1, <3>2 DEF TypeOK
      <4>. QED  BY <1>1, <2>1, <4>1 DEF LockInv, Framed, Same
    <3>. QED  BY <3>1, <3>2
  <2>2. ASSUME NEW d \in Calls, pc'[d] = "lock" PROVE \A j \in deleted'[d] : found'[d][j] = None
    <3>1. CASE d = c
      BY <1>2, <2>2, <3>1
    <3>2. CASE d # c
      BY <1>1, <2>2, <3>2 DEF LockInv, Framed, Same
    <3>. QED  BY <3>1, <3>2
  <2>. QED  BY <2>1, <2>2 DEF LockInv
<1>3. pc'[c] \in {"idle", "cached", "save", "import", "scan", "drop", "read", "put", "hide",
                 "look", "scored", "lock", "commit", "done", "error", "crashed"}
  BY DEF TypeOK
<1>4. ASSUME lock' = lock, deleted' = deleted, pc[c] \notin Holding, pc'[c] # "lock"
      PROVE  LockInv'
  BY <1>2, <1>4, JobFeedAssumption DEF LockInv, Holding
<1>5. ASSUME Release(c), pc'[c] # "lock" PROVE LockInv'
  BY <1>2, <1>5, JobFeedAssumption DEF Release
<1>6. CASE \/ \E v \in Views : CacheGet(c, v) \/ PutPage(c, v)
           \/ SaveResume(c) \/ (\E j \in Jobs : ImportJob(c, j)) \/ SyncLook(c) \/ SyncScored(c)
           \/ Scan(c) \/ Drop(c) \/ InvalidateFails(c) \/ ReadPage(c)
  BY <1>4, <1>6, AfterSyncType
     DEF CacheGet, PutPage, SaveResume, ImportJob, SyncLook, SyncScored, Scan, Drop, InvalidateFails,
         ReadPage, Goto, TypeOK, Holding, session
<1>7. CASE SyncDelete(c)
  <2>1. lock' = lock /\ deleted' = deleted /\ deleted[c] = {} /\ pc[c] = "scored"
    BY <1>1, <1>7 DEF SyncDelete, CallOk
  <2>. QED  BY <1>2, <2>1, JobFeedAssumption DEF LockInv, Holding
<1>8. ASSUME NEW j \in Jobs, LockRow(c, j) PROVE LockInv'
  <2>1. /\ pc' = pc /\ pc[c] = "lock" /\ lock[j] = None
        /\ \A k \in Jobs : found'[c][k] = IF k = j THEN None ELSE found[c][k]
    BY <1>8 DEF LockRow, TypeOK
  <2>2. CASE lock' = lock /\ deleted' = deleted
    BY <1>2, <2>1, <2>2, JobFeedAssumption DEF LockInv, Holding, TypeOK
  <2>3. CASE lock' = [lock EXCEPT ![j] = c] /\ deleted' = [deleted EXCEPT ![c] = @ \cup {j}]
    <3>1. deleted'[c] = deleted[c] \cup {j} /\ deleted[c] \subseteq Jobs
      BY <2>3 DEF TypeOK
    <3>2. \A k \in Jobs : lock'[k] = IF k = j THEN c ELSE lock[k]
      BY <2>3 DEF TypeOK
    <3>. QED  BY <1>2, <2>1, <3>1, <3>2, JobFeedAssumption DEF LockInv, Holding
  <2>. QED  BY <1>8, <2>2, <2>3 DEF LockRow
<1>9. CASE SyncDeleted(c) \/ DismissLook(c)
  <2>1. lock' = lock /\ deleted' = deleted /\ pc[c] = "lock" /\ pc'[c] \in {"commit", "hide"}
    BY <1>9 DEF SyncDeleted, DismissLook, AllLocked, Goto, TypeOK
  <2>. QED  BY <1>2, <2>1, JobFeedAssumption DEF LockInv, Holding
<1>10. CASE SyncCommit(c) \/ DismissCommit(c) \/ Fail(c) \/ Crash(c)
  <2>1. pc'[c] # "lock"
    BY <1>10, AfterSyncType DEF SyncCommit, DismissCommit, Fail, Crash, Goto, TypeOK
  <2>. QED  BY <1>5, <1>10, <2>1 DEF SyncCommit, DismissCommit, Fail, Crash
<1>. QED  BY <1>6, <1>7, <1>8, <1>9, <1>10
          DEF Step, SyncConflict, DeadlockVictim, DismissConflict

LEMMA NextLocks == TypeOK /\ TypeOK' /\ Control /\ LockInv /\ [Next]_vars => LockInv'
<1> SUFFICES ASSUME TypeOK, TypeOK', Control, LockInv, [Next]_vars PROVE LockInv'
  OBVIOUS
<1>1. ASSUME NEW c \in Calls, Begins(c) PROVE LockInv'
  <2>1. Framed(c) /\ UNCHANGED <<lock, deleted>> /\ pc[c] = "idle" /\ deleted[c] = {}
    BY <1>1, BeginFramed DEF Control, CallOk
  <2>2. \A j \in Jobs : lock[j] # None => lock[j] \in Calls \ {c} /\ Same(lock[j])
    BY <2>1 DEF LockInv, Holding, Framed, TypeOK
  <2>3. \A d \in Calls : deleted'[d] = deleted[d]
    BY <2>1
  <2>4. \A d \in Calls \ {c} : Same(d)
    BY <2>1 DEF Framed
  <2>. QED  BY <2>1, <2>2, <2>3, <2>4 DEF LockInv, Same
<1>2. ASSUME UNCHANGED <<lock, pc, found, deleted>> PROVE LockInv'
  BY <1>2 DEF LockInv
<1>. QED  BY <1>1, <1>2, StepLocks DEF Next, Begins, Expire, vars, session

\* In a finite set in which every session waits for another there is a circle: a
\* subset in which each also is waited for.
LEMMA Circle ==
    ASSUME NEW S, IsFiniteSet(S), S # {}, NEW W,
           \A c \in S : W[c] \cap S # {} /\ c \notin W[c]
    PROVE  \E T \in SUBSET S : /\ T # {}
                               /\ \A d \in T : W[d] \cap T # {} /\ \E e \in T : d \in W[e]
<1> DEFINE Waiting == {T \in SUBSET S : T # {} /\ \A c \in T : W[c] \cap T # {}}
<1>1. IsWellFoundedOn(StrictSubsetOrdering(S), SUBSET S)
  BY FS_StrictSubsetOrderingWellFounded, FS_FiniteSubsetsOfFinite
<1>2. Waiting \subseteq SUBSET S /\ S \in Waiting
  OBVIOUS
<1>3. PICK T \in Waiting : \A U \in Waiting : <<U, T>> \notin StrictSubsetOrdering(S)
  <2> HIDE DEF Waiting
  <2>. QED  BY <1>1, <1>2, WFMin
<1>4. ASSUME NEW d \in T, \A e \in T : d \notin W[e] PROVE FALSE
  <2>1. \A c \in T \ {d} : W[c] \cap (T \ {d}) # {}
    BY <1>4
  <2>2. T \ {d} # {}
    BY <1>3
  <2>3. T \ {d} \in Waiting
    BY <2>1, <2>2
  <2>4. <<T \ {d}, T>> \in StrictSubsetOrdering(S)
    BY <1>3 DEF StrictSubsetOrdering
  <2>. QED  BY <1>3, <2>3, <2>4
<1>. QED  BY <1>3, <1>4

LEMMA WaitsForOpen ==
    ASSUME TypeOK, LockInv, NEW c \in Calls
    PROVE  /\ \A d \in WaitsFor(c) : d \in Calls /\ d # c /\ Busy(d)
           /\ Waits(c) => WaitsFor(c) # {}
<1>1. ASSUME NEW d \in WaitsFor(c) PROVE d \in Calls /\ d # c /\ Busy(d)
  <2>1. PICK j \in Jobs : d = lock[j] /\ d \notin {c, None}
    BY DEF WaitsFor, TypeOK
  <2>2. pc[d] \in Holding /\ d \in Calls
    BY <2>1 DEF LockInv, TypeOK
  <2>. QED  BY <2>1, <2>2 DEF Busy, Holding
<1>2. ASSUME pc[c] = "lock", NEW j \in Jobs, found[c][j] # None, lock[j] # None
      PROVE  lock[j] \in WaitsFor(c)
  <2>1. lock[j] # c
    BY <1>2 DEF LockInv
  <2>. QED  BY <1>2, <2>1 DEF WaitsFor
<1>3. Waits(c) => WaitsFor(c) # {}
  BY <1>2 DEF Waits, AllLocked
<1>. QED  BY <1>1, <1>3

\* As long as calls are open, not all of them wait for row locks: a locked row is one of
\* an open transaction, and of sessions that all wait the detector finds a circle.
THEOREM NoMissedDeadlock == Spec => []SomeoneGoes
<1>1. TypeOK /\ LockInv => SomeoneGoes
  <2> SUFFICES ASSUME TypeOK, LockInv, NEW b \in Calls, Busy(b),
                      \A c \in Calls : Busy(c) => Waits(c)
               PROVE  \E c \in Calls : Busy(c) /\ Deadlocked(c)
    BY DEF SomeoneGoes
  <2> DEFINE S == {c \in Calls : Busy(c)}
             W == [c \in Calls |-> WaitsFor(c)]
  <2>1. S # {} /\ IsFiniteSet(S)
    BY FiniteAssumption, FS_Subset
  <2>2. \A c \in S : W[c] \cap S # {} /\ c \notin W[c]
    BY WaitsForOpen
  <2>3. PICK T \in SUBSET S :
            T # {} /\ \A d \in T : W[d] \cap T # {} /\ \E e \in T : d \in W[e]
    <3> HIDE DEF S, W
    <3>. QED  BY <2>1, <2>2, Circle
  <2>4. PICK c \in T : TRUE
    BY <2>3
  <2>5. \A d \in T : d \in Calls /\ Busy(d) /\ W[d] = WaitsFor(d)
    OBVIOUS
  <2> HIDE DEF S, W
  <2>6. Deadlocked(c)
    BY <2>3, <2>4, <2>5 DEF Deadlocked
  <2>. QED  BY <2>4, <2>5, <2>6
<1>2. Init => LockInv
  BY JobFeedAssumption DEF Init, LockInv
<1>3. IInv /\ IInv' /\ LockInv /\ [Next]_vars => LockInv'
  BY NextLocks DEF IInv
<1>4. IInv => TypeOK
  BY DEF IInv
<1>. QED  BY <1>1, <1>2, <1>3, <1>4, InvHolds, PTL DEF Spec

-----------------------------------------------------------------------------
(* No call repeats anything without an end.                                 *)

Steps == {"idle", "cached", "save", "import", "look", "scored", "lock", "commit", "hide", "scan",
          "drop", "read", "put", "done", "error", "crashed"}

LEMMA RankType == \A p \in Steps : Rank[p] \in 0..12
  BY DEF Rank, Steps

\* The rows that a DELETE may have found.
LEMMA RowsCount ==
    ASSUME NEW f
    PROVE  /\ Cardinality(Jobs) \in Nat /\ Cardinality({j \in Jobs : f[j] # None}) \in Nat
           /\ Cardinality({j \in Jobs : f[j] # None}) <= Cardinality(Jobs)
  BY FiniteAssumption, FS_CardinalityType, FS_Subset

BeforeDelete == {"idle", "cached", "save", "import", "look", "scored"}

\* A step forward, that does not go back before the DELETE or stay in it.
LEMMA RankFalls ==
    ASSUME TypeOK, TypeOK', NEW c \in Calls, Rank[pc'[c]] < Rank[pc[c]],
           pc'[c] \in BeforeDelete \cup {"lock"} => pc[c] \in BeforeDelete
    PROVE  StepsLeft(c)' < StepsLeft(c)
<1> DEFINE F == Cardinality({j \in Jobs : found[c][j] # None})
           N == Cardinality(Jobs)
<1>1. pc[c] \in Steps /\ pc'[c] \in Steps
  BY DEF TypeOK, Steps
<1>2. Rank[pc[c]] \in Nat /\ Rank[pc'[c]] \in Nat /\ (Rank[pc[c]])' = Rank[pc'[c]]
  BY <1>1, RankType DEF Rank
<1>3. F \in Nat /\ F' \in Nat /\ N \in Nat /\ F <= N /\ F' <= N
  BY RowsCount
<1>4. /\ RowsLeft(c) = IF pc[c] \in BeforeDelete THEN N ELSE IF pc[c] = "lock" THEN F ELSE 0
      /\ RowsLeft(c)' = IF pc'[c] \in BeforeDelete THEN N ELSE IF pc'[c] = "lock" THEN F' ELSE 0
  BY DEF RowsLeft, BeforeDelete
<1> HIDE DEF F, N
<1>5. RowsLeft(c) \in Nat /\ RowsLeft(c)' \in Nat /\ RowsLeft(c)' <= RowsLeft(c)
  BY <1>3, <1>4
<1>. QED  BY <1>2, <1>5 DEF StepsLeft

\* Only a call with an open transaction waits.
LEMMA WaitingPlaces ==
    ASSUME NEW c \in Calls, Deadlocked(c)
    PROVE  pc[c] \in {"lock", "commit"}
  BY DEF Deadlocked, WaitsFor

\* Every step of a call uses up one that it had left.
LEMMA StepUsed ==
    ASSUME TypeOK, TypeOK', NEW c \in Calls, Step(c)
    PROVE  StepsLeft(c)' < StepsLeft(c)
<1>1. CASE \E j \in Jobs : LockRow(c, j)
  <2>1. PICK j \in Jobs : LockRow(c, j)
    BY <1>1
  <2> DEFINE R  == {k \in Jobs : found[c][k] # None}
             R1 == {k \in Jobs : found'[c][k] # None}
  <2>2. pc'[c] = "lock" /\ pc[c] = "lock" /\ R1 = R \ {j} /\ j \in R
    BY <2>1 DEF LockRow, TypeOK
  <2>3. IsFiniteSet(R)
    BY FiniteAssumption, FS_Subset
  <2>4. RowsLeft(c) = Cardinality(R) /\ RowsLeft(c)' = Cardinality(R1)
    BY <2>2 DEF RowsLeft
  <2> HIDE DEF R, R1
  <2>5. Cardinality(R) \in Nat /\ Cardinality(R1) = Cardinality(R) - 1
    BY <2>2, <2>3, FS_CardinalityType, FS_RemoveElement
  <2>6. Rank[pc[c]] = 7 /\ (Rank[pc[c]])' = 7
    BY <2>2 DEF Rank
  <2>. QED  BY <2>4, <2>5, <2>6 DEF StepsLeft
<1>2. CASE ~\E j \in Jobs : LockRow(c, j)
  <2>1. /\ pc[c] = "cached" => pc'[c] \in {"done", "look"}
        /\ pc[c] \in {"save", "import"} => pc'[c] = "look"
        /\ pc[c] = "look" => pc'[c] \in {"scored", "read", "done"}
        /\ pc[c] = "scored" => pc'[c] \in {"lock", "commit", "error"}
        /\ pc[c] = "lock" => pc'[c] \in {"commit", "hide", "error"}
        /\ pc[c] = "commit" => pc'[c] \in {"scan", "read", "done", "error"}
        /\ pc[c] = "hide" => pc'[c] \in {"scan", "error"}
        /\ pc[c] = "scan" => pc'[c] \in {"drop", "read", "done"}
        /\ pc[c] = "drop" => pc'[c] \in {"read", "done"}
        /\ pc[c] = "read" => pc'[c] = "put"
        /\ pc[c] = "put" => pc'[c] = "done"
        /\ pc[c] \in {"cached", "save", "import", "look", "scored", "lock", "commit", "hide", "scan",
                      "drop", "read", "put"}
    BY <1>2, WaitingPlaces, AfterSyncType
       DEF Step, CacheGet, PutPage, SaveResume, ImportJob, SyncLook, SyncScored, SyncDelete,
           SyncDeleted, AllLocked, SyncCommit, SyncConflict, DeadlockVictim, DismissLook, DismissCommit,
           DismissConflict, Fail, Scan, Drop, InvalidateFails, ReadPage, Goto, TypeOK
  <2>2. Rank[pc'[c]] < Rank[pc[c]]
    BY <2>1 DEF Rank
  <2>. QED  BY <2>1, <2>2, RankFalls DEF BeforeDelete
<1>. QED  BY <1>1, <1>2

\* What the other calls do gives a call no more statements, and neither does its end.
LEMMA StepsUsed ==
    ASSUME TypeOK, TypeOK', [Next]_vars, NEW c \in Calls
    PROVE  StepsLeft(c)' <= StepsLeft(c) /\ (Step(c) => StepsLeft(c)' < StepsLeft(c))
<1>1. StepsLeft(c) \in Nat /\ StepsLeft(c)' \in Nat
  <2>1. ASSUME NEW p \in Steps, NEW f
        PROVE  Rank[p] \in Nat /\ Cardinality(Jobs) \in Nat /\ Cardinality({j \in Jobs : f[j] # None}) \in Nat
    BY RankType, RowsCount
  <2>2. pc[c] \in Steps /\ pc'[c] \in Steps
    BY DEF TypeOK, Steps
  <2>3. RowsLeft(c) \in Nat /\ RowsLeft(c)' \in Nat
    BY <2>1, <2>2 DEF RowsLeft
  <2>4. (Rank[pc[c]])' = Rank[pc'[c]]
    BY DEF Rank
  <2>5. Rank[pc[c]] \in Nat /\ Rank[pc'[c]] \in Nat
    BY <2>2, RankType
  <2>. QED  BY <2>3, <2>4, <2>5 DEF StepsLeft
<1>2. ASSUME UNCHANGED <<pc[c], found[c]>> PROVE StepsLeft(c)' = StepsLeft(c)
  BY <1>2 DEF StepsLeft, RowsLeft, Rank
<1>3. ASSUME NEW d \in Calls \ {c}, Step(d) \/ Crash(d) \/ Begins(d)
      PROVE  UNCHANGED <<pc[c], found[c]>>
  BY <1>3, StepFramed, BeginFramed DEF Framed, Same
<1>4. ASSUME Begins(c) \/ Crash(c) PROVE StepsLeft(c)' <= StepsLeft(c)
  <2>1. /\ pc[c] \in Steps /\ pc'[c] \in Steps
        /\ \/ pc[c] = "idle" /\ pc'[c] \in {"cached", "save", "import", "look", "lock"}
           \/ pc[c] \notin Ended \cup {"idle"} /\ pc'[c] = "crashed"
    BY <1>4, BeginFramed DEF Crash, Goto, TypeOK, Steps
  <2>2. Rank[pc'[c]] < Rank[pc[c]]
    BY <2>1 DEF Rank, Steps
  <2>3. StepsLeft(c)' < StepsLeft(c)
    BY <2>1, <2>2, RankFalls DEF BeforeDelete
  <2>. QED  BY <1>1, <2>3
<1>5. ASSUME UNCHANGED <<pc, found>> PROVE StepsLeft(c)' <= StepsLeft(c)
  BY <1>1, <1>2, <1>5
<1>6. Step(c) => StepsLeft(c)' < StepsLeft(c)
  BY StepUsed
<1>7. \/ Step(c) \/ Begins(c) \/ Crash(c) \/ UNCHANGED <<pc, found>>
      \/ \E d \in Calls \ {c} : Step(d) \/ Crash(d) \/ Begins(d)
  BY DEF Next, Begins, Expire, vars, session
<1>8. StepsLeft(c)' <= StepsLeft(c)
  BY <1>1, <1>2, <1>3, <1>4, <1>5, <1>6, <1>7
<1>. QED  BY <1>6, <1>8

\* A call makes at most twelve steps and one for each job, whatever runs beside it: the
\* bound on its steps falls with each of them and never rises.
THEOREM BoundedSteps == Spec => StepsAreBounded
<1>1. TypeOK /\ TypeOK' /\ [Next]_vars =>
          [\A c \in Calls : /\ StepsLeft(c)' <= StepsLeft(c)
                            /\ Step(c) => StepsLeft(c)' < StepsLeft(c)]_vars
  BY StepsUsed
<1>. QED  BY <1>1, TypeCorrect, PTL DEF Spec, StepsAreBounded
=============================================================================
