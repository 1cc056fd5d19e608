--------------------------- MODULE JobAlertsProofs ---------------------------
(***************************************************************************)
(* What holds of the digests of every number of users, jobs and tasks.     *)
(* The task's turn has to be known between its steps, because mail, window *)
(* and deliveries are written at three of them: Turn says what the locals  *)
(* of a turn are, MailInv which mails may still lack their delivery, and   *)
(* WindowInv what a window that has been read, and not yet committed, will *)
(* move past.                                                              *)
(***************************************************************************)
EXTENDS JobAlerts, TLAPS

Turn(t) ==
    /\ pc[t] \in Reading => user[t] \in Users /\ seen[t] \in Choices
    /\ pc[t] = "mail" => seen[t].email
    /\ pc[t] = "commit" /\ seen[t].email => Mailed(t) \subseteq mails

\* The mail of this task's turn that Commit is to record.
Pending(t, u, j) == pc[t] = "commit" /\ user[t] = u /\ seen[t].email /\ j \in items[t]

MailInv ==
    \A t \in Tasks, u \in Users, j \in Jobs :
        <<t, u, j>> \in mails =>
            \/ delivered[u][j] = t
            \/ Pending(t, u, j)
            \/ pc[t] \in {"failed", "crashed"}

Stamped == \A u \in Users : \A j \in scored[u] : discovered[j] \in Times

\* What no window will look at again is excused or in the mail of the turn.
WindowInv ==
    \A u \in Users : \A j \in Open(u) :
        /\ last_run[u] # None /\ discovered[j] < last_run[u] => j \in excused[u]
        /\ \A t \in Tasks : Serves(t, u) =>
              /\ discovered[j] < since[t] => j \in excused[u]
              /\ pc[t] # "select" /\ discovered[j] < now[t] =>
                    j \in excused[u] \/ (seen[t].email /\ j \in items[t])

Inv ==
    /\ TypeOK
    /\ \A t \in Tasks : Turn(t)
    /\ MailInv /\ RecordedWasMailed
    /\ Stamped /\ WindowInv

LEMMA TypeStep ==
    ASSUME Inv, Next
    PROVE  TypeOK'
<1>1. CASE Tick
  BY <1>1, AlertsAssumption DEF Tick, tables, task, Inv, TypeOK, Times, Settings, Reading,
     Ended, Turn
<1>2. ASSUME NEW j \in Jobs, NEW s \in Times, Discover(j, s) PROVE TypeOK'
  BY <1>2, AlertsAssumption DEF Discover, tables, task, Inv, TypeOK, Times, Settings, Reading,
     Ended, Turn
<1>3. ASSUME NEW u \in Users, NEW j \in Jobs, Score(u, j) PROVE TypeOK'
  BY <1>3, AlertsAssumption DEF Score, tables, task, Inv, TypeOK, Times, Settings, Reading,
     Ended, Turn
<1>4. ASSUME NEW u \in Users, NEW j \in Jobs, Dismiss(u, j) PROVE TypeOK'
  BY <1>4, AlertsAssumption DEF Dismiss, tables, task, Inv, TypeOK, Times, Settings, Reading,
     Ended, Turn
<1>5. ASSUME NEW u \in Users, NEW s \in Choices, Patch(u, s) PROVE TypeOK'
  BY <1>5, AlertsAssumption DEF Patch, tables, task, Inv, TypeOK, Times, Settings, Reading,
     Ended, Turn
<1>6. ASSUME NEW t \in Tasks, Begin(t) PROVE TypeOK'
  BY <1>6, AlertsAssumption DEF Begin, Goto, tables, task, Inv, TypeOK, Times, Settings,
     Reading, Ended, Turn
<1>7. ASSUME NEW t \in Tasks, Finish(t) PROVE TypeOK'
  BY <1>7, AlertsAssumption DEF Finish, Goto, tables, task, Inv, TypeOK, Times, Settings,
     Reading, Ended, Turn
<1>8. ASSUME NEW t \in Tasks, NEW u \in Users, Skip(t, u) PROVE TypeOK'
  BY <1>8, AlertsAssumption DEF Skip, tables, task, Inv, TypeOK, Times, Settings, Reading,
     Ended, Turn
<1>9. ASSUME NEW t \in Tasks, NEW u \in Users, Serve(t, u) PROVE TypeOK'
  BY <1>9, AlertsAssumption DEF Serve, Goto, WindowStart, tables, task, Inv, TypeOK, Times,
     Settings, Reading, Ended, Turn, Subscribed, Before, Open
<1>10. ASSUME NEW t \in Tasks, Select(t) PROVE TypeOK'
  BY <1>10, AlertsAssumption DEF Select, Goto, Best, tables, task, Inv, TypeOK, Times, Settings,
     Reading, Ended, Turn, LeftBehind, InWindow, Open
<1>11. ASSUME NEW t \in Tasks, Mail(t) PROVE TypeOK'
  BY <1>11, AlertsAssumption DEF Mail, Goto, Mailed, tables, task, Inv, TypeOK, Times, Settings,
     Reading, Ended, Turn
<1>12. ASSUME NEW t \in Tasks, MailFails(t) PROVE TypeOK'
  BY <1>12, AlertsAssumption DEF MailFails, Goto, Forget, Mailed, tables, task, Inv, TypeOK,
     Times, Settings, Reading, Ended, Turn
<1>13. ASSUME NEW t \in Tasks, Commit(t) PROVE TypeOK'
  BY <1>13, AlertsAssumption DEF Commit, Goto, Forget, ToRecord, Repeats, tables, task, Inv,
     TypeOK, Times, Settings, Reading, Ended, Turn
<1>14. ASSUME NEW t \in Tasks, CommitConflict(t) PROVE TypeOK'
  BY <1>14, AlertsAssumption DEF CommitConflict, Goto, Forget, tables, task, Inv, TypeOK, Times,
     Settings, Reading, Ended, Turn
<1>15. ASSUME NEW t \in Tasks, Crash(t) PROVE TypeOK'
  BY <1>15, AlertsAssumption DEF Crash, Goto, Forget, tables, task, Inv, TypeOK, Times,
     Settings, Reading, Ended, Turn
<1>. QED  BY <1>1, <1>2, <1>3, <1>4, <1>5, <1>6, <1>7, <1>8, <1>9, <1>10, <1>11, <1>12, <1>13,
             <1>14, <1>15 DEF Next, Step

LEMMA TurnStep ==
    ASSUME Inv, Next, NEW p \in Tasks
    PROVE  Turn(p)'
<1>1. CASE Tick
  BY <1>1, AlertsAssumption DEF Tick, tables, task, Inv, TypeOK, Turn, Mailed, Reading, Ended
<1>2. ASSUME NEW j \in Jobs, NEW s \in Times, Discover(j, s) PROVE Turn(p)'
  BY <1>2, AlertsAssumption DEF Discover, tables, task, Inv, TypeOK, Turn, Mailed, Reading, Ended
<1>3. ASSUME NEW u \in Users, NEW j \in Jobs, Score(u, j) PROVE Turn(p)'
  BY <1>3, AlertsAssumption DEF Score, tables, task, Inv, TypeOK, Turn, Mailed, Reading, Ended
<1>4. ASSUME NEW u \in Users, NEW j \in Jobs, Dismiss(u, j) PROVE Turn(p)'
  BY <1>4, AlertsAssumption DEF Dismiss, tables, task, Inv, TypeOK, Turn, Mailed, Reading, Ended
<1>5. ASSUME NEW u \in Users, NEW s \in Choices, Patch(u, s) PROVE Turn(p)'
  BY <1>5, AlertsAssumption DEF Patch, tables, task, Inv, TypeOK, Turn, Mailed, Reading, Ended
<1>6. ASSUME NEW t \in Tasks, Begin(t) PROVE Turn(p)'
  BY <1>6, AlertsAssumption DEF Begin, Goto, tables, task, Inv, TypeOK, Turn, Mailed, Reading,
     Ended
<1>7. ASSUME NEW t \in Tasks, Finish(t) PROVE Turn(p)'
  BY <1>7, AlertsAssumption DEF Finish, Goto, tables, task, Inv, TypeOK, Turn, Mailed, Reading,
     Ended
<1>8. ASSUME NEW t \in Tasks, NEW u \in Users, Skip(t, u) PROVE Turn(p)'
  BY <1>8, AlertsAssumption DEF Skip, tables, task, Inv, TypeOK, Turn, Mailed, Reading, Ended
<1>9. ASSUME NEW t \in Tasks, NEW u \in Users, Serve(t, u) PROVE Turn(p)'
  BY <1>9, AlertsAssumption DEF Serve, Goto, WindowStart, tables, task, Inv, TypeOK, Turn,
     Mailed, Reading, Ended, Subscribed
<1>10. ASSUME NEW t \in Tasks, Select(t) PROVE Turn(p)'
  BY <1>10, AlertsAssumption DEF Select, Goto, Best, tables, task, Inv, TypeOK, Turn, Mailed,
     Reading, Ended
<1>11. ASSUME NEW t \in Tasks, Mail(t) PROVE Turn(p)'
  BY <1>11, AlertsAssumption DEF Mail, Goto, Mailed, tables, task, Inv, TypeOK, Turn, Mailed,
     Reading, Ended
<1>12. ASSUME NEW t \in Tasks, MailFails(t) PROVE Turn(p)'
  BY <1>12, AlertsAssumption DEF MailFails, Goto, Forget, Mailed, tables, task, Inv, TypeOK,
     Turn, Mailed, Reading, Ended
<1>13. ASSUME NEW t \in Tasks, Commit(t) PROVE Turn(p)'
  BY <1>13, AlertsAssumption DEF Commit, Goto, Forget, ToRecord, Repeats, tables, task, Inv,
     TypeOK, Turn, Mailed, Reading, Ended
<1>14. ASSUME NEW t \in Tasks, CommitConflict(t) PROVE Turn(p)'
  BY <1>14, AlertsAssumption DEF CommitConflict, Goto, Forget, tables, task, Inv, TypeOK, Turn,
     Mailed, Reading, Ended
<1>15. ASSUME NEW t \in Tasks, Crash(t) PROVE Turn(p)'
  BY <1>15, AlertsAssumption DEF Crash, Goto, Forget, tables, task, Inv, TypeOK, Turn, Mailed,
     Reading, Ended
<1>. QED  BY <1>1, <1>2, <1>3, <1>4, <1>5, <1>6, <1>7, <1>8, <1>9, <1>10, <1>11, <1>12, <1>13,
             <1>14, <1>15 DEF Next, Step

LEMMA MailStep ==
    ASSUME Inv, Next
    PROVE  MailInv'
<1>1. CASE Tick
  BY <1>1, AlertsAssumption DEF Tick, tables, task, Inv, TypeOK, Turn, MailInv, Pending,
     Reading, Ended
<1>2. ASSUME NEW j \in Jobs, NEW s \in Times, Discover(j, s) PROVE MailInv'
  BY <1>2, AlertsAssumption DEF Discover, tables, task, Inv, TypeOK, Turn, MailInv, Pending,
     Reading, Ended
<1>3. ASSUME NEW u \in Users, NEW j \in Jobs, Score(u, j) PROVE MailInv'
  BY <1>3, AlertsAssumption DEF Score, tables, task, Inv, TypeOK, Turn, MailInv, Pending,
     Reading, Ended
<1>4. ASSUME NEW u \in Users, NEW j \in Jobs, Dismiss(u, j) PROVE MailInv'
  BY <1>4, AlertsAssumption DEF Dismiss, tables, task, Inv, TypeOK, Turn, MailInv, Pending,
     Reading, Ended
<1>5. ASSUME NEW u \in Users, NEW s \in Choices, Patch(u, s) PROVE MailInv'
  BY <1>5, AlertsAssumption DEF Patch, tables, task, Inv, TypeOK, Turn, MailInv, Pending,
     Reading, Ended
<1>6. ASSUME NEW t \in Tasks, Begin(t) PROVE MailInv'
  BY <1>6, AlertsAssumption DEF Begin, Goto, tables, task, Inv, TypeOK, Turn, MailInv, Pending,
     Reading, Ended
<1>7. ASSUME NEW t \in Tasks, Finish(t) PROVE MailInv'
  BY <1>7, AlertsAssumption DEF Finish, Goto, tables, task, Inv, TypeOK, Turn, MailInv, Pending,
     Reading, Ended
<1>8. ASSUME NEW t \in Tasks, NEW u \in Users, Skip(t, u) PROVE MailInv'
  BY <1>8, AlertsAssumption DEF Skip, tables, task, Inv, TypeOK, Turn, MailInv, Pending,
     Reading, Ended
<1>9. ASSUME NEW t \in Tasks, NEW u \in Users, Serve(t, u) PROVE MailInv'
  BY <1>9, AlertsAssumption DEF Serve, Goto, WindowStart, tables, task, Inv, TypeOK, Turn,
     MailInv, Pending, Reading, Ended
<1>10. ASSUME NEW t \in Tasks, Select(t) PROVE MailInv'
  BY <1>10, AlertsAssumption DEF Select, Goto, Best, tables, task, Inv, TypeOK, Turn, MailInv,
     Pending, Reading, Ended
<1>11. ASSUME NEW t \in Tasks, Mail(t) PROVE MailInv'
  BY <1>11, AlertsAssumption DEF Mail, Goto, Mailed, tables, task, Inv, TypeOK, Turn, MailInv,
     Pending, Reading, Ended
<1>12. ASSUME NEW t \in Tasks, MailFails(t) PROVE MailInv'
  BY <1>12, AlertsAssumption DEF MailFails, Goto, Forget, Mailed, tables, task, Inv, TypeOK,
     Turn, MailInv, Pending, Reading, Ended
<1>13. ASSUME NEW t \in Tasks, Commit(t) PROVE MailInv'
  BY <1>13, AlertsAssumption DEF Commit, Goto, Forget, ToRecord, Repeats, tables, task, Inv,
     TypeOK, Turn, MailInv, Pending, Reading, Ended
<1>14. ASSUME NEW t \in Tasks, CommitConflict(t) PROVE MailInv'
  BY <1>14, AlertsAssumption DEF CommitConflict, Goto, Forget, tables, task, Inv, TypeOK, Turn,
     MailInv, Pending, Reading, Ended
<1>15. ASSUME NEW t \in Tasks, Crash(t) PROVE MailInv'
  BY <1>15, AlertsAssumption DEF Crash, Goto, Forget, tables, task, Inv, TypeOK, Turn, MailInv,
     Pending, Reading, Ended
<1>. QED  BY <1>1, <1>2, <1>3, <1>4, <1>5, <1>6, <1>7, <1>8, <1>9, <1>10, <1>11, <1>12, <1>13,
             <1>14, <1>15 DEF Next, Step

LEMMA RecordedStep ==
    ASSUME Inv, Next
    PROVE  RecordedWasMailed'
<1>1. CASE Tick
  BY <1>1, AlertsAssumption DEF Tick, tables, task, Inv, TypeOK, Turn, RecordedWasMailed, Reading
<1>2. ASSUME NEW j \in Jobs, NEW s \in Times, Discover(j, s) PROVE RecordedWasMailed'
  BY <1>2, AlertsAssumption DEF Discover, tables, task, Inv, TypeOK, Turn, RecordedWasMailed,
     Reading
<1>3. ASSUME NEW u \in Users, NEW j \in Jobs, Score(u, j) PROVE RecordedWasMailed'
  BY <1>3, AlertsAssumption DEF Score, tables, task, Inv, TypeOK, Turn, RecordedWasMailed, Reading
<1>4. ASSUME NEW u \in Users, NEW j \in Jobs, Dismiss(u, j) PROVE RecordedWasMailed'
  BY <1>4, AlertsAssumption DEF Dismiss, tables, task, Inv, TypeOK, Turn, RecordedWasMailed,
     Reading
<1>5. ASSUME NEW u \in Users, NEW s \in Choices, Patch(u, s) PROVE RecordedWasMailed'
  BY <1>5, AlertsAssumption DEF Patch, tables, task, Inv, TypeOK, Turn, RecordedWasMailed, Reading
<1>6. ASSUME NEW t \in Tasks, Begin(t) PROVE RecordedWasMailed'
  BY <1>6, AlertsAssumption DEF Begin, Goto, tables, task, Inv, TypeOK, Turn, RecordedWasMailed,
     Reading
<1>7. ASSUME NEW t \in Tasks, Finish(t) PROVE RecordedWasMailed'
  BY <1>7, AlertsAssumption DEF Finish, Goto, tables, task, Inv, TypeOK, Turn,
     RecordedWasMailed, Reading
<1>8. ASSUME NEW t \in Tasks, NEW u \in Users, Skip(t, u) PROVE RecordedWasMailed'
  BY <1>8, AlertsAssumption DEF Skip, tables, task, Inv, TypeOK, Turn, RecordedWasMailed, Reading
<1>9. ASSUME NEW t \in Tasks, NEW u \in Users, Serve(t, u) PROVE RecordedWasMailed'
  BY <1>9, AlertsAssumption DEF Serve, Goto, WindowStart, tables, task, Inv, TypeOK, Turn,
     RecordedWasMailed, Reading
<1>10. ASSUME NEW t \in Tasks, Select(t) PROVE RecordedWasMailed'
  BY <1>10, AlertsAssumption DEF Select, Goto, Best, tables, task, Inv, TypeOK, Turn,
     RecordedWasMailed, Reading
<1>11. ASSUME NEW t \in Tasks, Mail(t) PROVE RecordedWasMailed'
  BY <1>11, AlertsAssumption DEF Mail, Goto, Mailed, tables, task, Inv, TypeOK, Turn,
     RecordedWasMailed, Reading
<1>12. ASSUME NEW t \in Tasks, MailFails(t) PROVE RecordedWasMailed'
  BY <1>12, AlertsAssumption DEF MailFails, Goto, Forget, Mailed, tables, task, Inv, TypeOK,
     Turn, RecordedWasMailed, Reading
<1>13. ASSUME NEW t \in Tasks, Commit(t) PROVE RecordedWasMailed'
  BY <1>13, AlertsAssumption DEF Commit, Goto, Forget, ToRecord, Repeats, tables, task, Inv,
     TypeOK, Turn, RecordedWasMailed, Reading, Mailed
<1>14. ASSUME NEW t \in Tasks, CommitConflict(t) PROVE RecordedWasMailed'
  BY <1>14, AlertsAssumption DEF CommitConflict, Goto, Forget, tables, task, Inv, TypeOK, Turn,
     RecordedWasMailed, Reading
<1>15. ASSUME NEW t \in Tasks, Crash(t) PROVE RecordedWasMailed'
  BY <1>15, AlertsAssumption DEF Crash, Goto, Forget, tables, task, Inv, TypeOK, Turn,
     RecordedWasMailed, Reading
<1>. QED  BY <1>1, <1>2, <1>3, <1>4, <1>5, <1>6, <1>7, <1>8, <1>9, <1>10, <1>11, <1>12, <1>13,
             <1>14, <1>15 DEF Next, Step

LEMMA StampedStep ==
    ASSUME Inv, Next
    PROVE  Stamped'
<1>1. CASE Tick
  BY <1>1, AlertsAssumption DEF Tick, tables, task, Inv, TypeOK, Stamped
<1>2. ASSUME NEW j \in Jobs, NEW s \in Times, Discover(j, s) PROVE Stamped'
  BY <1>2, AlertsAssumption DEF Discover, tables, task, Inv, TypeOK, Stamped
<1>3. ASSUME NEW u \in Users, NEW j \in Jobs, Score(u, j) PROVE Stamped'
  BY <1>3, AlertsAssumption DEF Score, tables, task, Inv, TypeOK, Stamped
<1>4. ASSUME NEW u \in Users, NEW j \in Jobs, Dismiss(u, j) PROVE Stamped'
  BY <1>4, AlertsAssumption DEF Dismiss, tables, task, Inv, TypeOK, Stamped
<1>5. ASSUME NEW u \in Users, NEW s \in Choices, Patch(u, s) PROVE Stamped'
  BY <1>5, AlertsAssumption DEF Patch, tables, task, Inv, TypeOK, Stamped
<1>6. ASSUME NEW t \in Tasks, Begin(t) PROVE Stamped'
  BY <1>6, AlertsAssumption DEF Begin, Goto, tables, task, Inv, TypeOK, Stamped
<1>7. ASSUME NEW t \in Tasks, Finish(t) PROVE Stamped'
  BY <1>7, AlertsAssumption DEF Finish, Goto, tables, task, Inv, TypeOK, Stamped
<1>8. ASSUME NEW t \in Tasks, NEW u \in Users, Skip(t, u) PROVE Stamped'
  BY <1>8, AlertsAssumption DEF Skip, tables, task, Inv, TypeOK, Stamped
<1>9. ASSUME NEW t \in Tasks, NEW u \in Users, Serve(t, u) PROVE Stamped'
  BY <1>9, AlertsAssumption DEF Serve, Goto, WindowStart, tables, task, Inv, TypeOK, Stamped
<1>10. ASSUME NEW t \in Tasks, Select(t) PROVE Stamped'
  BY <1>10, AlertsAssumption DEF Select, Goto, Best, tables, task, Inv, TypeOK, Stamped
<1>11. ASSUME NEW t \in Tasks, Mail(t) PROVE Stamped'
  BY <1>11, AlertsAssumption DEF Mail, Goto, Mailed, tables, task, Inv, TypeOK, Stamped
<1>12. ASSUME NEW t \in Tasks, MailFails(t) PROVE Stamped'
  BY <1>12, AlertsAssumption DEF MailFails, Goto, Forget, Mailed, tables, task, Inv, TypeOK,
     Stamped
<1>13. ASSUME NEW t \in Tasks, Commit(t) PROVE Stamped'
  BY <1>13, AlertsAssumption DEF Commit, Goto, Forget, ToRecord, Repeats, tables, task, Inv,
     TypeOK, Stamped
<1>14. ASSUME NEW t \in Tasks, CommitConflict(t) PROVE Stamped'
  BY <1>14, AlertsAssumption DEF CommitConflict, Goto, Forget, tables, task, Inv, TypeOK, Stamped
<1>15. ASSUME NEW t \in Tasks, Crash(t) PROVE Stamped'
  BY <1>15, AlertsAssumption DEF Crash, Goto, Forget, tables, task, Inv, TypeOK, Stamped
<1>. QED  BY <1>1, <1>2, <1>3, <1>4, <1>5, <1>6, <1>7, <1>8, <1>9, <1>10, <1>11, <1>12, <1>13,
             <1>14, <1>15 DEF Next, Step

LEMMA WindowStep ==
    ASSUME Inv, Next
    PROVE  WindowInv'
<1>1. CASE Tick
  BY <1>1, AlertsAssumption DEF Tick, tables, task, Inv, TypeOK, Turn, Stamped, WindowInv, Open,
     Serves, Times, Reading, Ended
<1>2. ASSUME NEW j \in Jobs, NEW s \in Times, Discover(j, s) PROVE WindowInv'
  BY <1>2, AlertsAssumption DEF Discover, tables, task, Inv, TypeOK, Turn, Stamped, WindowInv,
     Open, Serves, Times, Reading, Ended, Late
<1>3. ASSUME NEW u \in Users, NEW j \in Jobs, Score(u, j) PROVE WindowInv'
  BY <1>3, AlertsAssumption DEF Score, tables, task, Inv, TypeOK, Turn, Stamped, WindowInv,
     Open, Serves, Times, Reading, Ended, Late
<1>4. ASSUME NEW u \in Users, NEW j \in Jobs, Dismiss(u, j) PROVE WindowInv'
  BY <1>4, AlertsAssumption DEF Dismiss, tables, task, Inv, TypeOK, Turn, Stamped, WindowInv,
     Open, Serves, Times, Reading, Ended
<1>5. ASSUME NEW u \in Users, NEW s \in Choices, Patch(u, s) PROVE WindowInv'
  BY <1>5, AlertsAssumption DEF Patch, tables, task, Inv, TypeOK, Turn, Stamped, WindowInv,
     Open, Serves, Times, Reading, Ended
<1>6. ASSUME NEW t \in Tasks, Begin(t) PROVE WindowInv'
  BY <1>6, AlertsAssumption DEF Begin, Goto, tables, task, Inv, TypeOK, Turn, Stamped,
     WindowInv, Open, Serves, Times, Reading, Ended
<1>7. ASSUME NEW t \in Tasks, Finish(t) PROVE WindowInv'
  BY <1>7, AlertsAssumption DEF Finish, Goto, tables, task, Inv, TypeOK, Turn, Stamped,
     WindowInv, Open, Serves, Times, Reading, Ended
<1>8. ASSUME NEW t \in Tasks, NEW u \in Users, Skip(t, u) PROVE WindowInv'
  BY <1>8, AlertsAssumption DEF Skip, tables, task, Inv, TypeOK, Turn, Stamped, WindowInv, Open,
     Serves, Times, Reading, Ended
<1>9. ASSUME NEW t \in Tasks, NEW u \in Users, Serve(t, u) PROVE WindowInv'
  BY <1>9, AlertsAssumption DEF Serve, Goto, WindowStart, tables, task, Inv, TypeOK, Turn,
     Stamped, WindowInv, Open, Serves, Times, Reading, Ended, Before
<1>10. ASSUME NEW t \in Tasks, Select(t) PROVE WindowInv'
  BY <1>10, AlertsAssumption DEF Select, Goto, Best, tables, task, Inv, TypeOK, Turn, Stamped,
     WindowInv, Open, Serves, Times, Reading, Ended, LeftBehind, InWindow, Settings
<1>11. ASSUME NEW t \in Tasks, Mail(t) PROVE WindowInv'
  BY <1>11, AlertsAssumption DEF Mail, Goto, Mailed, tables, task, Inv, TypeOK, Turn, Stamped,
     WindowInv, Open, Serves, Times, Reading, Ended
<1>12. ASSUME NEW t \in Tasks, MailFails(t) PROVE WindowInv'
  BY <1>12, AlertsAssumption DEF MailFails, Goto, Forget, Mailed, tables, task, Inv, TypeOK,
     Turn, Stamped, WindowInv, Open, Serves, Times, Reading, Ended
<1>13. ASSUME NEW t \in Tasks, Commit(t) PROVE WindowInv'
  BY <1>13, AlertsAssumption DEF Commit, Goto, Forget, ToRecord, Repeats, tables, task, Inv,
     TypeOK, Turn, Stamped, WindowInv, Open, Serves, Times, Reading, Ended
<1>14. ASSUME NEW t \in Tasks, CommitConflict(t) PROVE WindowInv'
  BY <1>14, AlertsAssumption DEF CommitConflict, Goto, Forget, tables, task, Inv, TypeOK, Turn,
     Stamped, WindowInv, Open, Serves, Times, Reading, Ended
<1>15. ASSUME NEW t \in Tasks, Crash(t) PROVE WindowInv'
  BY <1>15, AlertsAssumption DEF Crash, Goto, Forget, tables, task, Inv, TypeOK, Turn, Stamped,
     WindowInv, Open, Serves, Times, Reading, Ended
<1>. QED  BY <1>1, <1>2, <1>3, <1>4, <1>5, <1>6, <1>7, <1>8, <1>9, <1>10, <1>11, <1>12, <1>13,
             <1>14, <1>15 DEF Next, Step

LEMMA Invariant == Spec => []Inv
<1>1. Init => Inv
  BY AlertsAssumption DEF Init, Inv, TypeOK, Turn, MailInv, RecordedWasMailed, Stamped, WindowInv,
     Open, Serves, Times, Reading, Mailed
<1>2. Inv /\ [Next]_vars => Inv'
  <2>1. ASSUME Inv, Next PROVE Inv'
    BY <2>1, TypeStep, TurnStep, MailStep, RecordedStep, StampedStep, WindowStep DEF Inv
  <2>2. ASSUME Inv, UNCHANGED vars PROVE Inv'
    BY <2>2 DEF vars, tables, task, Inv, TypeOK, Turn, MailInv, Pending, RecordedWasMailed,
       Stamped,
       WindowInv, Open, Serves, Mailed
  <2>. QED  BY <2>1, <2>2
<1>. QED  BY <1>1, <1>2, PTL DEF Spec

\* Every variable of the digest has its type: a window always starts at a time, whether
\* or not the user had a digest before.
THEOREM TypeCorrect == Spec => []TypeOK
<1>. QED  BY Invariant, PTL DEF Inv

\* A mail without its deliveries is the mail of a task under way, failed or dead,
\* for any number of tasks at once.
THEOREM MailsAreRecorded == Spec => []MailedIsRecorded
<1>1. Inv => MailedIsRecorded
  BY DEF Inv, TypeOK, MailInv, Pending, MailedIsRecorded
<1>. QED  BY <1>1, Invariant, PTL

\* A delivery is committed only by the task whose mail the server took.
THEOREM RecordsWereMailed == Spec => []RecordedWasMailed
<1>. QED  BY Invariant, PTL DEF Inv

\* However the tasks, the ingestion and the scoring interleave, a window moves past a
\* job it owes the user only for the reasons WindowLosesNothing lists.
THEOREM NothingIsLost == Spec => []WindowLosesNothing
<1>1. Inv => WindowLosesNothing
  BY DEF Inv, WindowInv, WindowLosesNothing
<1>. QED  BY <1>1, Invariant, PTL
=============================================================================
