--------------------------- MODULE AccountsProofs ---------------------------
(***************************************************************************)
(* What holds of accounts and applications for every number of users,      *)
(* addresses, keys and requests.  Each property looks at the end of a      *)
(* request; the invariant says what must hold between its steps, above all *)
(* that a clash has a cause that lasts until the fallback is written.      *)
(***************************************************************************)
EXTENDS Accounts, TLAPS

Cause(u) ==
    \/ \E r \in Requests : pc[r] # "idle" /\ User(r) = u /\ Claim(r) = Fallback[u]
    \/ \E v \in Users \ {u}, e \in Emails : Addresses(u, e) /\ Addresses(v, e)
    \/ u \in overlapped

\* Who else has the fallback of u.
Occupied(u) == \E v \in Users \ {u} : Addresses(v, Fallback[u])

RowIsAddress == \A u \in Users : users[u] # None => Addresses(u, users[u])

Overlaps == \A r, s \in Requests :
    r # s /\ pc[r] \in EnsureUser /\ pc[s] \in EnsureUser /\ User(r) = User(s) => User(r) \in overlapped

Looked == \A r \in Requests : IF pc[r] = "idle" THEN seen[r] = None ELSE
    /\ pc[r] \in Creating => req[r].write
    /\ seen[r] # None => users[User(r)] # None
    /\ pc[r] = "refresh" \/ pc[r] \in Creating => users[User(r)] # None
    /\ pc[r] = "commit" /\ seen[r] = None /\ users[User(r)] # None => User(r) \in overlapped

Causes ==
    /\ \A u \in Users : users[u] = Fallback[u] => Cause(u)
    /\ \A r \in Requests : pc[r] \in {"recover", "fallback"} => Cause(User(r))
    /\ \A r \in Requests :
          /\ pc[r] = "reread" /\ users[User(r)] = None => r \in failed \/ Occupied(User(r))
          /\ pc[r] \in {"synthesized", "unavailable"} => r \in failed \/ Occupied(User(r))

Keyed ==
    /\ \A a \in Requests : apps[a] # None =>
          /\ pc[a] \in {"done", "error"}
          /\ \A b \in Requests : apps[b] # None /\ apps[a].key # None
                /\ apps[b].user = apps[a].user /\ apps[b].key = apps[a].key => a = b
    /\ \A r \in Requests : answer[r] # None =>
          /\ pc[r] = "done" /\ apps[answer[r]] # None
          /\ apps[answer[r]] = [user |-> User(r), key |-> req[r].key, payload |-> req[r].payload]

Inv ==
    /\ TypeOK
    /\ RowIsAddress /\ Overlaps /\ Looked /\ Causes
    /\ Keyed /\ ErrorIsRetryable

-----------------------------------------------------------------------------
(* What a step never takes back.                                            *)

Kept ==
    /\ \A r \in Requests : pc[r] # "idle" => pc'[r] # "idle" /\ req'[r] = req[r]
    /\ overlapped \subseteq overlapped' /\ failed \subseteq failed'
    /\ \A u \in Users : users[u] # None => users'[u] # None

LEMMA AskTyped ==
    \A q \in Asks :
        /\ q # None /\ q.user \in Users /\ q.claim \in Emails /\ q.write \in BOOLEAN
        /\ q.key \in Keys \cup {None}
        /\ q.write => q.payload \in Payloads
<1>. SUFFICES ASSUME NEW q \in Asks
              PROVE  /\ q # None /\ q.user \in Users /\ q.claim \in Emails /\ q.write \in BOOLEAN
                     /\ q.key \in Keys \cup {None}
                     /\ q.write => q.payload \in Payloads
  OBVIOUS
<1>1. q \in Asked /\ q # None
  BY AccountsAssumption
<1>2. CASE q \in [user : Users, claim : Emails, write : {FALSE}, key : {None}, payload : {None}]
  BY <1>1, <1>2
<1>3. CASE q \in [user : Users, claim : Emails, write : {TRUE}, key : Keys \cup {None}, payload : Payloads]
  BY <1>1, <1>3
<1>. QED  BY <1>1, <1>2, <1>3 DEF Asked

LEMMA Typed ==
    ASSUME Inv
    PROVE  \A r \in Requests : pc[r] # "idle" =>
              /\ req[r] \in Asks /\ req[r] # None
              /\ User(r) \in Users /\ Claim(r) \in Emails /\ Fallback[User(r)] \in Emails
              /\ req[r].write \in BOOLEAN /\ req[r].key \in Keys \cup {None}
              /\ req[r].write => req[r].payload \in Payloads
<1>. SUFFICES ASSUME NEW r \in Requests, pc[r] # "idle"
              PROVE  /\ req[r] \in Asks /\ req[r] # None
                     /\ User(r) \in Users /\ Claim(r) \in Emails /\ Fallback[User(r)] \in Emails
                     /\ req[r].write \in BOOLEAN /\ req[r].key \in Keys \cup {None}
                     /\ req[r].write => req[r].payload \in Payloads
  OBVIOUS
<1>1. req[r] \in Asks
  BY DEF Inv, TypeOK
<1>2. /\ req[r] # None /\ req[r].user \in Users /\ req[r].claim \in Emails
      /\ req[r].write \in BOOLEAN /\ req[r].key \in Keys \cup {None}
      /\ req[r].write => req[r].payload \in Payloads
  BY <1>1, AskTyped
<1>3. Fallback[req[r].user] \in Emails
  BY <1>2, AccountsAssumption
<1>. QED  BY <1>1, <1>2, <1>3 DEF User, Claim

LEMMA NewTyped ==
    ASSUME Inv, NEW r \in Requests, pc[r] \in Creating
    PROVE  LET n == [user |-> User(r), key |-> req[r].key, payload |-> req[r].payload]
           IN  n \in Application /\ n # None
<1>1. pc[r] # "idle" /\ req[r].write
  BY DEF Inv, Looked, Creating
<1>. QED  BY <1>1, Typed, AccountsAssumption DEF Application

-----------------------------------------------------------------------------
(* The parts of the invariant, action by action.                             *)

LEMMA TypeStep ==
    ASSUME Inv, Next
    PROVE  TypeOK'
<1>1. ASSUME NEW r \in Requests, NEW q \in Asks, Arrive(r, q) PROVE TypeOK'
  BY <1>1, AskTyped DEF Arrive, Goto, Inv, TypeOK, EnsureUser
<1>2. ASSUME NEW r \in Requests, Read(r) PROVE TypeOK'
  BY <1>2, AskTyped DEF Read, Goto, User, Proceed, Inv, TypeOK, EnsureUser, Creating, Served
<1>3. ASSUME NEW r \in Requests, Commit(r) PROVE TypeOK'
  BY <1>3, AskTyped DEF Commit, Goto, Store, Claim, Inv, TypeOK, EnsureUser
<1>4. ASSUME NEW r \in Requests, CommitClashes(r) PROVE TypeOK'
  BY <1>4 DEF CommitClashes, Goto, Inv, TypeOK, EnsureUser
<1>5. ASSUME NEW r \in Requests, Recover(r) PROVE TypeOK'
  BY <1>5, AskTyped DEF Recover, Goto, User, Inv, TypeOK, EnsureUser
<1>6. ASSUME NEW r \in Requests, CommitFallback(r) PROVE TypeOK'
  BY <1>6, Typed DEF CommitFallback, Goto, Store, Inv, TypeOK, EnsureUser
<1>7. ASSUME NEW r \in Requests, FallbackClashes(r) PROVE TypeOK'
  BY <1>7 DEF FallbackClashes, Goto, Inv, TypeOK, EnsureUser
<1>8. ASSUME NEW r \in Requests, CommitFails(r) PROVE TypeOK'
  BY <1>8, Typed DEF CommitFails, Goto, Store, Inv, TypeOK, EnsureUser
<1>9. ASSUME NEW r \in Requests, Refresh(r) PROVE TypeOK'
  BY <1>9 DEF Refresh, Goto, Proceed, Inv, TypeOK, Creating, Served
<1>10. ASSUME NEW r \in Requests, Reread(r) PROVE TypeOK'
  BY <1>10 DEF Reread, Goto, Proceed, Escapes, Inv, TypeOK, Creating, Served
<1>11. ASSUME NEW r \in Requests, DatabaseFails(r) PROVE TypeOK'
  BY <1>11 DEF DatabaseFails, Goto, Escapes, Inv, TypeOK, Served
<1>12. ASSUME NEW r \in Requests, NEW a \in Requests, Replay(r, a) PROVE TypeOK'
  BY <1>12 DEF Replay, Goto, Inv, TypeOK, Served
<1>13. ASSUME NEW r \in Requests, NEW a \in Requests, Conflict(r, a) PROVE TypeOK'
  BY <1>13 DEF Conflict, Goto, Inv, TypeOK, Served
<1>14. ASSUME NEW r \in Requests, LookUp(r) PROVE TypeOK'
  BY <1>14 DEF LookUp, Goto, Inv, TypeOK, Creating, Served
<1>15. ASSUME NEW r \in Requests, Insert(r) PROVE TypeOK'
  <2>1. apps' \in [Requests -> Application \cup {None}]
    BY <1>15, NewTyped DEF Insert, NewApplication, Creating, Inv, TypeOK
  <2>. QED  BY <1>15, <2>1 DEF Insert, Goto, Served, Inv, TypeOK
<1>16. ASSUME NEW r \in Requests, InsertRefused(r) PROVE TypeOK'
  BY <1>16 DEF InsertRefused, Goto, Inv, TypeOK, Served
<1>17. ASSUME NEW r \in Requests, CreateFails(r) PROVE TypeOK'
  <2>1. apps' \in [Requests -> Application \cup {None}]
    BY <1>17, NewTyped DEF CreateFails, NewApplication, Creating, Inv, TypeOK
  <2>. QED  BY <1>17, <2>1 DEF CreateFails, Goto, Creating, Served, Inv, TypeOK
<1>. QED  BY <1>1, <1>2, <1>3, <1>4, <1>5, <1>6, <1>7, <1>8, <1>9, <1>10, <1>11, <1>12, <1>13,
             <1>14, <1>15, <1>16, <1>17 DEF Next

LEMMA KeptStep ==
    ASSUME Inv, Next
    PROVE  Kept
<1>1. ASSUME NEW r \in Requests, NEW q \in Asks, Arrive(r, q) PROVE Kept
  BY <1>1 DEF Arrive, Goto, Kept, Inv, TypeOK
<1>2. ASSUME NEW r \in Requests, Read(r) PROVE Kept
  BY <1>2 DEF Read, Goto, Proceed, Kept, Inv, TypeOK
<1>3. ASSUME NEW r \in Requests, Commit(r) PROVE Kept
  BY <1>3, AccountsAssumption, AskTyped DEF Commit, Goto, Store, Claim, Kept, Inv, TypeOK
<1>4. ASSUME NEW r \in Requests, CommitClashes(r) PROVE Kept
  BY <1>4 DEF CommitClashes, Goto, Kept, Inv, TypeOK
<1>5. ASSUME NEW r \in Requests, Recover(r) PROVE Kept
  BY <1>5 DEF Recover, Goto, Kept, Inv, TypeOK
<1>6. ASSUME NEW r \in Requests, CommitFallback(r) PROVE Kept
  BY <1>6, AccountsAssumption DEF CommitFallback, Goto, Store, Kept, Inv, TypeOK
<1>7. ASSUME NEW r \in Requests, FallbackClashes(r) PROVE Kept
  BY <1>7 DEF FallbackClashes, Goto, Kept, Inv, TypeOK
<1>8. ASSUME NEW r \in Requests, CommitFails(r) PROVE Kept
  BY <1>8, AccountsAssumption, AskTyped DEF CommitFails, Goto, Store, Claim, Kept, Inv, TypeOK
<1>9. ASSUME NEW r \in Requests, Refresh(r) PROVE Kept
  BY <1>9 DEF Refresh, Goto, Proceed, Kept, Inv, TypeOK
<1>10. ASSUME NEW r \in Requests, Reread(r) PROVE Kept
  BY <1>10 DEF Reread, Goto, Proceed, Escapes, Kept, Inv, TypeOK
<1>11. ASSUME NEW r \in Requests, DatabaseFails(r) PROVE Kept
  BY <1>11 DEF DatabaseFails, Goto, Escapes, Kept, Inv, TypeOK
<1>12. ASSUME NEW r \in Requests, NEW a \in Requests, Replay(r, a) PROVE Kept
  BY <1>12 DEF Replay, Goto, Kept, Inv, TypeOK
<1>13. ASSUME NEW r \in Requests, NEW a \in Requests, Conflict(r, a) PROVE Kept
  BY <1>13 DEF Conflict, Goto, Kept, Inv, TypeOK
<1>14. ASSUME NEW r \in Requests, LookUp(r) PROVE Kept
  BY <1>14 DEF LookUp, Goto, Kept, Inv, TypeOK
<1>15. ASSUME NEW r \in Requests, Insert(r) PROVE Kept
  BY <1>15 DEF Insert, Goto, Kept, Inv, TypeOK
<1>16. ASSUME NEW r \in Requests, InsertRefused(r) PROVE Kept
  BY <1>16 DEF InsertRefused, Goto, Kept, Inv, TypeOK
<1>17. ASSUME NEW r \in Requests, CreateFails(r) PROVE Kept
  BY <1>17 DEF CreateFails, Goto, Kept, Inv, TypeOK
<1>. QED  BY <1>1, <1>2, <1>3, <1>4, <1>5, <1>6, <1>7, <1>8, <1>9, <1>10, <1>11, <1>12, <1>13,
             <1>14, <1>15, <1>16, <1>17 DEF Next

\* What has been an address or a cause stays one.
LEMMA Lasts ==
    ASSUME Kept
    PROVE  /\ \A u \in Users, e \in Emails : Addresses(u, e) => Addresses(u, e)'
           /\ \A u \in Users : Cause(u) => Cause(u)'
           /\ \A u \in Users : Occupied(u) => Occupied(u)'
<1>1. \A r \in Requests : pc[r] # "idle" =>
          pc'[r] # "idle" /\ User(r)' = User(r) /\ Claim(r)' = Claim(r)
  BY DEF Kept, User, Claim
<1>2. \A u \in Users, e \in Emails : Addresses(u, e) => Addresses(u, e)'
  BY <1>1 DEF Addresses
<1>3. \A u \in Users : Cause(u) => Cause(u)'
  BY <1>1, <1>2 DEF Kept, Cause
<1>4. \A u \in Users : Occupied(u) => Occupied(u)'
  BY <1>2, AccountsAssumption DEF Occupied
<1>. QED  BY <1>2, <1>3, <1>4

LEMMA AddressStep ==
    ASSUME Inv, Next, Kept
    PROVE  RowIsAddress'
<1>1. ASSUME NEW r \in Requests, NEW q \in Asks, Arrive(r, q) PROVE RowIsAddress'
  BY <1>1 DEF Arrive, Goto, User, RowIsAddress, Addresses, Claim, Inv, TypeOK
<1>2. ASSUME NEW r \in Requests, Read(r) PROVE RowIsAddress'
  BY <1>2 DEF Read, Goto, User, Proceed, RowIsAddress, Addresses, Claim, Inv, TypeOK
<1>3. ASSUME NEW r \in Requests, Commit(r) PROVE RowIsAddress'
  BY <1>3 DEF Commit, Goto, User, Store, RowIsAddress, Addresses, Claim, Inv, TypeOK
<1>4. ASSUME NEW r \in Requests, CommitClashes(r) PROVE RowIsAddress'
  BY <1>4 DEF CommitClashes, Goto, User, RowIsAddress, Addresses, Claim, Inv, TypeOK
<1>5. ASSUME NEW r \in Requests, Recover(r) PROVE RowIsAddress'
  BY <1>5 DEF Recover, Goto, User, RowIsAddress, Addresses, Claim, Inv, TypeOK
<1>6. ASSUME NEW r \in Requests, CommitFallback(r) PROVE RowIsAddress'
  BY <1>6 DEF CommitFallback, Goto, User, Store, RowIsAddress, Addresses, Claim, Inv, TypeOK
<1>7. ASSUME NEW r \in Requests, FallbackClashes(r) PROVE RowIsAddress'
  BY <1>7 DEF FallbackClashes, Goto, User, RowIsAddress, Addresses, Claim, Inv, TypeOK
<1>8. ASSUME NEW r \in Requests, CommitFails(r) PROVE RowIsAddress'
  BY <1>8 DEF CommitFails, Goto, User, Store, RowIsAddress, Addresses, Claim, Inv, TypeOK
<1>9. ASSUME NEW r \in Requests, Refresh(r) PROVE RowIsAddress'
  BY <1>9 DEF Refresh, Goto, User, Proceed, RowIsAddress, Addresses, Claim, Inv, TypeOK
<1>10. ASSUME NEW r \in Requests, Reread(r) PROVE RowIsAddress'
  BY <1>10 DEF Reread, Goto, User, Proceed, Escapes, RowIsAddress, Addresses, Claim, Inv, TypeOK
<1>11. ASSUME NEW r \in Requests, DatabaseFails(r) PROVE RowIsAddress'
  BY <1>11 DEF DatabaseFails, Goto, User, Escapes, RowIsAddress, Addresses, Claim, Inv, TypeOK
<1>12. ASSUME NEW r \in Requests, NEW a \in Requests, Replay(r, a) PROVE RowIsAddress'
  BY <1>12 DEF Replay, Goto, User, RowIsAddress, Addresses, Claim, Inv, TypeOK
<1>13. ASSUME NEW r \in Requests, NEW a \in Requests, Conflict(r, a) PROVE RowIsAddress'
  BY <1>13 DEF Conflict, Goto, User, RowIsAddress, Addresses, Claim, Inv, TypeOK
<1>14. ASSUME NEW r \in Requests, LookUp(r) PROVE RowIsAddress'
  BY <1>14 DEF LookUp, Goto, User, RowIsAddress, Addresses, Claim, Inv, TypeOK
<1>15. ASSUME NEW r \in Requests, Insert(r) PROVE RowIsAddress'
  BY <1>15 DEF Insert, Goto, User, RowIsAddress, Addresses, Claim, Inv, TypeOK
<1>16. ASSUME NEW r \in Requests, InsertRefused(r) PROVE RowIsAddress'
  BY <1>16 DEF InsertRefused, Goto, User, RowIsAddress, Addresses, Claim, Inv, TypeOK
<1>17. ASSUME NEW r \in Requests, CreateFails(r) PROVE RowIsAddress'
  BY <1>17 DEF CreateFails, Goto, User, RowIsAddress, Addresses, Claim, Inv, TypeOK
<1>. QED  BY <1>1, <1>2, <1>3, <1>4, <1>5, <1>6, <1>7, <1>8, <1>9, <1>10, <1>11, <1>12, <1>13,
             <1>14, <1>15, <1>16, <1>17 DEF Next

LEMMA OverlapStep ==
    ASSUME Inv, Next, Kept
    PROVE  Overlaps'
<1>1. ASSUME NEW r \in Requests, NEW q \in Asks, Arrive(r, q) PROVE Overlaps'
  BY <1>1 DEF Arrive, Goto, User, Overlaps, Inv, TypeOK
<1>2. ASSUME NEW r \in Requests, Read(r) PROVE Overlaps'
  BY <1>2 DEF Read, Goto, User, Proceed, Overlaps, Inv, TypeOK, EnsureUser
<1>3. ASSUME NEW r \in Requests, Commit(r) PROVE Overlaps'
  BY <1>3 DEF Commit, Goto, User, Overlaps, Inv, TypeOK, EnsureUser
<1>4. ASSUME NEW r \in Requests, CommitClashes(r) PROVE Overlaps'
  BY <1>4 DEF CommitClashes, Goto, User, Overlaps, Inv, TypeOK, EnsureUser
<1>5. ASSUME NEW r \in Requests, Recover(r) PROVE Overlaps'
  BY <1>5 DEF Recover, Goto, User, Overlaps, Inv, TypeOK, EnsureUser
<1>6. ASSUME NEW r \in Requests, CommitFallback(r) PROVE Overlaps'
  BY <1>6 DEF CommitFallback, Goto, User, Overlaps, Inv, TypeOK, EnsureUser
<1>7. ASSUME NEW r \in Requests, FallbackClashes(r) PROVE Overlaps'
  BY <1>7 DEF FallbackClashes, Goto, User, Overlaps, Inv, TypeOK, EnsureUser
<1>8. ASSUME NEW r \in Requests, CommitFails(r) PROVE Overlaps'
  BY <1>8 DEF CommitFails, Goto, User, Overlaps, Inv, TypeOK, EnsureUser
<1>9. ASSUME NEW r \in Requests, Refresh(r) PROVE Overlaps'
  BY <1>9 DEF Refresh, Goto, User, Proceed, Overlaps, Inv, TypeOK, EnsureUser
<1>10. ASSUME NEW r \in Requests, Reread(r) PROVE Overlaps'
  BY <1>10 DEF Reread, Goto, User, Proceed, Escapes, Overlaps, Inv, TypeOK, EnsureUser
<1>11. ASSUME NEW r \in Requests, DatabaseFails(r) PROVE Overlaps'
  BY <1>11 DEF DatabaseFails, Goto, User, Escapes, Overlaps, Inv, TypeOK, EnsureUser
<1>12. ASSUME NEW r \in Requests, NEW a \in Requests, Replay(r, a) PROVE Overlaps'
  BY <1>12 DEF Replay, Goto, User, Overlaps, Inv, TypeOK, EnsureUser
<1>13. ASSUME NEW r \in Requests, NEW a \in Requests, Conflict(r, a) PROVE Overlaps'
  BY <1>13 DEF Conflict, Goto, User, Overlaps, Inv, TypeOK, EnsureUser
<1>14. ASSUME NEW r \in Requests, LookUp(r) PROVE Overlaps'
  BY <1>14 DEF LookUp, Goto, User, Overlaps, Inv, TypeOK, EnsureUser
<1>15. ASSUME NEW r \in Requests, Insert(r) PROVE Overlaps'
  BY <1>15 DEF Insert, Goto, User, Overlaps, Inv, TypeOK, EnsureUser
<1>16. ASSUME NEW r \in Requests, InsertRefused(r) PROVE Overlaps'
  BY <1>16 DEF InsertRefused, Goto, User, Overlaps, Inv, TypeOK, EnsureUser
<1>17. ASSUME NEW r \in Requests, CreateFails(r) PROVE Overlaps'
  BY <1>17 DEF CreateFails, Goto, User, Overlaps, Inv, TypeOK, EnsureUser
<1>. QED  BY <1>1, <1>2, <1>3, <1>4, <1>5, <1>6, <1>7, <1>8, <1>9, <1>10, <1>11, <1>12, <1>13,
             <1>14, <1>15, <1>16, <1>17 DEF Next

LEMMA LookedStep ==
    ASSUME Inv, Next, Kept
    PROVE  Looked'
<1>1. ASSUME NEW r \in Requests, NEW q \in Asks, Arrive(r, q) PROVE Looked'
  <2>1. \A s \in Requests \ {r} : pc'[s] = pc[s] /\ req'[s] = req[s] /\ User(s)' = User(s)
    BY <1>1 DEF Arrive, Goto, User, Inv, TypeOK
  <2>2. pc[r] = "idle" /\ pc'[r] = "read"
    BY <1>1 DEF Arrive, Goto, Inv, TypeOK
  <2>3. UNCHANGED <<users, apps, seen, answer, failed>>
    BY <1>1 DEF Arrive
  <2>. QED  BY <2>1, <2>2, <2>3 DEF Looked, Inv, Kept, Creating
<1>2. ASSUME NEW r \in Requests, Read(r) PROVE Looked'
  BY <1>2, AccountsAssumption, AskTyped DEF Read, Goto, User, Proceed, Claim, Looked, Inv,
     TypeOK, Creating
<1>3. ASSUME NEW r \in Requests, Commit(r) PROVE Looked'
  BY <1>3, AccountsAssumption, AskTyped DEF Commit, Goto, User, Store, Claim, Looked, Overlaps,
     Inv, TypeOK, EnsureUser, Creating
<1>4. ASSUME NEW r \in Requests, CommitClashes(r) PROVE Looked'
  BY <1>4 DEF CommitClashes, Goto, User, Looked, Inv, TypeOK, Creating
<1>5. ASSUME NEW r \in Requests, Recover(r) PROVE Looked'
  BY <1>5 DEF Recover, Goto, User, Looked, Inv, TypeOK, Creating
<1>6. ASSUME NEW r \in Requests, CommitFallback(r) PROVE Looked'
  BY <1>6, AccountsAssumption, AskTyped DEF CommitFallback, Goto, User, Store, Looked, Overlaps,
     Inv, TypeOK, EnsureUser, Creating
<1>7. ASSUME NEW r \in Requests, FallbackClashes(r) PROVE Looked'
  BY <1>7 DEF FallbackClashes, Goto, User, Looked, Inv, TypeOK, Creating
<1>8. ASSUME NEW r \in Requests, CommitFails(r) PROVE Looked'
  BY <1>8, AskTyped DEF CommitFails, Goto, User, Store, Looked, Overlaps, Kept, Inv, TypeOK,
     EnsureUser, Creating
<1>9. ASSUME NEW r \in Requests, Refresh(r) PROVE Looked'
  BY <1>9 DEF Refresh, Goto, User, Proceed, Looked, Inv, TypeOK, Creating
<1>10. ASSUME NEW r \in Requests, Reread(r) PROVE Looked'
  BY <1>10 DEF Reread, Goto, User, Proceed, Escapes, Looked, Inv, TypeOK, Creating
<1>11. ASSUME NEW r \in Requests, DatabaseFails(r) PROVE Looked'
  BY <1>11 DEF DatabaseFails, Goto, User, Escapes, Looked, Inv, TypeOK, Creating
<1>12. ASSUME NEW r \in Requests, NEW a \in Requests, Replay(r, a) PROVE Looked'
  BY <1>12 DEF Replay, Goto, User, Looked, Inv, TypeOK, Creating
<1>13. ASSUME NEW r \in Requests, NEW a \in Requests, Conflict(r, a) PROVE Looked'
  BY <1>13 DEF Conflict, Goto, User, Looked, Inv, TypeOK, Creating
<1>14. ASSUME NEW r \in Requests, LookUp(r) PROVE Looked'
  BY <1>14 DEF LookUp, Goto, User, Looked, Inv, TypeOK, Creating
<1>15. ASSUME NEW r \in Requests, Insert(r) PROVE Looked'
  BY <1>15 DEF Insert, Goto, User, Looked, Inv, TypeOK, Creating
<1>16. ASSUME NEW r \in Requests, InsertRefused(r) PROVE Looked'
  BY <1>16 DEF InsertRefused, Goto, User, Looked, Inv, TypeOK, Creating
<1>17. ASSUME NEW r \in Requests, CreateFails(r) PROVE Looked'
  BY <1>17 DEF CreateFails, Goto, User, Looked, Inv, TypeOK, Creating
<1>. QED  BY <1>1, <1>2, <1>3, <1>4, <1>5, <1>6, <1>7, <1>8, <1>9, <1>10, <1>11, <1>12, <1>13,
             <1>14, <1>15, <1>16, <1>17 DEF Next

LEMMA CauseStep ==
    ASSUME Inv, Next, Kept
    PROVE  Causes'
<1>1. ASSUME NEW r \in Requests, NEW q \in Asks, Arrive(r, q) PROVE Causes'
  BY <1>1, AskTyped, Lasts DEF Arrive, Goto, User, Causes, Inv, TypeOK
<1>2. ASSUME NEW r \in Requests, Read(r) PROVE Causes'
  BY <1>2, AskTyped, Lasts DEF Read, Goto, User, Proceed, Causes, Inv, TypeOK
<1>3. ASSUME NEW r \in Requests, Commit(r) PROVE Causes'
  <2>1. /\ User(r) \in Users /\ pc[r] = "commit" /\ pc' = [pc EXCEPT ![r] = "refresh"]
        /\ UNCHANGED <<req, failed>> /\ users' = [users EXCEPT ![User(r)] = Claim(r)]
    BY <1>3, Typed DEF Commit, Store, Goto
  <2>2. ASSUME NEW u \in Users, users'[u] = Fallback[u] PROVE Cause(u)'
    <3>1. CASE users'[u] = users[u]
      BY <2>2, <3>1, Lasts DEF Causes, Inv
    <3>2. ASSUME u = User(r), users'[u] = Claim(r) PROVE Cause(u)
      BY <2>1, <2>2, <3>2 DEF Cause
    <3>. QED  BY <2>1, <3>1, <3>2, Lasts DEF Inv, TypeOK
  <2>3. \A s \in Requests : pc'[s] = (IF s = r THEN "refresh" ELSE pc[s]) /\ User(s)' = User(s)
    BY <2>1 DEF User, Inv, TypeOK
  <2>4. \A s \in Requests : pc[s] # "idle" /\ users'[User(s)] = None => users[User(s)] = None
    BY Typed DEF Kept
  <2>. QED  BY <2>1, <2>2, <2>3, <2>4, Lasts, Typed DEF Causes, Inv
<1>4. ASSUME NEW r \in Requests, CommitClashes(r) PROVE Causes'
  <2>1. User(r) \in Users /\ Claim(r) \in Emails /\ Addresses(User(r), Claim(r)) /\ pc[r] = "commit"
    BY <1>4, Typed DEF CommitClashes, Addresses
  <2>2. ASSUME seen[r] = None, users[User(r)] # None PROVE Cause(User(r))
    BY <2>1, <2>2 DEF Looked, Cause, Inv
  <2>3. ASSUME Taken(User(r), Claim(r)) PROVE Cause(User(r))
    <3>1. PICK v \in Users \ {User(r)} : users[v] = Claim(r)
      BY <2>3 DEF Taken
    <3>2. Addresses(v, Claim(r))
      BY <3>1, <2>1, AccountsAssumption DEF RowIsAddress, Inv
    <3>. QED  BY <2>1, <3>1, <3>2 DEF Cause
  <2>4. Cause(User(r))
    BY <1>4, <2>2, <2>3 DEF CommitClashes, Clashes
  <2>5. pc' = [pc EXCEPT ![r] = "recover"] /\ User(r)' = User(r) /\ UNCHANGED <<users, req, failed>>
    BY <1>4 DEF CommitClashes, Goto, User
  <2>. QED  BY <2>1, <2>4, <2>5, Lasts, Typed, AccountsAssumption DEF Causes, User, Inv, TypeOK
<1>5. ASSUME NEW r \in Requests, Recover(r) PROVE Causes'
  BY <1>5, AskTyped, Lasts DEF Recover, Goto, User, Causes, Inv, TypeOK
<1>6. ASSUME NEW r \in Requests, CommitFallback(r) PROVE Causes'
  BY <1>6, AccountsAssumption, AskTyped, Lasts DEF CommitFallback, Goto, User, Store, Causes,
     Inv, TypeOK
<1>7. ASSUME NEW r \in Requests, FallbackClashes(r) PROVE Causes'
  BY <1>7, AskTyped, Lasts DEF FallbackClashes, Goto, User, Clashes, Taken, Occupied, Causes,
     Looked, RowIsAddress, Inv, TypeOK
<1>8. ASSUME NEW r \in Requests, CommitFails(r) PROVE Causes'
  <2>1. /\ User(r) \in Users /\ pc[r] \in {"commit", "fallback"} /\ pc' = [pc EXCEPT ![r] = "reread"]
        /\ UNCHANGED req /\ failed' = failed \cup {r}
    BY <1>8, Typed DEF CommitFails, Goto
  <2>2. ASSUME NEW u \in Users, users'[u] = Fallback[u] PROVE Cause(u)'
    <3>1. CASE users'[u] = users[u]
      BY <2>2, <3>1, Lasts DEF Causes, Inv
    <3>2. ASSUME u = User(r), pc[r] = "commit", users'[u] = Claim(r) PROVE Cause(u)
      BY <2>2, <3>2 DEF Cause
    <3>3. ASSUME u = User(r), pc[r] = "fallback" PROVE Cause(u)
      BY <3>3 DEF Causes, Inv
    <3>. QED  BY <1>8, <2>1, <3>1, <3>2, <3>3, Lasts DEF CommitFails, Store, Inv, TypeOK
  <2>3. \A s \in Requests : pc'[s] = (IF s = r THEN "reread" ELSE pc[s]) /\ User(s)' = User(s)
    BY <2>1 DEF User, Inv, TypeOK
  <2>4. \A s \in Requests : pc[s] # "idle" /\ users'[User(s)] = None => users[User(s)] = None
    BY Typed DEF Kept
  <2>. QED  BY <2>1, <2>2, <2>3, <2>4, Lasts, Typed DEF Causes, Inv
<1>9. ASSUME NEW r \in Requests, Refresh(r) PROVE Causes'
  BY <1>9, AskTyped, Lasts DEF Refresh, Goto, User, Proceed, Causes, Inv, TypeOK
<1>10. ASSUME NEW r \in Requests, Reread(r) PROVE Causes'
  BY <1>10, AskTyped, Lasts DEF Reread, Goto, User, Proceed, Escapes, Causes, Inv, TypeOK
<1>11. ASSUME NEW r \in Requests, DatabaseFails(r) PROVE Causes'
  BY <1>11, AskTyped, Lasts DEF DatabaseFails, Goto, User, Escapes, Causes, Inv, TypeOK
<1>12. ASSUME NEW r \in Requests, NEW a \in Requests, Replay(r, a) PROVE Causes'
  BY <1>12, AskTyped, Lasts DEF Replay, Goto, User, Causes, Inv, TypeOK
<1>13. ASSUME NEW r \in Requests, NEW a \in Requests, Conflict(r, a) PROVE Causes'
  BY <1>13, AskTyped, Lasts DEF Conflict, Goto, User, Causes, Inv, TypeOK
<1>14. ASSUME NEW r \in Requests, LookUp(r) PROVE Causes'
  BY <1>14, AskTyped, Lasts DEF LookUp, Goto, User, Causes, Inv, TypeOK
<1>15. ASSUME NEW r \in Requests, Insert(r) PROVE Causes'
  BY <1>15, AskTyped, Lasts DEF Insert, Goto, User, Causes, Inv, TypeOK
<1>16. ASSUME NEW r \in Requests, InsertRefused(r) PROVE Causes'
  BY <1>16, AskTyped, Lasts DEF InsertRefused, Goto, User, Causes, Inv, TypeOK
<1>17. ASSUME NEW r \in Requests, CreateFails(r) PROVE Causes'
  BY <1>17, AskTyped, Lasts DEF CreateFails, Goto, User, Causes, Inv, TypeOK
<1>. QED  BY <1>1, <1>2, <1>3, <1>4, <1>5, <1>6, <1>7, <1>8, <1>9, <1>10, <1>11, <1>12, <1>13,
             <1>14, <1>15, <1>16, <1>17 DEF Next

LEMMA KeyedStep ==
    ASSUME Inv, Next, Kept
    PROVE  Keyed'
<1>1. ASSUME NEW r \in Requests, NEW q \in Asks, Arrive(r, q) PROVE Keyed'
  <2>1. \A s \in Requests \ {r} : pc'[s] = pc[s] /\ req'[s] = req[s] /\ User(s)' = User(s)
    BY <1>1 DEF Arrive, Goto, User, Inv, TypeOK
  <2>2. pc[r] = "idle" /\ pc'[r] = "read"
    BY <1>1 DEF Arrive, Goto, Inv, TypeOK
  <2>3. UNCHANGED <<users, apps, seen, answer, failed>>
    BY <1>1 DEF Arrive
  <2>4. (\A a \in Requests : apps[a] # None => a # r) /\ (\A s \in Requests : answer[s] # None => s # r)
    BY <2>2 DEF Keyed, Inv
  <2>. QED  BY <2>1, <2>3, <2>4 DEF Keyed, Inv
<1>2. ASSUME NEW r \in Requests, Read(r) PROVE Keyed'
  BY <1>2 DEF Read, Goto, User, Proceed, Keyed, Inv, TypeOK
<1>3. ASSUME NEW r \in Requests, Commit(r) PROVE Keyed'
  BY <1>3 DEF Commit, Goto, User, Keyed, Inv, TypeOK
<1>4. ASSUME NEW r \in Requests, CommitClashes(r) PROVE Keyed'
  BY <1>4 DEF CommitClashes, Goto, User, Keyed, Inv, TypeOK
<1>5. ASSUME NEW r \in Requests, Recover(r) PROVE Keyed'
  BY <1>5 DEF Recover, Goto, User, Keyed, Inv, TypeOK
<1>6. ASSUME NEW r \in Requests, CommitFallback(r) PROVE Keyed'
  BY <1>6 DEF CommitFallback, Goto, User, Keyed, Inv, TypeOK
<1>7. ASSUME NEW r \in Requests, FallbackClashes(r) PROVE Keyed'
  BY <1>7 DEF FallbackClashes, Goto, User, Keyed, Inv, TypeOK
<1>8. ASSUME NEW r \in Requests, CommitFails(r) PROVE Keyed'
  BY <1>8 DEF CommitFails, Goto, User, Keyed, Inv, TypeOK
<1>9. ASSUME NEW r \in Requests, Refresh(r) PROVE Keyed'
  BY <1>9 DEF Refresh, Goto, User, Proceed, Keyed, Inv, TypeOK
<1>10. ASSUME NEW r \in Requests, Reread(r) PROVE Keyed'
  BY <1>10 DEF Reread, Goto, User, Proceed, Escapes, Keyed, Inv, TypeOK
<1>11. ASSUME NEW r \in Requests, DatabaseFails(r) PROVE Keyed'
  BY <1>11 DEF DatabaseFails, Goto, User, Escapes, Keyed, Inv, TypeOK
<1>12. ASSUME NEW r \in Requests, NEW a \in Requests, Replay(r, a) PROVE Keyed'
  BY <1>12 DEF Replay, Goto, User, HasKey, Keyed, Inv, TypeOK, Application
<1>13. ASSUME NEW r \in Requests, NEW a \in Requests, Conflict(r, a) PROVE Keyed'
  BY <1>13 DEF Conflict, Goto, User, Keyed, Inv, TypeOK
<1>14. ASSUME NEW r \in Requests, LookUp(r) PROVE Keyed'
  BY <1>14 DEF LookUp, Goto, User, Keyed, Inv, TypeOK
<1>15. ASSUME NEW r \in Requests, Insert(r) PROVE Keyed'
  <2> DEFINE n == [user |-> User(r), key |-> req[r].key, payload |-> req[r].payload]
  <2>1. pc[r] = "insert" /\ pc' = [pc EXCEPT ![r] = "done"] /\ UNCHANGED req
    BY <1>15 DEF Insert, Goto
  <2>2. apps' = [apps EXCEPT ![r] = n] /\ answer' = [answer EXCEPT ![r] = r]
    BY <1>15 DEF Insert, NewApplication
  <2>3. n # None /\ apps[r] = None /\ answer[r] = None
    BY <2>1, NewTyped DEF Creating, Keyed, Inv
  <2>4. \A a \in Requests : apps[a] # None /\ n.key # None => ~(apps[a].user = n.user /\ apps[a].key = n.key)
    BY <1>15 DEF Insert, Refused, KeyUsed, HasKey
  <2>5. \A a \in Requests : apps'[a] = IF a = r THEN n ELSE apps[a]
    BY <2>2 DEF Inv, TypeOK
  <2>6. \A s \in Requests : answer'[s] = IF s = r THEN r ELSE answer[s]
    BY <2>2 DEF Inv, TypeOK
  <2>7. \A s \in Requests : pc'[s] = IF s = r THEN "done" ELSE pc[s]
    BY <2>1 DEF Inv, TypeOK
  <2> HIDE DEF n
  <2>8. ASSUME NEW a \in Requests, apps'[a] # None
        PROVE  /\ pc'[a] \in {"done", "error"}
               /\ \A b \in Requests : apps'[b] # None /\ apps'[a].key # None
                     /\ apps'[b].user = apps'[a].user /\ apps'[b].key = apps'[a].key => a = b
    BY <2>3, <2>4, <2>5, <2>7, <2>8 DEF Keyed, Inv
  <2>9. ASSUME NEW s \in Requests, answer'[s] # None
        PROVE  /\ pc'[s] = "done" /\ apps'[answer'[s]] # None
               /\ apps'[answer'[s]] = [user |-> User(s), key |-> req[s].key, payload |-> req[s].payload]
    <3>1. CASE s = r
      BY <3>1, <2>3, <2>5, <2>6, <2>7 DEF n
    <3>2. CASE s # r
      BY <3>2, <2>3, <2>5, <2>6, <2>7, <2>9 DEF Keyed, Inv, TypeOK
    <3>. QED  BY <3>1, <3>2
  <2>. QED  BY <2>1, <2>8, <2>9 DEF Keyed, User
<1>16. ASSUME NEW r \in Requests, InsertRefused(r) PROVE Keyed'
  BY <1>16 DEF InsertRefused, Goto, User, Keyed, Inv, TypeOK
<1>17. ASSUME NEW r \in Requests, CreateFails(r) PROVE Keyed'
  <2> DEFINE n == [user |-> User(r), key |-> req[r].key, payload |-> req[r].payload]
  <2>1. pc[r] \in Creating /\ pc' = [pc EXCEPT ![r] = "error"] /\ UNCHANGED <<req, answer>>
    BY <1>17 DEF CreateFails, Goto
  <2>3. n # None /\ apps[r] = None /\ answer[r] = None
    BY <2>1, NewTyped DEF Creating, Keyed, Inv
  <2>7. \A s \in Requests : pc'[s] = IF s = r THEN "error" ELSE pc[s]
    BY <2>1 DEF Inv, TypeOK
  <2>4. CASE UNCHANGED apps
    BY <2>1, <2>3, <2>4, <2>7 DEF Keyed, User, Inv
  <2>5. CASE ~Refused(r) /\ apps' = [apps EXCEPT ![r] = n]
    <3>1. \A a \in Requests : apps'[a] = IF a = r THEN n ELSE apps[a]
      BY <2>5 DEF Inv, TypeOK
    <3>2. \A a \in Requests : apps[a] # None /\ n.key # None => ~(apps[a].user = n.user /\ apps[a].key = n.key)
      BY <2>5 DEF Refused, KeyUsed, HasKey
    <3> HIDE DEF n
    <3>3. ASSUME NEW a \in Requests, apps'[a] # None
          PROVE  /\ pc'[a] \in {"done", "error"}
                 /\ \A b \in Requests : apps'[b] # None /\ apps'[a].key # None
                       /\ apps'[b].user = apps'[a].user /\ apps'[b].key = apps'[a].key => a = b
      BY <2>3, <2>7, <3>1, <3>2, <3>3 DEF Keyed, Inv
    <3>4. ASSUME NEW s \in Requests, answer'[s] # None
          PROVE  /\ pc'[s] = "done" /\ apps'[answer'[s]] # None
                 /\ apps'[answer'[s]] = [user |-> User(s), key |-> req[s].key, payload |-> req[s].payload]
      BY <2>1, <2>3, <2>7, <3>1, <3>4 DEF Keyed, Inv, TypeOK
    <3>. QED  BY <2>1, <3>3, <3>4 DEF Keyed, User
  <2>. QED  BY <1>17, <2>4, <2>5 DEF CreateFails, NewApplication
<1>. QED  BY <1>1, <1>2, <1>3, <1>4, <1>5, <1>6, <1>7, <1>8, <1>9, <1>10, <1>11, <1>12, <1>13,
             <1>14, <1>15, <1>16, <1>17 DEF Next

LEMMA ErrorStep ==
    ASSUME Inv, Next, Kept
    PROVE  ErrorIsRetryable'
<1>1. ASSUME NEW r \in Requests, NEW q \in Asks, Arrive(r, q) PROVE ErrorIsRetryable'
  BY <1>1 DEF Arrive, Goto, User, ErrorIsRetryable, KeyUsed, HasKey, Inv, TypeOK
<1>2. ASSUME NEW r \in Requests, Read(r) PROVE ErrorIsRetryable'
  BY <1>2 DEF Read, Goto, User, Proceed, ErrorIsRetryable, KeyUsed, HasKey, Inv, TypeOK
<1>3. ASSUME NEW r \in Requests, Commit(r) PROVE ErrorIsRetryable'
  BY <1>3 DEF Commit, Goto, User, ErrorIsRetryable, KeyUsed, HasKey, Inv, TypeOK
<1>4. ASSUME NEW r \in Requests, CommitClashes(r) PROVE ErrorIsRetryable'
  BY <1>4 DEF CommitClashes, Goto, User, ErrorIsRetryable, KeyUsed, HasKey, Inv, TypeOK
<1>5. ASSUME NEW r \in Requests, Recover(r) PROVE ErrorIsRetryable'
  BY <1>5 DEF Recover, Goto, User, ErrorIsRetryable, KeyUsed, HasKey, Inv, TypeOK
<1>6. ASSUME NEW r \in Requests, CommitFallback(r) PROVE ErrorIsRetryable'
  BY <1>6 DEF CommitFallback, Goto, User, ErrorIsRetryable, KeyUsed, HasKey, Inv, TypeOK
<1>7. ASSUME NEW r \in Requests, FallbackClashes(r) PROVE ErrorIsRetryable'
  BY <1>7 DEF FallbackClashes, Goto, User, ErrorIsRetryable, KeyUsed, HasKey, Inv, TypeOK
<1>8. ASSUME NEW r \in Requests, CommitFails(r) PROVE ErrorIsRetryable'
  BY <1>8 DEF CommitFails, Goto, User, ErrorIsRetryable, KeyUsed, HasKey, Inv, TypeOK
<1>9. ASSUME NEW r \in Requests, Refresh(r) PROVE ErrorIsRetryable'
  BY <1>9 DEF Refresh, Goto, User, Proceed, ErrorIsRetryable, KeyUsed, HasKey, Inv, TypeOK
<1>10. ASSUME NEW r \in Requests, Reread(r) PROVE ErrorIsRetryable'
  BY <1>10 DEF Reread, Goto, User, Proceed, Escapes, ErrorIsRetryable, KeyUsed, HasKey, Inv,
     TypeOK
<1>11. ASSUME NEW r \in Requests, DatabaseFails(r) PROVE ErrorIsRetryable'
  BY <1>11 DEF DatabaseFails, Goto, User, Escapes, ErrorIsRetryable, KeyUsed, HasKey, Inv, TypeOK
<1>12. ASSUME NEW r \in Requests, NEW a \in Requests, Replay(r, a) PROVE ErrorIsRetryable'
  BY <1>12 DEF Replay, Goto, User, ErrorIsRetryable, KeyUsed, HasKey, Inv, TypeOK
<1>13. ASSUME NEW r \in Requests, NEW a \in Requests, Conflict(r, a) PROVE ErrorIsRetryable'
  BY <1>13 DEF Conflict, Goto, User, ErrorIsRetryable, KeyUsed, HasKey, Inv, TypeOK
<1>14. ASSUME NEW r \in Requests, LookUp(r) PROVE ErrorIsRetryable'
  BY <1>14 DEF LookUp, Goto, User, ErrorIsRetryable, KeyUsed, HasKey, Inv, TypeOK
<1>15. ASSUME NEW r \in Requests, Insert(r) PROVE ErrorIsRetryable'
  BY <1>15 DEF Insert, Goto, User, NewApplication, ErrorIsRetryable, KeyUsed, HasKey, Keyed,
     Inv, TypeOK
<1>16. ASSUME NEW r \in Requests, InsertRefused(r) PROVE ErrorIsRetryable'
  BY <1>16 DEF InsertRefused, Goto, User, Refused, ErrorIsRetryable, KeyUsed, HasKey, Looked,
     Inv, TypeOK, Creating
<1>17. ASSUME NEW r \in Requests, CreateFails(r) PROVE ErrorIsRetryable'
  BY <1>17 DEF CreateFails, Goto, User, NewApplication, ErrorIsRetryable, KeyUsed, HasKey,
     Keyed, Inv, TypeOK
<1>. QED  BY <1>1, <1>2, <1>3, <1>4, <1>5, <1>6, <1>7, <1>8, <1>9, <1>10, <1>11, <1>12, <1>13,
             <1>14, <1>15, <1>16, <1>17 DEF Next

-----------------------------------------------------------------------------
LEMMA Invariant == Spec => []Inv
<1>1. Init => Inv
  BY AccountsAssumption DEF Init, Inv, TypeOK, RowIsAddress, Overlaps, Looked, Causes, Keyed,
     ErrorIsRetryable, EnsureUser, Creating, Served
<1>2. Inv /\ [Next]_vars => Inv'
  <2>1. ASSUME Inv, Next PROVE Inv'
    <3>1. Kept
      BY <2>1, KeptStep
    <3>. QED  BY <2>1, <3>1, TypeStep, AddressStep, OverlapStep, LookedStep, CauseStep, KeyedStep, ErrorStep
              DEF Inv
  <2>2. ASSUME Inv, UNCHANGED vars PROVE Inv'
    BY <2>2 DEF vars, Inv, TypeOK, RowIsAddress, Overlaps, Looked, Causes, Keyed,
       ErrorIsRetryable,
       Addresses, Cause, Occupied, User, Claim, KeyUsed, HasKey
  <2>. QED  BY <2>1, <2>2
<1>. QED  BY <1>1, <1>2, PTL DEF Spec

\* Rows, requests and applications have their types; a request under way has its claims.
THEOREM TypeCorrect == Spec => []TypeOK
<1>. QED  BY Invariant, PTL DEF Inv

\* For any number of users and requests: no row gets the fallback address by an error
\* of the database or by a race with another user's request alone.
THEOREM FallbackIsCaused == Spec => []FallbackNeedsCause
<1>1. Inv => FallbackNeedsCause
  BY DEF Inv, Causes, Cause, FallbackNeedsCause
<1>. QED  BY <1>1, Invariant, PTL

\* No application is created for a user without a row.
THEOREM WritesHaveRows == Spec => []WriteHasRow
<1>1. Inv => WriteHasRow
  BY DEF Inv, Looked, WriteHasRow, Creating
<1>. QED  BY <1>1, Invariant, PTL

\* The fail-open GET and the 503 are for failures, and for one collision of fallbacks.
THEOREM HealthyAreServed == Spec => []HealthyIsServed
<1>1. Inv => HealthyIsServed
  BY DEF Inv, Causes, Occupied, HealthyIsServed
<1>. QED  BY <1>1, Invariant, PTL

-----------------------------------------------------------------------------
(* KeyedCreation.  A row of apps is a creation, an answer is an answer; what *)
(* a step does to either is one of the following.                            *)

MadeFor(r) == [row |-> r, key |-> KeyOf(req[r], r), body |-> req[r].payload]
ToldTo(r, a) == [to |-> r, row |-> a, key |-> KeyOf(req[r], r), body |-> req[r].payload]

LEMMA KeyTyped ==
    ASSUME Inv, NEW r \in Requests, pc[r] \in Creating
    PROVE  /\ MadeFor(r) \in Creations!Creation
           /\ \A a \in Requests : ToldTo(r, a) \in Creations!Answer
<1>1. /\ req[r].user \in Users /\ req[r].key \in Keys \cup {None}
      /\ req[r].payload \in Payloads
  BY Typed DEF User, Inv, Looked, Creating
<1>2. KeyOf(req[r], r) \in (Users \X Keys \X {None}) \cup (Users \X {None} \X Requests)
  BY <1>1 DEF KeyOf
<1>. QED  BY <1>1, <1>2 DEF MadeFor, ToldTo, Creations!Creation, Creations!Answer

\* Nothing is made or told by a step that leaves applications and answers alone.
LEMMA CreationSame ==
    ASSUME Inv, Kept
    PROVE  /\ UNCHANGED apps => UNCHANGED MadeApplications
           /\ UNCHANGED answer => UNCHANGED Answered
<1>1. UNCHANGED apps => UNCHANGED MadeApplications
  BY DEF MadeApplications, KeyOf
<1>2. ASSUME UNCHANGED answer PROVE UNCHANGED Answered
  <2>1. \A r \in Requests : answer[r] # None => req'[r] = req[r]
    BY DEF Inv, Keyed, Kept
  <2>. QED  BY <1>2, <2>1 DEF Answered, KeyOf
<1>. QED  BY <1>1, <1>2

\* An insert that the unique keys let pass makes a row under a new key.
LEMMA InsertMakes ==
    ASSUME Inv, NEW r \in Requests, pc[r] = "insert", ~Refused(r), NewApplication(r)
    PROVE  Creations!Make(MadeFor(r))
<1> DEFINE n == [user |-> User(r), key |-> req[r].key, payload |-> req[r].payload]
           row(a) == [row |-> a, key |-> KeyOf(apps[a], a), body |-> apps[a].payload]
<1>1. apps[r] = None /\ n # None
  BY NewTyped DEF Creating, Inv, Keyed
<1>2. \A a \in Requests : apps'[a] = IF a = r THEN n ELSE apps[a]
  BY DEF NewApplication, Inv, TypeOK
<1>3. ASSUME NEW a \in Requests, apps[a] # None
      PROVE  row(a).row # r /\ row(a).key # KeyOf(req[r], r)
  <2>1. a # r
    BY <1>1, <1>3
  <2>2. ~(req[r].key # None /\ apps[a].user = req[r].user /\ apps[a].key = req[r].key)
    BY <1>3 DEF Refused, KeyUsed, HasKey, User
  <2>. QED  BY <2>1, <2>2 DEF KeyOf
<1>4. KeyOf(n, r) = KeyOf(req[r], r)
  BY DEF KeyOf, User
<1>5. MadeApplications' = MadeApplications \cup {MadeFor(r)}
  <2>1. MadeApplications = {row(a) : a \in {b \in Requests : apps[b] # None}}
    BY DEF MadeApplications
  <2>2. MadeApplications' = {[row |-> a, key |-> KeyOf(apps'[a], a), body |-> apps'[a].payload] :
                                a \in {b \in Requests : apps'[b] # None}}
    BY DEF MadeApplications, KeyOf
  <2>3. [row |-> r, key |-> KeyOf(apps'[r], r), body |-> apps'[r].payload] = MadeFor(r)
    BY <1>2, <1>4 DEF MadeFor
  <2>4. \A a \in Requests \ {r} : apps'[a] = apps[a]
    BY <1>2
  <2>5. apps'[r] # None
    BY <1>1, <1>2
  <2> HIDE DEF n
  <2>. QED  BY <1>1, <2>1, <2>2, <2>3, <2>4, <2>5
<1>6. \A m \in MadeApplications : m.row # MadeFor(r).row /\ m.key # MadeFor(r).key
  BY <1>3 DEF MadeApplications, MadeFor
<1>. QED  BY <1>5, <1>6 DEF Creations!Make

\* The answer that Replay and Insert give is the row of the key and of what is asked.
LEMMA AnswerTells ==
    ASSUME Inv, Inv', NEW r \in Requests, NEW a \in Requests, pc[r] \in Creating,
           answer' = [answer EXCEPT ![r] = a], UNCHANGED req, req[r].key = None => a = r
    PROVE  Creations!Tell(ToldTo(r, a))
<1>1. answer[r] = None
  BY DEF Creating, Inv, Keyed
<1>2. \A s \in Requests : answer'[s] = IF s = r THEN a ELSE answer[s]
  BY DEF Inv, TypeOK
<1>3. a # None
  BY AccountsAssumption
<1>4. apps'[a] # None /\ apps'[a] = [user |-> req[r].user, key |-> req[r].key, payload |-> req[r].payload]
  BY <1>2, <1>3 DEF Inv, Keyed, User
<1>5. KeyOf(apps'[a], a) = KeyOf(req[r], r) /\ apps'[a].payload = req[r].payload
  BY <1>4 DEF KeyOf
<1>6. [row |-> a, key |-> KeyOf(req[r], r), body |-> req[r].payload] \in MadeApplications'
  <2>1. [row |-> a, key |-> KeyOf(apps'[a], a), body |-> apps'[a].payload] \in MadeApplications'
    BY <1>4 DEF MadeApplications, KeyOf
  <2>. QED  BY <1>5, <2>1
<1>7. Answered' = Answered \cup {ToldTo(r, a)}
  <2>1. Answered' = {[to |-> s, row |-> answer'[s], key |-> KeyOf(req[s], s), body |-> req[s].payload] :
                        s \in {q \in Requests : answer'[q] # None}}
    BY DEF Answered, KeyOf
  <2>. QED  BY <1>1, <1>2, <1>3, <2>1 DEF Answered, ToldTo
<1>8. \A b \in Answered : b.to # r
  BY <1>1 DEF Answered
<1>. QED  BY <1>6, <1>7, <1>8 DEF Creations!Tell, ToldTo

LEMMA CreationStep ==
    ASSUME Inv, Inv', Next, Kept
    PROVE  Creations!CreationNext
<1>1. ASSUME NEW r \in Requests, NEW a \in Requests, Replay(r, a) PROVE Creations!CreationNext
  <2>1. /\ UNCHANGED <<apps, req>> /\ pc[r] \in Creating
        /\ answer' = [answer EXCEPT ![r] = a] /\ req[r].key # None
    BY <1>1 DEF Replay, HasKey, Creating
  <2>. QED  BY <2>1, CreationSame, AnswerTells, KeyTyped DEF Creations!CreationNext
<1>2. ASSUME NEW r \in Requests, Insert(r) PROVE Creations!CreationNext
  <2>1. /\ pc[r] = "insert" /\ ~Refused(r) /\ NewApplication(r) /\ UNCHANGED req
        /\ answer' = [answer EXCEPT ![r] = r]
    BY <1>2 DEF Insert
  <2>2. Creations!Make(MadeFor(r)) /\ Creations!Tell(ToldTo(r, r))
    BY <2>1, InsertMakes, AnswerTells DEF Creating
  <2>. QED  BY <2>1, <2>2, KeyTyped DEF Creating, Creations!CreationNext
<1>3. ASSUME NEW r \in Requests, CreateFails(r) PROVE Creations!CreationNext
  <2>1. UNCHANGED Answered
    BY <1>3, CreationSame DEF CreateFails
  <2>2. CASE UNCHANGED apps
    BY <2>1, <2>2, CreationSame DEF Creations!CreationNext
  <2>3. CASE pc[r] = "insert" /\ ~Refused(r) /\ NewApplication(r)
    BY <2>1, <2>3, InsertMakes, KeyTyped DEF Creating, Creations!CreationNext
  <2>. QED  BY <1>3, <2>2, <2>3 DEF CreateFails
<1>4. CASE UNCHANGED <<apps, answer>>
  BY <1>4, CreationSame DEF Creations!CreationNext
<1>5. \/ UNCHANGED <<apps, answer>>
      \/ \E r \in Requests : Insert(r) \/ CreateFails(r) \/ \E a \in Requests : Replay(r, a)
  BY DEF Next, Arrive, Read, Commit, CommitClashes, Recover, CommitFallback, FallbackClashes,
         CommitFails, Refresh, Reread, DatabaseFails, Conflict, LookUp, InsertRefused
<1>. QED  BY <1>1, <1>2, <1>3, <1>4, <1>5

\* create_application implements KeyedCreation: one key of one user is answered with one
\* application, whichever of the requests made it; and the loser of a race for a key can be
\* sent again.
THEOREM KeyMeansOne == Spec => KeysAreIdempotent
<1>1. Inv => AnswersAgree
  <2>. SUFFICES ASSUME Inv, NEW r \in Requests, answer[r] # None PROVE
           /\ apps[answer[r]] = [user |-> User(r), key |-> req[r].key, payload |-> req[r].payload]
           /\ \A s \in Requests :
                 answer[s] # None /\ req[r].key # None /\ req[s].key = req[r].key /\ User(s) = User(r)
                     => answer[s] = answer[r]
    BY DEF AnswersAgree
  <2>1. \A s \in Requests : answer[s] # None =>
            /\ answer[s] \in Requests /\ apps[answer[s]] # None
            /\ apps[answer[s]].user = User(s) /\ apps[answer[s]].key = req[s].key
    <3>. SUFFICES ASSUME NEW s \in Requests, answer[s] # None PROVE
            /\ answer[s] \in Requests /\ apps[answer[s]] # None
            /\ apps[answer[s]].user = User(s) /\ apps[answer[s]].key = req[s].key
      OBVIOUS
    <3>1. /\ apps[answer[s]] = [user |-> User(s), key |-> req[s].key, payload |-> req[s].payload]
          /\ apps[answer[s]] # None
      BY DEF Inv, Keyed
    <3>2. answer[s] \in Requests
      BY DEF Inv, TypeOK
    <3>3. apps[answer[s]].user = User(s) /\ apps[answer[s]].key = req[s].key
      BY <3>1
    <3>. QED  BY <3>1, <3>2, <3>3
  <2>2. \A a, b \in Requests :
            apps[a] # None /\ apps[b] # None /\ apps[a].key # None
               /\ apps[b].user = apps[a].user /\ apps[b].key = apps[a].key => a = b
    BY DEF Inv, Keyed
  <2>3. ASSUME NEW s \in Requests,
               answer[s] # None, req[r].key # None, req[s].key = req[r].key, User(s) = User(r)
        PROVE  answer[s] = answer[r]
    <3>1. apps[answer[r]].user = apps[answer[s]].user /\ apps[answer[r]].key = apps[answer[s]].key
      BY <2>1, <2>3
    <3>2. apps[answer[s]].key # None /\ apps[answer[s]] # None /\ apps[answer[r]] # None
      BY <2>1, <2>3
    <3>3. answer[s] \in Requests /\ answer[r] \in Requests
      BY <2>1, <2>3
    <3>. QED  BY <2>2, <3>1, <3>2, <3>3
  <2>. QED  BY <2>3 DEF Inv, Keyed
<1>2. Inv => AnswersAgree /\ ErrorIsRetryable
  BY <1>1 DEF Inv
<1>3. Init => Creations!CreationInit
  BY DEF Init, Creations!CreationInit, MadeApplications, Answered
<1>4. Inv /\ Inv' /\ [Next]_vars => [Creations!CreationNext]_(Creations!creationVars)
  <2>1. ASSUME Inv, Inv', Next PROVE Creations!CreationNext
    BY <2>1, KeptStep, CreationStep
  <2>2. ASSUME UNCHANGED vars PROVE UNCHANGED Creations!creationVars
    BY <2>2 DEF vars, Creations!creationVars, MadeApplications, Answered, KeyOf
  <2>. QED  BY <2>1, <2>2
<1>. QED  BY <1>2, <1>3, <1>4, Invariant, PTL DEF Spec, KeysAreIdempotent, Creations!CreationSpec
=============================================================================
