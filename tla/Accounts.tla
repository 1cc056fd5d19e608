------------------------------- MODULE Accounts -------------------------------
(***************************************************************************)
(* An authenticated request: the users row is made to agree with the       *)
(* token's claims, and a POST then creates an application under an         *)
(* optional Idempotency-Key.  Both look first and insert later; only the   *)
(* unique keys of the database stand between two requests.                 *)
(*   dependencies.py, services/users_service.py,                           *)
(*   services/applications_service.py.                                     *)
(***************************************************************************)
CONSTANTS
    Users, Emails, Keys,
    Payloads,     \* job and channel of an application
    Known,        \* payloads whose job is in the catalog
    Fallback,     \* Fallback[u]: the address made of the user's id
    Asks,         \* what requests ask, some of Asked
    Requests, None,
    MayFail       \* the database may fail

\* A GET has neither key nor payload.
Asked ==
    [user : Users, claim : Emails, write : {FALSE}, key : {None}, payload : {None}]
        \cup [user : Users, claim : Emails, write : {TRUE}, key : Keys \cup {None}, payload : Payloads]

Application == [user : Users, key : Keys \cup {None}, payload : Payloads]

ASSUME AccountsAssumption ==
    /\ None \notin Emails \cup Keys \cup Payloads \cup Requests \cup Asked \cup Application
    /\ Fallback \in [Users -> Emails] /\ Known \subseteq Payloads
    /\ Asks \subseteq Asked
    /\ MayFail \in BOOLEAN

VARIABLES
    users,        \* users[u]: the email of the committed row, or None
    apps,         \* apps[r]: the application that r inserted, or None
    pc, req,      \* where a request is, and what it asks
    seen,         \* the email of the row it has read, or None
    answer,       \* the application a POST was answered with, or None
    failed,       \* requests the database has failed
    overlapped    \* users with two requests in ensure_user at once

vars == <<users, apps, pc, req, seen, answer, failed, overlapped>>

EnsureUser == {"read", "commit", "reread", "recover", "fallback", "refresh"}
Creating == {"look", "insert"}
Served == {"done", "synthesized", "unavailable", "conflict", "not_found", "error"}

Init ==
    /\ users = [u \in Users |-> None]
    /\ apps = [r \in Requests |-> None]
    /\ pc = [r \in Requests |-> "idle"]
    /\ req = [r \in Requests |-> None]
    /\ seen = [r \in Requests |-> None]
    /\ answer = [r \in Requests |-> None]
    /\ failed = {} /\ overlapped = {}

Goto(r, p) == pc' = [pc EXCEPT ![r] = p]
User(r) == req[r].user
Claim(r) == req[r].claim
\* The unique key of emails.
Taken(u, e) == \E v \in Users \ {u} : users[v] = e
Store(u, e) == users' = [users EXCEPT ![u] = e]
\* The user is known: a GET is answered, a POST goes on.
Proceed(r) == Goto(r, IF req[r].write THEN "look" ELSE "done")

Arrive(r, q) ==
    /\ pc[r] = "idle"
    /\ req' = [req EXCEPT ![r] = q]
    /\ overlapped' = IF \E s \in Requests : pc[s] \in EnsureUser /\ User(s) = q.user
                     THEN overlapped \cup {q.user} ELSE overlapped
    /\ Goto(r, "read")
    /\ UNCHANGED <<users, apps, seen, answer, failed>>

-----------------------------------------------------------------------------
(* ensure_user.                                                             *)

Read(r) ==
    /\ pc[r] = "read"
    /\ seen' = [seen EXCEPT ![r] = users[User(r)]]
    /\ IF users[User(r)] = Claim(r) THEN Proceed(r) ELSE Goto(r, "commit")
    /\ UNCHANGED <<users, apps, req, answer, failed, overlapped>>

\* A row that was not there is inserted, another is updated.
Clashes(r, e) == (seen[r] = None /\ users[User(r)] # None) \/ Taken(User(r), e)

Commit(r) ==
    /\ pc[r] = "commit" /\ ~Clashes(r, Claim(r))
    /\ Store(User(r), Claim(r))
    /\ Goto(r, "refresh")
    /\ UNCHANGED <<apps, req, seen, answer, failed, overlapped>>

CommitClashes(r) ==
    /\ pc[r] = "commit" /\ Clashes(r, Claim(r))
    /\ Goto(r, "recover")
    /\ UNCHANGED <<users, apps, req, seen, answer, failed, overlapped>>

Recover(r) ==
    /\ pc[r] = "recover"
    /\ seen' = [seen EXCEPT ![r] = users[User(r)]]
    /\ Goto(r, "fallback")
    /\ UNCHANGED <<users, apps, req, answer, failed, overlapped>>

\* Nothing is written if the row read has the fallback already.
CommitFallback(r) ==
    LET f == Fallback[User(r)]
    IN  /\ pc[r] = "fallback"
        /\ \/ seen[r] = f /\ UNCHANGED users
           \/ seen[r] # f /\ ~Clashes(r, f) /\ Store(User(r), f)
        /\ Goto(r, "refresh")
        /\ UNCHANGED <<apps, req, seen, answer, failed, overlapped>>

\* mutant: the second clash is raised without another look
FallbackClashesRaises(r) ==
    /\ pc[r] = "fallback" /\ seen[r] # Fallback[User(r)] /\ Clashes(r, Fallback[User(r)])
    /\ Goto(r, IF req[r].write THEN "unavailable" ELSE "synthesized")
    /\ UNCHANGED <<users, apps, req, seen, answer, failed, overlapped>>

FallbackClashes(r) ==
    /\ pc[r] = "fallback" /\ seen[r] # Fallback[User(r)] /\ Clashes(r, Fallback[User(r)])
    /\ Goto(r, "reread")
    /\ UNCHANGED <<users, apps, req, seen, answer, failed, overlapped>>

\* mutant: every database error is taken for a collision
CommitFailsRecovers(r) ==
    /\ MayFail /\ pc[r] \in {"commit", "fallback"}
    /\ failed' = failed \cup {r}
    /\ Goto(r, IF pc[r] = "commit" THEN "recover" ELSE "reread")
    /\ UNCHANGED <<users, apps, req, seen, answer, overlapped>>

\* Any other database error of a commit, perhaps after it took effect.
CommitFails(r) ==
    LET e == IF pc[r] = "commit" THEN Claim(r) ELSE Fallback[User(r)]
    IN  /\ MayFail /\ pc[r] \in {"commit", "fallback"}
        /\ \/ UNCHANGED users
           \/ ~Clashes(r, e) /\ Store(User(r), e)
        /\ failed' = failed \cup {r}
        /\ Goto(r, "reread")
        /\ UNCHANGED <<apps, req, seen, answer, overlapped>>

Refresh(r) ==
    /\ pc[r] = "refresh"
    /\ Proceed(r)
    /\ UNCHANGED <<users, apps, req, seen, answer, failed, overlapped>>

\* mutant: a POST goes on without a row too
EscapesAlways(r) == Goto(r, IF req[r].write THEN "look" ELSE "synthesized")

\* An error that leaves ensure_user: a GET is served with a user made from the
\* claims, a POST gets a 503.
Escapes(r) == Goto(r, IF req[r].write THEN "unavailable" ELSE "synthesized")

\* The row that is there will do.
Reread(r) ==
    /\ pc[r] = "reread"
    /\ IF users[User(r)] # None THEN Proceed(r) ELSE Escapes(r)
    /\ UNCHANGED <<users, apps, req, seen, answer, failed, overlapped>>

DatabaseFails(r) ==
    /\ MayFail /\ pc[r] \in {"read", "recover", "refresh", "reread"}
    /\ failed' = failed \cup {r}
    /\ Escapes(r)
    /\ UNCHANGED <<users, apps, req, seen, answer, overlapped>>

-----------------------------------------------------------------------------
(* create_application.                                                      *)

HasKey(a, r) == apps[a] # None /\ req[r].key # None
                /\ apps[a].user = User(r) /\ apps[a].key = req[r].key
KeyUsed(r) == \E a \in Requests : HasKey(a, r)

\* mutant: the payload of the earlier application is not compared
ReplayAny(r, a) ==
    /\ pc[r] = "look" /\ HasKey(a, r)
    /\ answer' = [answer EXCEPT ![r] = a]
    /\ Goto(r, "done")
    /\ UNCHANGED <<users, apps, req, seen, failed, overlapped>>

Replay(r, a) ==
    /\ pc[r] = "look" /\ HasKey(a, r) /\ apps[a].payload = req[r].payload
    /\ answer' = [answer EXCEPT ![r] = a]
    /\ Goto(r, "done")
    /\ UNCHANGED <<users, apps, req, seen, failed, overlapped>>

Conflict(r, a) ==
    /\ pc[r] = "look" /\ HasKey(a, r) /\ apps[a].payload # req[r].payload
    /\ Goto(r, "conflict")
    /\ UNCHANGED <<users, apps, req, seen, answer, failed, overlapped>>

LookUp(r) ==
    /\ pc[r] = "look" /\ ~KeyUsed(r)
    /\ Goto(r, IF req[r].payload \in Known THEN "insert" ELSE "not_found")
    /\ UNCHANGED <<users, apps, req, seen, answer, failed, overlapped>>

\* mutant: the row is written without its owner
NewApplicationUnowned(r) == apps' = [apps EXCEPT ![r] =
    [key |-> req[r].key, payload |-> req[r].payload]]

\* Without a key the row gets a random one.
NewApplication(r) == apps' = [apps EXCEPT ![r] =
    [user |-> User(r), key |-> req[r].key, payload |-> req[r].payload]]

\* The unique key of user and key, the foreign key to the users row.
Refused(r) == KeyUsed(r) \/ users[User(r)] = None

Insert(r) ==
    /\ pc[r] = "insert" /\ ~Refused(r)
    /\ NewApplication(r)
    /\ answer' = [answer EXCEPT ![r] = r]
    /\ Goto(r, "done")
    /\ UNCHANGED <<users, req, seen, failed, overlapped>>

\* No handler: the request ends with an internal error.
InsertRefused(r) ==
    /\ pc[r] = "insert" /\ Refused(r)
    /\ Goto(r, "error")
    /\ UNCHANGED <<users, apps, req, seen, answer, failed, overlapped>>

CreateFails(r) ==
    /\ MayFail /\ pc[r] \in Creating
    /\ \/ UNCHANGED apps
       \/ pc[r] = "insert" /\ ~Refused(r) /\ NewApplication(r)
    /\ failed' = failed \cup {r}
    /\ Goto(r, "error")
    /\ UNCHANGED <<users, req, seen, answer, overlapped>>

Next == \E r \in Requests :
    \/ \E q \in Asks : Arrive(r, q)
    \/ Read(r) \/ Commit(r) \/ CommitClashes(r) \/ Recover(r) \/ CommitFallback(r)
    \/ FallbackClashes(r) \/ CommitFails(r) \/ Refresh(r) \/ Reread(r) \/ DatabaseFails(r)
    \/ \E a \in Requests : Replay(r, a) \/ Conflict(r, a)
    \/ LookUp(r) \/ Insert(r) \/ InsertRefused(r) \/ CreateFails(r)

Spec == Init /\ [][Next]_vars

-----------------------------------------------------------------------------
TypeOK ==
    /\ users \in [Users -> Emails \cup {None}]
    /\ apps \in [Requests -> Application \cup {None}]
    /\ pc \in [Requests -> {"idle"} \cup EnsureUser \cup Creating \cup Served]
    /\ req \in [Requests -> Asks \cup {None}]
    /\ \A r \in Requests : pc[r] # "idle" => req[r] # None
    /\ seen \in [Requests -> Emails \cup {None}]
    /\ answer \in [Requests -> Requests \cup {None}]
    /\ failed \subseteq Requests /\ overlapped \subseteq Users

\* e is an address of the user: a token of hers says so, or it is made of her id.
Addresses(u, e) == e = Fallback[u] \/ \E r \in Requests : pc[r] # "idle" /\ User(r) = u /\ Claim(r) = e

\* A row has the fallback address only if a token said so, if two users share an
\* address, or if two requests of the user were in ensure_user at once: the loser of
\* the race to insert takes the winner's row for a collision and overwrites its email.
FallbackNeedsCause ==
    \A u \in Users : users[u] = Fallback[u] =>
        \/ \E r \in Requests : pc[r] # "idle" /\ User(r) = u /\ Claim(r) = Fallback[u]
        \/ \E v \in Users \ {u}, e \in Emails : Addresses(u, e) /\ Addresses(v, e)
        \/ u \in overlapped

\* A POST goes on only with a committed users row, whatever failed in ensure_user.
WriteHasRow == \A r \in Requests : pc[r] \in Creating => users[User(r)] # None

\* A request is served from its claims or refused only if the database failed it, or if
\* the user's fallback address belongs to somebody else and no row of hers was there.
HealthyIsServed ==
    \A r \in Requests : pc[r] \in {"synthesized", "unavailable"} =>
        r \in failed \/ \E v \in Users \ {User(r)} : Addresses(v, Fallback[User(r)])

AnswersAgree ==
    \A r \in Requests : answer[r] # None =>
        /\ apps[answer[r]] = [user |-> User(r), key |-> req[r].key, payload |-> req[r].payload]
        /\ \A s \in Requests :
              answer[s] # None /\ req[r].key # None /\ req[s].key = req[r].key /\ User(s) = User(r)
                  => answer[s] = answer[r]

ErrorIsRetryable ==
    \A r \in Requests : pc[r] = "error" /\ r \notin failed => KeyUsed(r)

\* The key of an application and of what asks for one: a post without a key has one of
\* its own.
KeyOf(x, r) == <<x.user, x.key, IF x.key = None THEN r ELSE None>>

MadeApplications ==
    {[row |-> a, key |-> KeyOf(apps[a], a), body |-> apps[a].payload] :
        a \in {r \in Requests : apps[r] # None}}

Answered ==
    {[to |-> r, row |-> answer[r], key |-> KeyOf(req[r], r), body |-> req[r].payload] :
        r \in {s \in Requests : answer[s] # None}}

Creations == INSTANCE KeyedCreation WITH
    Rows <- Requests,
    Keys <- (Users \X Keys \X {None}) \cup (Users \X {None} \X Requests),
    Bodies <- Payloads, made <- MadeApplications, answered <- Answered

\* create_application keeps the promise of KeyedCreation: posts of one user with one key
\* that are answered are answered with one application, which stays as it was made, and
\* it is what each of them asked for; one that ends with an internal error although the
\* database worked left its key to an application: sent again, it is answered.
KeysAreIdempotent == Creations!CreationSpec /\ [](AnswersAgree /\ ErrorIsRetryable)
=============================================================================
