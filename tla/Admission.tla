------------------------------ MODULE Admission ------------------------------
(***************************************************************************)
(* How a request gets a thread, a database connection and past the guard:  *)
(* database.get_db and its engine, dependencies.get_current_user and       *)
(* require_role, and the chain of dependencies every guarded route has.    *)
(*                                                                         *)
(* Every dependency and handler is a synchronous function, which the       *)
(* framework runs on a thread of a limited supply and gives the thread     *)
(* back when the function returns.  The session checks a connection out    *)
(* of its pool at the first statement, which is the guard's, and keeps it  *)
(* until get_db commits or rolls back: while a request waits for its next  *)
(* thread it holds a connection, and while a thread waits for a connection *)
(* it is lost to the others.  What a handler does with its connection is   *)
(* the subject of the other modules.                                       *)
(***************************************************************************)
EXTENDS Integers, FiniteSets

CONSTANTS
    Request,         \* requests in the server: the supply bounds how many at once
    User,            \* rows of the users table
    Admin, Staff,    \* the users that have the role; the others are managers
    Route,           \* the kinds of guarded routes in use
    MaxThreads,      \* size of the framework's thread pool
    MaxConnections,  \* pool_size + max_overflow
    NoUser

ASSUME RequestAssumption == IsFiniteSet(Request)
ASSUME RoleAssumption == Admin \subseteq User /\ Staff \subseteq User \ Admin
ASSUME RouteAssumption == Route \subseteq {"admin", "staff", "any"}
ASSUME SupplyAssumption == MaxThreads \in Nat \ {0} /\ MaxConnections \in Nat \ {0}
ASSUME NullAssumption == NoUser \notin User

VARIABLES
    req,         \* what each request is and how far it has come
    onThread,    \* requests that occupy a thread between two steps
    checkedOut,  \* requests whose session has a connection
    deleted,     \* users whose row is marked as deleted
    late         \* by user: successes answered after the deletion

vars == <<req, onThread, checkedOut, deleted, late>>

-----------------------------------------------------------------------------
(* Data *)

\* What decode_access_token and the version claim can say: the token is no good,
\* was issued under an earlier token_version, or under the present one.
Token == {"none", "garbled", "stale", "current"}

\* require_admin, require_staff and require_any_role
Allowed == [admin |-> Admin, staff |-> Staff, any |-> Admin \cup Staff]

Phase == {"idle", "arrived", "opened", "queued", "reading", "loaded", "cleared",
          "ready", "running", "returned", "closing"}

Answer == {"none", "200", "401", "403", "500", "refused"}

Job == [pc : Phase, user : User \cup {NoUser}, token : Token,
        route : Route \cup {"none"}, answer : Answer]

NoJob == [pc |-> "idle", user |-> NoUser, token |-> "none", route |-> "none",
          answer |-> "none"]

At(r, phase) == req[r].pc = phase

ThreadIsFree == Cardinality(onThread) < MaxThreads

ConnectionIsFree == Cardinality(checkedOut) < MaxConnections

-----------------------------------------------------------------------------
Init ==
    /\ req = [r \in Request |-> NoJob]
    /\ onThread = {}
    /\ checkedOut = {}
    /\ deleted = {}
    /\ late = [u \in User |-> 0]

\* The request comes to its next phase.
Goto(r, phase) == req' = [req EXCEPT ![r].pc = phase]

\* The answer is settled, by an exception or a response; get_db is still to end.
Settle(r, status) ==
    req' = [req EXCEPT ![r] = [@ EXCEPT !.pc = "closing", !.answer = status]]

\* A function that runs to its end without waiting for anything.  It needs a
\* thread that is free, and the thread is free again after it.
OnFreeThread == ThreadIsFree /\ UNCHANGED <<onThread, checkedOut, deleted, late>>

(* The dependencies of a guarded route, in the order in which they are solved *)

Arrive(r, u, token, route) ==
    /\ At(r, "idle")
    /\ req' = [req EXCEPT ![r] = [pc |-> "arrived", user |-> u, token |-> token,
                                  route |-> route, answer |-> "none"]]
    /\ UNCHANGED <<onThread, checkedOut, deleted, late>>

\* get_db up to its yield.  A new session has no connection.
OpenSession(r) ==
    /\ At(r, "arrived")
    /\ OnFreeThread
    /\ Goto(r, "opened")

\* get_current_user up to db.get: a token that cannot be decoded, or that lacks a
\* claim, is a 401 before any statement.
DecodeToken(r) ==
    /\ At(r, "opened")
    /\ ThreadIsFree
    /\ \/ /\ req[r].token = "garbled"
          /\ Settle(r, "401")
          /\ UNCHANGED onThread
       \/ /\ req[r].token # "garbled"
          /\ Goto(r, "queued")
          /\ onThread' = onThread \cup {r}
    /\ UNCHANGED <<checkedOut, deleted, late>>

\* The session asks the pool for a connection.  The thread waits here.
TakeConnection(r) ==
    /\ At(r, "queued")
    /\ ConnectionIsFree
    /\ Goto(r, "reading")
    /\ checkedOut' = checkedOut \cup {r}
    /\ UNCHANGED <<onThread, deleted, late>>

\* Fault: the pool waits without a limit.
NeverTimeOut(r) == FALSE /\ UNCHANGED vars

\* pool_timeout: SQLAlchemy's TimeoutError is nobody's except clause.
TimeOut(r) ==
    /\ At(r, "queued")
    /\ ~ConnectionIsFree
    /\ Settle(r, "500")
    /\ onThread' = onThread \ {r}
    /\ UNCHANGED <<checkedOut, deleted, late>>

\* Faults: the row is not asked whether it is deleted; the thread of a refused
\* request is not given back.
AdmitDeleted(r) ==
    /\ At(r, "reading")
    /\ IF req[r].token = "stale" THEN Settle(r, "401") ELSE Goto(r, "loaded")
    /\ onThread' = onThread \ {r}
    /\ UNCHANGED <<checkedOut, deleted, late>>

KeepThread(r) ==
    /\ At(r, "reading")
    /\ \/ /\ req[r].user \in deleted \/ req[r].token = "stale"
          /\ Settle(r, "401")
          /\ UNCHANGED onThread
       \/ /\ req[r].user \notin deleted
          /\ req[r].token # "stale"
          /\ Goto(r, "loaded")
          /\ onThread' = onThread \ {r}
    /\ UNCHANGED <<checkedOut, deleted, late>>

\* get_current_user from db.get on.
ReadUser(r) ==
    /\ At(r, "reading")
    /\ IF req[r].user \in deleted \/ req[r].token = "stale"
       THEN Settle(r, "401")
       ELSE Goto(r, "loaded")
    /\ onThread' = onThread \ {r}
    /\ UNCHANGED <<checkedOut, deleted, late>>

\* The connection breaks under the guard's statement, outside every router's try.
ReadFails(r) ==
    /\ At(r, "reading")
    /\ Settle(r, "500")
    /\ onThread' = onThread \ {r}
    /\ UNCHANGED <<checkedOut, deleted, late>>

\* require_role._check
CheckRole(r) ==
    /\ At(r, "loaded")
    /\ OnFreeThread
    /\ IF req[r].user \in Allowed[req[r].route] THEN Goto(r, "cleared") ELSE Settle(r, "403")

\* _svc of the router.
BuildService(r) ==
    /\ At(r, "cleared")
    /\ OnFreeThread
    /\ Goto(r, "ready")

StartHandler(r) ==
    /\ At(r, "ready")
    /\ ThreadIsFree
    /\ Goto(r, "running")
    /\ onThread' = onThread \cup {r}
    /\ UNCHANGED <<checkedOut, deleted, late>>

\* The handler returns, or refuses or fails by an exception.
FinishHandler(r) ==
    /\ At(r, "running")
    /\ Goto(r, "returned") \/ Settle(r, "refused")
    /\ onThread' = onThread \ {r}
    /\ UNCHANGED <<checkedOut, deleted, late>>

\* The framework validates what a synchronous handler returned, on a thread.
ValidateResponse(r) ==
    /\ At(r, "returned")
    /\ OnFreeThread
    /\ Settle(r, "200") \/ Settle(r, "500")

\* Faults: only a session that commits gives its connection back; what is left of
\* a request is there when the next one comes.
CloseOnSuccess(r) ==
    /\ At(r, "closing")
    /\ req' = [req EXCEPT ![r] = NoJob]
    /\ checkedOut' = IF req[r].answer = "200" THEN checkedOut \ {r} ELSE checkedOut
    /\ UNCHANGED <<onThread, deleted, late>>

KeepJob(r) ==
    /\ At(r, "closing")
    /\ Goto(r, "idle")
    /\ checkedOut' = checkedOut \ {r}
    /\ UNCHANGED <<onThread, deleted, late>>

\* get_db after its yield commits or rolls back and closes the session, on a
\* thread outside the supply; then the answer is sent.  A commit that fails
\* makes the answer a 500.
CloseSession(r) ==
    /\ At(r, "closing")
    /\ req' = [req EXCEPT ![r] = NoJob]
    /\ checkedOut' = checkedOut \ {r}
    /\ \/ UNCHANGED late
       \/ /\ req[r].answer = "200"
          /\ req[r].user \in deleted
          /\ late' = [late EXCEPT ![req[r].user] = @ + 1]
    /\ UNCHANGED <<onThread, deleted>>

(* What happens beside the requests *)

\* user_service.delete_user, in a transaction of its own.  No route calls it; the
\* guard is written for the rows it marks.
DeleteUser(u) ==
    /\ u \notin deleted
    /\ deleted' = deleted \cup {u}
    /\ UNCHANGED <<req, onThread, checkedOut, late>>

\* The server dies: no thread, no session and no answer is left.
Crash ==
    /\ \E r \in Request : ~At(r, "idle")
    /\ req' = [r \in Request |-> NoJob]
    /\ onThread' = {}
    /\ checkedOut' = {}
    /\ UNCHANGED <<deleted, late>>

-----------------------------------------------------------------------------
\* Steps that wait for a thread, and steps of those that have one or need none.
NeedsThread(r) ==
    \/ OpenSession(r)
    \/ DecodeToken(r)
    \/ CheckRole(r)
    \/ BuildService(r)
    \/ StartHandler(r)
    \/ ValidateResponse(r)

Proceed(r) ==
    \/ TakeConnection(r)
    \/ TimeOut(r)
    \/ ReadUser(r)
    \/ FinishHandler(r)
    \/ CloseSession(r)

Next ==
    \/ \E r \in Request :
         \/ \E u \in User, token \in Token \ {"none"}, route \in Route :
              Arrive(r, u, token, route)
         \/ NeedsThread(r)
         \/ Proceed(r)
         \/ ReadFails(r)
    \/ \E u \in User : DeleteUser(u)
    \/ Crash

Spec == Init /\ [][Next]_vars

\* The framework's thread limiter serves its waiters in order of arrival, hence
\* strong fairness.  A thread that waits for a connection obtains one or times
\* out, and a handler ends, as the modules about handlers show.
Fairness == \A r \in Request : SF_vars(NeedsThread(r)) /\ WF_vars(Proceed(r))

FairSpec == Spec /\ Fairness

-----------------------------------------------------------------------------
(* Properties *)

\* The variables hold values of their types, and nothing is left of a request
\* that has ended.
TypeOK ==
    /\ req \in [Request -> Job]
    /\ \A r \in Request : At(r, "idle") <=> req[r] = NoJob
    /\ onThread \subseteq Request
    /\ checkedOut \subseteq Request
    /\ deleted \subseteq User
    /\ late \in [User -> Nat]

\* The phases in which a request occupies a thread, and in which its session may
\* have a connection.
OccupiesThread(r) == req[r].pc \in {"queued", "reading", "running"}
KeepsConnection(r) == req[r].pc \in {"reading", "loaded", "cleared", "ready", "running", "returned"}

\* No way of ending a dependency, a handler or a request, by an answer, an
\* exception or a time-out, loses a thread or a connection, and the limits of
\* both supplies hold.
NothingLeaks ==
    /\ onThread = {r \in Request : OccupiesThread(r)}
    /\ \A r \in Request : KeepsConnection(r) => r \in checkedOut
    /\ \A r \in checkedOut : KeepsConnection(r) \/ At(r, "closing")
    /\ Cardinality(onThread) <= MaxThreads
    /\ Cardinality(checkedOut) <= MaxConnections

\* Every thread waits for a connection, and every connection is kept by a
\* request that waits for a thread.
Stalled ==
    /\ ~ThreadIsFree
    /\ ~ConnectionIsFree
    /\ \A r \in onThread : At(r, "queued")
    /\ \A r \in checkedOut : ~At(r, "closing")

Active == {r \in Request : ~At(r, "idle")}

\* The server can stop until pool_timeout has passed, threads waiting for
\* connections and connections for threads; it takes as many requests at once
\* as there are threads and connections together.
StallNeedsCrowd == Stalled => Cardinality(Active) >= MaxThreads + MaxConnections

\* dependencies.py:60: "Role mismatch -> HTTP 403 within 50 ms (FastAPI resolves
\* Depends() synchronously in the request thread)": the refusal of a user whose
\* row has been read never waits for the time-out of others.
RefusalIsPrompt ==
    \A r \in Request :
        At(r, "loaded") /\ req[r].user \notin Allowed[req[r].route] => ~Stalled

\* Past the guard, on the way to a success.
Admitted(r) ==
    \/ req[r].pc \in {"loaded", "cleared", "ready", "running", "returned"}
    \/ At(r, "closing") /\ req[r].answer = "200"

\* AU-03: the guard reads the row once, so a user deleted meanwhile may still be
\* served: in all, at most once for every request that was in the server.
LateIsBounded ==
    \A u \in deleted :
        late[u] + Cardinality({r \in Request : req[r].user = u /\ Admitted(r)})
            <= Cardinality(Request)

\* Every request is answered or dies with the server, whoever waits for whom.
EveryRequestEnds == \A r \in Request : At(r, "arrived") ~> At(r, "idle")
=============================================================================
