---------------------------- MODULE SwapWorkflow ----------------------------
(***************************************************************************)
(* Shift-swap requests: router api/v1/swaps.py, service                    *)
(* services/swap_service.py, repositories swap_repository.py and           *)
(* audit_log_repository.py, under the session of database.get_db.          *)
(*                                                                         *)
(* As in Roster, a Client has one request at a time, which runs in one     *)
(* READ COMMITTED transaction on a connection of the pool and is committed *)
(* by get_db before the response is sent.  Approving and rejecting lock    *)
(* the row with SELECT FOR UPDATE; the rate limit of a submission is a     *)
(* count without a lock.                                                   *)
(***************************************************************************)
EXTENDS Integers, FiniteSets, Sequences

CONSTANTS
    Client,      \* whoever sends requests
    PoolSize,    \* pool_size and max_overflow of the engine, together
    Swap,        \* swap ids: the supply bounds how many swaps are submitted
    Staff,       \* staff members who submit swaps
    Admin,       \* administrators who decide them
    RateMax,     \* _RATE_LIMIT_MAX
    RateWindow,  \* _RATE_LIMIT_WINDOW_HOURS, in ticks of the clock
    MaxTime,     \* bound on the clock
    NoSwap, Nobody

ASSUME PoolAssumption == PoolSize \in Nat \ {0}
ASSUME RateAssumption == RateMax \in Nat \ {0} /\ RateWindow \in Nat /\ MaxTime \in Nat
ASSUME NullAssumption == NoSwap \notin Swap /\ Nobody \notin Staff \cup Admin
ASSUME PeopleAssumption == Staff \cap Admin = {}

VARIABLES
    swaps,     \* committed rows of swap_requests, by id
    auditLog,  \* committed audit_logs rows of each swap, in commit order
    req,       \* the request of each client
    told,      \* how many clients were told that they decided the swap
    now        \* the clock, the same for the application and the database

vars == <<swaps, auditLog, req, told, now>>

-----------------------------------------------------------------------------
(* Data *)

\* What SwapRequestCreateSchema and the foreign keys tell apart in a body: two
\* different known shifts, twice the same shift, or a shift that is no row.
Payload == {"valid", "sameShift", "unknownShift"}

Decision == {"APPROVED", "REJECTED"}

Clock == 0 .. MaxTime

SwapRow == [status : {"absent", "PENDING"} \cup Decision, requester : Staff \cup {Nobody},
            created : Clock, resolvedBy : Admin \cup {Nobody}]

AbsentRow == [status |-> "absent", requester |-> Nobody, created |-> 0, resolvedBy |-> Nobody]

AuditEntry == [action : {"CREATE", "UPDATE"}, actor : Staff \cup Admin,
               before : {"absent", "PENDING"} \cup Decision, after : {"PENDING"} \cup Decision]

Phase == {"idle", "received", "checked", "locked", "written", "audited", "answered"}

Answer == {"none", "200", "201", "404", "409", "422", "429", "500", "503"}

\* began: when the transaction started, which is what the server default now()
\* of created_at gives; the user lookup of the auth guard starts it.
Request == [pc : Phase, op : {"none", "create", "decide"}, swap : Swap \cup {NoSwap},
            actor : Staff \cup Admin \cup {Nobody}, payload : Payload, decision : Decision,
            began : Clock, answer : Answer]

NoRequest == [pc |-> "idle", op |-> "none", swap |-> NoSwap, actor |-> Nobody,
              payload |-> "valid", decision |-> "APPROVED", began |-> 0, answer |-> "none"]

At(c, phase) == req[c].pc = phase

\* The clients whose request has a connection, and whether there is another one.
Connected == {c \in Client : req[c].pc \notin {"idle", "answered"}}

ConnectionIsFree == Cardinality(Connected) < PoolSize

\* The transactions that hold the row lock of a swap.
HoldsLock(c) == req[c].op = "decide" /\ req[c].pc \in {"locked", "written", "audited"}

-----------------------------------------------------------------------------
Init ==
    /\ swaps = [s \in Swap |-> AbsentRow]
    /\ auditLog = [s \in Swap |-> <<>>]
    /\ req = [c \in Client |-> NoRequest]
    /\ told = [s \in Swap |-> 0]
    /\ now = 0

Goto(c, phase) ==
    /\ req' = [req EXCEPT ![c].pc = phase]
    /\ UNCHANGED <<swaps, auditLog, told, now>>

\* The handler ends with an exception: get_db rolls back, and the row lock and
\* everything flushed are gone.
Refuse(c, status) ==
    /\ req' = [req EXCEPT ![c] = [@ EXCEPT !.pc = "answered", !.answer = status]]
    /\ UNCHANGED <<swaps, auditLog, told, now>>

(* POST /swaps *)

\* The schema refuses a body that names one shift twice.  The id is the fresh
\* uuid the INSERT will draw.
ReceiveCreate(c, s, u, p) ==
    /\ At(c, "idle")
    /\ swaps[s].status = "absent"
    /\ \A v \in Client : req[v].op = "create" => req[v].swap # s
    /\ req' = [req EXCEPT ![c] =
                 IF p # "sameShift"
                 THEN [NoRequest EXCEPT !.pc = "received", !.op = "create", !.swap = s,
                                        !.actor = u, !.payload = p, !.began = now]
                 ELSE [NoRequest EXCEPT !.pc = "answered", !.answer = "422"]]
    /\ UNCHANGED <<swaps, auditLog, told, now>>

\* Fault: a swap exactly as old as the window is not counted.
RecentStrictly(u) ==
    {s \in Swap : /\ swaps[s].status # "absent"
                  /\ swaps[s].requester = u
                  /\ swaps[s].created > now - RateWindow}

\* count_recent_by_user: the committed swaps of the user in the last hour.
Recent(u) ==
    {s \in Swap : /\ swaps[s].status # "absent"
                  /\ swaps[s].requester = u
                  /\ swaps[s].created >= now - RateWindow}

CheckRate(c) ==
    /\ At(c, "received")
    /\ req[c].op = "create"
    /\ IF Cardinality(Recent(req[c].actor)) < RateMax
       THEN Goto(c, "checked")
       ELSE Refuse(c, "429")

\* A foreign-key violation is an IntegrityError nobody catches: a 500.
InsertSwap(c) ==
    /\ At(c, "checked")
    /\ IF req[c].payload = "valid" THEN Goto(c, "written") ELSE Refuse(c, "500")

(* POST /swaps/{id}/approve and /swaps/{id}/reject *)

ReceiveDecision(c, s, a, d) ==
    /\ At(c, "idle")
    /\ req' = [req EXCEPT ![c] = [NoRequest EXCEPT !.pc = "received", !.op = "decide",
                                                   !.swap = s, !.actor = a, !.decision = d,
                                                   !.began = now]]
    /\ UNCHANGED <<swaps, auditLog, told, now>>

\* SELECT FOR UPDATE waits for the transaction that holds the row.
RowIsFree(c) == \A v \in Client : HoldsLock(v) => req[v].swap # req[c].swap

\* Fault: a row somebody else has locked is taken for a decided one.
LockedIsConflict(c) ==
    /\ At(c, "received")
    /\ req[c].op = "decide"
    /\ \/ swaps[req[c].swap].status = "absent" /\ Refuse(c, "404")
       \/ /\ swaps[req[c].swap].status \in Decision \/ ~RowIsFree(c)
          /\ Refuse(c, "409")
       \/ swaps[req[c].swap].status = "PENDING" /\ RowIsFree(c) /\ Goto(c, "locked")

\* Fault: the status is not looked at again once the lock is granted.
StatusUnchecked(c) ==
    /\ At(c, "received")
    /\ req[c].op = "decide"
    /\ RowIsFree(c)
    /\ IF swaps[req[c].swap].status = "absent" THEN Refuse(c, "404") ELSE Goto(c, "locked")

\* The lock once granted, the latest committed version of the row is read; an
\* uncommitted row is not there.
LockSwap(c) ==
    /\ At(c, "received")
    /\ req[c].op = "decide"
    /\ RowIsFree(c)
    /\ \/ swaps[req[c].swap].status = "absent" /\ Refuse(c, "404")
       \/ swaps[req[c].swap].status \in Decision /\ Refuse(c, "409")
       \/ swaps[req[c].swap].status = "PENDING" /\ Goto(c, "locked")

\* status, resolved_at and resolved_by are flushed.
SetStatus(c) ==
    /\ At(c, "locked")
    /\ Goto(c, "written")

(* The end of the handlers *)

RecordAudit(c) ==
    /\ At(c, "written")
    /\ Goto(c, "audited")

\* The rows the transaction wrote become visible.
Apply(c) ==
    LET s == req[c].swap IN
    \/ /\ req[c].op = "create"
       /\ swaps' = [swaps EXCEPT ![s] =
                      [status |-> "PENDING", requester |-> req[c].actor,
                       created |-> req[c].began, resolvedBy |-> Nobody]]
       /\ auditLog' = [auditLog EXCEPT ![s] =
                         Append(@, [action |-> "CREATE", actor |-> req[c].actor,
                                    before |-> "absent", after |-> "PENDING"])]
    \/ /\ req[c].op = "decide"
       /\ swaps' = [swaps EXCEPT ![s] = [@ EXCEPT !.status = req[c].decision,
                                                  !.resolvedBy = req[c].actor]]
       /\ auditLog' = [auditLog EXCEPT ![s] =
                         Append(@, [action |-> "UPDATE", actor |-> req[c].actor,
                                    before |-> "PENDING", after |-> req[c].decision])]

Commit(c) ==
    /\ At(c, "audited")
    /\ Apply(c)
    /\ req' = [req EXCEPT ![c] = [@ EXCEPT !.pc = "answered",
                                           !.answer = IF req[c].op = "create" THEN "201"
                                                                              ELSE "200"]]
    /\ UNCHANGED <<told, now>>

\* The response is sent: a 200 tells its client that the swap is decided.
Respond(c) ==
    /\ At(c, "answered")
    /\ req' = [req EXCEPT ![c] = NoRequest]
    /\ IF req[c].answer = "200"
       THEN told' = [told EXCEPT ![req[c].swap] = @ + 1]
       ELSE UNCHANGED told
    /\ UNCHANGED <<swaps, auditLog, now>>

(* Failures and time *)

\* A statement of the handler raises OperationalError: the router answers 503.
StatementFails(c) ==
    /\ req[c].pc \in {"received", "checked", "locked", "written"}
    /\ Refuse(c, "503")

\* Fault: get_db swallows the exception of the commit.
CommitFailureSwallowed(c) ==
    /\ At(c, "audited")
    /\ req' = [req EXCEPT ![c] = [@ EXCEPT !.pc = "answered", !.answer = "200"]]
    /\ UNCHANGED <<swaps, auditLog, told, now>>

\* COMMIT fails, before or after the server has committed: a 500.
CommitFails(c) ==
    /\ At(c, "audited")
    /\ \/ UNCHANGED <<swaps, auditLog>>
       \/ Apply(c)
    /\ req' = [req EXCEPT ![c] = [@ EXCEPT !.pc = "answered", !.answer = "500"]]
    /\ UNCHANGED <<told, now>>

\* The server process dies: open transactions are rolled back, no answer is sent.
Crash ==
    /\ \E c \in Client : ~At(c, "idle")
    /\ req' = [c \in Client |-> NoRequest]
    /\ UNCHANGED <<swaps, auditLog, told, now>>

Tick ==
    /\ now < MaxTime
    /\ now' = now + 1
    /\ UNCHANGED <<swaps, auditLog, req, told>>

-----------------------------------------------------------------------------
\* Fault: any authenticated user may decide.
AnyRole == Staff \cup Admin

\* require_admin: who may approve and reject.
Deciders == Admin

Receive(c) ==
    /\ ConnectionIsFree
    /\ \/ \E s \in Swap, u \in Staff, p \in Payload : ReceiveCreate(c, s, u, p)
       \/ \E s \in Swap, a \in Deciders, d \in Decision : ReceiveDecision(c, s, a, d)

Handle(c) ==
    \/ CheckRate(c)
    \/ InsertSwap(c)
    \/ SetStatus(c)
    \/ RecordAudit(c)
    \/ Commit(c)
    \/ Respond(c)

Fail(c) == StatementFails(c) \/ CommitFails(c)

Next ==
    \/ \E c \in Client : Receive(c) \/ Handle(c) \/ LockSwap(c) \/ Fail(c)
    \/ Crash
    \/ Tick

Spec == Init /\ [][Next]_vars

-----------------------------------------------------------------------------
(* Properties *)

\* The variables hold values of their types.
TypeOK ==
    /\ swaps \in [Swap -> SwapRow]
    /\ auditLog \in [Swap -> Seq(AuditEntry)]
    /\ req \in [Client -> Request]
    /\ told \in [Swap -> Nat]
    /\ now \in Clock

\* Submissions of the user whose check has passed and whose row no other check
\* can count yet.
Unseen(u) ==
    {c \in Client : /\ req[c].op = "create" /\ req[c].actor = u
                    /\ req[c].pc \in {"checked", "written", "audited"}}

\* The swaps that the user has submitted and that are no older than the window,
\* one of exactly its age included.
Submitted(u) ==
    {s \in Swap : /\ swaps[s].requester = u
                  /\ now - swaps[s].created <= RateWindow}

\* The rate limit is a count without a lock: requests that run together all pass
\* it, but no more than one for each connection beyond the last that may.
RateLimitBound ==
    \A u \in Staff :
        Cardinality(Submitted(u)) + Cardinality(Unseen(u)) <= RateMax - 1 + PoolSize

\* HR-03: no user has more than RateMax swaps in the window.
RateLimit == \A u \in Staff : Cardinality(Submitted(u)) <= RateMax

\* AU-08: a request answered 409 has found the swap decided, for good; a decision
\* that was rolled back while the request waited for the row is no conflict.
ConflictIsFinal ==
    \A c \in Client : At(c, "answered") /\ req[c].answer = "409" =>
        swaps[req[c].swap].status \in Decision

\* HR-02: a row is what its audit trail says: submitted once by its requester and,
\* when it is no longer pending, decided once by the administrator it names.
AuditReplaysRow ==
    \A s \in Swap :
        LET row == swaps[s]
            create == [action |-> "CREATE", actor |-> row.requester,
                       before |-> "absent", after |-> "PENDING"]
            update == [action |-> "UPDATE", actor |-> row.resolvedBy,
                       before |-> "PENDING", after |-> row.status]
        IN  /\ row.status = "absent" => auditLog[s] = <<>>
            /\ row.status = "PENDING" => auditLog[s] = <<create>>
            /\ row.status \in Decision => auditLog[s] = <<create, update>>

\* The workflow implements SwapLifecycle: whatever requests run together, a swap
\* is decided once, with its audit entry, and one client at most is told so.
Lifecycle == INSTANCE SwapLifecycle
    WITH status <- [s \in Swap |-> swaps[s].status], trail <- auditLog
ImplementsLifecycle == Lifecycle!Spec
=============================================================================
