------------------------------- MODULE Roster -------------------------------
(***************************************************************************)
(* Shift creation and staff assignment: routers api/v1/shifts.py, service  *)
(* services/shift_service.py, repositories shift_repository.py,            *)
(* assignment_repository.py and audit_log_repository.py, under the         *)
(* one-transaction-per-request session of database.get_db.                 *)
(*                                                                         *)
(* Each Client has one request at a time.  A request runs in one READ      *)
(* COMMITTED transaction on a connection of the pool: a statement sees the *)
(* rows committed when it starts, and what the request wrote itself stays  *)
(* invisible to the others until get_db commits, after the handler has     *)
(* returned and its thread serves others, and before the response is sent. *)
(* How many requests run together is therefore a matter of connections,    *)
(* not of threads; what a request waits for before it has its connection   *)
(* is in Admission.                                                        *)
(***************************************************************************)
EXTENDS Integers, FiniteSets

CONSTANTS
    Client,      \* whoever sends requests
    PoolSize,    \* pool_size and max_overflow of the engine, together
    Shift,       \* shift ids: the supply bounds how many shifts are created
    StaffId,     \* staff ids a request may name
    Registered,  \* the staff ids that are rows of the users table
    Time,        \* instants at which a shift may start or end
    Body,        \* the windows that clients send
    NoShift, NoStaff, NoWindow

ASSUME PoolAssumption == PoolSize \in Nat \ {0}
ASSUME StaffAssumption == Registered \subseteq StaffId
ASSUME TimeAssumption == Time \subseteq Int
ASSUME BodyAssumption == Body \subseteq [start : Time, end : Time]
ASSUME NullAssumption ==
    /\ NoShift \notin Shift
    /\ NoStaff \notin StaffId
    /\ NoWindow \notin [start : Time, end : Time]

VARIABLES
    shifts,       \* committed rows of shifts, by id
    assignments,  \* committed rows of staff_assignments: <<shift, staff>>
    auditLog,     \* number of committed audit_logs rows, by their content
    req,          \* the request of each client
    acked         \* audit contents of the writes a client was told succeeded

vars == <<shifts, assignments, auditLog, req, acked>>

-----------------------------------------------------------------------------
(* Data *)

Payload == [start : Time, end : Time]

Window == {p \in Payload : p.start < p.end}

\* Fault: the schema lets an empty shift through.
EmptyPayloadAllowed(p) == p.start <= p.end

\* ShiftCreateSchema._enforce_start_before_end
ValidPayload(p) == p.start < p.end

ShiftRow == [state : {"absent", "live", "deleted"}, window : Window \cup {NoWindow}]

AbsentRow == [state |-> "absent", window |-> NoWindow]

\* What one audit row says: the created shift, or the staff assigned to it.
CreateEntry(s) == [action |-> "CREATE", shift |-> s, staff |-> NoStaff]
AssignEntry(s, u) == [action |-> "UPDATE", shift |-> s, staff |-> u]

Entry == {CreateEntry(s) : s \in Shift}
            \cup {AssignEntry(s, u) : s \in Shift, u \in StaffId}

Phase == {"idle", "received", "loaded", "checked", "inserted", "audited", "answered"}

Answer == {"none", "200", "201", "404", "409", "422", "500", "503"}

Request == [pc : Phase, op : {"none", "create", "assign"}, shift : Shift \cup {NoShift},
            staff : StaffId \cup {NoStaff}, window : Window \cup {NoWindow},
            answer : Answer]

NoRequest == [pc |-> "idle", op |-> "none", shift |-> NoShift, staff |-> NoStaff,
              window |-> NoWindow, answer |-> "none"]

\* Fault: only a shift that starts earlier counts as overlapping.
OnlyEarlier(existing, new) == existing.start < new.start /\ existing.end > new.start

\* Fault: shifts that only touch count as overlapping.
ClosedIntervals(existing, new) == existing.start <= new.end /\ existing.end >= new.start

\* The overlap predicate of has_overlapping_assignment.
Overlaps(existing, new) == existing.start < new.end /\ existing.end > new.start

\* An instant at which a shift with this window keeps its staff busy.
Covers(win, t) == win.start <= t /\ t < win.end

At(c, phase) == req[c].pc = phase

\* The clients whose request has a connection, from the guard's SELECT of the user,
\* the first statement, until the transaction ends.
Connected == {c \in Client : req[c].pc \notin {"idle", "answered"}}

\* A request without a connection waits for one.
ConnectionIsFree == Cardinality(Connected) < PoolSize

\* Rows a transaction has flushed and not yet committed.
HoldsShift(c) == req[c].op = "create" /\ req[c].pc \in {"inserted", "audited"}
HoldsAssignment(c) == req[c].op = "assign" /\ req[c].pc \in {"inserted", "audited"}

\* The audit row of the request's write.
EntryOf(c) == IF req[c].op = "create" THEN CreateEntry(req[c].shift)
                                      ELSE AssignEntry(req[c].shift, req[c].staff)

-----------------------------------------------------------------------------
Init ==
    /\ shifts = [s \in Shift |-> AbsentRow]
    /\ assignments = {}
    /\ auditLog = [e \in Entry |-> 0]
    /\ req = [c \in Client |-> NoRequest]
    /\ acked = {}

\* Control reaches the next phase of the handler; no table changes.
Goto(c, phase) ==
    /\ req' = [req EXCEPT ![c].pc = phase]
    /\ UNCHANGED <<shifts, assignments, auditLog, acked>>

\* The handler ends: get_db rolls back on an exception, so nothing it flushed
\* remains, and the answer is ready to be sent.
Refuse(c, status) ==
    /\ req' = [req EXCEPT ![c] = [@ EXCEPT !.pc = "answered", !.answer = status]]
    /\ UNCHANGED <<shifts, assignments, auditLog, acked>>

(* POST /shifts *)

\* The body is validated before the handler runs; a rejected one is a 422.  The
\* id is the fresh uuid the INSERT will draw.
ReceiveCreate(c, s, p) ==
    /\ At(c, "idle")
    /\ shifts[s].state = "absent"
    /\ \A v \in Client : req[v].op = "create" => req[v].shift # s
    /\ req' = [req EXCEPT ![c] =
                 IF ValidPayload(p)
                 THEN [NoRequest EXCEPT !.pc = "received", !.op = "create",
                                        !.shift = s, !.window = p]
                 ELSE [NoRequest EXCEPT !.pc = "answered", !.answer = "422"]]
    /\ UNCHANGED <<shifts, assignments, auditLog, acked>>

InsertShift(c) ==
    /\ At(c, "received")
    /\ req[c].op = "create"
    /\ Goto(c, "inserted")

(* POST /shifts/{id}/assign *)

ReceiveAssign(c, s, u) ==
    /\ At(c, "idle")
    /\ req' = [req EXCEPT ![c] = [NoRequest EXCEPT !.pc = "received", !.op = "assign",
                                                   !.shift = s, !.staff = u]]
    /\ UNCHANGED <<shifts, assignments, auditLog, acked>>

LoadShift(c) ==
    /\ At(c, "received")
    /\ req[c].op = "assign"
    /\ LET row == shifts[req[c].shift] IN
         IF row.state = "live"
         THEN /\ req' = [req EXCEPT ![c] = [@ EXCEPT !.pc = "loaded", !.window = row.window]]
              /\ UNCHANGED <<shifts, assignments, auditLog, acked>>
         ELSE Refuse(c, "404")

\* The committed assignments of the staff member to other live shifts that
\* overlap the shift being assigned.
Conflicts(c) ==
    {s \in Shift \ {req[c].shift} :
        /\ <<s, req[c].staff>> \in assignments
        /\ shifts[s].state = "live"
        /\ Overlaps(shifts[s].window, req[c].window)}

CheckOverlap(c) ==
    /\ At(c, "loaded")
    /\ IF Conflicts(c) = {} THEN Goto(c, "checked") ELSE Refuse(c, "409")

\* Fault: the key is not unique among open transactions.
KeyUnguarded(c) == TRUE

\* An INSERT of a key another transaction has inserted waits for that
\* transaction to end.
KeyIsFree(c) ==
    \A v \in Client : HoldsAssignment(v) =>
        <<req[v].shift, req[v].staff>> # <<req[c].shift, req[c].staff>>

\* uq_staff_assignment_shift_staff and the foreign key to users; the shift row
\* exists, since nothing removes one.  An IntegrityError is nobody's except
\* clause: it leaves the handler as a 500.
InsertAssignment(c) ==
    /\ At(c, "checked")
    /\ KeyIsFree(c)
    /\ IF /\ <<req[c].shift, req[c].staff>> \notin assignments
          /\ req[c].staff \in Registered
       THEN Goto(c, "inserted")
       ELSE Refuse(c, "500")

(* The end of both handlers *)

\* Fault: the audit repository commits its row itself.
AuditCommitsAlone(c) ==
    /\ At(c, "inserted")
    /\ req' = [req EXCEPT ![c].pc = "audited"]
    /\ auditLog' = [auditLog EXCEPT ![EntryOf(c)] = @ + 1]
    /\ UNCHANGED <<shifts, assignments, acked>>

RecordAudit(c) ==
    /\ At(c, "inserted")
    /\ Goto(c, "audited")

\* The transaction becomes visible: the row and its audit entry together.
Apply(c) ==
    /\ auditLog' = [auditLog EXCEPT ![EntryOf(c)] = @ + 1]
    /\ \/ /\ req[c].op = "create"
          /\ shifts' = [shifts EXCEPT ![req[c].shift] =
                          [state |-> "live", window |-> req[c].window]]
          /\ UNCHANGED assignments
       \/ /\ req[c].op = "assign"
          /\ assignments' = assignments \cup {<<req[c].shift, req[c].staff>>}
          /\ UNCHANGED shifts

\* get_db commits once the handler has returned.
Commit(c) ==
    /\ At(c, "audited")
    /\ Apply(c)
    /\ req' = [req EXCEPT ![c] = [@ EXCEPT !.pc = "answered",
                                           !.answer = IF req[c].op = "create" THEN "201" ELSE "200"]]
    /\ UNCHANGED acked

\* The response reaches its client, who may send another request.
Respond(c) ==
    /\ At(c, "answered")
    /\ acked' = IF req[c].answer \in {"200", "201"} THEN acked \cup {EntryOf(c)} ELSE acked
    /\ req' = [req EXCEPT ![c] = NoRequest]
    /\ UNCHANGED <<shifts, assignments, auditLog>>

(* Failures *)

\* A statement of the handler raises OperationalError: the router answers 503.
StatementFails(c) ==
    /\ req[c].pc \in {"received", "loaded", "checked", "inserted"}
    /\ Refuse(c, "503")

\* Fault: get_db swallows the exception of the commit.
CommitFailureSwallowed(c) ==
    /\ At(c, "audited")
    /\ \/ UNCHANGED <<shifts, assignments, auditLog>>
       \/ Apply(c)
    /\ req' = [req EXCEPT ![c] = [@ EXCEPT !.pc = "answered", !.answer = "200"]]
    /\ UNCHANGED acked

\* COMMIT raises OperationalError in get_db, outside the router's try: a 500.
\* The connection may be lost before or after the server has committed.
CommitFails(c) ==
    /\ At(c, "audited")
    /\ \/ UNCHANGED <<shifts, assignments, auditLog>>
       \/ Apply(c)
    /\ req' = [req EXCEPT ![c] = [@ EXCEPT !.pc = "answered", !.answer = "500"]]
    /\ UNCHANGED acked

\* The server process dies: the database rolls its open transactions back and
\* no pending response is sent.
Crash ==
    /\ \E c \in Client : ~At(c, "idle")
    /\ req' = [c \in Client |-> NoRequest]
    /\ UNCHANGED <<shifts, assignments, auditLog, acked>>

(* ShiftRepository.soft_delete, in a transaction of its own.  No handler calls
   it; the queries above are written for rows it has marked. *)
SoftDelete(s) ==
    /\ shifts[s].state = "live"
    /\ shifts' = [shifts EXCEPT ![s].state = "deleted"]
    /\ UNCHANGED <<assignments, auditLog, req, acked>>

-----------------------------------------------------------------------------
Receive(c) ==
    /\ ConnectionIsFree
    /\ \/ \E s \in Shift, p \in Body : ReceiveCreate(c, s, p)
       \/ \E s \in Shift, u \in StaffId : ReceiveAssign(c, s, u)

Handle(c) ==
    \/ InsertShift(c)
    \/ LoadShift(c)
    \/ CheckOverlap(c)
    \/ RecordAudit(c)
    \/ Commit(c)
    \/ Respond(c)

Fail(c) == StatementFails(c) \/ CommitFails(c)

Next ==
    \/ \E c \in Client : Receive(c) \/ Handle(c) \/ InsertAssignment(c) \/ Fail(c)
    \/ Crash
    \/ \E s \in Shift : SoftDelete(s)

Spec == Init /\ [][Next]_vars

-----------------------------------------------------------------------------
(* Properties *)

\* The variables hold values of their types.
TypeOK ==
    /\ shifts \in [Shift -> ShiftRow]
    /\ assignments \subseteq Shift \X StaffId
    /\ auditLog \in [Entry -> Nat]
    /\ req \in [Client -> Request]
    /\ acked \subseteq Entry

\* The live shifts the staff member is assigned to that cover the instant.
Booked(u, t) ==
    {s \in Shift : /\ <<s, u>> \in assignments
                   /\ shifts[s].state = "live"
                   /\ Covers(shifts[s].window, t)}

\* Requests between the overlap check and the end of their transaction: what
\* they are about to write, no other request's check can see.
PastCheck(c) == req[c].op = "assign" /\ req[c].pc \in {"checked", "inserted", "audited"}

InFlight(u, t) ==
    {req[c].shift : c \in {v \in Client : /\ PastCheck(v)
                                          /\ req[v].staff = u
                                          /\ Covers(req[v].window, t)}}

\* has_overlapping_assignment is a check without a lock, so a staff member can be
\* booked twice for one instant: but never for more shifts than the pool has
\* connections, counting those whose requests have passed the check.
BoundedDoubleBooking ==
    \A u \in StaffId, t \in Time :
        Cardinality(Booked(u, t) \cup InFlight(u, t)) <= PoolSize

\* A request answered 409 is about a staff member who is assigned to another shift
\* that has an instant in common with the one requested: one that only touches it
\* is no reason to refuse.
ConflictIsReal ==
    \A c \in Client : At(c, "answered") /\ req[c].answer = "409" =>
        \E s \in Shift \ {req[c].shift}, t \in Time :
            /\ <<s, req[c].staff>> \in assignments
            /\ Covers(shifts[s].window, t) /\ Covers(req[c].window, t)

\* What AU-04 asks: no staff member is booked for two live shifts at one instant.
NoDoubleBooking ==
    \A u \in StaffId, t \in Time : Cardinality(Booked(u, t)) <= 1

\* AU-07: every shift and every assignment has exactly one audit entry and every
\* entry is about a committed row, whatever fails or crashes on the way.
AuditMatchesTables ==
    /\ \A s \in Shift :
         auditLog[CreateEntry(s)] = (IF shifts[s].state = "absent" THEN 0 ELSE 1)
    /\ \A s \in Shift, u \in StaffId :
         auditLog[AssignEntry(s, u)] = (IF <<s, u>> \in assignments THEN 1 ELSE 0)

\* A client that was told 200 or 201 finds its write in the database, also after
\* a crash: get_db commits before the response is sent.
AckedIsDurable == \A e \in acked : auditLog[e] = 1

\* Roster implements RosterLedger: requests, open transactions, failures and
\* crashes cannot be seen in what is stored and told.  The entries recorded are
\* those recorded once, so that a second copy would take its entry out of the log.
Ledger == INSTANCE RosterLedger
            WITH Staff <- Registered, Limit <- PoolSize,
                 log <- {e \in Entry : auditLog[e] = 1}, told <- acked

ImplementsLedger == Ledger!Spec
=============================================================================
