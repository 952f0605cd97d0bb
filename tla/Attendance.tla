----------------------------- MODULE Attendance -----------------------------
(***************************************************************************)
(* Clocking in and out: router api/v1/attendance.py, service               *)
(* services/attendance_service.py, repository attendance_repository.py,    *)
(* under the session of database.get_db.                                   *)
(*                                                                         *)
(* As in Roster, a Client has one request at a time, which runs in one     *)
(* READ COMMITTED transaction on a connection of the pool.  Neither        *)
(* handler locks what it reads, and no constraint of the table speaks of   *)
(* open sessions.  The router catches no OperationalError, so every        *)
(* failure of the database is a 500.                                       *)
(***************************************************************************)
EXTENDS Integers, FiniteSets

CONSTANTS
    Client,    \* whoever sends requests
    PoolSize,  \* pool_size and max_overflow of the engine, together
    Record,    \* record ids: the supply bounds how often staff clock in
    Staff,     \* staff members
    MaxTime,   \* bound on the clock
    NoRecord, Nobody, NoTime

ASSUME PoolAssumption == PoolSize \in Nat \ {0}
ASSUME TimeAssumption == MaxTime \in Nat
ASSUME NullAssumption == NoRecord \notin Record /\ Nobody \notin Staff /\ NoTime \notin Int

VARIABLES
    records,   \* committed rows of attendance_records, by id
    closings,  \* how many clock-outs of a record have been committed
    req,       \* the request of each client
    now        \* the clock of the server

vars == <<records, closings, req, now>>

-----------------------------------------------------------------------------
(* Data *)

Clock == 0 .. MaxTime
Stamp == Clock \cup {NoTime}

\* staff is Nobody while the id names no committed row; clock_in is NOT NULL.
AbsentRow == [staff |-> Nobody, clockIn |-> NoTime, clockOut |-> NoTime]

Row == [staff : Staff, clockIn : Clock, clockOut : Stamp] \cup {AbsentRow}

Phase == {"idle", "received", "checked", "stamped", "written", "answered"}

Answer == {"none", "200", "201", "404", "409", "500"}

\* knownShift: whether the shift_id of a clock-in is null or the id of a row.
Request == [pc : Phase, op : {"none", "in", "out"}, record : Record \cup {NoRecord},
            staff : Staff \cup {Nobody}, knownShift : BOOLEAN, stamp : Stamp, answer : Answer]

NoRequest == [pc |-> "idle", op |-> "none", record |-> NoRecord, staff |-> Nobody,
              knownShift |-> TRUE, stamp |-> NoTime, answer |-> "none"]

At(c, phase) == req[c].pc = phase

\* The clients whose request has a connection, and whether there is another one.
Connected == {c \in Client : req[c].pc \notin {"idle", "answered"}}

ConnectionIsFree == Cardinality(Connected) < PoolSize

\* The transactions that have updated a row and hold its lock.
HoldsRow(c) == req[c].op = "out" /\ At(c, "written")

-----------------------------------------------------------------------------
Init ==
    /\ records = [r \in Record |-> AbsentRow]
    /\ closings = [r \in Record |-> 0]
    /\ req = [c \in Client |-> NoRequest]
    /\ now = 0

Goto(c, phase) ==
    /\ req' = [req EXCEPT ![c].pc = phase]
    /\ UNCHANGED <<records, closings, now>>

\* The handler ends with an exception and get_db rolls back.
Refuse(c, status) ==
    /\ req' = [req EXCEPT ![c] = [@ EXCEPT !.pc = "answered", !.answer = status]]
    /\ UNCHANGED <<records, closings, now>>

(* POST /attendance/clock-in *)

\* The id is the fresh uuid the INSERT will draw.
ReceiveClockIn(c, r, u, known) ==
    /\ At(c, "idle")
    /\ records[r].staff = Nobody
    /\ \A v \in Client : req[v].op = "in" => req[v].record # r
    /\ req' = [req EXCEPT ![c] = [NoRequest EXCEPT !.pc = "received", !.op = "in",
                                                   !.record = r, !.staff = u,
                                                   !.knownShift = known]]
    /\ UNCHANGED <<records, closings, now>>

\* The committed records of the staff member that have no clock_out.
Open(u) == {r \in Record : records[r].staff = u /\ records[r].clockOut = NoTime}

\* Fault: the query also asks for sessions of today, a tick being a day.
OpenSessionStale(c) ==
    /\ At(c, "received")
    /\ req[c].op = "in"
    /\ IF \A r \in Open(req[c].staff) : records[r].clockIn # now
       THEN Goto(c, "checked")
       ELSE Refuse(c, "409")

\* get_open_session
CheckOpenSession(c) ==
    /\ At(c, "received")
    /\ req[c].op = "in"
    /\ IF Open(req[c].staff) = {} THEN Goto(c, "checked") ELSE Refuse(c, "409")

\* An unknown shift_id violates the foreign key: a 500.
InsertRecord(c) ==
    /\ At(c, "stamped")
    /\ req[c].op = "in"
    /\ IF req[c].knownShift THEN Goto(c, "written") ELSE Refuse(c, "500")

(* POST /attendance/clock-out *)

ReceiveClockOut(c, r, u) ==
    /\ At(c, "idle")
    /\ req' = [req EXCEPT ![c] = [NoRequest EXCEPT !.pc = "received", !.op = "out",
                                                   !.record = r, !.staff = u]]
    /\ UNCHANGED <<records, closings, now>>

\* Fault: a record that has been closed is closed again.
ClosedNotRefused(c) ==
    /\ At(c, "received")
    /\ req[c].op = "out"
    /\ IF records[req[c].record].staff = req[c].staff
       THEN Goto(c, "checked")
       ELSE Refuse(c, "404")

\* Unknown, somebody else's and closed records are all answered 404.
LoadRecord(c) ==
    /\ At(c, "received")
    /\ req[c].op = "out"
    /\ IF /\ records[req[c].record].staff = req[c].staff
          /\ records[req[c].record].clockOut = NoTime
       THEN Goto(c, "checked")
       ELSE Refuse(c, "404")

\* Fault: the lock of a row is not given back once the record is closed.
RowLeaked(c) == closings[req[c].record] = 0

\* An UPDATE waits for the transaction that has updated the row.
RowIsFree(c) == \A v \in Client : HoldsRow(v) => req[v].record # req[c].record

\* The UPDATE names the row by its key alone: it does not ask again whether the
\* record is still open.
UpdateRecord(c) ==
    /\ At(c, "stamped")
    /\ req[c].op = "out"
    /\ RowIsFree(c)
    /\ Goto(c, "written")

(* Both handlers *)

\* Fault: the service forgets the time of the clock-in.
StampForgotten(c) ==
    /\ At(c, "checked")
    /\ Goto(c, "stamped")

\* datetime.now is read after the check and before the write, which may wait.
TakeStamp(c) ==
    /\ At(c, "checked")
    /\ req' = [req EXCEPT ![c] = [@ EXCEPT !.pc = "stamped", !.stamp = now]]
    /\ UNCHANGED <<records, closings, now>>

Apply(c) ==
    LET r == req[c].record IN
    \/ /\ req[c].op = "in"
       /\ records' = [records EXCEPT ![r] = [staff |-> req[c].staff, clockIn |-> req[c].stamp,
                                             clockOut |-> NoTime]]
       /\ UNCHANGED closings
    \/ /\ req[c].op = "out"
       /\ records' = [records EXCEPT ![r].clockOut = req[c].stamp]
       /\ closings' = [closings EXCEPT ![r] = @ + 1]

Commit(c) ==
    /\ At(c, "written")
    /\ Apply(c)
    /\ req' = [req EXCEPT ![c] = [@ EXCEPT !.pc = "answered",
                                           !.answer = IF req[c].op = "in" THEN "201" ELSE "200"]]
    /\ UNCHANGED now

Respond(c) ==
    /\ At(c, "answered")
    /\ req' = [req EXCEPT ![c] = NoRequest]
    /\ UNCHANGED <<records, closings, now>>

(* Failures and time *)

StatementFails(c) ==
    /\ req[c].pc \in {"received", "stamped", "written"}
    /\ Refuse(c, "500")

\* COMMIT fails, before or after the database has committed.
CommitFails(c) ==
    /\ At(c, "written")
    /\ Apply(c)
    /\ req' = [req EXCEPT ![c] = [@ EXCEPT !.pc = "answered", !.answer = "500"]]
    /\ UNCHANGED now

Crash ==
    /\ \E c \in Client : ~At(c, "idle")
    /\ req' = [c \in Client |-> NoRequest]
    /\ UNCHANGED <<records, closings, now>>

Tick ==
    /\ now < MaxTime
    /\ now' = now + 1
    /\ UNCHANGED <<records, closings, req>>

-----------------------------------------------------------------------------
Receive(c) ==
    /\ ConnectionIsFree
    /\ \/ \E r \in Record, u \in Staff, known \in BOOLEAN : ReceiveClockIn(c, r, u, known)
       \/ \E r \in Record, u \in Staff : ReceiveClockOut(c, r, u)

Handle(c) ==
    \/ CheckOpenSession(c)
    \/ LoadRecord(c)
    \/ TakeStamp(c)
    \/ InsertRecord(c)
    \/ Commit(c)
    \/ Respond(c)

Fail(c) == StatementFails(c) \/ CommitFails(c)

Next ==
    \/ \E c \in Client : Receive(c) \/ Handle(c) \/ UpdateRecord(c) \/ Fail(c)
    \/ Crash
    \/ Tick

Spec == Init /\ [][Next]_vars

\* The server keeps running the handlers it has begun; a waiting UPDATE is woken when the
\* transaction it waits for ends.
Fairness == \A c \in Client : WF_vars(Handle(c)) /\ SF_vars(UpdateRecord(c))

FairSpec == Spec /\ Fairness

-----------------------------------------------------------------------------
(* Properties *)

\* The variables hold values of their types.
TypeOK ==
    /\ records \in [Record -> Row]
    /\ closings \in [Record -> Nat]
    /\ req \in [Client -> Request]
    /\ now \in Clock

\* The instants of the session r, which lasts until now while it is open.
Covers(r, t) ==
    /\ records[r].clockIn <= t
    /\ records[r].clockOut = NoTime \/ t < records[r].clockOut

\* The sessions of the staff member that last at the instant t.
Sessions(u, t) == {r \in Record : records[r].staff = u /\ Covers(r, t)}

\* What hours worked are added up from: no session ends before it begins, and no
\* more sessions of a staff member than the pool has connections last at one
\* instant, however late a clock-out that has read a record open writes to it.
SessionsBounded ==
    /\ \A r \in Record :
         records[r].clockOut # NoTime => records[r].clockIn <= records[r].clockOut
    /\ \A u \in Staff, t \in 0 .. now : Cardinality(Sessions(u, t)) <= PoolSize

\* The clock-outs of the record that have found it open.
Closing(r) ==
    {c \in Client : /\ req[c].op = "out" /\ req[c].record = r
                    /\ req[c].pc \in {"checked", "stamped", "written"}}

\* A closed record can be closed again by a clock-out that has read it open, but
\* not by more of them than the pool has connections.
ClosingsBounded ==
    \A r \in Record : closings[r] + Cardinality(Closing(r)) <= PoolSize

\* What get_open_session is for: no staff member has two open sessions.  It holds as
\* long as clock-ins of one staff member do not run together (ClockInsApartOpenOnce
\* of AttendanceProofs); when they do, only SessionsBounded holds.
OneOpenSession == \A u \in Staff : Cardinality(Open(u)) <= 1

\* Every request is answered or dies with the server, also a clock-out that waits
\* for another one's row.
EveryClockingEnds == \A c \in Client : At(c, "received") ~> At(c, "idle")
=============================================================================
