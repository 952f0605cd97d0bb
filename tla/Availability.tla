---------------------------- MODULE Availability ----------------------------
(***************************************************************************)
(* Weekly availability windows: PUT /availability, that is router          *)
(* api/v1/availability.py, service services/availability_service.py,       *)
(* repository availability_repository.py and the body's validation in      *)
(* schemas/availability.py, under the session of database.get_db.          *)
(*                                                                         *)
(* As in Roster, a Client has one request at a time, which runs in one     *)
(* READ COMMITTED transaction; nothing here depends on how many run        *)
(* together, so there is no pool.  The upsert reads the row of the staff   *)
(* member and day without a lock; what it then writes is an INSERT, or an  *)
(* UPDATE of just those columns whose new value differs from the value     *)
(* that was read.                                                          *)
(***************************************************************************)
EXTENDS Integers, FiniteSets

CONSTANTS
    Client,  \* whoever sends requests
    Key,     \* the <<staff member, day of the week>> pairs in use
    Hour,    \* times of day a window may start or end at
    Format,  \* the forms of a time in a body: subset of {"short", "long", "number"}
    NoKey, NoWindow

ASSUME HourAssumption == Hour \subseteq Nat
ASSUME FormatAssumption == Format \subseteq {"short", "long", "number"}
ASSUME NullAssumption ==
    NoKey \notin Key /\ NoWindow \notin [start : Nat, end : Nat, open : BOOLEAN]

VARIABLES
    rows,  \* committed rows of staff_availability, by key
    req    \* the request of each client

vars == <<rows, req>>

-----------------------------------------------------------------------------
(* Data *)

\* start_time, end_time and is_available of a row.
Window == [start : Hour, end : Hour, open : BOOLEAN]

\* A time as a body writes it: "09:00", "09:00:00" or the number of its seconds.
RawTime == [hour : Hour, format : Format]

IsNumber(raw) == raw.format = "number"

\* Only the number 0 is a time that Python takes for false.
Truthy(raw) == ~(IsNumber(raw) /\ raw.hour = 0)

\* end <= start, for two numbers, or for two strings in their lexical order, in
\* which "09:00" comes before "09:00:00".
NotAfter(end, start) ==
    \/ end.hour < start.hour
    \/ end.hour = start.hour /\ ~(start.format = "short" /\ end.format = "long")

\* AvailabilityCreateSchema._start_before_end runs before the times are parsed.
\* Comparing a string with a number is a TypeError, which is a 500.
Judge(start, end) ==
    IF Truthy(start) /\ Truthy(end)
    THEN IF IsNumber(start) # IsNumber(end) THEN "500"
         ELSE IF NotAfter(end, start) THEN "422" ELSE "ok"
    ELSE "ok"

Phase == {"idle", "received", "loaded", "written", "answered"}

Answer == {"none", "200", "422", "500"}

\* seen: the row as the upsert read it.  duplicate: whether the request has met
\* an IntegrityError of uq_availability_staff_day.
Request == [pc : Phase, key : Key \cup {NoKey}, window : Window \cup {NoWindow},
            seen : Window \cup {NoWindow}, answer : Answer, duplicate : BOOLEAN]

NoRequest == [pc |-> "idle", key |-> NoKey, window |-> NoWindow, seen |-> NoWindow,
              answer |-> "none", duplicate |-> FALSE]

At(c, phase) == req[c].pc = phase

-----------------------------------------------------------------------------
Init ==
    /\ rows = [k \in Key |-> NoWindow]
    /\ req = [c \in Client |-> NoRequest]

\* The handler ends with an exception and get_db rolls back.
Refuse(c, status, duplicate) ==
    /\ req' = [req EXCEPT ![c] = [@ EXCEPT !.pc = "answered", !.answer = status,
                                           !.duplicate = duplicate]]
    /\ UNCHANGED rows

Receive(c, k, start, end, open) ==
    /\ At(c, "idle")
    /\ LET verdict == Judge(start, end) IN
         req' = [req EXCEPT ![c] =
                   IF verdict = "ok"
                   THEN [NoRequest EXCEPT !.pc = "received", !.key = k,
                            !.window = [start |-> start.hour, end |-> end.hour, open |-> open]]
                   ELSE [NoRequest EXCEPT !.pc = "answered", !.answer = verdict]]
    /\ UNCHANGED rows

\* get_by_staff_and_day
LoadRow(c) ==
    /\ At(c, "received")
    /\ req' = [req EXCEPT ![c] = [@ EXCEPT !.pc = "loaded", !.seen = rows[req[c].key]]]
    /\ UNCHANGED rows

\* Flushed by an open transaction: an inserted key, or an updated and so locked
\* row.  An upsert that changes no column writes nothing.
HoldsKey(c) == At(c, "written") /\ req[c].window # req[c].seen

\* Fault: the lock on a key outlives its transaction.
KeyLeaked(c) == rows[req[c].key] = req[c].seen

\* An INSERT or UPDATE waits for the transaction that holds the key.
KeyIsFree(c) == \A v \in Client : HoldsKey(v) => req[v].key # req[c].key

\* Fault: a key another transaction has inserted is taken for a row.
WriteImpatient(c) ==
    /\ At(c, "loaded")
    /\ IF req[c].seen = NoWindow /\ (rows[req[c].key] # NoWindow \/ ~KeyIsFree(c))
       THEN Refuse(c, "500", TRUE)
       ELSE KeyIsFree(c) /\ req' = [req EXCEPT ![c].pc = "written"] /\ UNCHANGED rows

\* The flush of upsert.
WriteRow(c) ==
    /\ At(c, "loaded")
    /\ req[c].window # req[c].seen => KeyIsFree(c)
    /\ IF req[c].seen = NoWindow /\ rows[req[c].key] # NoWindow
       THEN Refuse(c, "500", TRUE)
       ELSE req' = [req EXCEPT ![c].pc = "written"] /\ UNCHANGED rows

\* Fault: a day off is stored without its times.
TimesDropped(seen, window, row) ==
    IF window.open THEN window ELSE [start |-> NoWindow, end |-> NoWindow, open |-> FALSE]

\* The row once the UPDATE has been applied to what is there: SQLAlchemy writes
\* only the columns that differ from what the request has seen.
Merge(seen, window, row) ==
    IF seen = NoWindow
    THEN window
    ELSE [col \in {"start", "end", "open"} |->
            IF window[col] # seen[col] THEN window[col] ELSE row[col]]

Apply(c) ==
    rows' = [rows EXCEPT ![req[c].key] = Merge(req[c].seen, req[c].window, @)]

Commit(c) ==
    /\ At(c, "written")
    /\ Apply(c)
    /\ req' = [req EXCEPT ![c] = [@ EXCEPT !.pc = "answered", !.answer = "200"]]

Respond(c) ==
    /\ At(c, "answered")
    /\ req' = [req EXCEPT ![c] = NoRequest]
    /\ UNCHANGED rows

\* The router catches no OperationalError: every failure of the database is a 500.
StatementFails(c) ==
    /\ req[c].pc \in {"received", "loaded", "written"}
    /\ Refuse(c, "500", FALSE)

\* COMMIT fails after the database has committed.
CommitFails(c) ==
    /\ At(c, "written")
    /\ Apply(c)
    /\ req' = [req EXCEPT ![c] = [@ EXCEPT !.pc = "answered", !.answer = "500"]]

Crash ==
    /\ \E c \in Client : ~At(c, "idle")
    /\ req' = [c \in Client |-> NoRequest]
    /\ UNCHANGED rows

-----------------------------------------------------------------------------
Handle(c) == LoadRow(c) \/ Commit(c) \/ Respond(c)

Fail(c) == StatementFails(c) \/ CommitFails(c)

Next ==
    \/ \E c \in Client :
         \/ \E k \in Key, start, end \in RawTime, open \in BOOLEAN :
              Receive(c, k, start, end, open)
         \/ Handle(c)
         \/ WriteRow(c)
         \/ Fail(c)
    \/ Crash

Spec == Init /\ [][Next]_vars

\* The server keeps running the handlers it has begun; a waiting write is woken when the
\* transaction it waits for ends.
Fairness == \A c \in Client : WF_vars(Handle(c)) /\ SF_vars(WriteRow(c))

FairSpec == Spec /\ Fairness

-----------------------------------------------------------------------------
(* Properties *)

\* The variables hold values of their types.
TypeOK ==
    /\ rows \in [Key -> Window \cup {NoWindow}]
    /\ req \in [Client -> Request]

\* "start_time must be before end_time", said of what is stored.
StoredWindowOrdered == \A k \in Key : rows[k] # NoWindow => rows[k].start < rows[k].end

\* A first PUT that loses the race for the key is a 500, but only when the other
\* one's row is there for good: sending it again is an update.
DuplicateIsStored ==
    \A c \in Client : At(c, "answered") /\ req[c].duplicate =>
        rows[req[c].key] # NoWindow

\* Every request is answered or dies with the server, also one that waits for a
\* row or a key.
EveryUpsertEnds == \A c \in Client : At(c, "received") ~> At(c, "idle")
=============================================================================
