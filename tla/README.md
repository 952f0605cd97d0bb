# Verification of the staff scheduling service

TLA+ models of the FastAPI/SQLAlchemy service under `src/backend/app`, TLC
configurations that check them on small instances, and theorems about them that
TLAPS proves for every instance. Paths below are relative to `src/backend/app`
unless they begin with `src/`.

## 1. The system

One process runs synchronous request handlers in a pool of threads. Every handler
has the same life: `dependencies.py` looks the user up, a router calls a service, the
service calls repositories that run statements and `flush`, and
`database.get_db` commits after the handler has returned and before the
response is sent, or rolls back if the handler raised. Components share nothing but
the PostgreSQL tables, the thread pool and the connection pool; isolation is the default, READ COMMITTED.

As committed, `app.main` cannot be imported: `api/v1/auth.py:5-6` imports `TokenResponse` and `UserService`,
`api/v1/users.py:7-8` imports `UserCreate`, `UserResponse` and `UserService`, and none of these exist. The
modules describe the handlers as they run once these two routers are mended or left out;
nothing else depends on them.

| Component | State | Operations | Correct when |
|---|---|---|---|
| Shifts and assignments (`api/v1/shifts.py`, `services/shift_service.py`, `shift_repository.py`, `assignment_repository.py`) | `shifts`, `staff_assignments` with a unique (shift, staff) | create, assign, soft delete, list, get, bulk upload | nobody is booked for two shifts at once (AU-04); an upload is stored whole or not at all and reported truly |
| Audit log (`audit_log_repository.py`) | `audit_logs` | record | one entry for each write, in the transaction of the write (AU-07) |
| Swaps (`api/v1/swaps.py`, `services/swap_service.py`, `swap_repository.py`) | `swap_requests` | submit, approve, reject, list mine | decided once (AU-08, HR-01), audited (HR-02), at most ten submissions an hour (HR-03) |
| Attendance (`api/v1/attendance.py`, `services/attendance_service.py`, `attendance_repository.py`) | `attendance_records` | clock in, clock out, history | sessions of a staff member do not overlap, a session is closed once |
| Availability (`api/v1/availability.py`, `services/availability_service.py`, `availability_repository.py`) | `staff_availability` with a unique (staff, day) | upsert, list | a stored window starts before it ends |
| Session per request (`database.py`) | one transaction per request, a pool of 10+5 connections | open, check out, commit, rollback, close | what a client was told is stored; no connection is lost; the server does not stand still |
| Guard (`dependencies.py`, `core/security.py`) | JWTs, `users` rows | authenticate, require a role | no stale token, deleted user or wrong role gets in |
| Users and login (`services/user_service.py`, `user_repository.py`, `api/v1/users.py`, `api/v1/auth.py`) | `users` | create, get, update, delete, authenticate | a password change invalidates the tokens issued before it (HR-04) |
| Padlocks (`core/validators.py`) | none | pure checks of durations, rest, roles, passwords | the services call them before they store |
| Migrations (`src/backend/alembic`) | the schema, `alembic_version` | upgrade, downgrade, by four scripts | the stored revision tells the schema; "upgrade head", which every container runs when it starts, works |
| Schedules, settings, application | | | |

What is hard here: checks and writes that are separate statements without a lock
(assignment, rate limit, clock-in, upsert); waiting on unique keys and row locks;
rows read, then used after another transaction has changed them; failures between
two flushes, at the commit, or after the commit and before the answer; a session
that goes on being used after a failed flush; threads that wait for connections held
by requests that wait for threads; migration commands that are started together, or
stopped in the middle. `PROJECT.json` lists each at its line.

## 2. Modules

| Module | Models | Extends / instantiates |
|---|---|---|
| `RosterLedger` | what creating and assigning shifts promise: an abstract specification | |
| `Roster` | creating shifts, assigning staff, soft deletion, their audit entries | `RosterLedger` (refinement) |
| `RosterProofs` | theorems about `Roster` | `Roster` |
| `SwapLifecycle` | what the swap workflow promises: an abstract specification | |
| `SwapWorkflow` | submitting, approving, rejecting swaps, their audit entries | `SwapLifecycle` (refinement) |
| `SwapProofs` | theorems about `SwapWorkflow` | `SwapWorkflow` |
| `Attendance` | clocking in and out | |
| `AttendanceProofs` | theorems about `Attendance` | `Attendance` |
| `Availability` | the upsert of an availability window | |
| `AvailabilityProofs` | theorems about `Availability` | `Availability` |
| `BulkUpload` | the CSV upload of shifts | |
| `BulkProofs` | theorems about `BulkUpload` | `BulkUpload` |
| `Admission` | the dependencies every guarded route has, on a pool of threads and a pool of connections | |
| `AdmissionProofs` | theorems about `Admission` | `Admission` |
| `Migrations` | the four revision scripts, up and down, and the commands that run them | |
| `SchemaProofs` | what each script, run alone, does with a schema; no sessions | `Migrations` |
| `MigrationsProofs` | theorems about `Migrations` for any number of sessions | `SchemaProofs` |
| `MC*` | instances of the above for TLC, with the symmetry sets | |

### How the code became actions

A `Client` sends one request at a time; `req[c]` is that request, and `req[c].pc` how far its transaction has
come. A transaction is not a thread. The handler gives its thread back when it returns; the response is then
validated on another thread, and `get_db` commits outside the supply of threads
(`database.py:29-30`). With a single thread, the check of one request can therefore run between the handler and
the commit of another. What limits how many transactions are open together is the pool of connections, ten
and five (`database.py:17-18`): `Connected` are the clients whose request has a connection, from the guard's
first statement to the end of the transaction, and `Receive` waits for `ConnectionIsFree`, fewer than
`PoolSize`. `Availability`, in which no property depends on how many there are, has no pool. How
requests come by threads and connections is `Admission`, where `req[r]` is a request seen from outside its handler.

**One action is one statement sent to the database**, because
other transactions can commit between two statements and nowhere else; the Python
code between two statements belongs to the action before or after it.

The tables (`shifts`, `assignments`, `swaps`, `records`, `rows`) hold *committed* rows.
What a transaction has flushed stays in `req[c]` until `Commit`, which applies the row and
its audit entry at once. `Refuse` is an exception leaving the handler: `get_db` rolls
back, so nothing is applied. A lock is not a variable: it is held by whoever is in a
phase after the locking statement (`HoldsLock`, `HoldsAssignment`, `HoldsRow`,
`HoldsKey`), so that every way a transaction ends releases it, as in the database.

- `LoadShift`, `CheckOverlap`, `InsertAssignment`, `RecordAudit`, `Commit`, `Respond` of
  `Roster` are the statements of `assign_staff` in order. `InsertAssignment` waits for
  a transaction that has inserted the same unique key, then fails if that one has
  committed; the `IntegrityError` is caught by nobody and is a 500.
- `CheckRate`, `InsertSwap` and `LockSwap`, `SetStatus` of `SwapWorkflow` are those of
  `create_swap` and of `approve_swap`/`reject_swap`, which differ only in the
  decision. `began` is when the transaction started, which is what the server
  default `now()` of `created_at` returns.
- `CheckOpenSession`, `LoadRecord`, `TakeStamp`, `InsertRecord`, `UpdateRecord` of
  `Attendance` are those of `clock_in` and `clock_out`. `TakeStamp` is
  `datetime.now`, an action of its own because the clock moves on while the request,
  or the write that follows, waits.
- `LoadRow`, `WriteRow` and `Merge` of `Availability` are the upsert; `Merge` is
  SQLAlchemy's UPDATE of those columns only whose value differs from the one that
  was read. `Judge` is the validator that runs *before* Pydantic has parsed the
  times, on strings or numbers.
- `BulkUpload` has one request: uploads share no state, so interleaving them would add
  nothing. Its `session` becomes `inactive` when a flush fails, after which every flush
  and the final commit raise.
- `Admission` looks at the same life from outside the handlers. Every dependency and
  handler is a synchronous function: the framework takes a thread from a limited
  supply, runs the function, and puts the thread back, so a `Request` changes threads
  at each of `OpenSession`, `DecodeToken`, `CheckRole`, `BuildService`, `StartHandler`,
  `ValidateResponse`. Functions that wait for nothing are one action that needs a free
  thread; a request is in `onThread` only between two actions of one function: waiting for
  a connection (`queued`), reading the user (`reading`) and running the handler
  (`running`). The session checks its connection out at the first statement, which is
  `get_current_user`'s (`TakeConnection`), and returns it in `CloseSession`, the part of
  `get_db` after its `yield`, which the framework (0.111) runs outside the supply and before
  the answer is sent. What a handler does in `running` is the other modules' subject:
  it may return or be refused.

- `Migrations` has no requests: `cmd[s]` is an `alembic` command that one database session
  runs, and `catalog` is what is committed of every table and enum type, as a set of
  its parts (columns, indices, defaults, what a column refers to). The scripts are
  sequences of statements, `Up[n]` and `Down[n]`; `Accepts` is what makes the database refuse
  one (a missing object, a name in use, an object that others refer to), `Parts` what it makes
  of the object, `Locks` the tables it locks until the end of the transaction.
  `env.py` runs all the scripts of a command in one transaction, so `Execute` is one
  statement, seen by its session only, and `Commit` publishes `View(s)`. `Stamp` is what
  Alembic does after each script: it replaces the row of `alembic_version` where it still is
  the revision before the script, and raises if there was none. `WaitsFor` is who holds
  what the next step needs; `BreakDeadlock` ends one of two sessions that wait for each
  other. A column that no script changes and that refers to nothing is listed for `users` and
  the old `shifts` only.

`StatementFails`, `CommitFails` and `Crash` are the failures of a request: a lost connection at a
statement, at the commit (before or after the server has done it), or the death of
the process. In `Attendance` and `Availability` `CommitFails` is only the case in
which the database has committed; the other has the effect of a refused request.
Clients may send any request at any time, so retries and repeated requests need no
action of their own.

Data is kept to what the properties tell apart: a title, headcount or reason is left
out; a body is valid, or invalid in one of the ways the code distinguishes; a uuid is a
model value. `Deciders` of `SwapWorkflow` is the roles its routes demand; the guard itself is in
`Admission`. `SoftDelete` is `ShiftRepository.soft_delete`: no handler calls it today,
but every query of the module is written for rows it has marked; `DeleteUser` is the same
of users.

## 3. Runs

| Run | Instance | Shows |
|---|---|---|
| `roster_race` | 2 clients, a pool of 2, 3 shifts, one staff id, 3 instants, bodies with two windows that touch and an empty one, at most one shift of the later window | `TypeOK`; `BoundedDoubleBooking`: bookings for one instant never exceed the connections of the pool, those in flight included; `ConflictIsReal`: an assignment refused for an overlap shares an instant with a booking of that person, so that a shift which only touches another is never refused; `AuditMatchesTables`: rows and audit entries agree one to one; `AckedIsDurable`: a 200 or 201 is stored; `ImplementsLedger`: the refinement of `RosterLedger` |
| `roster_overbooked` | 3 clients, a pool of 2, 2 shifts, the same bodies | violation of `NoDoubleBooking` |
| `swap_workflow` | 2 clients, a pool of 2, 3 swaps, one requester, one administrator, limit 1, window 1, 2 ticks | `TypeOK`; `ImplementsLifecycle`: the refinement of `SwapLifecycle`; `ConflictIsFinal`: a 409 is about a swap that has been decided; `AuditReplaysRow`: a swap is what its trail says; `RateLimitBound`: the limit is overrun by at most one for each connection beyond the first, a swap of exactly the window's age counted |
| `attendance_race` | 2 clients, a pool of 2, 3 records, 2 instants | `TypeOK`; `SessionsBounded`: sessions lasting at one instant never exceed the connections, and none ends before it begins; `ClosingsBounded`: nor do the closings of one record; `EveryClockingEnds` |
| `availability_race` | 2 clients, 1 key, all forms of a time, hours 0 and 1 | `TypeOK`; `DuplicateIsStored`: a 500 for a duplicate key means the row is there, so that trying again helps; `EveryUpsertEnds` |
| `availability_merge` | 2 clients, 1 key, 3 hours, one form | violation of `StoredWindowOrdered` |
| `bulk_rows` | files of up to 3 rows | `TypeOK`; `AllOrNothing`; `ReportIsTrue`; `EveryUploadEnds` |
| `bulk_partial` | files of up to 3 rows | violation of `PartialIs207` |
| `admission_pool` | 3 requests, 2 threads, 1 connection, a user who is staff, routes for staff and for administrators | `TypeOK`; `NothingLeaks`: no ending of a request loses a thread or a connection; `StallNeedsCrowd`: the server stands still only under as many requests as there are threads and connections; `LateIsBounded`: how often a deleted user is still served; `EveryRequestEnds` |
| `admission_stall` | the same | violation of `RefusalIsPrompt` |
| `migrations` | 2 sessions, any command from any revision to any other | `TypeOK`; `RevisionTellsSchema`: but for indices, the committed schema is the one of the stored revision; `UpgradeAlwaysWorks`: from whatever is left, "upgrade head" meets no refusal; `CommitsFromWhatItRead`: a command commits only while the stored revision is the one it has read, so that of two that have read it the second commits only after others have led back to it; `EveryCommandEnds` |
| `migrations_downgrade` | 1 session | violation of `DowngradeRestores` |

**Bounds.** The numbers of shifts, swaps and records bound how often something is
created; `MaxTime` bounds the clock and `MaxRows` a file. Two clients are enough for every
interleaving of two statements, and the bounds proved or checked are stated in
`PoolSize`: with two open transactions and three shifts, swaps or records, each bound
is both reached and one short of what the instance could do. With as many clients as connections
nobody waits for one; `roster_overbooked` has a client more, and the theorems any number of both.
The real limits (ten swaps an hour, fifteen connections) enter as `RateMax` and `PoolSize`, over which the
theorems quantify. One staff member is enough in the runs about overlaps, rates and
sessions: no statement of these handlers reads rows of two. The two windows of `roster_race` touch, so that an
overlap test with an equality too many shows in `ConflictIsReal`, and one that misses a booking in
`BoundedDoubleBooking`; the third body is empty, and refused with a 422 before anything is stored. One shift of the later window is
enough to touch any number of the earlier, so `OneLateShift` leaves out states with more. The
theorems take any set of windows over any integers. The foreign key of an assignment is asked in
both `roster` runs and refuses in none, since the one staff id is registered; ids that nobody has are left to the theorems. Three requests
are one more than the threads of `admission_pool`, which is the least at which its server stalls.
Two sessions are enough in `migrations`: a container that starts meets another one, and
every cycle of waits between two is in it. `BreakDeadlock` looks at pairs, which for two
sessions is every cycle; the theorems, which do not speak of liveness, hold for any number. A single session is enough
to see that a downgrade does not restore a schema.
Symmetry is used in the runs without liveness properties only.

**Fairness.** Weak fairness of `Handle(c)`: the server keeps running a request that it has begun. It can, since at
most fifteen requests have a connection and forty threads are there for them, and whoever waits on a thread for
a connection gives it back after `pool_timeout`. Nothing is
assumed of clients, failures, crashes or the clock. The statement that waits for
another transaction (`UpdateRecord`, `WriteRow`) has strong
fairness: PostgreSQL wakes the waiter when the holder ends, but between two
holders the statement is disabled again, so weak fairness would not do. In `Admission`
what needs a thread has strong fairness, because the framework's limiter serves its
waiters in order; a thread that waits for a connection has weak fairness only, since it
obtains one or times out, and so have the handler, which the other modules show to
end, and the end of `get_db`, which needs no thread of the supply. A handler that waits for
a row lock keeps its thread, and the request that holds the lock may have returned and be waiting for a thread to
validate its response. Every such handler has a connection, so at most fourteen of the forty threads wait in this
way; the others come back by themselves or by `pool_timeout`, and locks and pools do not combine into a deadlock.
With as many connections as threads they would. The waits of
`InsertAssignment` in `Roster` and of `LockSwap` in `SwapWorkflow` are those of `WriteRow` and
`UpdateRecord`, for a key and for a row; liveness is checked where they are in
`Availability` (`EveryUpsertEnds`) and `Attendance` (`EveryClockingEnds`), because without symmetry the instances
of the other two, which their safety properties need, are too large. In `Migrations` `Proceed` has strong fairness for the same reason as
these, and `BreakDeadlock` weak fairness: PostgreSQL looks for deadlocks after a second of
waiting, and nothing else ends one. A crash
ends a request without an answer, which these liveness properties allow. No two request handlers lock
two rows each in opposite orders; migration commands do lock tables in opposite orders.

### What the violations say

1. `roster_overbooked`: two assignments of one person to overlapping shifts, running
   together, are both accepted; each check reads before the other's commit.
2. `availability_merge`: two ordered windows, written together, leave the start of one
   with the end of the other.
3. `bulk_partial`: the documented 207 is a 500 with nothing stored when the database
   refuses a row, and a 400 when the bad row has more fields than the header.
4. `admission_stall`: the refusal of a wrong role, documented to take 50 ms, is behind
   threads that all wait for a connection, and its own request holds one: 30 seconds.
5. `migrations_downgrade`: the downgrade from head recreates `shifts` without the three indices
   that the initial schema made. The revision then says `d4e5f6a1b2c3`, and the downgrade of the initial schema, which
   drops these indices, is refused: after one "upgrade head" the base is out of reach. `UpgradeAlwaysWorks` says
   that the way up is not affected.

The rate limit of HR-03 and "Prevent double clock-in" (`services/attendance_service.py:39`) are
overrun in the same way as the first: `RateLimitBound` and `SessionsBounded` say by how much, and
with two transactions both bounds are reached, so that a staff member can have two open
sessions.

Met while modelling, without a run of their own: a commit that fails in `get_db` is a
500, not the 503 that `api/v1/shifts.py:9-10` attributes to a handler in `main.py`; an
upload without rows is a 200, not the 422 of `services/shift_service.py:147`, and so is one of which every row is stored, not the 201 of
that line (`src/backend/tests/integration/test_shifts_api.py:234` takes either); a
window from `"09:00"` to `"09:00:00"`, or from the number 0 to anything, passes
`_start_before_end`; the padlocks that `src/README.md:294-302` and
`src/docs/design/architecture.md:33-40` say are enforced are called by nobody; `update_user`
lets a deleted user be updated, against its docstring (`services/user_service.py:100-101`), and, like
`create_user`, flushes and then raises, since the response schema demands a `created_at` that the model
lacks. Because of that two password changes cannot yet lose an increment of `token_version`
(`services/user_service.py:115`), nor two registrations race for an address (`:55`). The migrations
and the ORM disagree about `users`: at head it has a `full_name` that may not be null and no `first_name` or
`last_name` (`models/user.py:24-25`), so on a database that was migrated, as `main.py:14-15` asks, no user can be
inserted; the tests create their tables from the ORM. Users that were there before
`a1b2c3d4e5f6` get `token_version` 0, where the comment at
`src/backend/alembic/versions/d4e5f6a1b2c3_fix_token_version_server_default.py:39-40` takes them to be at 1.

## 4. Proofs

All theorems hold for every value of the constants under the assumptions the
modules name (a pool of at least one connection, model values distinct from the values they stand
apart from, a limit of at least one). The set of clients may be infinite: what is finite is the set of
those with a connection (`PoolInv`), since a request that arrives has waited for one.

`RosterProofs`. `TypeInv` is `TypeOK` with what the phases add to it (`RequestFilled`: a
request in phase *p* has the fields that *p* needs; `RowsFilled`: a row that exists has an
ordered window). `LedgerInv` strengthens `AuditMatchesTables` with what makes it
inductive: ids of creations in flight are fresh and distinct (`FreshIds`), assignments
refer to rows (`AssignedRows`, `BoundToRow`), two open transactions never hold one
unique key and a held key is not in the table (`KeysHeld`), and an answer of 200 or
201 that has not been sent is already committed (`SuccessIsCommitted`). From it
`AuditExact` and `AckedDurable` follow. `DoubleBookingIsBounded` is inductive on the *union* of
what is booked and what is past the check: a check that passes has seen no
booking at the instant, so what is left is in flight, at most one shift for each
connection; every later step moves a shift from one part to the other or removes it.
`ChecksApartNeverOverbook` says what would be enough for AU-04: as long as no two assignments of one staff member are between
check and commit together (`ChecksApart`, which a lock on the staff member taken before the check would
give, and which neither a single thread nor anything else in this code gives), nobody is booked twice.
`RefusalsAreReal`: the check refuses for a row that it sees, assignments stay, and two windows that start before
they end and that the strict comparisons find to overlap share the later of their starts. `RosterImplementsLedger`
forgets the requests: `Commit`, and the `CommitFails` in which the database has committed, is
`Publish` or `Assign` of `RosterLedger`, `Respond` with a success is `Tell`, `SoftDelete` is `Retire`, and everything
else changes nothing there. `LedgerInv` gives that the row and its entry are new, `StaffExist` that
the foreign key has been asked, and `BookingInv` *after* the step that there was room:
the shift just booked counts towards a load that is within the number of connections, so before
it there was one less. The refinement maps the counters of `auditLog` to the set of entries
counted once, so that a second copy of an entry would show as its loss.

`SwapProofs`. `LockInv` says that the requests past `LockSwap` hold different swaps, each
still `PENDING` (`LockHeld`), that a 409 was given for a decided swap
(`ConflictIsFinal`), that a swap is what its trail says (`AuditReplaysRow`), and that whoever
is about to be told of a decision is the only one (`ToldOnce`). With it every step of
`SwapWorkflow` is a step of `SwapLifecycle` or leaves it unchanged: `Apply` is `Submit` or `Decide`,
`Respond` with a 200 is `Tell`. `RateIsBounded` is by induction on the sum of the swaps in the window
and the submissions past the check: a passed check has counted fewer than the
limit, and there is one submission to a connection; time only shrinks the window.
`CountsApartKeepLimit` is the same induction for submissions of a requester that are apart from count to commit
(`CountsApart`): then HR-03 holds as it is written.

`AdmissionProofs`. `NothingLeaks` is inductive given the types: each step moves one request, and
`AccountsKept` says when that keeps both accounts. `StallsNeedACrowd` counts: in a stall
every thread is held by a request without a connection and every connection by a
request without a thread. With the sizes of the code, forty threads and fifteen
connections, fifty-four requests at once cannot stall the server and fifty-five can.
`LateServiceIsBounded` needs to know that nobody is late before the deletion (`LateInv`);
after it `ReadUser` lets nobody in, so every success moves a request from what is being
served to what was.

`AttendanceProofs`. `TypeInv` adds to `TypeOK` what a phase needs of a request (`Filled`), that
the times of a row are in order and past and an open row has not been closed (`RowFilled`), and that the ids of clock-ins in
flight are fresh (`FreshIds`). `ClosingsAreBounded` counts closings made and clock-outs past
their check together: while a clock-out can pass the check nothing has been closed, and the first commit
closes the record, after which the sum does not grow. `SessionsAreBounded` is harder, because a
late clock-out moves the end of a session that others no longer see: `LoadInv` counts for each instant
the sessions that last at it and the requests that may yet make one last (`Load`),
and shows that there are no more than connections. `ClockInsApartOpenOnce` says that "Prevent double
clock-in" is kept as long as no two clock-ins of one staff member are between search and commit together
(`ClockInsApart`): the records that are open or about to be (`Opening`) are then one at most.

`AvailabilityProofs`. A request that has met a duplicate key has found the row committed, and rows
stay (`RowsStay`), whatever is merged into them: `DuplicatesAreStored`.
`PutsApartOrderWindows` has two hypotheses: upserts of a key that are apart from query to commit (`PutsApart`),
so that what a request has seen is what is stored when it commits, and one form of times as strings;
`availability_merge` drops the first, and the window from `"09:00"` to `"09:00:00"` the second.

`BulkProofs`. `BulkInv` says what the loop knows after *k* rows: these rows and no others
are created or reported, only good rows are created, and while the session is usable no good row has been
reported. A commit needs a usable session, so it stores every good row, and the
answer, chosen before the commit, is true when the commit is made and is replaced by a 500 when it is not.

`SchemaProofs`. A script run alone is a recursive function (`RunAlone`), and `InTurn` says that two
scripts in sequence are one: its result is that of the second on the result of the first, and it is accepted if both are.
Each of the eight scripts has a theorem that writes out the objects it leaves and, on the way
up, shows that the database accepts every statement (`FirstScript` to `FourthScript`, `FirstScriptUndone` to
`FourthScriptUndone`); the fourth is proved in six sections. `Forms(r)` is what the catalog of revision *r* can be: its
schema, or, below the newest, that schema without the indices of `shifts`. `UpForms` and `DownForms` say
that each script leads from any form of its revision to a form of the next one, and that no
statement of an upgrade is refused.

`MigrationsProofs`. `NoLostUpgrade` is inductive on who has replaced the row of `alembic_version`: at
most one session, whose `from` is the stored revision for as long as it holds the row
(`VersionLocked`), and a command cannot commit without having replaced it.
`RevisionAlwaysTells` and `UpgradeNeverRefused` rest on `SchemaInv`: what is committed is a form of the
stored revision (`FormCommitted`), and a command that has read that revision sees what its scripts, run alone on a
form, have made so far (`ReadersOnTheWay`). The second is threatened by other commands: one
that commits changes the catalog under the rest. It does not, because of what the scripts lock first. Every
script locks `users` with its first statement or has that statement refused (`FirstLocks`), so that of all that have written
anything one is in hold of `users` (`UsersLocked`, `LocksApart`) and only that one can commit. The
exception is the downgrade of the initial schema, which drops three indices of `shifts` before it reaches
a statement that locks `users` (`DroppingIndices`); but as long as it holds `shifts` nobody else changes them, and
the shifts of the initial schema are those of no other revision (`InitialShifts`), so what the other commits is not the revision
this one has read. A command that has read another revision than the stored one is not described at
all: it may do anything but stamp, and its transaction ends without a trace.

Model-checked only: every liveness property, since TLAPS proves neither liveness under fairness nor
`ENABLED`. The modules declare no `RECURSIVE` operator. `RunAlone` and `Upgraded` are recursive functions; that they
satisfy their equations (`RunEquation`, `UpgradedEquation`) and the induction over statements
(`Stepwise`) are proved from the least element of a set of numbers, because the induction theorems of the library take
an operator as a parameter.

## 5. Not modelled

- Users and login apart from `delete_user`: unfinished in the code, as said above. Every
  `create_user` and `update_user` is rolled back, so there is nothing whose order could matter.
- The padlocks: comparisons of two arguments with a limit, which nothing calls. A specification of
  when they are called would be an invention.
- Schedules, settings, queries that change no state, and the notification of a created
  shift, which does nothing.
- The rows of the tables that a migration changes; the offline mode of `env.py`, which prints the
  statements.
- The one clock of `SwapWorkflow` stands for that of the application and that of the
  database; differences between them are not modelled.
- `headcount` is enforced nowhere and so has no property.

## 6. Plan

1. `Accounts`: changes of the `users` row under the guard, once `create_user` and `update_user` can
   commit: the lost update of `token_version`, tokens that become valid again, the race
   for an address.
2. `Padlocks`, once a service calls them: the theorem that a kept rest implies no overlap, in
   place of the overlap check of `Roster`.
3. The rows of `users` and `shifts` in `Migrations`: what the scripts do to `token_version` and to the
   shifts they drop.
