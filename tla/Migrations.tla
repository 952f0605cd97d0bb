------------------------------ MODULE Migrations ------------------------------
(***************************************************************************)
(* The schema and the Alembic revisions that change it: alembic/versions,  *)
(* run by alembic/env.py.                                                  *)
(*                                                                         *)
(* One command ("upgrade head", "downgrade -1", "downgrade base") runs the *)
(* scripts between the stored revision and its target in one transaction:  *)
(* DDL is transactional in PostgreSQL.  Every statement locks the tables   *)
(* it changes or refers to until the transaction ends, so that commands    *)
(* started together (a container runs "upgrade head" whenever it starts)   *)
(* wait for each other; after each script the stored revision is replaced, *)
(* if it still is the one that was read.                                   *)
(***************************************************************************)
EXTENDS Integers, Sequences

CONSTANT Session     \* database sessions in which commands run

Table == {"users", "schedules", "shifts", "staff_assignments", "audit_logs",
          "swap_requests", "staff_availability", "attendance_records"}

EnumType == {"audit_action_type", "swap_status", "attendance_status"}

Object == Table \cup EnumType

VARIABLES
    catalog,     \* by object: what is committed of it; empty if there is none
    version,     \* alembic_version: how many scripts of the chain are applied
    cmd          \* by session: the command it runs

vars == <<catalog, version, cmd>>

-----------------------------------------------------------------------------
(* Statements *)

\* What an object consists of: pairs of a name and what it names, or of a column
\* and something said of it: its default or length, what it refers to.
Column(c) == <<c, "column">>
Columns(C) == {Column(c) : c \in C}
Index(i) == <<i, "index">>
Says(c, what) == <<c, what>>

NamesIn(parts) == {p[1] : p \in parts}
ReferredTo(parts) == {p[2] : p \in parts} \cap Object

\* A statement takes the named parts away from an object, which must be there,
\* and adds others, whose names must be new.
Change(kind, on, old, new) == [kind |-> kind, on |-> on, old |-> old, new |-> new]

CreateTable(t, parts) == Change("create", t, {}, parts)
CreateType(t) == Change("create", t, {}, {<<t, "type">>})
DropTable(t) == Change("drop", t, {}, {})
DropTypeIfExists(t) == Change("drop_if_exists", t, {}, {})
AddColumn(t, c, says) == Change("alter", t, {}, {Column(c)} \cup says)
AlterColumn(t, c, says) == Change("alter", t, {c}, {Column(c)} \cup says)
DropColumn(t, c) == Change("alter", t, {c}, {})
CreateIndex(i, t) == Change("alter", t, {}, {Index(i)})
DropIndex(i, t) == Change("alter", t, {i}, {})

Parts(old, st) ==
    CASE st.kind = "create" -> st.new
      [] st.kind = "alter"  -> {p \in old : p[1] \notin st.old} \cup st.new
      [] OTHER              -> {}

\* Whether the database accepts the statement, given what its session sees.
Accepts(view, st) ==
    /\ \A o \in ReferredTo(st.new) : view[o] # {}
    /\ st.kind = "create" => view[st.on] = {}
    /\ st.kind = "alter" =>
         /\ view[st.on] # {}
         /\ st.old \subseteq NamesIn(view[st.on])
         /\ (NamesIn(st.new) \ st.old) \cap NamesIn(view[st.on]) = {}
    /\ st.kind = "drop" => view[st.on] # {}
    /\ st.kind \in {"drop", "drop_if_exists"} =>
         \A o \in Object \ {st.on} : st.on \notin ReferredTo(view[o])

\* A foreign key that is created or dropped locks the table it refers to as well.
Locks(view, st) ==
    LET old == view[st.on]
        new == Parts(old, st)
    IN  {st.on} \cup ReferredTo((old \ new) \cup (new \ old))

-----------------------------------------------------------------------------
(* The scripts.  Columns are listed for the two tables whose columns a later    *)
(* script changes, and for the others the columns that refer to something.      *)

UserColumns == {"id", "email", "full_name", "hashed_password", "role", "is_active",
                "created_at", "updated_at"}

LegacyShift ==
    Columns({"id", "user_id", "start_time", "end_time", "title", "notes", "status",
             "schedule_id", "created_at", "updated_at"})
    \cup {Says("user_id", "users"), Says("schedule_id", "schedules")}

InitialSchema ==
    << CreateTable("users", Columns(UserColumns) \cup {Says("hashed_password", "128")}),
       CreateIndex("ix_users_email", "users"),
       CreateIndex("ix_users_id", "users"),
       CreateTable("schedules", {Column("created_by"), Says("created_by", "users")}),
       CreateIndex("ix_schedules_id", "schedules"),
       CreateIndex("ix_schedules_week_start", "schedules"),
       CreateTable("shifts", LegacyShift),
       CreateIndex("ix_shifts_id", "shifts"),
       CreateIndex("ix_shifts_schedule_id", "shifts"),
       CreateIndex("ix_shifts_user_id", "shifts") >>

DropInitialSchema ==
    << DropIndex("ix_shifts_user_id", "shifts"),
       DropIndex("ix_shifts_schedule_id", "shifts"),
       DropIndex("ix_shifts_id", "shifts"),
       DropTable("shifts"),
       DropIndex("ix_schedules_week_start", "schedules"),
       DropIndex("ix_schedules_id", "schedules"),
       DropTable("schedules"),
       DropIndex("ix_users_id", "users"),
       DropIndex("ix_users_email", "users"),
       DropTable("users") >>

AddSecurityColumns ==
    << AddColumn("users", "token_version", {Says("token_version", "default_0")}),
       AddColumn("users", "is_deleted", {}),
       AddColumn("users", "deleted_at", {}),
       AlterColumn("users", "hashed_password", {Says("hashed_password", "72")}),
       AddColumn("shifts", "is_deleted", {}),
       AddColumn("shifts", "deleted_at", {}),
       AddColumn("shifts", "department_id", {}),
       AddColumn("shifts", "headcount", {}),
       AddColumn("shifts", "created_by", {Says("created_by", "users")}) >>

DropSecurityColumns ==
    << DropColumn("shifts", "created_by"),
       DropColumn("shifts", "headcount"),
       DropColumn("shifts", "department_id"),
       DropColumn("shifts", "deleted_at"),
       DropColumn("shifts", "is_deleted"),
       AlterColumn("users", "hashed_password", {Says("hashed_password", "128")}),
       DropColumn("users", "deleted_at"),
       DropColumn("users", "is_deleted"),
       DropColumn("users", "token_version") >>

FixVersionDefault ==
    << AlterColumn("users", "token_version", {Says("token_version", "default_1")}) >>

RestoreVersionDefault ==
    << AlterColumn("users", "token_version", {Says("token_version", "default_0")}) >>

\* Columns that refer to tables and types, each under its own name.
References(pairs) == Columns(NamesIn(pairs)) \cup pairs

RebuildShifts ==
    << DropTable("shifts"),
       CreateTable("shifts",
           Columns({"id", "title", "start_time", "end_time", "department_id", "headcount",
                    "is_deleted", "created_at", "updated_at"})
           \cup References({<<"created_by", "users">>})),
       CreateIndex("ix_shifts_department_id", "shifts"),
       CreateIndex("ix_shifts_is_deleted", "shifts") >>

CreateAssignments ==
    << CreateTable("staff_assignments",
           References({<<"shift_id", "shifts">>, <<"staff_id", "users">>,
                       <<"assigned_by", "users">>})),
       CreateIndex("ix_staff_assignments_shift_id", "staff_assignments"),
       CreateIndex("ix_staff_assignments_staff_id", "staff_assignments") >>

CreateAuditLogs ==
    << CreateType("audit_action_type"),
       CreateTable("audit_logs",
           References({<<"actor_id", "users">>, <<"action_type", "audit_action_type">>})),
       CreateIndex("ix_audit_logs_actor_id", "audit_logs"),
       CreateIndex("ix_audit_logs_target_id", "audit_logs") >>

CreateSwapRequests ==
    << CreateType("swap_status"),
       CreateTable("swap_requests",
           References({<<"requester_id", "users">>, <<"requester_shift_id", "shifts">>,
                       <<"target_shift_id", "shifts">>, <<"status", "swap_status">>,
                       <<"resolved_by", "users">>})),
       CreateIndex("ix_swap_requests_requester_id", "swap_requests"),
       CreateIndex("ix_swap_requests_status", "swap_requests") >>

CreateAvailability ==
    << CreateTable("staff_availability", References({<<"staff_id", "users">>})),
       CreateIndex("ix_staff_availability_staff_id", "staff_availability") >>

CreateAttendance ==
    << CreateType("attendance_status"),
       CreateTable("attendance_records",
           References({<<"staff_id", "users">>, <<"shift_id", "shifts">>,
                       <<"status", "attendance_status">>})),
       CreateIndex("ix_attendance_records_staff_id", "attendance_records"),
       CreateIndex("ix_attendance_records_shift_id", "attendance_records") >>

PersonTwoSchema ==
    RebuildShifts \o CreateAssignments \o CreateAuditLogs \o CreateSwapRequests
    \o CreateAvailability \o CreateAttendance

\* Fault: the types are left behind.
KeepTypes ==
    << DropTable("attendance_records"), DropTable("staff_availability"),
       DropTable("swap_requests"), DropTable("audit_logs"),
       DropTable("staff_assignments") >>

DropPersonTwoTables ==
    << DropTable("attendance_records"),
       DropTypeIfExists("attendance_status"),
       DropTable("staff_availability"),
       DropTable("swap_requests"),
       DropTypeIfExists("swap_status"),
       DropTable("audit_logs"),
       DropTypeIfExists("audit_action_type"),
       DropTable("staff_assignments") >>

\* The indices of the initial schema are not restored.
RestoreLegacyShifts ==
    << DropTable("shifts"),
       CreateTable("shifts",
           LegacyShift \cup Columns({"is_deleted", "deleted_at", "department_id", "headcount"})
           \cup References({<<"created_by", "users">>})) >>

Up == << InitialSchema, AddSecurityColumns, FixVersionDefault, PersonTwoSchema >>

Down == << DropInitialSchema, DropSecurityColumns, RestoreVersionDefault,
           DropPersonTwoTables \o RestoreLegacyShifts >>

Newest == 4
Revision == 0 .. Newest

-----------------------------------------------------------------------------
(* Commands *)

Nothing == [o \in {} |-> {}]

\* A command between two statements: the revision it has read, the one it is to
\* reach, the one it has reached, the next statement, and what it has written.
NoCommand == [pc |-> "idle", from |-> 0, target |-> 0, reached |-> 0, step |-> 1,
              written |-> Nothing]

Running(s) == cmd[s].pc = "running"

\* A session sees what it has written, and else what is committed.
Over(written, base) ==
    [o \in Object |-> IF o \in DOMAIN written THEN written[o] ELSE base[o]]
View(s) == Over(cmd[s].written, catalog)

\* The rows of alembic_version are locked by whoever has replaced the revision.
HoldsVersion(s) == cmd[s].reached # cmd[s].from

Upwards(s) == cmd[s].target > cmd[s].reached
Script(s) == IF Upwards(s) THEN Up[cmd[s].reached + 1] ELSE Down[cmd[s].reached]
Done(s) == cmd[s].reached = cmd[s].target
Statement(s) == Script(s)[cmd[s].step]

HasStatement(s) == Running(s) /\ ~Done(s) /\ cmd[s].step <= Len(Script(s))

\* The sessions whose locks the next step of s waits for.
WaitsFor(s) ==
    {t \in Session \ {s} :
        \/ HasStatement(s) /\ Locks(View(s), Statement(s)) \cap DOMAIN cmd[t].written # {}
        \/ Running(s) /\ ~Done(s) /\ ~HasStatement(s) /\ HoldsVersion(t)}

\* A database in which nothing is defined yet.
Blank == [o \in Object |-> {}]

Init ==
    /\ catalog = Blank
    /\ version = 0
    /\ cmd = [s \in Session |-> NoCommand]

\* Fault: what has been written before the failure stays.
KeepHalf(s) ==
    /\ catalog' = View(s)
    /\ cmd' = [cmd EXCEPT ![s] = NoCommand]
    /\ UNCHANGED version

\* The transaction is rolled back, and its locks are gone.
Abort(s) ==
    /\ cmd' = [cmd EXCEPT ![s] = NoCommand]
    /\ UNCHANGED <<catalog, version>>

\* Fault: the target counts from the stored revision.
StartRelative(s, target) ==
    /\ ~Running(s)
    /\ target # 0
    /\ cmd' = [cmd EXCEPT ![s] = [NoCommand EXCEPT !.pc = "running", !.from = version,
                                          !.target = version + target, !.reached = version]]
    /\ UNCHANGED <<catalog, version>>

\* run_migrations_online opens a connection, and the stored revision is read.  A
\* command with nothing to do ends here.
Start(s, target) ==
    /\ ~Running(s)
    /\ target # version
    /\ cmd' = [cmd EXCEPT ![s] = [NoCommand EXCEPT !.pc = "running", !.from = version,
                                                  !.target = target, !.reached = version]]
    /\ UNCHANGED <<catalog, version>>

\* Fault: a statement that is refused is tried again.
ExecuteStubbornly(s) ==
    /\ HasStatement(s)
    /\ WaitsFor(s) = {}
    /\ LET st == Statement(s)
           written == [o \in DOMAIN cmd[s].written \cup Locks(View(s), st) |->
                          IF o = st.on THEN Parts(View(s)[o], st) ELSE View(s)[o]]
       IN  /\ Accepts(View(s), st)
           /\ cmd' = [cmd EXCEPT ![s].step = @ + 1, ![s].written = written]
    /\ UNCHANGED <<catalog, version>>

\* The next statement of a script; one that the database refuses ends the command.
Execute(s) ==
    /\ HasStatement(s)
    /\ WaitsFor(s) = {}
    /\ LET st == Statement(s)
           written == [o \in DOMAIN cmd[s].written \cup Locks(View(s), st) |->
                          IF o = st.on THEN Parts(View(s)[o], st) ELSE View(s)[o]]
       IN  \/ /\ Accepts(View(s), st)
              /\ cmd' = [cmd EXCEPT ![s].step = @ + 1, ![s].written = written]
              /\ UNCHANGED <<catalog, version>>
           \/ /\ ~Accepts(View(s), st)
              /\ Abort(s)

\* Fault: the revision is replaced whatever it is.
StampBlindly(s) ==
    /\ Running(s) /\ ~Done(s) /\ ~HasStatement(s)
    /\ WaitsFor(s) = {}
    /\ cmd' = [cmd EXCEPT ![s].step = 1,
                          ![s].reached = IF Upwards(s) THEN @ + 1 ELSE @ - 1]
    /\ UNCHANGED <<catalog, version>>

\* A script has ended: alembic_version is updated where it is the revision before
\* the script, and the command fails unless that was one row.
Stamp(s) ==
    /\ Running(s) /\ ~Done(s) /\ ~HasStatement(s)
    /\ WaitsFor(s) = {}
    /\ \/ /\ HoldsVersion(s) \/ version = cmd[s].from
          /\ cmd' = [cmd EXCEPT ![s].step = 1,
                                ![s].reached = IF Upwards(s) THEN @ + 1 ELSE @ - 1]
          /\ UNCHANGED <<catalog, version>>
       \/ /\ ~HoldsVersion(s) /\ version # cmd[s].from
          /\ Abort(s)

\* The end of context.begin_transaction.
Commit(s) ==
    /\ Running(s)
    /\ Done(s)
    /\ catalog' = View(s)
    /\ version' = cmd[s].reached
    /\ cmd' = [cmd EXCEPT ![s] = NoCommand]

\* The container is stopped, or the connection lost.
Interrupt(s) == Running(s) /\ Abort(s)

\* Sessions that wait for each other: PostgreSQL ends one of them.
BreakDeadlock(s) ==
    /\ \E t \in WaitsFor(s) : s \in WaitsFor(t)
    /\ Abort(s)

-----------------------------------------------------------------------------
Proceed(s) == Execute(s) \/ Stamp(s) \/ Commit(s)

Next ==
    \E s \in Session :
        \/ \E target \in Revision : Start(s, target)
        \/ Proceed(s)
        \/ Interrupt(s)
        \/ BreakDeadlock(s)

Spec == Init /\ [][Next]_vars

\* PostgreSQL grants a lock to its waiters in order, and looks for deadlocks.
Fairness == \A s \in Session : SF_vars(Proceed(s)) /\ WF_vars(BreakDeadlock(s))

FairSpec == Spec /\ Fairness

-----------------------------------------------------------------------------
(* Properties *)

\* A catalog, and whether the database has accepted all that made it.
Untouched(base) == [view |-> base, accepted |-> TRUE]
Tried(before, st) ==
    [view |-> [before.view EXCEPT ![st.on] = Parts(@, st)],
     accepted |-> before.accepted /\ Accepts(before.view, st)]

\* A script run alone, by the number of statements that have been tried.
RunAlone(base, script) ==
    LET after[i \in 0 .. Len(script)] ==
            IF i = 0 THEN Untouched(base) ELSE Tried(after[i - 1], script[i])
    IN  after

Result(base, script) == RunAlone(base, script)[Len(script)]

RunThrough(before, script) ==
    LET result == Result(before.view, script)
    IN  [view |-> result.view, accepted |-> before.accepted /\ result.accepted]

\* The scripts above a revision, by the revision they have reached.
Upgraded(base, from) ==
    LET at[r \in from .. Newest] ==
            IF r = from THEN Untouched(base) ELSE RunThrough(at[r - 1], Up[r])
    IN  at

\* The schema of a revision: what the scripts up to it make of an empty database.
Schema == [r \in Revision |-> Upgraded(Blank, 0)[r].view]

WithoutIndices(parts) == {p \in parts : p[2] # "index"}

\* The variables hold values of their types.
TypeOK ==
    /\ DOMAIN catalog = Object
    /\ version \in Revision
    /\ DOMAIN cmd = Session
    /\ \A s \in Session :
         /\ DOMAIN cmd[s] = DOMAIN NoCommand
         /\ cmd[s].pc \in {"idle", "running"}
         /\ {cmd[s].from, cmd[s].target, cmd[s].reached} \subseteq Revision
         /\ cmd[s].step \in Nat \ {0}

\* However commands interleave, fail or are interrupted, what is committed is the
\* schema of the stored revision, but for indices.
RevisionTellsSchema ==
    \A o \in Object : WithoutIndices(catalog[o]) = WithoutIndices(Schema[version][o])

\* From whatever schema going up and down has left, "upgrade head", run alone,
\* meets no statement the database refuses.  The server is started behind it.
UpgradeAlwaysWorks == Upgraded(catalog, version)[Newest].accepted

\* c1d2e3f4a5b6:319: "Restore the original shifts table (INTEGER PK, legacy
\* shape)": going down to a revision gives back the schema it had.
DowngradeRestores == catalog = Schema[version]

\* A command commits only while the stored revision is the one it has read: of two
\* that have read it, the second commits only if others have led back to it.
CommitsFromWhatItRead ==
    [][\A s \in Session : Commit(s) => version = cmd[s].from]_vars

\* Every command ends, whoever waits for whom.
EveryCommandEnds == \A s \in Session : Running(s) ~> ~Running(s)
=============================================================================
