---------------------------- MODULE RosterLedger ----------------------------
(***************************************************************************)
(* What shift creation and assignment promise (AU-04, AU-07), without      *)
(* requests, threads or transactions: a row and its audit entry appear in  *)
(* one step, a shift is published once and never comes back once retired,  *)
(* only staff who exist are assigned, once to a shift and to at most Limit *)
(* live shifts at one instant, and a client is told of a write only once   *)
(* it is in the log.                                                       *)
(***************************************************************************)
EXTENDS Integers, FiniteSets

CONSTANTS
    Shift,   \* shift ids
    Staff,   \* the staff members who exist
    Time,    \* instants at which a shift may start or end
    Limit,   \* how many live shifts may keep one staff member busy at an instant
    NoStaff, NoWindow

VARIABLES
    shifts,       \* the shifts, by id
    assignments,  \* <<shift, staff>>
    log,          \* the set of audit entries
    told          \* the entries of the writes a client was told succeeded

vars == <<shifts, assignments, log, told>>

Window == {p \in [start : Time, end : Time] : p.start < p.end}

Created(s) == [action |-> "CREATE", shift |-> s, staff |-> NoStaff]
Assigned(s, u) == [action |-> "UPDATE", shift |-> s, staff |-> u]

\* A live shift keeps its staff busy from its start until its end.
LiveAt(s, t) ==
    /\ shifts[s].state = "live"
    /\ shifts[s].window.start <= t /\ t < shifts[s].window.end

Busy(u, t) == {s \in Shift : <<s, u>> \in assignments /\ LiveAt(s, t)}

Init ==
    /\ shifts = [s \in Shift |-> [state |-> "absent", window |-> NoWindow]]
    /\ assignments = {}
    /\ log = {}
    /\ told = {}

\* An entry is written with the row it is about, and only once.
Record(entry) == entry \notin log /\ log' = log \cup {entry}

Publish(s, win) ==
    /\ shifts[s].state = "absent"
    /\ shifts' = [shifts EXCEPT ![s] = [state |-> "live", window |-> win]]
    /\ Record(Created(s))
    /\ UNCHANGED <<assignments, told>>

\* A live shift must leave the staff member within the limit.  One that was
\* retired while the request ran is assigned too, and keeps nobody busy.
Assign(s, u) ==
    /\ shifts[s].state # "absent"
    /\ <<s, u>> \notin assignments
    /\ \A t \in Time : LiveAt(s, t) => Cardinality(Busy(u, t)) < Limit
    /\ assignments' = assignments \cup {<<s, u>>}
    /\ Record(Assigned(s, u))
    /\ UNCHANGED <<shifts, told>>

Retire(s) ==
    /\ shifts[s].state = "live"
    /\ shifts' = [shifts EXCEPT ![s].state = "deleted"]
    /\ UNCHANGED <<assignments, log, told>>

Tell(entry) ==
    /\ told' = told \cup {entry}
    /\ UNCHANGED <<shifts, assignments, log>>

Next ==
    \/ \E s \in Shift, win \in Window : Publish(s, win)
    \/ \E s \in Shift, u \in Staff : Assign(s, u)
    \/ \E s \in Shift : Retire(s)
    \/ \E entry \in log : Tell(entry)

Spec == Init /\ [][Next]_vars
=============================================================================
