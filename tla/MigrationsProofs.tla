--------------------------- MODULE MigrationsProofs ---------------------------
(***************************************************************************)
(* Theorems about Migrations for any number of sessions: what commands     *)
(* that run together, fail or are interrupted do with the stored revision  *)
(* and with the committed schema.  What one script does alone is in        *)
(* SchemaProofs.                                                           *)
(***************************************************************************)
EXTENDS SchemaProofs

-----------------------------------------------------------------------------
(* What a step does to the command it belongs to *)

\* The command of s becomes c, and nobody else's changes.
Becomes(s, c) == cmd'[s] = c /\ \A t \in Session \ {s} : cmd'[t] = cmd[t]

CommandOK(c) ==
    /\ DOMAIN c = DOMAIN NoCommand
    /\ c.pc \in {"idle", "running"}
    /\ c.from \in Revision /\ c.target \in Revision /\ c.reached \in Revision
    /\ c.step \in Nat \ {0}

LEMMA CommandEffect ==
    ASSUME TypeOK, NEW s \in Session, NEW c, CommandOK(c), cmd' = [cmd EXCEPT ![s] = c]
    PROVE  /\ Becomes(s, c)
           /\ DOMAIN cmd' = Session
           /\ \A t \in Session : CommandOK(cmd'[t])
BY DEF TypeOK, CommandOK, Becomes

\* Runs(s, reached): the command of s has come to a revision and is otherwise the same.
Runs(s, reached) ==
    /\ cmd'[s].pc = cmd[s].pc /\ cmd'[s].from = cmd[s].from
    /\ cmd'[s].target = cmd[s].target /\ cmd'[s].reached = reached
    /\ \A t \in Session \ {s} : cmd'[t] = cmd[t]

LEMMA NoCommandOK ==
    /\ CommandOK(NoCommand)
    /\ NoCommand.reached = NoCommand.from /\ NoCommand.pc = "idle"
    /\ NoCommand.step = 1 /\ NoCommand.written = Nothing
BY DEF CommandOK, NoCommand, Revision, Newest

LEMMA AbortEffect ==
    ASSUME TypeOK, NEW s \in Session, cmd' = [cmd EXCEPT ![s] = NoCommand]
    PROVE  /\ Becomes(s, NoCommand)
           /\ DOMAIN cmd' = Session
           /\ \A t \in Session : CommandOK(cmd'[t])
BY NoCommandOK, CommandEffect

LEMMA StartEffect ==
    ASSUME TypeOK, NEW s \in Session, NEW target \in Revision, Start(s, target)
    PROVE  /\ cmd'[s].from = version /\ cmd'[s].reached = version
           /\ cmd'[s].pc = "running" /\ cmd'[s].target = target
           /\ cmd'[s].step = 1 /\ cmd'[s].written = Nothing
           /\ \A t \in Session \ {s} : cmd'[t] = cmd[t]
           /\ DOMAIN cmd' = Session
           /\ \A t \in Session : CommandOK(cmd'[t])
<1> DEFINE c == [NoCommand EXCEPT !.pc = "running", !.from = version,
                                  !.target = target, !.reached = version]
<1>1. /\ c.pc = "running" /\ c.from = version /\ c.target = target /\ c.reached = version
      /\ c.step = 1 /\ c.written = Nothing /\ DOMAIN c = DOMAIN NoCommand
  BY DEF NoCommand
<1>2. CommandOK(c)
  BY <1>1 DEF CommandOK, TypeOK
<1>3. cmd' = [cmd EXCEPT ![s] = c]
  BY DEF Start
<1> HIDE DEF c
<1> QED
  BY <1>1, <1>2, <1>3, CommandEffect DEF Becomes

\* An accepted statement.
LEMMA StepEffect ==
    ASSUME TypeOK, NEW s \in Session, NEW written,
           cmd' = [cmd EXCEPT ![s].step = @ + 1, ![s].written = written]
    PROVE  /\ Runs(s, cmd[s].reached)
           /\ cmd'[s].step = cmd[s].step + 1 /\ cmd'[s].written = written
           /\ DOMAIN cmd' = Session
           /\ \A t \in Session : CommandOK(cmd'[t])
<1> DEFINE c == [cmd[s] EXCEPT !.step = @ + 1, !.written = written]
<1>1. /\ c.pc = cmd[s].pc /\ c.from = cmd[s].from /\ c.target = cmd[s].target
      /\ c.reached = cmd[s].reached /\ c.step = cmd[s].step + 1
      /\ c.written = written /\ DOMAIN c = DOMAIN cmd[s]
  BY DEF TypeOK, NoCommand
<1>2. CommandOK(c)
  BY <1>1 DEF CommandOK, TypeOK
<1>3. cmd' = [cmd EXCEPT ![s] = c]
  BY DEF TypeOK
<1> HIDE DEF c
<1> QED
  BY <1>1, <1>2, <1>3, CommandEffect DEF Becomes, Runs

\* A script has ended and the revision moves towards the target.
LEMMA StampEffect ==
    ASSUME TypeOK, NEW s \in Session, NEW r \in Revision,
           cmd' = [cmd EXCEPT ![s].step = 1, ![s].reached = r]
    PROVE  /\ Runs(s, r)
           /\ cmd'[s].step = 1 /\ cmd'[s].written = cmd[s].written
           /\ DOMAIN cmd' = Session
           /\ \A t \in Session : CommandOK(cmd'[t])
<1> DEFINE c == [cmd[s] EXCEPT !.step = 1, !.reached = r]
<1>1. /\ c.pc = cmd[s].pc /\ c.from = cmd[s].from /\ c.target = cmd[s].target
      /\ c.reached = r /\ c.step = 1 /\ c.written = cmd[s].written
      /\ DOMAIN c = DOMAIN cmd[s]
  BY DEF TypeOK
<1>2. CommandOK(c)
  BY <1>1 DEF CommandOK, TypeOK
<1>3. cmd' = [cmd EXCEPT ![s] = c]
  BY DEF TypeOK
<1> HIDE DEF c
<1> QED
  BY <1>1, <1>2, <1>3, CommandEffect DEF Becomes, Runs

\* Where a script leads: one revision nearer to the target.
Nearer(s) == IF Upwards(s) THEN cmd[s].reached + 1 ELSE cmd[s].reached - 1

LEMMA NearerType ==
    ASSUME TypeOK, NEW s \in Session, ~Done(s)
    PROVE  Nearer(s) \in Revision
BY DEF TypeOK, Done, Nearer, Upwards, Revision, Newest

-----------------------------------------------------------------------------
(* Type correctness *)

LEMMA TypeInit == Init => TypeOK
BY NoCommandOK DEF Init, Blank, TypeOK, CommandOK, Revision, Newest

LEMMA TypeStep == TypeOK /\ [Next]_vars => TypeOK'
<1> SUFFICES ASSUME TypeOK, [Next]_vars PROVE TypeOK'
  OBVIOUS
<1> DEFINE CommandsOK == DOMAIN cmd = Session /\ \A t \in Session : CommandOK(cmd[t])
<1>a. ASSUME CommandsOK', UNCHANGED <<catalog, version>> PROVE TypeOK'
  BY <1>a DEF TypeOK, CommandOK
<1>b. ASSUME NEW s \in Session, Abort(s) PROVE TypeOK'
  <2>1. CommandsOK'
    BY <1>b, AbortEffect DEF Abort
  <2> QED
    BY <1>a, <1>b, <2>1 DEF Abort
<1>1. ASSUME NEW s \in Session, NEW target \in Revision, Start(s, target) PROVE TypeOK'
  <2>1. CommandsOK'
    BY <1>1, StartEffect
  <2> QED
    BY <1>1, <1>a, <2>1 DEF Start
<1>2. ASSUME NEW s \in Session, Execute(s) PROVE TypeOK'
  <2>1. CASE Abort(s)
    BY <2>1, <1>b
  <2>2. CASE ~Abort(s)
    <3>1. PICK written : cmd' = [cmd EXCEPT ![s].step = @ + 1, ![s].written = written]
      BY <1>2, <2>2 DEF Execute
    <3>2. CommandsOK'
      BY <3>1, StepEffect
    <3> QED
      BY <1>2, <1>a, <2>2, <3>2 DEF Execute
  <2> QED
    BY <2>1, <2>2
<1>3. ASSUME NEW s \in Session, Stamp(s) PROVE TypeOK'
  <2>1. CASE Abort(s)
    BY <2>1, <1>b
  <2>2. CASE ~Abort(s)
    <3>1. cmd' = [cmd EXCEPT ![s].step = 1, ![s].reached = Nearer(s)]
      BY <1>3, <2>2 DEF Stamp, Nearer, TypeOK
    <3>2. CommandsOK'
      BY <1>3, <3>1, NearerType, StampEffect DEF Stamp
    <3> QED
      BY <1>3, <1>a, <2>2, <3>2 DEF Stamp
  <2> QED
    BY <2>1, <2>2
<1>4. ASSUME NEW s \in Session, Commit(s) PROVE TypeOK'
  <2>1. CommandsOK'
    BY <1>4, AbortEffect DEF Commit
  <2>2. DOMAIN catalog' = Object
    BY <1>4 DEF Commit, View, Over
  <2>3. version' \in Revision
    BY <1>4 DEF Commit, TypeOK
  <2> QED
    BY <2>1, <2>2, <2>3 DEF TypeOK, CommandOK
<1>5. ASSUME NEW s \in Session, Interrupt(s) \/ BreakDeadlock(s) PROVE TypeOK'
  BY <1>5, <1>b DEF Interrupt, BreakDeadlock
<1>6. CASE UNCHANGED vars
  BY <1>6 DEF vars, TypeOK
<1> QED
  BY <1>1, <1>2, <1>3, <1>4, <1>5, <1>6 DEF Next, Proceed

\* The variables keep their types; in particular no sequence of scripts leads
\* beyond the ends of the chain.
THEOREM TypeCorrect == Spec => []TypeOK
BY TypeInit, TypeStep, PTL DEF Spec

-----------------------------------------------------------------------------
(* No lost upgrade *)

\* Whoever has replaced the revision has found it as it was read, and holds it alone.
VersionLocked ==
    /\ \A s \in Session : HoldsVersion(s) => version = cmd[s].from
    /\ \A s, t \in Session : HoldsVersion(s) /\ HoldsVersion(t) => s = t

\* A command that runs has something to do.
HasTarget == \A s \in Session : Running(s) => cmd[s].target # cmd[s].from

VersionInv == TypeOK /\ VersionLocked /\ HasTarget

LEMMA VersionInit == Init => VersionInv
BY TypeInit, NoCommandOK DEF Init, VersionInv, VersionLocked, HasTarget, HoldsVersion, Running

LEMMA VersionStep == VersionInv /\ [Next]_vars => VersionInv'
<1> SUFFICES ASSUME VersionInv, [Next]_vars PROVE (VersionLocked /\ HasTarget)'
  BY TypeStep DEF VersionInv
<1> USE DEF VersionInv, VersionLocked, HasTarget, HoldsVersion, Running
<1>a. ASSUME NEW s \in Session, Abort(s) PROVE (VersionLocked /\ HasTarget)'
  <2>1. Becomes(s, NoCommand) /\ version' = version
    BY <1>a, AbortEffect DEF Abort
  <2> QED
    BY <2>1, NoCommandOK DEF Becomes
<1>1. ASSUME NEW s \in Session, NEW target \in Revision, Start(s, target)
      PROVE  (VersionLocked /\ HasTarget)'
  <2>1. version' = version /\ target # version
    BY <1>1 DEF Start
  <2> QED
    BY <1>1, <2>1, StartEffect
<1>2. ASSUME NEW s \in Session, Execute(s) PROVE (VersionLocked /\ HasTarget)'
  <2>1. CASE Abort(s)
    BY <2>1, <1>a
  <2>2. CASE ~Abort(s)
    <3>1. PICK written : cmd' = [cmd EXCEPT ![s].step = @ + 1, ![s].written = written]
      BY <1>2, <2>2 DEF Execute
    <3>2. Runs(s, cmd[s].reached)
      BY <3>1, StepEffect
    <3>3. version' = version
      BY <1>2, <2>2 DEF Execute
    <3> QED
      BY <3>2, <3>3 DEF Runs
  <2> QED
    BY <2>1, <2>2
<1>3. ASSUME NEW s \in Session, Stamp(s) PROVE (VersionLocked /\ HasTarget)'
  <2>1. CASE Abort(s)
    BY <2>1, <1>a
  <2>2. CASE ~Abort(s)
    <3>1. cmd' = [cmd EXCEPT ![s].step = 1, ![s].reached = Nearer(s)]
      BY <1>3, <2>2 DEF Stamp, Nearer, TypeOK
    <3>2. Runs(s, Nearer(s))
      BY <1>3, <3>1, NearerType, StampEffect DEF Stamp
    <3>3. version' = version /\ version = cmd[s].from
      BY <1>3, <2>2 DEF Stamp
    <3>4. \A t \in Session \ {s} : ~HoldsVersion(t)
      BY <1>3 DEF Stamp, WaitsFor
    <3> QED
      BY <3>2, <3>3, <3>4 DEF Runs
  <2> QED
    BY <2>1, <2>2
<1>4. ASSUME NEW s \in Session, Commit(s) PROVE (VersionLocked /\ HasTarget)'
  <2>1. Becomes(s, NoCommand)
    BY <1>4, AbortEffect DEF Commit
  <2>2. HoldsVersion(s)
    BY <1>4 DEF Commit, Done
  <2>3. \A t \in Session \ {s} : ~HoldsVersion(t)
    BY <2>2
  <2> QED
    BY <2>1, <2>3, NoCommandOK DEF Becomes
<1>5. ASSUME NEW s \in Session, Interrupt(s) \/ BreakDeadlock(s)
      PROVE  (VersionLocked /\ HasTarget)'
  BY <1>5, <1>a DEF Interrupt, BreakDeadlock
<1>6. CASE UNCHANGED vars
  BY <1>6 DEF vars
<1> QED
  BY <1>1, <1>2, <1>3, <1>4, <1>5, <1>6 DEF Next, Proceed

LEMMA CommitRead ==
    VersionInv => \A s \in Session : Commit(s) => version = cmd[s].from
BY DEF VersionInv, VersionLocked, HasTarget, HoldsVersion, Running, Commit, Done

\* Of the containers that start together and run "upgrade head", one brings the
\* schema up: a command commits only where the revision is the one it has read.
THEOREM NoLostUpgrade == Spec => CommitsFromWhatItRead
<1>1. VersionInv /\ [Next]_vars => [\A s \in Session : Commit(s) => version = cmd[s].from]_vars
  BY CommitRead
<1> QED
  BY <1>1, VersionInit, VersionStep, PTL DEF Spec, CommitsFromWhatItRead

-----------------------------------------------------------------------------
(* What a command sees, and what it locks *)

\* The script of a command, and the table contents it writes with a statement.
Course(c) == IF c.target > c.reached THEN Up[c.reached + 1] ELSE Down[c.reached]
Writes(c, base, st) ==
    [o \in DOMAIN c.written \cup Locks(Over(c.written, base), st) |->
        IF o = st.on THEN Parts(Over(c.written, base)[o], st) ELSE Over(c.written, base)[o]]

\* A command that has read the stored revision sees what its scripts, run alone on a
\* form of the revision it has reached, have made so far.
OnTheWay(c, base) ==
    \E form \in Forms(c.reached) :
        IF c.reached = c.target
        THEN c.step = 1 /\ Over(c.written, base) = form
        ELSE /\ c.step \in 1 .. Len(Course(c)) + 1
             /\ Over(c.written, base) = RunAlone(form, Course(c))[c.step - 1].view

\* Nothing has been done yet.
Fresh(c) == c.written = Nothing /\ c.step = 1 /\ c.reached = c.from

\* The initial schema is removed, and only indices of the shifts are gone so far.
DroppingIndices(c) ==
    /\ c.from = 1 /\ c.target = 0 /\ c.reached = 1 /\ c.step \in 2 .. 4
    /\ "shifts" \in DOMAIN c.written /\ RefersToUsers(c.written["shifts"])

Holding(c) ==
    \/ Fresh(c)
    \/ c.pc = "running" /\ ("users" \in DOMAIN c.written \/ DroppingIndices(c))

\* The script of a command that is not done is one of the eight.
LEMMA CourseType ==
    ASSUME NEW c, CommandOK(c), c.reached # c.target
    PROVE  /\ \/ c.target > c.reached /\ c.reached + 1 \in 1 .. Newest
                 /\ Course(c) = Up[c.reached + 1]
              \/ ~(c.target > c.reached) /\ c.target < c.reached /\ c.reached \in 1 .. Newest
                 /\ Course(c) = Down[c.reached]
           /\ Len(Course(c)) \in Nat \ {0}
<1>1. c.target > c.reached => c.reached + 1 \in 1 .. Newest
  BY DEF CommandOK, Revision, Newest
<1>2. ~(c.target > c.reached) => c.reached \in 1 .. Newest /\ c.target < c.reached
  BY DEF CommandOK, Revision, Newest
<1> QED
  BY <1>1, <1>2, ScriptLengths DEF Course

\* Who has written nothing sees what is committed.
LEMMA OverNothing ==
    ASSUME NEW base, IsView(base)
    PROVE  Over(Nothing, base) = base
BY DEF Over, Nothing, IsView

\* At its first statement.
LEMMA FreshOnTheWay ==
    ASSUME NEW c, CommandOK(c), Fresh(c), c.target # c.from, NEW base \in Forms(c.reached)
    PROVE  OnTheWay(c, base)
<1>1. c.reached # c.target /\ c.step = 1 /\ c.written = Nothing /\ c.reached \in Revision
  BY DEF Fresh, CommandOK
<1>2. Over(c.written, base) = base
  BY <1>1, FormShifts, OverNothing
<1>3. Len(Course(c)) \in Nat \ {0}
  BY <1>1, CourseType
<1>4. RunAlone(base, Course(c))[0].view = base
  BY <1>3, RunStart
<1> QED
  BY <1>1, <1>2, <1>3, <1>4 DEF OnTheWay

\* One statement further.
LEMMA StepOnTheWay ==
    ASSUME NEW c, CommandOK(c), NEW base, OnTheWay(c, base), c.reached # c.target,
           c.step <= Len(Course(c)),
           NEW d, d.target = c.target, d.reached = c.reached, d.step = c.step + 1,
           Over(d.written, base) = Altered(Over(c.written, base), Course(c)[c.step])
    PROVE  OnTheWay(d, base)
<1>1. PICK form \in Forms(c.reached) :
         /\ c.step \in 1 .. Len(Course(c)) + 1
         /\ Over(c.written, base) = RunAlone(form, Course(c))[c.step - 1].view
  BY DEF OnTheWay
<1>2. Len(Course(c)) \in Nat /\ c.step \in Nat \ {0}
  BY CourseType DEF CommandOK
<1> DEFINE r == RunAlone(form, Course(c))
<1>3. IsRun(r, form, Course(c))
  BY <1>2, RunEquation
<1> HIDE DEF r
<1>4. r[c.step] = Tried(r[c.step - 1], Course(c)[c.step])
  BY <1>2, <1>3 DEF IsRun
<1>5. r[c.step].view = Over(d.written, base)
  BY <1>1, <1>4 DEF Tried, Altered, r
<1>6. Course(d) = Course(c)
  BY DEF Course
<1>7. d.step \in 1 .. Len(Course(d)) + 1 /\ d.step - 1 = c.step
  BY <1>2, <1>6
<1> QED
  BY <1>5, <1>6, <1>7 DEF OnTheWay, r

\* At the end of a script: its result is a form of the next revision.
LEMMA StampOnTheWay ==
    ASSUME NEW c, CommandOK(c), NEW base, OnTheWay(c, base), c.reached # c.target,
           ~(c.step <= Len(Course(c))),
           NEW d, CommandOK(d), d.target = c.target, d.step = 1, d.written = c.written,
           d.reached = IF c.target > c.reached THEN c.reached + 1 ELSE c.reached - 1
    PROVE  OnTheWay(d, base)
<1>1. PICK form \in Forms(c.reached) :
         /\ c.step \in 1 .. Len(Course(c)) + 1
         /\ Over(c.written, base) = RunAlone(form, Course(c))[c.step - 1].view
  BY DEF OnTheWay
<1>2. Len(Course(c)) \in Nat /\ c.step \in Nat \ {0}
  BY CourseType DEF CommandOK
<1>3. c.step - 1 = Len(Course(c))
  BY <1>1, <1>2
<1> DEFINE view == Over(c.written, base)
<1>4. view = Result(form, Course(c)).view
  BY <1>1, <1>3 DEF Result
<1>5. view \in Forms(d.reached)
  <2>1. CASE c.target > c.reached
    <3>1. c.reached + 1 \in 1 .. Newest /\ Course(c) = Up[c.reached + 1]
          /\ (c.reached + 1) - 1 = c.reached /\ d.reached = c.reached + 1
      BY <2>1, CourseType DEF CommandOK, Revision
    <3>2. Result(form, Up[c.reached + 1]).view \in Forms(c.reached + 1)
      BY <3>1, UpForms
    <3> QED
      BY <1>4, <3>1, <3>2
  <2>2. CASE ~(c.target > c.reached)
    <3>1. c.reached \in 1 .. Newest /\ Course(c) = Down[c.reached] /\ d.reached = c.reached - 1
      BY <2>2, CourseType
    <3> QED
      BY <1>4, <3>1, DownForms
  <2> QED
    BY <2>1, <2>2
<1>6. Over(d.written, base) = view
  OBVIOUS
<1> HIDE DEF view
<1>7. CASE d.reached = d.target
  BY <1>5, <1>6, <1>7 DEF OnTheWay
<1>8. CASE d.reached # d.target
  <2>1. Len(Course(d)) \in Nat \ {0}
    BY <1>8, CourseType
  <2>2. RunAlone(view, Course(d))[0].view = view
    BY <2>1, RunStart
  <2>3. d.step \in 1 .. Len(Course(d)) + 1 /\ d.step - 1 = 0
    BY <2>1
  <2> QED
    BY <1>5, <1>6, <1>8, <2>2, <2>3 DEF OnTheWay
<1> QED
  BY <1>7, <1>8

\* What c has written once it is d, and sees.
Wrote(c, base, st, d) ==
    /\ DOMAIN d.written = DOMAIN c.written \cup Locks(Over(c.written, base), st)
    /\ Over(d.written, base) = Altered(Over(c.written, base), st)

LEMMA WritesEffect ==
    ASSUME NEW c, NEW base, NEW st, NEW d, d.written = Writes(c, base, st)
    PROVE  Wrote(c, base, st, d)
<1> DEFINE view == Over(c.written, base)
<1>1. /\ DOMAIN d.written = DOMAIN c.written \cup Locks(view, st)
      /\ \A o \in DOMAIN d.written :
            d.written[o] = IF o = st.on THEN Parts(view[o], st) ELSE view[o]
  BY DEF Writes
<1>2. st.on \in Locks(view, st)
  BY LocksOn
<1>3. DOMAIN view = Object /\ view = [o \in Object |-> view[o]]
      /\ \A o \in Object : o \notin DOMAIN c.written => view[o] = base[o]
  BY DEF Over
<1> HIDE DEF view
<1>4. Altered(view, st) = [o \in Object |-> IF o = st.on THEN Parts(view[o], st) ELSE view[o]]
  BY <1>3 DEF Altered
<1>5. \A o \in Object : Over(d.written, base)[o] = Altered(view, st)[o]
  BY <1>1, <1>2, <1>3, <1>4 DEF Over
<1>6. Over(d.written, base) = [o \in Object |-> Over(d.written, base)[o]]
  BY DEF Over
<1>7. Over(d.written, base) = Altered(view, st)
  BY <1>4, <1>5, <1>6
<1> QED
  BY <1>1, <1>7 DEF view, Wrote

\* Whoever has changed the schema has the users to itself, but for the command that
\* removes the initial schema, which for three statements only holds the shifts.
LEMMA StepHolding ==
    ASSUME NEW v \in Revision, NEW base \in Forms(v), NEW c, CommandOK(c), Holding(c),
           c.pc = "running", c.reached # c.target, c.step <= Len(Course(c)),
           Accepts(Over(c.written, base), Course(c)[c.step]),
           NEW d, d.pc = c.pc, d.from = c.from, d.target = c.target, d.reached = c.reached,
           d.step = c.step + 1, d.written = Writes(c, base, Course(c)[c.step])
    PROVE  "users" \in DOMAIN d.written \/ DroppingIndices(d)
<1> DEFINE st == Course(c)[c.step]
           view == Over(c.written, base)
<1>1. /\ DOMAIN d.written = DOMAIN c.written \cup Locks(view, st)
      /\ \A o \in DOMAIN d.written :
            d.written[o] = IF o = st.on THEN Parts(view[o], st) ELSE view[o]
  BY DEF Writes
<1>2. st.on \in Locks(view, st)
  BY LocksOn
<1>s. "shifts" \in Object
  BY DEF Object, Table
<1>3. CASE "users" \in DOMAIN c.written
  BY <1>1, <1>3
<1>4. CASE Fresh(c)
  <2>1. view = base /\ c.step = 1 /\ c.reached = c.from
    BY <1>4, FormShifts, OverNothing DEF Fresh
  <2>2. CASE c.target > c.reached
    <3>1. c.reached + 1 \in 1 .. Newest /\ st = Up[c.reached + 1][1]
      BY <2>1, <2>2, CourseType
    <3>2. "users" \in Locks(base, st)
      BY <2>1, <3>1, FirstLocks
    <3> QED
      BY <1>1, <2>1, <3>2
  <2>3. CASE ~(c.target > c.reached)
    <3>1. c.reached \in 1 .. Newest /\ c.target < c.reached /\ st = Down[c.reached][1]
      BY <2>1, <2>3, CourseType
    <3>2. CASE c.reached # 1
      <4>1. "users" \in Locks(base, st)
        BY <2>1, <3>1, <3>2, FirstLocks
      <4> QED
        BY <1>1, <2>1, <4>1
    <3>3. CASE c.reached = 1
      <4>1. c.target = 0
        BY <3>1, <3>3 DEF CommandOK, Revision
      <4>2. st = Down[1][1] /\ RefersToUsers(view["shifts"])
        BY <2>1, <3>1, <3>3, FirstLocks
      <4>3. st.on = "shifts" /\ RefersToUsers(Parts(view["shifts"], st))
        BY <4>2, IndicesFirst
      <4>4. "shifts" \in DOMAIN d.written /\ RefersToUsers(d.written["shifts"])
        BY <1>1, <1>2, <4>3
      <4> QED
        BY <2>1, <3>3, <4>1, <4>4 DEF DroppingIndices
    <3> QED
      BY <3>2, <3>3
  <2> QED
    BY <2>2, <2>3
<1>5. CASE DroppingIndices(c)
  <2>1. c.from = 1 /\ c.target = 0 /\ c.reached = 1 /\ c.step \in 2 .. 4
        /\ "shifts" \in DOMAIN c.written /\ RefersToUsers(view["shifts"])
    BY <1>5, <1>s DEF DroppingIndices, Over
  <2>2. st = Down[1][c.step]
    BY <2>1 DEF Course
  <2>3. CASE c.step = 4
    <3>1. "users" \in Locks(view, st)
      BY <2>1, <2>2, <2>3, IndicesFirst
    <3> QED
      BY <1>1, <3>1
  <2>4. CASE c.step \in 2 .. 3
    <3>1. st.on = "shifts" /\ RefersToUsers(Parts(view["shifts"], st))
      BY <2>1, <2>2, <2>4, IndicesFirst
    <3>2. "shifts" \in DOMAIN d.written /\ RefersToUsers(d.written["shifts"])
      BY <1>1, <1>2, <3>1
    <3> QED
      BY <2>1, <2>4, <3>2 DEF DroppingIndices
  <2> QED
    BY <2>1, <2>3, <2>4
<1> QED
  BY <1>3, <1>4, <1>5 DEF Holding

\* A script that has been run to its end has locked the users.
LEMMA EndHolding ==
    ASSUME NEW c, CommandOK(c), Holding(c), c.reached # c.target, ~(c.step <= Len(Course(c)))
    PROVE  c.pc = "running" /\ "users" \in DOMAIN c.written
<1>1. Len(Course(c)) \in Nat \ {0} /\ c.step \in Nat \ {0}
  BY CourseType DEF CommandOK
<1>2. ~Fresh(c)
  BY <1>1 DEF Fresh
<1>3. ASSUME DroppingIndices(c) PROVE FALSE
  <2>1. Course(c) = Down[1] /\ c.step \in 2 .. 4
    BY <1>3 DEF DroppingIndices, Course
  <2>2. Len(Course(c)) = 10
    BY <2>1, ScriptLengths
  <2> QED
    BY <2>1, <2>2
<1> QED
  BY <1>2, <1>3 DEF Holding

\* The shifts tell the initial schema from the others.
LEMMA InitialShifts ==
    ASSUME NEW v \in Revision, NEW base \in Forms(v), NEW w \in Revision, NEW next \in Forms(w),
           base["shifts"] = next["shifts"], w = 1
    PROVE  v = 1
<1>1. next["shifts"] # {} /\ Lacks(next["shifts"], "headcount")
  BY FormShifts
<1>2. base["shifts"] # {} => v # 0
  BY FormShifts
<1>3. Lacks(base["shifts"], "headcount") => v \in 0 .. 1
  BY FormShifts
<1> QED
  BY <1>1, <1>2, <1>3

-----------------------------------------------------------------------------
(* The committed schema *)

\* What is committed is a form of the stored revision.
FormCommitted == catalog \in Forms(version)

UsersLocked == \A s \in Session : Holding(cmd[s])

\* Nobody has written what another has.
LocksApart ==
    \A s, t \in Session : s # t => DOMAIN cmd[s].written \cap DOMAIN cmd[t].written = {}

\* Only of a command that has read the stored revision is anything known: one that
\* has read another meets objects it does not expect, and cannot stamp.
ReadersOnTheWay ==
    \A s \in Session : Running(s) /\ version = cmd[s].from => OnTheWay(cmd[s], catalog)

CatalogInv == FormCommitted /\ UsersLocked /\ LocksApart /\ ReadersOnTheWay

SchemaInv == VersionInv /\ CatalogInv

LEMMA FreshNoCommand == Holding(NoCommand) /\ DOMAIN NoCommand.written = {}
BY NoCommandOK DEF Holding, Fresh, Nothing

LEMMA SchemaInit == Init => SchemaInv
<1> SUFFICES ASSUME Init PROVE CatalogInv
  BY VersionInit DEF SchemaInv
<1>1. catalog = Blank /\ version = 0 /\ \A s \in Session : cmd[s] = NoCommand
  BY DEF Init
<1>2. FormCommitted
  BY <1>1, FormContents DEF FormCommitted
<1> QED
  BY <1>1, <1>2, FreshNoCommand, NoCommandOK
     DEF CatalogInv, UsersLocked, LocksApart, ReadersOnTheWay, Running

\* A step of one command that commits nothing.
LEMMA OwnStep ==
    ASSUME CatalogInv, NEW s \in Session, catalog' = catalog, version' = version,
           \A t \in Session \ {s} : cmd'[t] = cmd[t], Holding(cmd'[s]),
           \A t \in Session \ {s} : DOMAIN cmd'[s].written \cap DOMAIN cmd[t].written = {},
           cmd'[s].pc = "running" /\ version = cmd'[s].from => OnTheWay(cmd'[s], catalog)
    PROVE  CatalogInv'
<1>1. FormCommitted'
  BY DEF CatalogInv, FormCommitted
<1>2. UsersLocked'
  BY DEF CatalogInv, UsersLocked
<1>3. LocksApart'
  BY DEF CatalogInv, LocksApart
<1>4. ReadersOnTheWay'
  BY DEF CatalogInv, ReadersOnTheWay, Running
<1> QED
  BY <1>1, <1>2, <1>3, <1>4 DEF CatalogInv

LEMMA AbortKeeps ==
    ASSUME SchemaInv, NEW s \in Session, Abort(s)
    PROVE  CatalogInv'
<1>1. Becomes(s, NoCommand) /\ version' = version /\ catalog' = catalog
  BY AbortEffect DEF Abort, SchemaInv, VersionInv
<1> QED
  BY <1>1, OwnStep, FreshNoCommand, NoCommandOK DEF Becomes, SchemaInv

LEMMA StartKeeps ==
    ASSUME SchemaInv, NEW s \in Session, NEW target \in Revision, Start(s, target)
    PROVE  CatalogInv'
<1>1. /\ cmd'[s].from = version /\ cmd'[s].reached = version
      /\ cmd'[s].pc = "running" /\ cmd'[s].target = target
      /\ cmd'[s].step = 1 /\ cmd'[s].written = Nothing
      /\ \A t \in Session \ {s} : cmd'[t] = cmd[t]
      /\ CommandOK(cmd'[s])
  BY StartEffect DEF SchemaInv, VersionInv
<1>2. version' = version /\ catalog' = catalog /\ target # version
  BY DEF Start
<1>3. Holding(cmd'[s]) /\ Fresh(cmd'[s])
  BY <1>1 DEF Holding, Fresh
<1>4. DOMAIN cmd'[s].written = {}
  BY <1>1 DEF Nothing
<1>5. catalog \in Forms(cmd'[s].reached)
  BY <1>1 DEF SchemaInv, CatalogInv, FormCommitted
<1>6. OnTheWay(cmd'[s], catalog)
  BY <1>1, <1>2, <1>3, <1>5, FreshOnTheWay
<1> QED
  BY <1>1, <1>2, <1>3, <1>4, <1>6, OwnStep DEF SchemaInv

\* A statement leaves its command on its way, and in hold of the users.
LEMMA ExecuteKeeps ==
    ASSUME SchemaInv, NEW s \in Session, Execute(s)
    PROVE  CatalogInv'
<1>1. CASE Abort(s)
  BY <1>1, AbortKeeps
<1>2. CASE ~Abort(s)
  <2> DEFINE c == cmd[s]
             st == Course(c)[c.step]
             d == cmd'[s]
  <2>1. Script(s) = Course(c) /\ Statement(s) = st /\ View(s) = Over(c.written, catalog)
    BY DEF Script, Course, Upwards, Statement, View
  <2>2. /\ c.pc = "running" /\ c.reached # c.target /\ c.step <= Len(Course(c))
        /\ Accepts(Over(c.written, catalog), st)
        /\ cmd' = [cmd EXCEPT ![s].step = @ + 1, ![s].written = Writes(c, catalog, st)]
        /\ version' = version /\ catalog' = catalog
    BY <1>2, <2>1 DEF Execute, HasStatement, Running, Done, Writes
  <2>3. \A t \in Session \ {s} :
           Locks(Over(c.written, catalog), st) \cap DOMAIN cmd[t].written = {}
    BY <2>1 DEF Execute, WaitsFor
  <2>4. /\ d.pc = c.pc /\ d.from = c.from /\ d.target = c.target /\ d.reached = c.reached
        /\ d.step = c.step + 1 /\ d.written = Writes(c, catalog, st)
        /\ \A t \in Session \ {s} : cmd'[t] = cmd[t]
    BY <2>2, StepEffect DEF Runs, SchemaInv, VersionInv
  <2>5. CommandOK(c) /\ Holding(c) /\ catalog \in Forms(version) /\ version \in Revision
    BY DEF SchemaInv, VersionInv, TypeOK, CommandOK, CatalogInv, UsersLocked, FormCommitted
  <2>6. \A t \in Session \ {s} : DOMAIN c.written \cap DOMAIN cmd[t].written = {}
    BY DEF SchemaInv, CatalogInv, LocksApart
  <2>7. version = c.from => OnTheWay(c, catalog)
    BY <2>2 DEF SchemaInv, CatalogInv, ReadersOnTheWay, Running
  <2> HIDE DEF c, d, st
  <2>14. Wrote(c, catalog, st, d)
    BY <2>4, WritesEffect
  <2>8. /\ DOMAIN d.written = DOMAIN c.written \cup Locks(Over(c.written, catalog), st)
        /\ Over(d.written, catalog) = Altered(Over(c.written, catalog), st)
    BY <2>14 DEF Wrote
  <2>9. \A t \in Session \ {s} : DOMAIN d.written \cap DOMAIN cmd[t].written = {}
    BY <2>3, <2>6, <2>8
  <2>10. "users" \in DOMAIN d.written \/ DroppingIndices(d)
    BY <2>2, <2>4, <2>5, StepHolding DEF st
  <2>11. Holding(d)
    BY <2>2, <2>4, <2>10 DEF Holding
  <2>12. version = d.from => OnTheWay(d, catalog)
    BY <2>2, <2>4, <2>5, <2>7, <2>8, StepOnTheWay DEF st
  <2> QED
    BY <2>2, <2>4, <2>9, <2>11, <2>12, OwnStep DEF SchemaInv, d
<1> QED
  BY <1>1, <1>2

LEMMA StampKeeps ==
    ASSUME SchemaInv, NEW s \in Session, Stamp(s)
    PROVE  CatalogInv'
<1>1. CASE Abort(s)
  BY <1>1, AbortKeeps
<1>2. CASE ~Abort(s)
  <2> DEFINE c == cmd[s]
             d == cmd'[s]
  <2>1. Script(s) = Course(c)
    BY DEF Script, Course, Upwards
  <2>2. /\ c.pc = "running" /\ c.reached # c.target /\ ~(c.step <= Len(Course(c)))
        /\ HoldsVersion(s) \/ version = c.from
        /\ version' = version /\ catalog' = catalog
    BY <1>2, <2>1 DEF Stamp, HasStatement, Running, Done
  <2>3. cmd' = [cmd EXCEPT ![s].step = 1, ![s].reached = Nearer(s)]
    BY <1>2 DEF Stamp, Nearer, SchemaInv, VersionInv, TypeOK
  <2>4. Nearer(s) \in Revision
    BY NearerType DEF Stamp, SchemaInv, VersionInv
  <2>5. /\ d.pc = c.pc /\ d.from = c.from /\ d.target = c.target /\ d.reached = Nearer(s)
        /\ d.step = 1 /\ d.written = c.written /\ CommandOK(d)
        /\ \A t \in Session \ {s} : cmd'[t] = cmd[t]
    BY <2>3, <2>4, StampEffect DEF Runs, SchemaInv, VersionInv
  <2>6. Nearer(s) = IF c.target > c.reached THEN c.reached + 1 ELSE c.reached - 1
    BY DEF Nearer, Upwards
  <2>7. CommandOK(c) /\ Holding(c)
    BY DEF SchemaInv, VersionInv, TypeOK, CommandOK, CatalogInv, UsersLocked
  <2>8. \A t \in Session \ {s} : DOMAIN c.written \cap DOMAIN cmd[t].written = {}
    BY DEF SchemaInv, CatalogInv, LocksApart
  <2>9. version = c.from
    BY <2>2 DEF SchemaInv, VersionInv, VersionLocked
  <2>10. OnTheWay(c, catalog)
    BY <2>2, <2>9 DEF SchemaInv, CatalogInv, ReadersOnTheWay, Running
  <2> HIDE DEF c, d
  <2>11. OnTheWay(d, catalog)
    BY <2>2, <2>5, <2>6, <2>7, <2>10, StampOnTheWay
  <2>12. c.pc = "running" /\ "users" \in DOMAIN c.written
    BY <2>2, <2>7, EndHolding
  <2>13. Holding(d)
    BY <2>5, <2>12 DEF Holding
  <2> QED
    BY <2>2, <2>5, <2>8, <2>11, <2>13, OwnStep DEF SchemaInv, d
<1> QED
  BY <1>1, <1>2

\* Who commits has read the stored revision.  The others have then done nothing, or
\* hold the shifts as they were before, and have not read the new revision.
LEMMA CommitKeeps ==
    ASSUME SchemaInv, NEW s \in Session, Commit(s)
    PROVE  CatalogInv'
<1>1. Becomes(s, NoCommand)
  BY AbortEffect DEF Commit, SchemaInv, VersionInv
<1>2. /\ catalog' = Over(cmd[s].written, catalog) /\ version' = cmd[s].reached
      /\ cmd[s].reached = cmd[s].target /\ cmd[s].pc = "running" /\ cmd[s].reached # cmd[s].from
  BY DEF Commit, View, Done, Running, SchemaInv, VersionInv, HasTarget
<1>3. version = cmd[s].from
  BY <1>2 DEF SchemaInv, VersionInv, VersionLocked, HoldsVersion
<1>4. OnTheWay(cmd[s], catalog)
  BY <1>2, <1>3 DEF SchemaInv, CatalogInv, ReadersOnTheWay, Running
<1>5. catalog' \in Forms(version')
  BY <1>2, <1>4 DEF OnTheWay
<1>6. version \in Revision /\ version' \in Revision /\ catalog \in Forms(version)
  BY <1>2 DEF SchemaInv, VersionInv, TypeOK, CatalogInv, FormCommitted
<1>7. "users" \in DOMAIN cmd[s].written
  <2>1. Holding(cmd[s])
    BY DEF SchemaInv, CatalogInv, UsersLocked
  <2> QED
    BY <1>2, <2>1 DEF Holding, Fresh, DroppingIndices
<1>8. ASSUME NEW t \in Session \ {s}, Running(t), version' = cmd[t].from
      PROVE  OnTheWay(cmd[t], catalog')
  <2>1. CommandOK(cmd[t]) /\ Holding(cmd[t]) /\ cmd[t].target # cmd[t].from
    BY <1>8 DEF SchemaInv, VersionInv, TypeOK, CommandOK, HasTarget, CatalogInv, UsersLocked
  <2>2. DOMAIN cmd[t].written \cap DOMAIN cmd[s].written = {}
    BY DEF SchemaInv, CatalogInv, LocksApart
  <2>3. ASSUME DroppingIndices(cmd[t]) PROVE FALSE
    <3>1. "shifts" \notin DOMAIN cmd[s].written /\ version' = 1
      BY <1>8, <2>2, <2>3 DEF DroppingIndices
    <3>2. catalog'["shifts"] = catalog["shifts"]
      BY <1>2, <3>1 DEF Over, Object, Table
    <3>3. version = 1
      BY <1>5, <1>6, <3>1, <3>2, InitialShifts
    <3> QED
      BY <1>2, <1>3, <3>1, <3>3
  <2>4. Fresh(cmd[t])
    BY <1>7, <2>1, <2>2, <2>3 DEF Holding
  <2>5. catalog' \in Forms(cmd[t].reached)
    BY <1>5, <1>8, <2>4 DEF Fresh
  <2> QED
    BY <2>1, <2>4, <2>5, FreshOnTheWay
<1>9. FormCommitted'
  BY <1>5 DEF FormCommitted
<1>10. UsersLocked'
  BY <1>1, FreshNoCommand DEF Becomes, SchemaInv, CatalogInv, UsersLocked
<1>11. LocksApart'
  BY <1>1, FreshNoCommand DEF Becomes, SchemaInv, CatalogInv, LocksApart
<1>12. ReadersOnTheWay'
  BY <1>1, <1>8, NoCommandOK DEF Becomes, ReadersOnTheWay, Running
<1> QED
  BY <1>9, <1>10, <1>11, <1>12 DEF CatalogInv

LEMMA SchemaStep == SchemaInv /\ [Next]_vars => SchemaInv'
<1> SUFFICES ASSUME SchemaInv, [Next]_vars PROVE CatalogInv'
  BY VersionStep DEF SchemaInv
<1>1. ASSUME NEW s \in Session, Interrupt(s) \/ BreakDeadlock(s) PROVE CatalogInv'
  BY <1>1, AbortKeeps DEF Interrupt, BreakDeadlock
<1>2. CASE UNCHANGED vars
  BY <1>2 DEF vars, SchemaInv, CatalogInv, FormCommitted, UsersLocked, LocksApart,
              ReadersOnTheWay, Running
<1> QED
  BY <1>1, <1>2, StartKeeps, ExecuteKeeps, StampKeeps, CommitKeeps DEF Next, Proceed

\* A form differs from its schema in indices only.
LEMMA BareForm ==
    ASSUME NEW v \in Revision, NEW base \in Forms(v)
    PROVE  \A o \in Object : WithoutIndices(base[o]) = WithoutIndices(Schema[v][o])
<1>1. CASE base = Schema[v]
  BY <1>1
<1>2. CASE base = Bared(Schema[v])
  <2>1. "shifts" \in DOMAIN Schema[v]
    <3>1. Schema[v] \in Forms(v)
      BY DEF Forms
    <3>2. IsView(Schema[v])
      BY <3>1, FormShifts
    <3> QED
      BY <3>2 DEF IsView, Object, Table
  <2>2. base["shifts"] = WithoutIndices(Schema[v]["shifts"])
        /\ \A o \in Object \ {"shifts"} : base[o] = Schema[v][o]
    BY <1>2, <2>1 DEF Bared
  <2>3. \A parts : WithoutIndices(WithoutIndices(parts)) = WithoutIndices(parts)
    BY DEF WithoutIndices
  <2> QED
    BY <2>2, <2>3
<1> QED
  BY <1>1, <1>2 DEF Forms

\* However many commands interleave, fail or are interrupted, what is committed is the
\* schema of the stored revision, but for the indices of the shifts.
THEOREM RevisionAlwaysTells == Spec => []RevisionTellsSchema
<1>1. SchemaInv => RevisionTellsSchema
  BY BareForm DEF SchemaInv, VersionInv, TypeOK, CatalogInv, FormCommitted, RevisionTellsSchema
<1> QED
  BY <1>1, SchemaInit, SchemaStep, PTL DEF Spec

\* The scripts above a form of a revision, one after the other.
LEMMA Climbing ==
    ASSUME NEW v \in Revision, NEW base \in Forms(v)
    PROVE  Upgraded(base, v)[Newest].accepted
<1> DEFINE at == Upgraded(base, v)
           Fine(r) == at[r].accepted /\ at[r].view \in Forms(r)
<1>1. at[v] = Untouched(base) /\ \A r \in (v + 1) .. Newest : at[r] = RunThrough(at[r - 1], Up[r])
  BY UpgradedEquation
<1> HIDE DEF at
<1>2. Fine(v)
  BY <1>1 DEF Untouched
<1>3. ASSUME NEW r \in (v + 1) .. Newest, Fine(r - 1) PROVE Fine(r)
  <2>1. r \in 1 .. Newest
    BY DEF Revision, Newest
  <2>2. /\ at[r].view = Result(at[r - 1].view, Up[r]).view
        /\ at[r].accepted <=> at[r - 1].accepted /\ Result(at[r - 1].view, Up[r]).accepted
    BY <1>1, RunThroughParts
  <2>3. /\ Result(at[r - 1].view, Up[r]).view \in Forms(r)
        /\ Result(at[r - 1].view, Up[r]).accepted
    BY <1>3, <2>1, UpForms
  <2> QED
    BY <1>3, <2>2, <2>3
<1> HIDE DEF Fine
<1>4. v \in 0 .. 4
  BY DEF Revision, Newest
<1>5. \A r \in 1 .. 4 : v < r /\ Fine(r - 1) => Fine(r)
  BY <1>3, <1>4 DEF Newest
<1>6. Fine(4)
  <2>1. v <= 1 => Fine(1)
    BY <1>2, <1>4, <1>5
  <2>2. v <= 2 => Fine(2)
    BY <1>2, <1>4, <1>5, <2>1
  <2>3. v <= 3 => Fine(3)
    BY <1>2, <1>4, <1>5, <2>2
  <2> QED
    BY <1>2, <1>4, <1>5, <2>3
<1> QED
  BY <1>6 DEF Fine, at, Newest

\* Whatever going up and down, together or interrupted, has left: a container that is
\* started alone runs "upgrade head" without a statement being refused.
THEOREM UpgradeNeverRefused == Spec => []UpgradeAlwaysWorks
<1>1. SchemaInv => UpgradeAlwaysWorks
  BY Climbing DEF SchemaInv, VersionInv, TypeOK, CatalogInv, FormCommitted, UpgradeAlwaysWorks
<1> QED
  BY <1>1, SchemaInit, SchemaStep, PTL DEF Spec
=============================================================================
