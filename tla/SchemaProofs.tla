------------------------------ MODULE SchemaProofs ------------------------------
(***************************************************************************)
(* What the scripts of Migrations do with a schema, statement by           *)
(* statement, and what can be in the catalog at each revision.  No session *)
(* appears here: a script is run alone, as PostgreSQL runs it in a         *)
(* transaction.  MigrationsProofs builds on this what is committed when    *)
(* commands run together.                                                  *)
(***************************************************************************)
EXTENDS Migrations, TLAPS, WellFoundedInduction

-----------------------------------------------------------------------------
(* Scripts as recursive functions *)

\* Induction, from the least number outside a set.
LEMMA Counting ==
    ASSUME NEW S, 0 \in S, \A i \in Nat : i \in S => i + 1 \in S
    PROVE  Nat \subseteq S
<1> SUFFICES ASSUME ~(Nat \subseteq S) PROVE FALSE
  OBVIOUS
<1> DEFINE T == Nat \ S
<1> DEFINE R == OpToRel(<, Nat)
<1>1. T \subseteq Nat /\ T # {}
  OBVIOUS
<1>2. IsWellFoundedOn(R, Nat)
  BY NatLessThanWellFounded
<1>3. \A x, y \in Nat : <<x, y>> \in R <=> x < y
  BY DEF OpToRel
<1> HIDE DEF R
<1>4. PICK x \in T : \A y \in T : ~(<<y, x>> \in R)
  BY <1>1, <1>2, WFMin
<1>5. x # 0 /\ x \in Nat /\ x \notin S
  OBVIOUS
<1>6. x - 1 \in Nat /\ x - 1 < x /\ (x - 1) + 1 = x
  BY <1>5
<1>7. x - 1 \notin T
  BY <1>3, <1>4, <1>5, <1>6
<1> QED
  BY <1>5, <1>6, <1>7

\* A statement executed on a view.
Altered(view, st) == [view EXCEPT ![st.on] = Parts(@, st)]

\* What RunAlone is, as an equation that is not recursive.
IsRun(f, base, script) ==
    /\ DOMAIN f = 0 .. Len(script)
    /\ f[0] = Untouched(base)
    /\ \A i \in 1 .. Len(script) : f[i] = Tried(f[i - 1], script[i])

RunBody(f, base, script, n) ==
    [i \in 0 .. n |-> IF i = 0 THEN Untouched(base) ELSE Tried(f[i - 1], script[i])]

\* There is a function that is what the recursive definition says of it.
LEMMA RunExists ==
    ASSUME NEW base, NEW script, NEW n \in Nat
    PROVE  \E f : f = RunBody(f, base, script, n)
<1> DEFINE S == {m \in Nat : \E f : f = RunBody(f, base, script, m)}
<1>1. 0 \in S
  <2> DEFINE f == [i \in 0 .. 0 |-> Untouched(base)]
  <2>1. f = RunBody(f, base, script, 0)
    BY DEF RunBody
  <2> QED
    BY <2>1
<1>2. ASSUME NEW m \in Nat, m \in S PROVE m + 1 \in S
  <2>1. PICK f : f = RunBody(f, base, script, m)
    BY <1>2
  <2> DEFINE x == Tried(f[m], script[m + 1])
             g == [i \in 0 .. (m + 1) |-> IF i = m + 1 THEN x ELSE f[i]]
  <2>2. \A i \in 0 .. m : g[i] = f[i]
    OBVIOUS
  <2>3. \A i \in 0 .. m : g[i] = RunBody(g, base, script, m + 1)[i]
    BY <2>1, <2>2 DEF RunBody
  <2>4. g[m + 1] = RunBody(g, base, script, m + 1)[m + 1]
    BY <2>2 DEF RunBody
  <2>5. g = RunBody(g, base, script, m + 1)
    <3>1. RunBody(g, base, script, m + 1) =
            [i \in 0 .. (m + 1) |-> RunBody(g, base, script, m + 1)[i]]
      BY DEF RunBody
    <3> HIDE DEF g
    <3>2. g = [i \in 0 .. (m + 1) |-> g[i]]
      BY DEF g
    <3> QED
      BY <2>3, <2>4, <3>1, <3>2
  <2> QED
    BY <2>5
<1> HIDE DEF S
<1>3. n \in S
  BY <1>1, <1>2, Counting
<1> QED
  BY <1>3 DEF S

\* So RunAlone is one.
LEMMA RunEquation ==
    ASSUME NEW base, NEW script, Len(script) \in Nat
    PROVE  IsRun(RunAlone(base, script), base, script)
<1> DEFINE F(f) == [i \in 0 .. Len(script) |->
                       IF i = 0 THEN Untouched(base) ELSE Tried(f[i - 1], script[i])]
<1>1. \E f : f = F(f)
  <2>1. PICK f : f = RunBody(f, base, script, Len(script))
    BY RunExists
  <2>2. f = F(f)
    BY <2>1 DEF RunBody
  <2> QED
    BY <2>2
<1>2. RunAlone(base, script) = CHOOSE f : f = F(f)
  BY DEF RunAlone
<1>3. RunAlone(base, script) = F(RunAlone(base, script))
  <2> HIDE DEF F
  <2> QED
    BY <1>1, <1>2
<1> QED
  BY <1>3 DEF IsRun

\* Before its first statement a script has changed nothing.
LEMMA RunStart ==
    ASSUME NEW base, NEW script, Len(script) \in Nat
    PROVE  RunAlone(base, script)[0].view = base
<1>1. IsRun(RunAlone(base, script), base, script)
  BY RunEquation
<1> QED
  BY <1>1 DEF IsRun, Untouched

\* Induction up to n.
LEMMA Stepwise ==
    ASSUME NEW n \in Nat, NEW S, 0 \in S, \A i \in 1 .. n : i - 1 \in S => i \in S
    PROVE  0 .. n \subseteq S
<1> DEFINE T == {i \in Nat : i <= n => i \in S}
<1>1. 0 \in T
  OBVIOUS
<1>2. ASSUME NEW i \in Nat, i \in T PROVE i + 1 \in T
  <2> SUFFICES ASSUME i + 1 <= n PROVE i + 1 \in S
    OBVIOUS
  <2>1. i + 1 \in 1 .. n /\ (i + 1) - 1 = i /\ i <= n
    OBVIOUS
  <2> QED
    BY <1>2, <2>1
<1>3. Nat \subseteq T
  <2> HIDE DEF T
  <2> QED
    BY <1>1, <1>2, Counting
<1> QED
  BY <1>3

\* A catalog is a function on the objects.
IsView(v) == DOMAIN v = Object /\ v = [o \in Object |-> v[o]]

\* A statement is accepted where all before it have been.
LEMMA TriedAccepted ==
    ASSUME NEW before, NEW st
    PROVE  Tried(before, st).accepted <=> before.accepted /\ Accepts(before.view, st)
BY DEF Tried

\* A statement changes the object it is about.
LEMMA TriedEffect ==
    ASSUME NEW before, IsView(before.view), NEW st, st.on \in Object
    PROVE  LET result == Tried(before, st)
           IN  /\ IsView(result.view)
               /\ result.view[st.on] = Parts(before.view[st.on], st)
               /\ \A o \in Object \ {st.on} : result.view[o] = before.view[o]
               /\ result.accepted <=> before.accepted /\ Accepts(before.view, st)
BY DEF Tried, IsView

\* Two scripts one after the other are one script: its result, and whether all of it
\* is accepted.
LEMMA InTurn ==
    ASSUME NEW base, NEW X, NEW s \in Seq(X), NEW t \in Seq(X)
    PROVE  LET first == Result(base, s)
               second == Result(first.view, t)
           IN  /\ Result(base, s \o t).view = second.view
               /\ Result(base, s \o t).accepted <=> first.accepted /\ second.accepted
<1> DEFINE n == Len(s)
           r == RunAlone(base, s \o t)
           a == RunAlone(base, s)
           mid == Result(base, s)
           b == RunAlone(mid.view, t)
           Both(x, y) == x.view = y.view /\ (x.accepted <=> mid.accepted /\ y.accepted)
           A == {i \in 0 .. n : r[i] = a[i]}
           B == {i \in 0 .. Len(t) : Both(r[n + i], b[i])}
<1>0. Len(s) \in Nat /\ Len(t) \in Nat /\ Len(s \o t) = Len(s) + Len(t)
  OBVIOUS
<1>1. IsRun(r, base, s \o t) /\ IsRun(a, base, s) /\ IsRun(b, mid.view, t)
  BY <1>0, RunEquation
<1>2. mid = a[n]
  BY DEF Result
<1>3. Result(base, s \o t) = r[n + Len(t)] /\ Result(mid.view, t) = b[Len(t)]
  BY <1>0 DEF Result
<1>4. \A i \in 1 .. n : (s \o t)[i] = s[i]
  OBVIOUS
<1>5. \A i \in 1 .. Len(t) : (s \o t)[n + i] = t[i]
  OBVIOUS
<1> HIDE DEF r, a, b, mid
<1>6. 0 \in A
  BY <1>0, <1>1 DEF IsRun
<1>7. ASSUME NEW i \in 1 .. n, i - 1 \in A PROVE i \in A
  BY <1>0, <1>1, <1>4, <1>7 DEF IsRun
<1>8. n \in A
  <2> HIDE DEF A
  <2>1. 0 .. n \subseteq A
    BY <1>0, <1>6, <1>7, Stepwise
  <2> QED
    BY <1>0, <2>1
<1>9. mid = r[n]
  BY <1>2, <1>8
<1>11. 0 \in B
  <2>1. b[0] = Untouched(mid.view)
    BY <1>1 DEF IsRun
  <2>2. Both(mid, b[0])
    BY <2>1 DEF Untouched
  <2> QED
    BY <1>0, <1>9, <2>2
<1>12. ASSUME NEW i \in 1 .. Len(t), i - 1 \in B PROVE i \in B
  <2>1. r[n + i] = Tried(r[n + i - 1], t[i]) /\ b[i] = Tried(b[i - 1], t[i])
    BY <1>0, <1>1, <1>5 DEF IsRun
  <2>2. Both(r[n + i - 1], b[i - 1])
    BY <1>12, <1>0
  <2>3. r[n + i].view = b[i].view
    BY <2>1, <2>2 DEF Tried
  <2>4. r[n + i].accepted <=> r[n + i - 1].accepted /\ Accepts(b[i - 1].view, t[i])
    <3>1. r[n + i].accepted <=> r[n + i - 1].accepted /\ Accepts(r[n + i - 1].view, t[i])
      BY <2>1, TriedAccepted
    <3> QED
      BY <2>2, <3>1
  <2>5. b[i].accepted <=> b[i - 1].accepted /\ Accepts(b[i - 1].view, t[i])
    BY <2>1, TriedAccepted
  <2> QED
    BY <2>2, <2>3, <2>4, <2>5
<1>13. Len(t) \in B
  <2> HIDE DEF B
  <2>1. 0 .. Len(t) \subseteq B
    BY <1>0, <1>11, <1>12, Stepwise
  <2> QED
    BY <1>0, <2>1
<1> QED
  BY <1>3, <1>13 DEF mid

-----------------------------------------------------------------------------
(* The kinds of statements *)

\* A statement that makes parts of one object.
Makes(before, after, t, parts) ==
    /\ IsView(after.view)
    /\ after.view[t] = parts
    /\ \A o \in Object \ {t} : after.view[o] = before.view[o]

\* One that the database accepts as well.
Puts(before, after, t, parts) ==
    Makes(before, after, t, parts) /\ (before.accepted => after.accepted)

\* The general forms, of which the lemmas below are the kinds of statements.
LEMMA MakesTried ==
    ASSUME NEW before, IsView(before.view), NEW st, NEW t \in Object, st.on = t
    PROVE  Makes(before, Tried(before, st), t, Parts(before.view[t], st))
BY TriedEffect DEF Makes

LEMMA PutsTried ==
    ASSUME NEW before, IsView(before.view), NEW st, NEW t \in Object, st.on = t,
           Accepts(before.view, st)
    PROVE  Puts(before, Tried(before, st), t, Parts(before.view[t], st))
BY MakesTried, TriedAccepted DEF Puts

\* Nothing in parts is called c.
Lacks(parts, c) == \A p \in parts : p[1] # c

\* All that parts refer to is there.
Grounded(parts, view) == \A p \in parts : p[2] \in Object => view[p[2]] # {}

\* No other object refers to t.
Unreferred(view, t) == \A o \in Object \ {t} : \A p \in view[o] : p[2] # t

\* Parts with an index, with a column, and without a column.
Indexed(parts, i) == parts \cup {Index(i)}
Widened(parts, c, says) == parts \cup {Column(c)} \cup says
Narrowed(parts, c) == {p \in parts : p[1] # c}

\* What an index changes.
LEMMA IndexedParts ==
    ASSUME NEW parts, NEW i
    PROVE  /\ Indexed(parts, i) # {}
           /\ \A c : Lacks(Indexed(parts, i), c) <=> Lacks(parts, c) /\ c # i
           /\ WithoutIndices(Indexed(parts, i)) = WithoutIndices(parts)
           /\ \A view : Grounded(Indexed(parts, i), view) <=> Grounded(parts, view)
<1>1. Index(i)[1] = i /\ Index(i)[2] = "index" /\ "index" \notin Object
  BY DEF Index, Object, Table, EnumType
<1>2. Indexed(parts, i) # {}
  BY DEF Indexed
<1>3. \A c : Lacks(Indexed(parts, i), c) <=> Lacks(parts, c) /\ c # i
  BY <1>1 DEF Indexed, Lacks
<1>4. WithoutIndices(Indexed(parts, i)) = WithoutIndices(parts)
  BY <1>1 DEF Indexed, WithoutIndices
<1>5. \A view : Grounded(Indexed(parts, i), view) <=> Grounded(parts, view)
  BY <1>1 DEF Indexed, Grounded
<1> QED
  BY <1>2, <1>3, <1>4, <1>5

\* What a column changes.
LEMMA WidenedParts ==
    ASSUME NEW parts, NEW c, NEW says, \A p \in says : p[1] = c
    PROVE  /\ Widened(parts, c, says) # {}
           /\ \A d : Lacks(Widened(parts, c, says), d) <=> Lacks(parts, d) /\ d # c
           /\ Lacks(parts, c) => Narrowed(Widened(parts, c, says), c) = parts
<1>1. Column(c)[1] = c
  BY DEF Column
<1>2. Widened(parts, c, says) # {}
  BY DEF Widened
<1>3. \A d : Lacks(Widened(parts, c, says), d) <=> Lacks(parts, d) /\ d # c
  BY <1>1 DEF Widened, Lacks
<1>4. Lacks(parts, c) => Narrowed(Widened(parts, c, says), c) = parts
  BY <1>1 DEF Widened, Lacks, Narrowed
<1> QED
  BY <1>2, <1>3, <1>4

\* The kinds of statements, where they are accepted.
LEMMA Creating ==
    ASSUME NEW before, IsView(before.view), NEW t \in Object, NEW parts,
           before.view[t] = {}, Grounded(parts, before.view)
    PROVE  Puts(before, Tried(before, CreateTable(t, parts)), t, parts)
<1> DEFINE st == CreateTable(t, parts)
<1>1. st.kind = "create" /\ st.on = t /\ st.new = parts
  BY DEF CreateTable, Change
<1> HIDE DEF st
<1>2. Accepts(before.view, st)
  BY <1>1 DEF Accepts, ReferredTo, Grounded
<1>3. Parts(before.view[t], st) = parts
  BY <1>1 DEF Parts
<1>4. Puts(before, Tried(before, st), t, parts)
  BY <1>1, <1>2, <1>3, PutsTried
<1> QED
  BY <1>4 DEF st

LEMMA Adding ==
    ASSUME NEW before, IsView(before.view), NEW t \in Object, NEW c, NEW says,
           before.view[t] # {}, Lacks(before.view[t], c), Grounded(says, before.view),
           \A p \in says : p[1] = c
    PROVE  Puts(before, Tried(before, AddColumn(t, c, says)), t,
                Widened(before.view[t], c, says))
<1> DEFINE st == AddColumn(t, c, says)
<1>1. st.kind = "alter" /\ st.on = t /\ st.old = {} /\ st.new = {Column(c)} \cup says
  BY DEF AddColumn, Change
<1> HIDE DEF st
<1>2. Column(c)[1] = c /\ Column(c)[2] \notin Object
  BY DEF Column, Object, Table, EnumType
<1>3. Accepts(before.view, st)
  <2>1. \A n \in NamesIn(st.new) : n = c
    BY <1>1, <1>2 DEF NamesIn
  <2>2. c \notin NamesIn(before.view[t])
    BY DEF NamesIn, Lacks
  <2>3. \A o \in ReferredTo(st.new) : before.view[o] # {}
    BY <1>1, <1>2 DEF ReferredTo, Grounded
  <2> QED
    BY <1>1, <2>1, <2>2, <2>3 DEF Accepts
<1>4. Parts(before.view[t], st) = Widened(before.view[t], c, says)
  BY <1>1 DEF Parts, Widened
<1>5. Puts(before, Tried(before, st), t, Widened(before.view[t], c, says))
  BY <1>1, <1>3, <1>4, PutsTried
<1> QED
  BY <1>5 DEF st

LEMMA Indexing ==
    ASSUME NEW before, IsView(before.view), NEW t \in Object, NEW i,
           before.view[t] # {}, Lacks(before.view[t], i)
    PROVE  Puts(before, Tried(before, CreateIndex(i, t)), t, Indexed(before.view[t], i))
<1> DEFINE st == CreateIndex(i, t)
<1>1. st.kind = "alter" /\ st.on = t /\ st.old = {} /\ st.new = {Index(i)}
  BY DEF CreateIndex, Change
<1> HIDE DEF st
<1>2. Index(i)[1] = i /\ Index(i)[2] \notin Object
  BY DEF Index, Object, Table, EnumType
<1>3. Accepts(before.view, st)
  <2>1. \A n \in NamesIn(st.new) : n = i
    BY <1>1, <1>2 DEF NamesIn
  <2>2. i \notin NamesIn(before.view[t])
    BY DEF NamesIn, Lacks
  <2>3. \A o \in ReferredTo(st.new) : before.view[o] # {}
    BY <1>1, <1>2 DEF ReferredTo
  <2> QED
    BY <1>1, <2>1, <2>2, <2>3 DEF Accepts
<1>4. Parts(before.view[t], st) = Indexed(before.view[t], i)
  BY <1>1 DEF Parts, Indexed
<1>5. Puts(before, Tried(before, st), t, Indexed(before.view[t], i))
  BY <1>1, <1>3, <1>4, PutsTried
<1> QED
  BY <1>5 DEF st

LEMMA Dropping ==
    ASSUME NEW before, IsView(before.view), NEW t \in Object,
           before.view[t] # {}, Unreferred(before.view, t)
    PROVE  Puts(before, Tried(before, DropTable(t)), t, {})
<1> DEFINE st == DropTable(t)
<1>1. st.kind = "drop" /\ st.on = t /\ st.new = {}
  BY DEF DropTable, Change
<1> HIDE DEF st
<1>2. Accepts(before.view, st)
  BY <1>1 DEF Accepts, ReferredTo, Unreferred
<1>3. Parts(before.view[t], st) = {}
  BY <1>1 DEF Parts
<1>4. Puts(before, Tried(before, st), t, {})
  BY <1>1, <1>2, <1>3, PutsTried
<1> QED
  BY <1>4 DEF st

LEMMA Altering ==
    ASSUME NEW before, IsView(before.view), NEW t \in Object, NEW c, NEW says,
           Column(c) \in before.view[t], Grounded(says, before.view),
           \A p \in says : p[1] = c
    PROVE  Puts(before, Tried(before, AlterColumn(t, c, says)), t,
                Widened(Narrowed(before.view[t], c), c, says))
<1> DEFINE st == AlterColumn(t, c, says)
<1>1. st.kind = "alter" /\ st.on = t /\ st.old = {c} /\ st.new = {Column(c)} \cup says
  BY DEF AlterColumn, Change
<1> HIDE DEF st
<1>2. Column(c)[1] = c /\ Column(c)[2] \notin Object
  BY DEF Column, Object, Table, EnumType
<1>3. Accepts(before.view, st)
  <2>1. \A n \in NamesIn(st.new) : n = c
    BY <1>1, <1>2 DEF NamesIn
  <2>2. c \in NamesIn(before.view[t])
    BY <1>2 DEF NamesIn
  <2>3. \A o \in ReferredTo(st.new) : before.view[o] # {}
    BY <1>1, <1>2 DEF ReferredTo, Grounded
  <2> QED
    BY <1>1, <2>1, <2>2, <2>3 DEF Accepts
<1>4. Parts(before.view[t], st) = Widened(Narrowed(before.view[t], c), c, says)
  BY <1>1 DEF Parts, Widened, Narrowed
<1>5. Puts(before, Tried(before, st), t, Widened(Narrowed(before.view[t], c), c, says))
  BY <1>1, <1>3, <1>4, PutsTried
<1> QED
  BY <1>5 DEF st

\* What the other statements make, whether they are accepted or not.
LEMMA Made ==
    ASSUME NEW before, NEW after, NEW t, NEW parts, Makes(before, after, t, parts)
    PROVE  IsView(after.view) /\ after.view[t] = parts
BY DEF Makes

LEMMA Recreating ==
    ASSUME NEW before, IsView(before.view), NEW t \in Object, NEW parts
    PROVE  Makes(before, Tried(before, CreateTable(t, parts)), t, parts)
<1>1. LET st == CreateTable(t, parts) IN st.on = t /\ Parts(before.view[t], st) = parts
  BY DEF CreateTable, Change, Parts
<1> QED
  BY <1>1, MakesTried

LEMMA Emptying ==
    ASSUME NEW before, IsView(before.view), NEW t \in Object
    PROVE  /\ Makes(before, Tried(before, DropTable(t)), t, {})
           /\ Makes(before, Tried(before, DropTypeIfExists(t)), t, {})
<1>1. LET st == DropTable(t) IN st.on = t /\ Parts(before.view[t], st) = {}
  BY DEF DropTable, Change, Parts
<1>2. LET st == DropTypeIfExists(t) IN st.on = t /\ Parts(before.view[t], st) = {}
  BY DEF DropTypeIfExists, Change, Parts
<1> QED
  BY <1>1, <1>2, MakesTried

LEMMA Narrowing ==
    ASSUME NEW before, IsView(before.view), NEW t \in Object, NEW c
    PROVE  /\ Makes(before, Tried(before, DropColumn(t, c)), t, Narrowed(before.view[t], c))
           /\ Makes(before, Tried(before, DropIndex(c, t)), t, Narrowed(before.view[t], c))
<1>1. LET st == DropColumn(t, c)
      IN  st.on = t /\ Parts(before.view[t], st) = Narrowed(before.view[t], c)
  BY DEF DropColumn, Change, Parts, Narrowed
<1>2. LET st == DropIndex(c, t)
      IN  st.on = t /\ Parts(before.view[t], st) = Narrowed(before.view[t], c)
  BY DEF DropIndex, Change, Parts, Narrowed
<1> QED
  BY <1>1, <1>2, MakesTried

\* A column dropped after another.
LEMMA NarrowingNext ==
    ASSUME NEW first, NEW before, NEW t \in Object, NEW parts, Makes(first, before, t, parts),
           NEW c
    PROVE  Makes(before, Tried(before, DropColumn(t, c)), t, Narrowed(parts, c))
BY Made, Narrowing

LEMMA Restating ==
    ASSUME NEW before, IsView(before.view), NEW t \in Object, NEW c, NEW says
    PROVE  Makes(before, Tried(before, AlterColumn(t, c, says)), t,
                 Widened(Narrowed(before.view[t], c), c, says))
<1>1. LET st == AlterColumn(t, c, says)
      IN  /\ st.on = t
          /\ Parts(before.view[t], st) = Widened(Narrowed(before.view[t], c), c, says)
  BY DEF AlterColumn, Change, Parts, Narrowed, Widened
<1> QED
  BY <1>1, MakesTried

-----------------------------------------------------------------------------
(* The first script *)

UsersColumns == Columns(UserColumns) \cup {Says("hashed_password", "128")}
SchedulesColumns == {Column("created_by"), Says("created_by", "users")}

Users1 == Indexed(Indexed(UsersColumns, "ix_users_email"), "ix_users_id")
Schedules1 ==
    Indexed(Indexed(SchedulesColumns, "ix_schedules_id"), "ix_schedules_week_start")
Shifts1 ==
    Indexed(Indexed(Indexed(LegacyShift, "ix_shifts_id"), "ix_shifts_schedule_id"),
            "ix_shifts_user_id")

LegacyColumns == {"id", "user_id", "start_time", "end_time", "title", "notes", "status",
                  "schedule_id", "created_at", "updated_at"}

\* What the first tables are made of, and refer to.
LEMMA FirstContents ==
    /\ \A i : i \notin UserColumns => Lacks(UsersColumns, i)
    /\ \A i : i # "created_by" => Lacks(SchedulesColumns, i)
    /\ \A i : i \notin LegacyColumns => Lacks(LegacyShift, i)
    /\ UsersColumns # {} /\ SchedulesColumns # {} /\ LegacyShift # {}
    /\ \A view : Grounded(UsersColumns, view)
    /\ \A view : view["users"] # {} => Grounded(SchedulesColumns, view)
    /\ \A view : view["users"] # {} /\ view["schedules"] # {} => Grounded(LegacyShift, view)
<1>1. \A i : i \notin UserColumns => Lacks(UsersColumns, i)
  BY DEF Lacks, UsersColumns, UserColumns, Columns, Column, Says
<1>2. \A i : i # "created_by" => Lacks(SchedulesColumns, i)
  BY DEF Lacks, SchedulesColumns, Column, Says
<1>3. \A i : i \notin LegacyColumns => Lacks(LegacyShift, i)
  BY DEF Lacks, LegacyColumns, LegacyShift, Columns, Column, Says
<1>4. UsersColumns # {} /\ SchedulesColumns # {} /\ LegacyShift # {}
  <2>1. /\ Says("hashed_password", "128") \in UsersColumns
        /\ Column("created_by") \in SchedulesColumns
        /\ Says("user_id", "users") \in LegacyShift
    BY DEF UsersColumns, SchedulesColumns, LegacyShift
  <2> QED
    BY <2>1
<1>5. \A view : Grounded(UsersColumns, view)
  BY DEF UsersColumns, Columns, Column, Says, Object, Table, EnumType, Grounded
<1>6. \A view : view["users"] # {} => Grounded(SchedulesColumns, view)
  BY DEF SchedulesColumns, Column, Says, Object, Table, EnumType, Grounded
<1>7. \A view : view["users"] # {} /\ view["schedules"] # {} => Grounded(LegacyShift, view)
  BY DEF LegacyShift, Columns, Column, Says, Object, Table, EnumType, Grounded
<1> QED
  BY <1>1, <1>2, <1>3, <1>4, <1>5, <1>6, <1>7

\* On an empty database the first script makes three tables, and is accepted.
LEMMA FirstScript ==
    LET result == Result(Blank, Up[1])
    IN  /\ IsView(result.view)
        /\ result.view["users"] = Users1
        /\ result.view["schedules"] = Schedules1
        /\ result.view["shifts"] = Shifts1
        /\ \A o \in Object \ {"users", "schedules", "shifts"} : result.view[o] = {}
        /\ result.accepted
<1> DEFINE r == RunAlone(Blank, Up[1])
<1>a. Up[1] = InitialSchema /\ Len(InitialSchema) = 10
  BY DEF Up, InitialSchema
<1>b. IsRun(r, Blank, InitialSchema) /\ Result(Blank, Up[1]) = r[10]
  BY <1>a, RunEquation DEF Result
<1> HIDE DEF r
<1>c. /\ r[0] = Untouched(Blank)
      /\ r[1] = Tried(r[0], CreateTable("users", UsersColumns))
      /\ r[2] = Tried(r[1], CreateIndex("ix_users_email", "users"))
      /\ r[3] = Tried(r[2], CreateIndex("ix_users_id", "users"))
      /\ r[4] = Tried(r[3], CreateTable("schedules", SchedulesColumns))
      /\ r[5] = Tried(r[4], CreateIndex("ix_schedules_id", "schedules"))
      /\ r[6] = Tried(r[5], CreateIndex("ix_schedules_week_start", "schedules"))
      /\ r[7] = Tried(r[6], CreateTable("shifts", LegacyShift))
      /\ r[8] = Tried(r[7], CreateIndex("ix_shifts_id", "shifts"))
      /\ r[9] = Tried(r[8], CreateIndex("ix_shifts_schedule_id", "shifts"))
      /\ r[10] = Tried(r[9], CreateIndex("ix_shifts_user_id", "shifts"))
  <2>1. /\ r[0] = Untouched(Blank) /\ r[1] = Tried(r[0], InitialSchema[1])
        /\ r[2] = Tried(r[1], InitialSchema[2]) /\ r[3] = Tried(r[2], InitialSchema[3])
        /\ r[4] = Tried(r[3], InitialSchema[4]) /\ r[5] = Tried(r[4], InitialSchema[5])
        /\ r[6] = Tried(r[5], InitialSchema[6]) /\ r[7] = Tried(r[6], InitialSchema[7])
        /\ r[8] = Tried(r[7], InitialSchema[8]) /\ r[9] = Tried(r[8], InitialSchema[9])
        /\ r[10] = Tried(r[9], InitialSchema[10])
    BY <1>a, <1>b DEF IsRun
  <2> QED
    BY <2>1 DEF InitialSchema, UsersColumns, SchedulesColumns
<1>0. IsView(r[0].view) /\ r[0].accepted /\ \A o \in Object : r[0].view[o] = {}
  BY <1>c DEF Untouched, Blank, IsView
<1>d. "users" \in Object /\ "schedules" \in Object /\ "shifts" \in Object
  BY DEF Object, Table
<1>e. /\ Lacks(UsersColumns, "ix_users_email") /\ Lacks(UsersColumns, "ix_users_id")
      /\ Lacks(SchedulesColumns, "ix_schedules_id")
      /\ Lacks(SchedulesColumns, "ix_schedules_week_start")
      /\ Lacks(LegacyShift, "ix_shifts_id") /\ Lacks(LegacyShift, "ix_shifts_schedule_id")
      /\ Lacks(LegacyShift, "ix_shifts_user_id")
      /\ UsersColumns # {} /\ SchedulesColumns # {} /\ LegacyShift # {}
  BY FirstContents DEF UserColumns, LegacyColumns
<1>1. Puts(r[0], r[1], "users", UsersColumns)
  BY <1>0, <1>c, <1>d, FirstContents, Creating
<1>2. Puts(r[1], r[2], "users", Indexed(UsersColumns, "ix_users_email"))
  BY <1>c, <1>d, <1>e, <1>1, Indexing, IndexedParts DEF Puts, Makes
<1>3. Puts(r[2], r[3], "users", Indexed(Indexed(UsersColumns, "ix_users_email"), "ix_users_id"))
  BY <1>c, <1>d, <1>e, <1>2, Indexing, IndexedParts DEF Puts, Makes
<1>4. Puts(r[3], r[4], "schedules", SchedulesColumns)
  <2>1. IsView(r[3].view) /\ r[3].view["schedules"] = {} /\ r[3].view["users"] # {}
    BY <1>0, <1>1, <1>2, <1>3, <1>d, IndexedParts DEF Puts, Makes
  <2> QED
    BY <1>c, <1>d, <2>1, FirstContents, Creating
<1>5. Puts(r[4], r[5], "schedules", Indexed(SchedulesColumns, "ix_schedules_id"))
  BY <1>c, <1>d, <1>e, <1>4, Indexing, IndexedParts DEF Puts, Makes
<1>6. Puts(r[5], r[6], "schedules", Indexed(Indexed(SchedulesColumns, "ix_schedules_id"),
                                            "ix_schedules_week_start"))
  BY <1>c, <1>d, <1>e, <1>5, Indexing, IndexedParts DEF Puts, Makes
<1>7. Puts(r[6], r[7], "shifts", LegacyShift)
  <2>1. IsView(r[6].view) /\ r[6].view["shifts"] = {} /\ r[6].view["users"] # {}
        /\ r[6].view["schedules"] # {}
    BY <1>0, <1>1, <1>2, <1>3, <1>4, <1>5, <1>6, <1>d, IndexedParts DEF Puts, Makes
  <2> QED
    BY <1>c, <1>d, <2>1, FirstContents, Creating
<1>8. Puts(r[7], r[8], "shifts", Indexed(LegacyShift, "ix_shifts_id"))
  BY <1>c, <1>d, <1>e, <1>7, Indexing, IndexedParts DEF Puts, Makes
<1>9. Puts(r[8], r[9], "shifts", Indexed(Indexed(LegacyShift, "ix_shifts_id"),
                                         "ix_shifts_schedule_id"))
  BY <1>c, <1>d, <1>e, <1>8, Indexing, IndexedParts DEF Puts, Makes
<1>10. Puts(r[9], r[10], "shifts", Indexed(Indexed(Indexed(LegacyShift, "ix_shifts_id"),
                                                   "ix_shifts_schedule_id"),
                                           "ix_shifts_user_id"))
  BY <1>c, <1>d, <1>e, <1>9, Indexing, IndexedParts DEF Puts, Makes
<1> QED
  BY <1>b, <1>0, <1>d, <1>1, <1>2, <1>3, <1>4, <1>5, <1>6, <1>7, <1>8, <1>9, <1>10
  DEF Puts, Makes, Users1, Schedules1, Shifts1

-----------------------------------------------------------------------------
(* The second script *)

Plain == {}
CreatedBy == {Says("created_by", "users")}
Default(v) == {Says("token_version", v)}
Length(n) == {Says("hashed_password", n)}

\* The shifts and the users after the second script.
SecuredShifts(parts) ==
    Widened(Widened(Widened(Widened(Widened(parts, "is_deleted", Plain), "deleted_at", Plain),
                            "department_id", Plain), "headcount", Plain),
            "created_by", CreatedBy)
WithToken ==
    Widened(Widened(Widened(Users1, "token_version", Default("default_0")),
                    "is_deleted", Plain), "deleted_at", Plain)
Users2 == Widened(Narrowed(WithToken, "hashed_password"), "hashed_password", Length("72"))

SecurityColumns == {"is_deleted", "deleted_at", "department_id", "headcount", "created_by"}

\* A column that says nothing more.
LEMMA AddingPlain ==
    ASSUME NEW before, IsView(before.view), NEW t \in Object, NEW c,
           before.view[t] # {}, Lacks(before.view[t], c)
    PROVE  Puts(before, Tried(before, AddColumn(t, c, Plain)), t,
                Widened(before.view[t], c, Plain))
<1>1. Grounded(Plain, before.view) /\ \A p \in Plain : p[1] = c
  BY DEF Plain, Grounded
<1> QED
  BY <1>1, Adding

LEMMA PlainParts ==
    ASSUME NEW parts, NEW c
    PROVE  /\ Widened(parts, c, Plain) # {}
           /\ \A d : Lacks(Widened(parts, c, Plain), d) <=> Lacks(parts, d) /\ d # c
           /\ Lacks(parts, c) => Narrowed(Widened(parts, c, Plain), c) = parts
<1>1. \A p \in Plain : p[1] = c
  BY DEF Plain
<1> QED
  BY <1>1, WidenedParts

\* What the second script says of its columns.
LEMMA SecurityContents ==
    /\ \A p \in Default("default_0") : p[1] = "token_version"
    /\ \A p \in Default("default_1") : p[1] = "token_version"
    /\ \A p \in Length("72") : p[1] = "hashed_password"
    /\ \A p \in Length("128") : p[1] = "hashed_password"
    /\ \A p \in CreatedBy : p[1] = "created_by"
    /\ \A view : /\ Grounded(Default("default_0"), view) /\ Grounded(Default("default_1"), view)
                 /\ Grounded(Length("72"), view) /\ Grounded(Length("128"), view)
    /\ \A view : view["users"] # {} => Grounded(CreatedBy, view)
BY DEF Default, Length, CreatedBy, Says, Grounded, Object, Table, EnumType

\* The users lack what is added, and have what is altered.
LEMMA UsersContents ==
    /\ Lacks(Users1, "token_version") /\ Lacks(Users1, "is_deleted")
    /\ Lacks(Users1, "deleted_at") /\ Users1 # {}
    /\ Column("hashed_password") \in WithToken /\ Length("128") \subseteq WithToken
    /\ \A p \in WithToken : p[1] = "hashed_password" =>
          p \in {Column("hashed_password")} \cup Length("128")
<1>1. /\ Lacks(Users1, "token_version") /\ Lacks(Users1, "is_deleted")
      /\ Lacks(Users1, "deleted_at") /\ Users1 # {}
  BY FirstContents, IndexedParts DEF Users1, UserColumns
<1>2. Column("hashed_password") \in WithToken /\ Length("128") \subseteq WithToken
  BY DEF WithToken, Length, Users1, Widened, Indexed, UsersColumns, Columns, UserColumns
<1>3. \A p \in WithToken : p[1] = "hashed_password" =>
          p \in {Column("hashed_password")} \cup Length("128")
  <2>1. \A p \in Users1 : p[1] = "hashed_password" =>
          p \in {Column("hashed_password")} \cup Length("128")
    BY DEF Length, Users1, Indexed, UsersColumns, Columns, UserColumns, Column, Says, Index
  <2>2. \A p \in WithToken : p \in Users1 \/ p[1] # "hashed_password"
    BY DEF WithToken, Default, Widened, Plain, Column, Says
  <2> QED
    BY <2>1, <2>2
<1> QED
  BY <1>1, <1>2, <1>3

\* The second script changes users and shifts, and is accepted.
LEMMA SecondScript ==
    ASSUME NEW base, IsView(base), base["users"] = Users1, base["shifts"] # {},
           \A c \in SecurityColumns : Lacks(base["shifts"], c)
    PROVE  LET result == Result(base, Up[2])
           IN  /\ IsView(result.view)
               /\ result.view["users"] = Users2
               /\ result.view["shifts"] = SecuredShifts(base["shifts"])
               /\ \A o \in Object \ {"users", "shifts"} : result.view[o] = base[o]
               /\ result.accepted
<1> DEFINE r == RunAlone(base, Up[2])
           H == base["shifts"]
<1>a. Up[2] = AddSecurityColumns /\ Len(AddSecurityColumns) = 9
  BY DEF Up, AddSecurityColumns
<1>b. IsRun(r, base, AddSecurityColumns) /\ Result(base, Up[2]) = r[9]
  BY <1>a, RunEquation DEF Result
<1> HIDE DEF r, H
<1>c. /\ r[0] = Untouched(base)
      /\ r[1] = Tried(r[0], AddColumn("users", "token_version", Default("default_0")))
      /\ r[2] = Tried(r[1], AddColumn("users", "is_deleted", Plain))
      /\ r[3] = Tried(r[2], AddColumn("users", "deleted_at", Plain))
      /\ r[4] = Tried(r[3], AlterColumn("users", "hashed_password", Length("72")))
      /\ r[5] = Tried(r[4], AddColumn("shifts", "is_deleted", Plain))
      /\ r[6] = Tried(r[5], AddColumn("shifts", "deleted_at", Plain))
      /\ r[7] = Tried(r[6], AddColumn("shifts", "department_id", Plain))
      /\ r[8] = Tried(r[7], AddColumn("shifts", "headcount", Plain))
      /\ r[9] = Tried(r[8], AddColumn("shifts", "created_by", CreatedBy))
  <2>1. /\ r[0] = Untouched(base) /\ r[1] = Tried(r[0], AddSecurityColumns[1])
        /\ r[2] = Tried(r[1], AddSecurityColumns[2])
        /\ r[3] = Tried(r[2], AddSecurityColumns[3])
        /\ r[4] = Tried(r[3], AddSecurityColumns[4])
        /\ r[5] = Tried(r[4], AddSecurityColumns[5])
        /\ r[6] = Tried(r[5], AddSecurityColumns[6])
        /\ r[7] = Tried(r[6], AddSecurityColumns[7])
        /\ r[8] = Tried(r[7], AddSecurityColumns[8])
        /\ r[9] = Tried(r[8], AddSecurityColumns[9])
    BY <1>a, <1>b DEF IsRun
  <2> QED
    BY <2>1 DEF AddSecurityColumns, Default, Length, Plain, CreatedBy
<1>0. IsView(r[0].view) /\ r[0].accepted /\ r[0].view = base
  <2>1. r[0] = Untouched(base)
    BY <1>c
  <2>2. r[0].accepted
    BY <2>1 DEF Untouched
  <2>3. r[0].view = base
    BY <2>1 DEF Untouched
  <2> QED
    BY <2>2, <2>3
<1>d. "users" \in Object /\ "shifts" \in Object
  BY DEF Object, Table
<1> DEFINE U1 == Widened(Users1, "token_version", Default("default_0"))
           U2 == Widened(U1, "is_deleted", Plain)
<1>1. Puts(r[0], r[1], "users", U1)
  BY <1>0, <1>c, <1>d, UsersContents, SecurityContents, Adding
<1>e. U1 # {} /\ Lacks(U1, "is_deleted") /\ Lacks(U1, "deleted_at")
  BY UsersContents, SecurityContents, WidenedParts
<1> HIDE DEF U1
<1>2. Puts(r[1], r[2], "users", U2)
  BY <1>1, <1>c, <1>d, <1>e, AddingPlain DEF Puts, Makes
<1>f. U2 # {} /\ Lacks(U2, "deleted_at")
  BY <1>e, PlainParts
<1>g. WithToken = Widened(U2, "deleted_at", Plain)
  BY DEF WithToken, U1
<1> HIDE DEF U2
<1>3. Puts(r[2], r[3], "users", WithToken)
  BY <1>2, <1>c, <1>d, <1>f, <1>g, AddingPlain DEF Puts, Makes
<1>4. Puts(r[3], r[4], "users", Users2)
  BY <1>3, <1>c, <1>d, UsersContents, SecurityContents, Altering DEF Puts, Makes, Users2
<1>h. r[4].view["shifts"] = H /\ r[4].view["users"] = Users2
  BY <1>0, <1>1, <1>2, <1>3, <1>4, <1>d DEF Puts, Makes, H
<1>i. H # {} /\ Lacks(H, "is_deleted") /\ Lacks(H, "deleted_at") /\ Lacks(H, "department_id")
      /\ Lacks(H, "headcount") /\ Lacks(H, "created_by")
  BY DEF H, SecurityColumns
<1> DEFINE H1 == Widened(H, "is_deleted", Plain)
           H2 == Widened(H1, "deleted_at", Plain)
           H3 == Widened(H2, "department_id", Plain)
           H4 == Widened(H3, "headcount", Plain)
<1>5. Puts(r[4], r[5], "shifts", H1)
  BY <1>4, <1>h, <1>c, <1>d, <1>i, AddingPlain DEF Puts, Makes
<1>j. H1 # {} /\ Lacks(H1, "deleted_at") /\ Lacks(H1, "department_id")
      /\ Lacks(H1, "headcount") /\ Lacks(H1, "created_by")
  BY <1>i, PlainParts
<1> HIDE DEF H1
<1>6. Puts(r[5], r[6], "shifts", H2)
  BY <1>5, <1>c, <1>d, <1>j, AddingPlain DEF Puts, Makes
<1>k. H2 # {} /\ Lacks(H2, "department_id") /\ Lacks(H2, "headcount") /\ Lacks(H2, "created_by")
  BY <1>j, PlainParts
<1> HIDE DEF H2
<1>7. Puts(r[6], r[7], "shifts", H3)
  BY <1>6, <1>c, <1>d, <1>k, AddingPlain DEF Puts, Makes
<1>l. H3 # {} /\ Lacks(H3, "headcount") /\ Lacks(H3, "created_by")
  BY <1>k, PlainParts
<1> HIDE DEF H3
<1>8. Puts(r[7], r[8], "shifts", H4)
  BY <1>7, <1>c, <1>d, <1>l, AddingPlain DEF Puts, Makes
<1>m. H4 # {} /\ Lacks(H4, "created_by")
  BY <1>l, PlainParts
<1>n. SecuredShifts(H) = Widened(H4, "created_by", CreatedBy)
  BY DEF SecuredShifts, H3, H2, H1
<1> HIDE DEF H4
<1>o. r[8].view["users"] # {}
  <2>1. Column("hashed_password") \in Users2
    BY DEF Users2, Widened
  <2> QED
    BY <1>d, <1>h, <1>5, <1>6, <1>7, <1>8, <2>1 DEF Puts, Makes
<1>9. Puts(r[8], r[9], "shifts", SecuredShifts(H))
  BY <1>8, <1>c, <1>d, <1>m, <1>n, <1>o, SecurityContents, Adding DEF Puts, Makes
<1> QED
  BY <1>b, <1>0, <1>d, <1>1, <1>2, <1>3, <1>4, <1>5, <1>6, <1>7, <1>8, <1>9 DEF Puts, Makes, H

\* A column that is given back what was said of it.
LEMMA Restored ==
    ASSUME NEW parts, NEW c, NEW says, Column(c) \in parts, says \subseteq parts,
           \A p \in says : p[1] = c,
           \A p \in parts : p[1] = c => p \in {Column(c)} \cup says
    PROVE  Widened(Narrowed(parts, c), c, says) = parts
BY DEF Widened, Narrowed

\* A column that is altered and then dropped.
LEMMA NarrowedTwice ==
    ASSUME NEW parts, NEW c, NEW says, \A p \in says : p[1] = c
    PROVE  Narrowed(Widened(Narrowed(parts, c), c, says), c) = Narrowed(parts, c)
<1>1. Column(c)[1] = c
  BY DEF Column
<1> QED
  BY <1>1 DEF Widened, Narrowed

\* Going down again gives both back.
LEMMA SecondScriptUndone ==
    ASSUME NEW base, IsView(base), base["users"] = Users2, NEW parts,
           base["shifts"] = SecuredShifts(parts), \A c \in SecurityColumns : Lacks(parts, c)
    PROVE  LET result == Result(base, Down[2])
           IN  /\ IsView(result.view)
               /\ result.view["users"] = Users1
               /\ result.view["shifts"] = parts
               /\ \A o \in Object \ {"users", "shifts"} : result.view[o] = base[o]
<1> DEFINE r == RunAlone(base, Down[2])
<1>a. Down[2] = DropSecurityColumns /\ Len(DropSecurityColumns) = 9
  BY DEF Down, DropSecurityColumns
<1>b. IsRun(r, base, DropSecurityColumns) /\ Result(base, Down[2]) = r[9]
  BY <1>a, RunEquation DEF Result
<1> HIDE DEF r
<1>c. /\ r[0] = Untouched(base)
      /\ r[1] = Tried(r[0], DropColumn("shifts", "created_by"))
      /\ r[2] = Tried(r[1], DropColumn("shifts", "headcount"))
      /\ r[3] = Tried(r[2], DropColumn("shifts", "department_id"))
      /\ r[4] = Tried(r[3], DropColumn("shifts", "deleted_at"))
      /\ r[5] = Tried(r[4], DropColumn("shifts", "is_deleted"))
      /\ r[6] = Tried(r[5], AlterColumn("users", "hashed_password", Length("128")))
      /\ r[7] = Tried(r[6], DropColumn("users", "deleted_at"))
      /\ r[8] = Tried(r[7], DropColumn("users", "is_deleted"))
      /\ r[9] = Tried(r[8], DropColumn("users", "token_version"))
  <2>1. /\ r[0] = Untouched(base) /\ r[1] = Tried(r[0], DropSecurityColumns[1])
        /\ r[2] = Tried(r[1], DropSecurityColumns[2])
        /\ r[3] = Tried(r[2], DropSecurityColumns[3])
        /\ r[4] = Tried(r[3], DropSecurityColumns[4])
        /\ r[5] = Tried(r[4], DropSecurityColumns[5])
        /\ r[6] = Tried(r[5], DropSecurityColumns[6])
        /\ r[7] = Tried(r[6], DropSecurityColumns[7])
        /\ r[8] = Tried(r[7], DropSecurityColumns[8])
        /\ r[9] = Tried(r[8], DropSecurityColumns[9])
    BY <1>a, <1>b DEF IsRun
  <2> QED
    BY <2>1 DEF DropSecurityColumns, Length
<1>0. IsView(r[0].view) /\ r[0].view = base
  BY <1>c DEF Untouched
<1>d. "users" \in Object /\ "shifts" \in Object
  BY DEF Object, Table
<1> DEFINE H1 == Widened(parts, "is_deleted", Plain)
           H2 == Widened(H1, "deleted_at", Plain)
           H3 == Widened(H2, "department_id", Plain)
           H4 == Widened(H3, "headcount", Plain)
<1>e. /\ Lacks(parts, "is_deleted") /\ Lacks(parts, "deleted_at")
      /\ Lacks(parts, "department_id") /\ Lacks(parts, "headcount")
      /\ Lacks(parts, "created_by")
  BY DEF SecurityColumns
<1>f. base["shifts"] = Widened(H4, "created_by", CreatedBy)
  BY DEF SecuredShifts
<1>g. /\ Narrowed(H1, "is_deleted") = parts /\ Lacks(H1, "deleted_at")
      /\ Lacks(H1, "department_id") /\ Lacks(H1, "headcount") /\ Lacks(H1, "created_by")
  BY <1>e, PlainParts
<1> HIDE DEF H1
<1>h. /\ Narrowed(H2, "deleted_at") = H1 /\ Lacks(H2, "department_id")
      /\ Lacks(H2, "headcount") /\ Lacks(H2, "created_by")
  BY <1>g, PlainParts
<1> HIDE DEF H2
<1>i. Narrowed(H3, "department_id") = H2 /\ Lacks(H3, "headcount") /\ Lacks(H3, "created_by")
  BY <1>h, PlainParts
<1> HIDE DEF H3
<1>j. Narrowed(H4, "headcount") = H3 /\ Lacks(H4, "created_by")
  BY <1>i, PlainParts
<1> HIDE DEF H4
<1>k. Narrowed(base["shifts"], "created_by") = H4
  BY <1>f, <1>j, SecurityContents, WidenedParts
<1>1. Makes(r[0], r[1], "shifts", H4)
  BY <1>0, <1>c, <1>d, <1>k, Narrowing
<1>2. Makes(r[1], r[2], "shifts", H3)
  BY <1>1, <1>c, <1>d, <1>j, NarrowingNext
<1>3. Makes(r[2], r[3], "shifts", H2)
  BY <1>2, <1>c, <1>d, <1>i, NarrowingNext
<1>4. Makes(r[3], r[4], "shifts", H1)
  BY <1>3, <1>c, <1>d, <1>h, NarrowingNext
<1>5. Makes(r[4], r[5], "shifts", parts)
  BY <1>4, <1>c, <1>d, <1>g, NarrowingNext
<1>l. r[5].view["users"] = Users2
  BY <1>0, <1>1, <1>2, <1>3, <1>4, <1>5, <1>d DEF Makes
<1>m. Widened(Narrowed(Users2, "hashed_password"), "hashed_password", Length("128")) = WithToken
  BY UsersContents, SecurityContents, NarrowedTwice, Restored DEF Users2
<1> DEFINE U1 == Widened(Users1, "token_version", Default("default_0"))
           U2 == Widened(U1, "is_deleted", Plain)
<1>n. WithToken = Widened(U2, "deleted_at", Plain)
  BY DEF WithToken
<1>o. /\ Narrowed(U1, "token_version") = Users1 /\ Lacks(U1, "is_deleted")
      /\ Lacks(U1, "deleted_at")
  BY UsersContents, SecurityContents, WidenedParts
<1> HIDE DEF U1
<1>p. Narrowed(U2, "is_deleted") = U1 /\ Lacks(U2, "deleted_at")
  BY <1>o, PlainParts
<1> HIDE DEF U2
<1>q. Narrowed(WithToken, "deleted_at") = U2
  BY <1>n, <1>p, PlainParts
<1>6. Makes(r[5], r[6], "users", WithToken)
  BY <1>5, <1>c, <1>d, <1>l, <1>m, Made, Restating
<1>7. Makes(r[6], r[7], "users", U2)
  BY <1>6, <1>c, <1>d, <1>q, NarrowingNext
<1>8. Makes(r[7], r[8], "users", U1)
  BY <1>7, <1>c, <1>d, <1>p, NarrowingNext
<1>9. Makes(r[8], r[9], "users", Users1)
  BY <1>8, <1>c, <1>d, <1>o, NarrowingNext
<1> QED
  BY <1>b, <1>0, <1>d, <1>1, <1>2, <1>3, <1>4, <1>5, <1>6, <1>7, <1>8, <1>9 DEF Makes

-----------------------------------------------------------------------------
(* The third script *)

Users3 == Widened(Narrowed(Users2, "token_version"), "token_version", Default("default_1"))

\* What the users say of token_version.
LEMMA TokenContents ==
    /\ Column("token_version") \in Users2 /\ Default("default_0") \subseteq Users2
    /\ \A p \in Users2 : p[1] = "token_version" =>
          p \in {Column("token_version")} \cup Default("default_0")
    /\ Column("token_version") \in Users3
<1>1. Column("token_version") \in Users2 /\ Default("default_0") \subseteq Users2
  BY DEF Users2, WithToken, Widened, Narrowed, Default, Column, Says
<1>2. \A p \in Users2 : p[1] = "token_version" =>
          p \in {Column("token_version")} \cup Default("default_0")
  <2>1. \A p \in Users1 : p[1] # "token_version"
    BY UsersContents DEF Lacks
  <2>2. \A p \in WithToken :
           p \in Users1 \cup {Column("token_version")} \cup Default("default_0")
                                       \/ p[1] # "token_version"
    BY DEF WithToken, Widened, Column, Plain
  <2>3. \A p \in Users2 : p \in WithToken \/ p[1] # "token_version"
    BY DEF Users2, Widened, Narrowed, Length, Column, Says
  <2> QED
    BY <2>1, <2>2, <2>3
<1>3. Column("token_version") \in Users3
  BY DEF Users3, Widened
<1> QED
  BY <1>1, <1>2, <1>3

\* The third script restates the default, and is accepted.
LEMMA ThirdScript ==
    ASSUME NEW base, IsView(base), base["users"] = Users2
    PROVE  LET result == Result(base, Up[3])
           IN  /\ IsView(result.view)
               /\ result.view["users"] = Users3
               /\ \A o \in Object \ {"users"} : result.view[o] = base[o]
               /\ result.accepted
<1> DEFINE r == RunAlone(base, Up[3])
<1>a. Up[3] = FixVersionDefault /\ Len(FixVersionDefault) = 1
  BY DEF Up, FixVersionDefault
<1>b. IsRun(r, base, FixVersionDefault) /\ Result(base, Up[3]) = r[1]
  BY <1>a, RunEquation DEF Result
<1> HIDE DEF r
<1>c. r[0] = Untouched(base)
      /\ r[1] = Tried(r[0], AlterColumn("users", "token_version", Default("default_1")))
  <2>1. r[0] = Untouched(base) /\ r[1] = Tried(r[0], FixVersionDefault[1])
    BY <1>a, <1>b DEF IsRun
  <2> QED
    BY <2>1 DEF FixVersionDefault, Default
<1>0. IsView(r[0].view) /\ r[0].accepted /\ r[0].view = base
  BY <1>c DEF Untouched
<1>d. "users" \in Object
  BY DEF Object, Table
<1>1. Puts(r[0], r[1], "users", Users3)
  BY <1>0, <1>c, <1>d, TokenContents, SecurityContents, Altering DEF Users3
<1> QED
  BY <1>b, <1>0, <1>1 DEF Puts, Makes

\* Going down again gives the default back.
LEMMA ThirdScriptUndone ==
    ASSUME NEW base, IsView(base), base["users"] = Users3
    PROVE  LET result == Result(base, Down[3])
           IN  /\ IsView(result.view)
               /\ result.view["users"] = Users2
               /\ \A o \in Object \ {"users"} : result.view[o] = base[o]
<1> DEFINE r == RunAlone(base, Down[3])
<1>a. Down[3] = RestoreVersionDefault /\ Len(RestoreVersionDefault) = 1
  BY DEF Down, RestoreVersionDefault
<1>b. IsRun(r, base, RestoreVersionDefault) /\ Result(base, Down[3]) = r[1]
  BY <1>a, RunEquation DEF Result
<1> HIDE DEF r
<1>c. r[0] = Untouched(base)
      /\ r[1] = Tried(r[0], AlterColumn("users", "token_version", Default("default_0")))
  <2>1. r[0] = Untouched(base) /\ r[1] = Tried(r[0], RestoreVersionDefault[1])
    BY <1>a, <1>b DEF IsRun
  <2> QED
    BY <2>1 DEF RestoreVersionDefault, Default
<1>0. IsView(r[0].view) /\ r[0].view = base
  BY <1>c DEF Untouched
<1>d. "users" \in Object
  BY DEF Object, Table
<1>e. Widened(Narrowed(Users3, "token_version"), "token_version", Default("default_0")) = Users2
  BY TokenContents, SecurityContents, NarrowedTwice, Restored DEF Users3
<1>1. Makes(r[0], r[1], "users", Users2)
  BY <1>0, <1>c, <1>d, <1>e, Restating
<1> QED
  BY <1>b, <1>0, <1>1 DEF Makes

-----------------------------------------------------------------------------
(* The fourth script, section by section *)

\* What a section leaves alone, and that it is accepted.
Keeps(base, result, D) ==
    /\ IsView(result.view)
    /\ \A o \in Object \ D : result.view[o] = base[o]
    /\ result.accepted

\* Columns that refer to others.
LEMMA ReferenceParts ==
    ASSUME NEW pairs
    PROVE  /\ \A i : Lacks(pairs, i) => Lacks(References(pairs), i)
           /\ \A view : Grounded(pairs, view) => Grounded(References(pairs), view)
           /\ pairs \subseteq References(pairs)
<1>1. \A p \in References(pairs) :
         p \in pairs \/ (p[2] \notin Object /\ \E q \in pairs : p[1] = q[1])
  BY DEF References, Columns, Column, NamesIn, Object, Table, EnumType
<1>2. pairs \subseteq References(pairs)
  BY DEF References
<1>3. \A i : Lacks(pairs, i) => Lacks(References(pairs), i)
  BY <1>1 DEF Lacks
<1>4. \A view : Grounded(pairs, view) => Grounded(References(pairs), view)
  BY <1>1 DEF Grounded
<1> QED
  BY <1>2, <1>3, <1>4

\* A type.
LEMMA CreatingType ==
    ASSUME NEW before, IsView(before.view), NEW t \in Object, before.view[t] = {}
    PROVE  Puts(before, Tried(before, CreateType(t)), t, {<<t, "type">>})
<1> DEFINE parts == {<<t, "type">>}
<1>1. Grounded(parts, before.view)
  BY DEF Grounded, Object, Table, EnumType
<1>2. CreateType(t) = CreateTable(t, parts)
  BY DEF CreateType, CreateTable
<1> HIDE DEF parts
<1>3. Puts(before, Tried(before, CreateType(t)), t, parts)
  BY <1>1, <1>2, Creating
<1> QED
  BY <1>3 DEF parts

\* The section that makes staff_assignments.
AssignmentPairs == {<<"shift_id", "shifts">>, <<"staff_id", "users">>,
                    <<"assigned_by", "users">>}
AssignmentTable == Indexed(Indexed(References(AssignmentPairs),
                                   "ix_staff_assignments_shift_id"),
                           "ix_staff_assignments_staff_id")

LEMMA AssignmentContents ==
    /\ Lacks(AssignmentPairs, "ix_staff_assignments_shift_id")
    /\ Lacks(AssignmentPairs, "ix_staff_assignments_staff_id")
    /\ \A view : view["users"] # {} /\ view["shifts"] # {} => Grounded(AssignmentPairs, view)
    /\ <<"shift_id", "shifts">> \in AssignmentPairs
BY DEF AssignmentPairs, Lacks, Grounded

LEMMA AssignmentSection ==
    ASSUME NEW base, IsView(base), base["users"] # {}, base["shifts"] # {},
           base["staff_assignments"] = {}
    PROVE  LET result == Result(base, CreateAssignments)
           IN  /\ Keeps(base, result, {"staff_assignments"})
               /\ result.view["staff_assignments"] = AssignmentTable
<1> DEFINE r == RunAlone(base, CreateAssignments)
<1>a. Len(CreateAssignments) = 3
  BY DEF CreateAssignments
<1>b. IsRun(r, base, CreateAssignments) /\ Result(base, CreateAssignments) = r[3]
  BY <1>a, RunEquation DEF Result
<1> HIDE DEF r
<1>c. /\ r[0] = Untouched(base)
      /\ r[1] = Tried(r[0], CreateTable("staff_assignments", References(AssignmentPairs)))
      /\ r[2] = Tried(r[1], CreateIndex("ix_staff_assignments_shift_id", "staff_assignments"))
      /\ r[3] = Tried(r[2], CreateIndex("ix_staff_assignments_staff_id", "staff_assignments"))
  <2>1. r[0] = Untouched(base) /\ r[1] = Tried(r[0], CreateAssignments[1])
        /\ r[2] = Tried(r[1], CreateAssignments[2])
        /\ r[3] = Tried(r[2], CreateAssignments[3])
    BY <1>a, <1>b DEF IsRun
  <2> QED
    BY <2>1 DEF CreateAssignments, AssignmentPairs
<1>0. IsView(r[0].view) /\ r[0].accepted /\ r[0].view = base
  BY <1>c DEF Untouched
<1>d. "staff_assignments" \in Object /\ "users" \in Object /\ "shifts" \in Object
  BY DEF Object, Table, EnumType
<1>e. /\ Lacks(References(AssignmentPairs), "ix_staff_assignments_shift_id")
      /\ Lacks(References(AssignmentPairs), "ix_staff_assignments_staff_id")
      /\ References(AssignmentPairs) # {}
  BY AssignmentContents, ReferenceParts
<1>1. Puts(r[0], r[1], "staff_assignments", References(AssignmentPairs))
  <2>1. /\ IsView(r[0].view) /\ r[0].view["staff_assignments"] = {}
        /\ r[0].view["users"] # {} /\ r[0].view["shifts"] # {}
    BY <1>0, <1>d DEF Puts, Makes
  <2>2. Grounded(References(AssignmentPairs), r[0].view)
    BY <2>1, AssignmentContents, ReferenceParts
  <2> QED
    BY <1>c, <1>d, <2>1, <2>2, Creating
<1>2. Puts(r[1], r[2], "staff_assignments",
           Indexed(References(AssignmentPairs), "ix_staff_assignments_shift_id"))
  BY <1>1, <1>c, <1>d, <1>e, IndexedParts, Indexing DEF Puts, Makes
<1>3. Puts(r[2], r[3], "staff_assignments",
           Indexed(Indexed(References(AssignmentPairs), "ix_staff_assignments_shift_id"),
                   "ix_staff_assignments_staff_id"))
  BY <1>2, <1>c, <1>d, <1>e, IndexedParts, Indexing DEF Puts, Makes
<1> QED
  BY <1>b, <1>d, <1>0, <1>1, <1>2, <1>3 DEF Puts, Makes, Keeps, AssignmentTable

\* The section that makes audit_logs and its type.
AuditPairs == {<<"actor_id", "users">>, <<"action_type", "audit_action_type">>}
AuditTable == Indexed(Indexed(References(AuditPairs), "ix_audit_logs_actor_id"),
                      "ix_audit_logs_target_id")

LEMMA AuditContents ==
    /\ Lacks(AuditPairs, "ix_audit_logs_actor_id")
    /\ Lacks(AuditPairs, "ix_audit_logs_target_id")
    /\ \A view : view["users"] # {}
         /\ view["audit_action_type"] # {} => Grounded(AuditPairs, view)
    /\ <<"actor_id", "users">> \in AuditPairs
BY DEF AuditPairs, Lacks, Grounded

LEMMA AuditSection ==
    ASSUME NEW base, IsView(base), base["users"] # {},
           base["audit_logs"] = {}, base["audit_action_type"] = {}
    PROVE  LET result == Result(base, CreateAuditLogs)
           IN  /\ Keeps(base, result, {"audit_logs", "audit_action_type"})
               /\ result.view["audit_logs"] = AuditTable
               /\ result.view["audit_action_type"] = {<<"audit_action_type", "type">>}
<1> DEFINE r == RunAlone(base, CreateAuditLogs)
<1>a. Len(CreateAuditLogs) = 4
  BY DEF CreateAuditLogs
<1>b. IsRun(r, base, CreateAuditLogs) /\ Result(base, CreateAuditLogs) = r[4]
  BY <1>a, RunEquation DEF Result
<1> HIDE DEF r
<1>c. /\ r[0] = Untouched(base)
      /\ r[1] = Tried(r[0], CreateType("audit_action_type"))
      /\ r[2] = Tried(r[1], CreateTable("audit_logs", References(AuditPairs)))
      /\ r[3] = Tried(r[2], CreateIndex("ix_audit_logs_actor_id", "audit_logs"))
      /\ r[4] = Tried(r[3], CreateIndex("ix_audit_logs_target_id", "audit_logs"))
  <2>1. r[0] = Untouched(base) /\ r[1] = Tried(r[0], CreateAuditLogs[1])
        /\ r[2] = Tried(r[1], CreateAuditLogs[2])
        /\ r[3] = Tried(r[2], CreateAuditLogs[3])
        /\ r[4] = Tried(r[3], CreateAuditLogs[4])
    BY <1>a, <1>b DEF IsRun
  <2> QED
    BY <2>1 DEF CreateAuditLogs, AuditPairs
<1>0. IsView(r[0].view) /\ r[0].accepted /\ r[0].view = base
  BY <1>c DEF Untouched
<1>d. "audit_logs" \in Object /\ "audit_action_type" \in Object /\ "users" \in Object
  BY DEF Object, Table, EnumType
<1>e. /\ Lacks(References(AuditPairs), "ix_audit_logs_actor_id")
      /\ Lacks(References(AuditPairs), "ix_audit_logs_target_id")
      /\ References(AuditPairs) # {}
  BY AuditContents, ReferenceParts
<1>1. Puts(r[0], r[1], "audit_action_type", {<<"audit_action_type", "type">>})
  BY <1>0, <1>c, <1>d, CreatingType
<1>2. Puts(r[1], r[2], "audit_logs", References(AuditPairs))
  <2>1. /\ IsView(r[1].view) /\ r[1].view["audit_logs"] = {}
        /\ r[1].view["users"] # {} /\ r[1].view["audit_action_type"] # {}
    BY <1>0, <1>1, <1>d DEF Puts, Makes
  <2>2. Grounded(References(AuditPairs), r[1].view)
    BY <2>1, AuditContents, ReferenceParts
  <2> QED
    BY <1>c, <1>d, <2>1, <2>2, Creating
<1>3. Puts(r[2], r[3], "audit_logs", Indexed(References(AuditPairs), "ix_audit_logs_actor_id"))
  BY <1>2, <1>c, <1>d, <1>e, IndexedParts, Indexing DEF Puts, Makes
<1>4. Puts(r[3], r[4], "audit_logs",
           Indexed(Indexed(References(AuditPairs), "ix_audit_logs_actor_id"),
                   "ix_audit_logs_target_id"))
  BY <1>3, <1>c, <1>d, <1>e, IndexedParts, Indexing DEF Puts, Makes
<1> QED
  BY <1>b, <1>d, <1>0, <1>1, <1>2, <1>3, <1>4 DEF Puts, Makes, Keeps, AuditTable

\* The section that makes swap_requests and its type.
SwapPairs == {<<"requester_id", "users">>, <<"requester_shift_id", "shifts">>,
              <<"target_shift_id", "shifts">>, <<"status", "swap_status">>,
              <<"resolved_by", "users">>}
SwapTable == Indexed(Indexed(References(SwapPairs), "ix_swap_requests_requester_id"),
                     "ix_swap_requests_status")

LEMMA SwapContents ==
    /\ Lacks(SwapPairs, "ix_swap_requests_requester_id")
    /\ Lacks(SwapPairs, "ix_swap_requests_status")
    /\ \A view : view["users"] # {} /\ view["swap_status"] # {}
         /\ view["shifts"] # {} => Grounded(SwapPairs, view)
    /\ <<"requester_id", "users">> \in SwapPairs
BY DEF SwapPairs, Lacks, Grounded

LEMMA SwapSection ==
    ASSUME NEW base, IsView(base), base["users"] # {}, base["shifts"] # {},
           base["swap_requests"] = {}, base["swap_status"] = {}
    PROVE  LET result == Result(base, CreateSwapRequests)
           IN  /\ Keeps(base, result, {"swap_requests", "swap_status"})
               /\ result.view["swap_requests"] = SwapTable
               /\ result.view["swap_status"] = {<<"swap_status", "type">>}
<1> DEFINE r == RunAlone(base, CreateSwapRequests)
<1>a. Len(CreateSwapRequests) = 4
  BY DEF CreateSwapRequests
<1>b. IsRun(r, base, CreateSwapRequests) /\ Result(base, CreateSwapRequests) = r[4]
  BY <1>a, RunEquation DEF Result
<1> HIDE DEF r
<1>c. /\ r[0] = Untouched(base)
      /\ r[1] = Tried(r[0], CreateType("swap_status"))
      /\ r[2] = Tried(r[1], CreateTable("swap_requests", References(SwapPairs)))
      /\ r[3] = Tried(r[2], CreateIndex("ix_swap_requests_requester_id", "swap_requests"))
      /\ r[4] = Tried(r[3], CreateIndex("ix_swap_requests_status", "swap_requests"))
  <2>1. r[0] = Untouched(base) /\ r[1] = Tried(r[0], CreateSwapRequests[1])
        /\ r[2] = Tried(r[1], CreateSwapRequests[2])
        /\ r[3] = Tried(r[2], CreateSwapRequests[3])
        /\ r[4] = Tried(r[3], CreateSwapRequests[4])
    BY <1>a, <1>b DEF IsRun
  <2> QED
    BY <2>1 DEF CreateSwapRequests, SwapPairs
<1>0. IsView(r[0].view) /\ r[0].accepted /\ r[0].view = base
  BY <1>c DEF Untouched
<1>d. "swap_requests" \in Object /\ "swap_status" \in Object /\ "users" \in Object
      /\ "shifts" \in Object
  BY DEF Object, Table, EnumType
<1>e. /\ Lacks(References(SwapPairs), "ix_swap_requests_requester_id")
      /\ Lacks(References(SwapPairs), "ix_swap_requests_status")
      /\ References(SwapPairs) # {}
  BY SwapContents, ReferenceParts
<1>1. Puts(r[0], r[1], "swap_status", {<<"swap_status", "type">>})
  BY <1>0, <1>c, <1>d, CreatingType
<1>2. Puts(r[1], r[2], "swap_requests", References(SwapPairs))
  <2>1. /\ IsView(r[1].view) /\ r[1].view["swap_requests"] = {}
        /\ r[1].view["users"] # {} /\ r[1].view["shifts"] # {} /\ r[1].view["swap_status"] # {}
    BY <1>0, <1>1, <1>d DEF Puts, Makes
  <2>2. Grounded(References(SwapPairs), r[1].view)
    BY <2>1, SwapContents, ReferenceParts
  <2> QED
    BY <1>c, <1>d, <2>1, <2>2, Creating
<1>3. Puts(r[2], r[3], "swap_requests",
           Indexed(References(SwapPairs), "ix_swap_requests_requester_id"))
  BY <1>2, <1>c, <1>d, <1>e, IndexedParts, Indexing DEF Puts, Makes
<1>4. Puts(r[3], r[4], "swap_requests",
           Indexed(Indexed(References(SwapPairs), "ix_swap_requests_requester_id"),
                   "ix_swap_requests_status"))
  BY <1>3, <1>c, <1>d, <1>e, IndexedParts, Indexing DEF Puts, Makes
<1> QED
  BY <1>b, <1>d, <1>0, <1>1, <1>2, <1>3, <1>4 DEF Puts, Makes, Keeps, SwapTable

\* The section that makes staff_availability.
AvailabilityPairs == {<<"staff_id", "users">>}
AvailabilityTable == Indexed(References(AvailabilityPairs), "ix_staff_availability_staff_id")

LEMMA AvailabilityContents ==
    /\ Lacks(AvailabilityPairs, "ix_staff_availability_staff_id")
    /\ \A view : view["users"] # {} => Grounded(AvailabilityPairs, view)
    /\ <<"staff_id", "users">> \in AvailabilityPairs
BY DEF AvailabilityPairs, Lacks, Grounded

LEMMA AvailabilitySection ==
    ASSUME NEW base, IsView(base), base["users"] # {},
           base["staff_availability"] = {}
    PROVE  LET result == Result(base, CreateAvailability)
           IN  /\ Keeps(base, result, {"staff_availability"})
               /\ result.view["staff_availability"] = AvailabilityTable
<1> DEFINE r == RunAlone(base, CreateAvailability)
<1>a. Len(CreateAvailability) = 2
  BY DEF CreateAvailability
<1>b. IsRun(r, base, CreateAvailability) /\ Result(base, CreateAvailability) = r[2]
  BY <1>a, RunEquation DEF Result
<1> HIDE DEF r
<1>c. /\ r[0] = Untouched(base)
      /\ r[1] = Tried(r[0], CreateTable("staff_availability", References(AvailabilityPairs)))
      /\ r[2] = Tried(r[1], CreateIndex("ix_staff_availability_staff_id", "staff_availability"))
  <2>1. r[0] = Untouched(base) /\ r[1] = Tried(r[0], CreateAvailability[1])
        /\ r[2] = Tried(r[1], CreateAvailability[2])
    BY <1>a, <1>b DEF IsRun
  <2> QED
    BY <2>1 DEF CreateAvailability, AvailabilityPairs
<1>0. IsView(r[0].view) /\ r[0].accepted /\ r[0].view = base
  BY <1>c DEF Untouched
<1>d. "staff_availability" \in Object /\ "users" \in Object
  BY DEF Object, Table, EnumType
<1>e. /\ Lacks(References(AvailabilityPairs), "ix_staff_availability_staff_id")
      /\ References(AvailabilityPairs) # {}
  BY AvailabilityContents, ReferenceParts
<1>1. Puts(r[0], r[1], "staff_availability", References(AvailabilityPairs))
  <2>1. /\ IsView(r[0].view) /\ r[0].view["staff_availability"] = {}
        /\ r[0].view["users"] # {}
    BY <1>0, <1>d DEF Puts, Makes
  <2>2. Grounded(References(AvailabilityPairs), r[0].view)
    BY <2>1, AvailabilityContents, ReferenceParts
  <2> QED
    BY <1>c, <1>d, <2>1, <2>2, Creating
<1>2. Puts(r[1], r[2], "staff_availability",
           Indexed(References(AvailabilityPairs), "ix_staff_availability_staff_id"))
  BY <1>1, <1>c, <1>d, <1>e, IndexedParts, Indexing DEF Puts, Makes
<1> QED
  BY <1>b, <1>d, <1>0, <1>1, <1>2 DEF Puts, Makes, Keeps, AvailabilityTable

\* The section that makes attendance_records and its type.
AttendancePairs == {<<"staff_id", "users">>, <<"shift_id", "shifts">>,
                    <<"status", "attendance_status">>}
AttendanceTable == Indexed(Indexed(References(AttendancePairs),
                                   "ix_attendance_records_staff_id"),
                           "ix_attendance_records_shift_id")

LEMMA AttendanceContents ==
    /\ Lacks(AttendancePairs, "ix_attendance_records_staff_id")
    /\ Lacks(AttendancePairs, "ix_attendance_records_shift_id")
    /\ \A view : view["users"] # {} /\ view["shifts"] # {}
         /\ view["attendance_status"] # {} => Grounded(AttendancePairs, view)
    /\ <<"staff_id", "users">> \in AttendancePairs
BY DEF AttendancePairs, Lacks, Grounded

LEMMA AttendanceSection ==
    ASSUME NEW base, IsView(base), base["users"] # {}, base["shifts"] # {},
           base["attendance_records"] = {}, base["attendance_status"] = {}
    PROVE  LET result == Result(base, CreateAttendance)
           IN  /\ Keeps(base, result, {"attendance_records", "attendance_status"})
               /\ result.view["attendance_records"] = AttendanceTable
               /\ result.view["attendance_status"] = {<<"attendance_status", "type">>}
<1> DEFINE r == RunAlone(base, CreateAttendance)
<1>a. Len(CreateAttendance) = 4
  BY DEF CreateAttendance
<1>b. IsRun(r, base, CreateAttendance) /\ Result(base, CreateAttendance) = r[4]
  BY <1>a, RunEquation DEF Result
<1> HIDE DEF r
<1>c. /\ r[0] = Untouched(base)
      /\ r[1] = Tried(r[0], CreateType("attendance_status"))
      /\ r[2] = Tried(r[1], CreateTable("attendance_records", References(AttendancePairs)))
      /\ r[3] = Tried(r[2], CreateIndex("ix_attendance_records_staff_id", "attendance_records"))
      /\ r[4] = Tried(r[3], CreateIndex("ix_attendance_records_shift_id", "attendance_records"))
  <2>1. r[0] = Untouched(base) /\ r[1] = Tried(r[0], CreateAttendance[1])
        /\ r[2] = Tried(r[1], CreateAttendance[2])
        /\ r[3] = Tried(r[2], CreateAttendance[3])
        /\ r[4] = Tried(r[3], CreateAttendance[4])
    BY <1>a, <1>b DEF IsRun
  <2> QED
    BY <2>1 DEF CreateAttendance, AttendancePairs
<1>0. IsView(r[0].view) /\ r[0].accepted /\ r[0].view = base
  BY <1>c DEF Untouched
<1>d. "attendance_records" \in Object /\ "attendance_status" \in Object
      /\ "users" \in Object /\ "shifts" \in Object
  BY DEF Object, Table, EnumType
<1>e. /\ Lacks(References(AttendancePairs), "ix_attendance_records_staff_id")
      /\ Lacks(References(AttendancePairs), "ix_attendance_records_shift_id")
      /\ References(AttendancePairs) # {}
  BY AttendanceContents, ReferenceParts
<1>1. Puts(r[0], r[1], "attendance_status", {<<"attendance_status", "type">>})
  BY <1>0, <1>c, <1>d, CreatingType
<1>2. Puts(r[1], r[2], "attendance_records", References(AttendancePairs))
  <2>1. /\ IsView(r[1].view) /\ r[1].view["attendance_records"] = {}
        /\ r[1].view["users"] # {} /\ r[1].view["shifts"] # {}
        /\ r[1].view["attendance_status"] # {}
    BY <1>0, <1>1, <1>d DEF Puts, Makes
  <2>2. Grounded(References(AttendancePairs), r[1].view)
    BY <2>1, AttendanceContents, ReferenceParts
  <2> QED
    BY <1>c, <1>d, <2>1, <2>2, Creating
<1>3. Puts(r[2], r[3], "attendance_records",
           Indexed(References(AttendancePairs), "ix_attendance_records_staff_id"))
  BY <1>2, <1>c, <1>d, <1>e, IndexedParts, Indexing DEF Puts, Makes
<1>4. Puts(r[3], r[4], "attendance_records",
           Indexed(Indexed(References(AttendancePairs), "ix_attendance_records_staff_id"),
                   "ix_attendance_records_shift_id"))
  BY <1>3, <1>c, <1>d, <1>e, IndexedParts, Indexing DEF Puts, Makes
<1> QED
  BY <1>b, <1>d, <1>0, <1>1, <1>2, <1>3, <1>4 DEF Puts, Makes, Keeps, AttendanceTable

\* The section that replaces the shifts.
NewShift ==
    Columns({"id", "title", "start_time", "end_time", "department_id", "headcount",
             "is_deleted", "created_at", "updated_at"})
    \cup References({<<"created_by", "users">>})
ShiftsTable == Indexed(Indexed(NewShift, "ix_shifts_department_id"), "ix_shifts_is_deleted")

\* What the new shifts are made of.
LEMMA NewShiftContents ==
    /\ Lacks(NewShift, "ix_shifts_department_id") /\ Lacks(NewShift, "ix_shifts_is_deleted")
    /\ \A view : view["users"] # {} => Grounded(NewShift, view)
    /\ <<"created_by", "users">> \in NewShift /\ Column("headcount") \in NewShift
<1> DEFINE pairs == {<<"created_by", "users">>}
           C == Columns({"id", "title", "start_time", "end_time", "department_id", "headcount",
                         "is_deleted", "created_at", "updated_at"})
<1>1. NewShift = C \cup References(pairs)
  BY DEF NewShift
<1>2. /\ Lacks(C, "ix_shifts_department_id") /\ Lacks(C, "ix_shifts_is_deleted")
      /\ \A p \in C : p[2] \notin Object
      /\ Column("headcount") \in C
  BY DEF Lacks, Columns, Column, Object, Table, EnumType
<1>3. /\ Lacks(pairs, "ix_shifts_department_id") /\ Lacks(pairs, "ix_shifts_is_deleted")
      /\ \A view : view["users"] # {} => Grounded(pairs, view)
      /\ <<"created_by", "users">> \in pairs
  BY DEF Lacks, Grounded
<1> HIDE DEF C, pairs
<1>4. /\ Lacks(References(pairs), "ix_shifts_department_id")
      /\ Lacks(References(pairs), "ix_shifts_is_deleted")
      /\ \A view : view["users"] # {} => Grounded(References(pairs), view)
      /\ <<"created_by", "users">> \in References(pairs)
  BY <1>3, ReferenceParts
<1> QED
  BY <1>1, <1>2, <1>4 DEF Lacks, Grounded

\* Dropping the shifts and making them anew is accepted while nothing refers to them.
LEMMA RebuildSection ==
    ASSUME NEW base, IsView(base), base["users"] # {}, base["shifts"] # {},
           Unreferred(base, "shifts")
    PROVE  LET result == Result(base, RebuildShifts)
           IN  Keeps(base, result, {"shifts"}) /\ result.view["shifts"] = ShiftsTable
<1> DEFINE r == RunAlone(base, RebuildShifts)
<1>a. Len(RebuildShifts) = 4
  BY DEF RebuildShifts
<1>b. IsRun(r, base, RebuildShifts) /\ Result(base, RebuildShifts) = r[4]
  BY <1>a, RunEquation DEF Result
<1> HIDE DEF r
<1>c. /\ r[0] = Untouched(base)
      /\ r[1] = Tried(r[0], DropTable("shifts"))
      /\ r[2] = Tried(r[1], CreateTable("shifts", NewShift))
      /\ r[3] = Tried(r[2], CreateIndex("ix_shifts_department_id", "shifts"))
      /\ r[4] = Tried(r[3], CreateIndex("ix_shifts_is_deleted", "shifts"))
  <2>1. r[0] = Untouched(base) /\ r[1] = Tried(r[0], RebuildShifts[1])
        /\ r[2] = Tried(r[1], RebuildShifts[2])
        /\ r[3] = Tried(r[2], RebuildShifts[3])
        /\ r[4] = Tried(r[3], RebuildShifts[4])
    BY <1>a, <1>b DEF IsRun
  <2> QED
    BY <2>1 DEF RebuildShifts, NewShift
<1>0. IsView(r[0].view) /\ r[0].accepted /\ r[0].view = base
  BY <1>c DEF Untouched
<1>d. "shifts" \in Object /\ "users" \in Object
  BY DEF Object, Table, EnumType
<1>1. Puts(r[0], r[1], "shifts", {})
  BY <1>0, <1>c, <1>d, Dropping
<1>2. Puts(r[1], r[2], "shifts", NewShift)
  <2>1. IsView(r[1].view) /\ r[1].view["shifts"] = {} /\ r[1].view["users"] # {}
    BY <1>0, <1>1, <1>d DEF Puts, Makes
  <2> QED
    BY <1>c, <1>d, <2>1, NewShiftContents, Creating
<1>3. Puts(r[2], r[3], "shifts", Indexed(NewShift, "ix_shifts_department_id"))
  <2>1. NewShift # {}
    BY NewShiftContents
  <2> QED
    BY <1>2, <1>c, <1>d, <2>1, NewShiftContents, Indexing DEF Puts, Makes
<1>4. Puts(r[3], r[4], "shifts", ShiftsTable)
  BY <1>3, <1>c, <1>d, NewShiftContents, IndexedParts, Indexing DEF Puts, Makes, ShiftsTable
<1> QED
  BY <1>b, <1>d, <1>0, <1>1, <1>2, <1>3, <1>4 DEF Puts, Makes, Keeps

\* A section after those before it.
LEMMA NextSection ==
    ASSUME NEW base, NEW X, NEW s \in Seq(X), NEW t \in Seq(X),
           Result(base, s).accepted, Result(Result(base, s).view, t).accepted
    PROVE  /\ Result(base, s \o t).view = Result(Result(base, s).view, t).view
           /\ Result(base, s \o t).accepted
BY InTurn

\* The whole fourth script: all eleven objects are as written here, and it is accepted.
LEMMA FourthScript ==
    ASSUME NEW base, IsView(base), base["users"] # {}, base["shifts"] # {},
           Unreferred(base, "shifts"),
           \A o \in Object \ {"users", "schedules", "shifts"} : base[o] = {}
    PROVE  LET result == Result(base, Up[4])
           IN  /\ IsView(result.view) /\ result.accepted
               /\ result.view["users"] = base["users"]
               /\ result.view["schedules"] = base["schedules"]
               /\ result.view["shifts"] = ShiftsTable
               /\ result.view["staff_assignments"] = AssignmentTable
               /\ result.view["audit_logs"] = AuditTable
               /\ result.view["audit_action_type"] = {<<"audit_action_type", "type">>}
               /\ result.view["swap_requests"] = SwapTable
               /\ result.view["swap_status"] = {<<"swap_status", "type">>}
               /\ result.view["staff_availability"] = AvailabilityTable
               /\ result.view["attendance_records"] = AttendanceTable
               /\ result.view["attendance_status"] = {<<"attendance_status", "type">>}
<1> DEFINE X == {RebuildShifts[i] : i \in 1 .. 4} \cup {CreateAssignments[i] : i \in 1 .. 3}
                \cup {CreateAuditLogs[i] : i \in 1 .. 4}
                \cup {CreateSwapRequests[i] : i \in 1 .. 4}
                \cup {CreateAvailability[i] : i \in 1 .. 2}
                \cup {CreateAttendance[i] : i \in 1 .. 4}
           s1 == RebuildShifts
           s2 == s1 \o CreateAssignments
           s3 == s2 \o CreateAuditLogs
           s4 == s3 \o CreateSwapRequests
           s5 == s4 \o CreateAvailability
           s6 == s5 \o CreateAttendance
<1>a. s1 \in Seq(X)
  BY DEF RebuildShifts
<1>b. CreateAssignments \in Seq(X)
  BY DEF CreateAssignments
<1>c. CreateAuditLogs \in Seq(X)
  BY DEF CreateAuditLogs
<1>d. CreateSwapRequests \in Seq(X)
  BY DEF CreateSwapRequests
<1>e. CreateAvailability \in Seq(X)
  BY DEF CreateAvailability
<1>f. CreateAttendance \in Seq(X)
  BY DEF CreateAttendance
<1> HIDE DEF X
<1>g. s2 \in Seq(X) /\ s3 \in Seq(X) /\ s4 \in Seq(X) /\ s5 \in Seq(X)
  BY <1>a, <1>b, <1>c, <1>d, <1>e
<1>h. Up[4] = s6
  BY DEF Up, PersonTwoSchema
<1>i. Object = {"users", "schedules", "shifts", "staff_assignments", "audit_logs",
                "swap_requests", "staff_availability", "attendance_records",
                "audit_action_type", "swap_status", "attendance_status"}
  BY DEF Object, Table, EnumType
<1> HIDE DEF s1, s2, s3, s4, s5, s6
<1>j. /\ s2 = s1 \o CreateAssignments /\ s3 = s2 \o CreateAuditLogs
      /\ s4 = s3 \o CreateSwapRequests /\ s5 = s4 \o CreateAvailability
      /\ s6 = s5 \o CreateAttendance /\ s1 = RebuildShifts
  BY DEF s1, s2, s3, s4, s5, s6
<1>k. ShiftsTable # {}
  BY IndexedParts DEF ShiftsTable
<1> DEFINE v1 == Result(base, s1)
           v2 == Result(base, s2)
           v3 == Result(base, s3)
           v4 == Result(base, s4)
           v5 == Result(base, s5)
           v6 == Result(base, s6)
<1>1. Keeps(base, v1, {"shifts"}) /\ v1.view["shifts"] = ShiftsTable
  BY <1>j, RebuildSection
<1>2. Keeps(v1.view, v2, {"staff_assignments"})
      /\ v2.view["staff_assignments"] = AssignmentTable
  <2>1. /\ IsView(v1.view) /\ v1.view["users"] # {} /\ v1.view["shifts"] # {}
        /\ v1.view["staff_assignments"] = {} /\ v1.accepted
    BY <1>1, <1>i, <1>k DEF Keeps
  <2>2. LET second == Result(v1.view, CreateAssignments)
        IN  /\ Keeps(v1.view, second, {"staff_assignments"})
            /\ second.view["staff_assignments"] = AssignmentTable
    BY <2>1, AssignmentSection
  <2>3. s2 = s1 \o CreateAssignments /\ s1 \in Seq(X) /\ CreateAssignments \in Seq(X)
    BY <1>a, <1>b, <1>j
  <2>4. v1.accepted /\ Result(v1.view, CreateAssignments).accepted
    BY <2>1, <2>2 DEF Keeps
  <2>5. v2.view = Result(v1.view, CreateAssignments).view /\ v2.accepted
    BY <2>3, <2>4, NextSection
  <2> HIDE DEF v1, v2
  <2> QED
    BY <2>2, <2>5 DEF Keeps
<1>3. /\ Keeps(v2.view, v3, {"audit_logs", "audit_action_type"})
      /\ v3.view["audit_logs"] = AuditTable
      /\ v3.view["audit_action_type"] = {<<"audit_action_type", "type">>}
  <2>1. /\ IsView(v2.view) /\ v2.view["users"] # {} /\ v2.accepted
        /\ v2.view["audit_logs"] = {} /\ v2.view["audit_action_type"] = {}
    BY <1>1, <1>2, <1>i DEF Keeps
  <2>2. LET second == Result(v2.view, CreateAuditLogs)
        IN  /\ Keeps(v2.view, second, {"audit_logs", "audit_action_type"})
            /\ second.view["audit_logs"] = AuditTable
            /\ second.view["audit_action_type"] = {<<"audit_action_type", "type">>}
    BY <2>1, AuditSection
  <2>3. s3 = s2 \o CreateAuditLogs /\ s2 \in Seq(X) /\ CreateAuditLogs \in Seq(X)
    BY <1>g, <1>c, <1>j
  <2>4. v2.accepted /\ Result(v2.view, CreateAuditLogs).accepted
    BY <2>1, <2>2 DEF Keeps
  <2>5. v3.view = Result(v2.view, CreateAuditLogs).view /\ v3.accepted
    BY <2>3, <2>4, NextSection
  <2> HIDE DEF v2, v3
  <2> QED
    BY <2>2, <2>5 DEF Keeps
<1>4. /\ Keeps(v3.view, v4, {"swap_requests", "swap_status"})
      /\ v4.view["swap_requests"] = SwapTable
      /\ v4.view["swap_status"] = {<<"swap_status", "type">>}
  <2>1. /\ IsView(v3.view) /\ v3.view["users"] # {} /\ v3.view["shifts"] # {}
        /\ v3.view["swap_requests"] = {} /\ v3.view["swap_status"] = {} /\ v3.accepted
    BY <1>1, <1>2, <1>3, <1>i, <1>k DEF Keeps
  <2>2. LET second == Result(v3.view, CreateSwapRequests)
        IN  /\ Keeps(v3.view, second, {"swap_requests", "swap_status"})
            /\ second.view["swap_requests"] = SwapTable
            /\ second.view["swap_status"] = {<<"swap_status", "type">>}
    BY <2>1, SwapSection
  <2>3. s4 = s3 \o CreateSwapRequests /\ s3 \in Seq(X) /\ CreateSwapRequests \in Seq(X)
    BY <1>g, <1>d, <1>j
  <2>4. v3.accepted /\ Result(v3.view, CreateSwapRequests).accepted
    BY <2>1, <2>2 DEF Keeps
  <2>5. v4.view = Result(v3.view, CreateSwapRequests).view /\ v4.accepted
    BY <2>3, <2>4, NextSection
  <2> HIDE DEF v3, v4
  <2> QED
    BY <2>2, <2>5 DEF Keeps
<1>5. Keeps(v4.view, v5, {"staff_availability"})
      /\ v5.view["staff_availability"] = AvailabilityTable
  <2>1. /\ IsView(v4.view) /\ v4.view["users"] # {} /\ v4.accepted
        /\ v4.view["staff_availability"] = {}
    BY <1>1, <1>2, <1>3, <1>4, <1>i DEF Keeps
  <2>2. LET second == Result(v4.view, CreateAvailability)
        IN  /\ Keeps(v4.view, second, {"staff_availability"})
            /\ second.view["staff_availability"] = AvailabilityTable
    BY <2>1, AvailabilitySection
  <2>3. s5 = s4 \o CreateAvailability /\ s4 \in Seq(X) /\ CreateAvailability \in Seq(X)
    BY <1>g, <1>e, <1>j
  <2>4. v4.accepted /\ Result(v4.view, CreateAvailability).accepted
    BY <2>1, <2>2 DEF Keeps
  <2>5. v5.view = Result(v4.view, CreateAvailability).view /\ v5.accepted
    BY <2>3, <2>4, NextSection
  <2> HIDE DEF v4, v5
  <2> QED
    BY <2>2, <2>5 DEF Keeps
<1>6. /\ Keeps(v5.view, v6, {"attendance_records", "attendance_status"})
      /\ v6.view["attendance_records"] = AttendanceTable
      /\ v6.view["attendance_status"] = {<<"attendance_status", "type">>}
  <2>1. /\ IsView(v5.view) /\ v5.view["users"] # {} /\ v5.view["shifts"] # {}
        /\ v5.view["attendance_records"] = {} /\ v5.view["attendance_status"] = {}
        /\ v5.accepted
    BY <1>1, <1>2, <1>3, <1>4, <1>5, <1>i, <1>k DEF Keeps
  <2>2. LET second == Result(v5.view, CreateAttendance)
        IN  /\ Keeps(v5.view, second, {"attendance_records", "attendance_status"})
            /\ second.view["attendance_records"] = AttendanceTable
            /\ second.view["attendance_status"] = {<<"attendance_status", "type">>}
    BY <2>1, AttendanceSection
  <2>3. s6 = s5 \o CreateAttendance /\ s5 \in Seq(X) /\ CreateAttendance \in Seq(X)
    BY <1>g, <1>f, <1>j
  <2>4. v5.accepted /\ Result(v5.view, CreateAttendance).accepted
    BY <2>1, <2>2 DEF Keeps
  <2>5. v6.view = Result(v5.view, CreateAttendance).view /\ v6.accepted
    BY <2>3, <2>4, NextSection
  <2> HIDE DEF v5, v6
  <2> QED
    BY <2>2, <2>5 DEF Keeps
<1> HIDE DEF v1, v2, v3, v4, v5, v6
<1>7. Result(base, Up[4]) = v6
  BY <1>h DEF v6
<1> QED
  BY <1>1, <1>2, <1>3, <1>4, <1>5, <1>6, <1>7, <1>i DEF Keeps

\* What the newest tables refer to.
LEMMA FourthScriptLeaves ==
    /\ <<"created_by", "users">> \in ShiftsTable /\ Column("headcount") \in ShiftsTable
    /\ <<"staff_id", "users">> \in AttendanceTable
BY NewShiftContents, AttendanceContents, ReferenceParts
   DEF ShiftsTable, AttendanceTable, Indexed

\* Going down from the first revision leaves an empty database.
LEMMA FirstScriptUndone ==
    ASSUME NEW base, IsView(base),
           \A o \in Object \ {"users", "schedules", "shifts"} : base[o] = {}
    PROVE  Result(base, Down[1]).view = Blank
<1> DEFINE r == RunAlone(base, Down[1])
<1>a. Down[1] = DropInitialSchema /\ Len(DropInitialSchema) = 10
  BY DEF Down, DropInitialSchema
<1>b. IsRun(r, base, DropInitialSchema) /\ Result(base, Down[1]) = r[10]
  BY <1>a, RunEquation DEF Result
<1> HIDE DEF r
<1>c. /\ r[0] = Untouched(base)
      /\ r[1] = Tried(r[0], DropIndex("ix_shifts_user_id", "shifts"))
      /\ r[2] = Tried(r[1], DropIndex("ix_shifts_schedule_id", "shifts"))
      /\ r[3] = Tried(r[2], DropIndex("ix_shifts_id", "shifts"))
      /\ r[4] = Tried(r[3], DropTable("shifts"))
      /\ r[5] = Tried(r[4], DropIndex("ix_schedules_week_start", "schedules"))
      /\ r[6] = Tried(r[5], DropIndex("ix_schedules_id", "schedules"))
      /\ r[7] = Tried(r[6], DropTable("schedules"))
      /\ r[8] = Tried(r[7], DropIndex("ix_users_id", "users"))
      /\ r[9] = Tried(r[8], DropIndex("ix_users_email", "users"))
      /\ r[10] = Tried(r[9], DropTable("users"))
  <2>1. r[0] = Untouched(base) /\ r[1] = Tried(r[0], DropInitialSchema[1])
        /\ r[2] = Tried(r[1], DropInitialSchema[2])
        /\ r[3] = Tried(r[2], DropInitialSchema[3])
        /\ r[4] = Tried(r[3], DropInitialSchema[4])
        /\ r[5] = Tried(r[4], DropInitialSchema[5])
        /\ r[6] = Tried(r[5], DropInitialSchema[6])
        /\ r[7] = Tried(r[6], DropInitialSchema[7])
        /\ r[8] = Tried(r[7], DropInitialSchema[8])
        /\ r[9] = Tried(r[8], DropInitialSchema[9])
        /\ r[10] = Tried(r[9], DropInitialSchema[10])
    BY <1>a, <1>b DEF IsRun
  <2> QED
    BY <2>1 DEF DropInitialSchema
<1>0. IsView(r[0].view) /\ r[0].view = base
  BY <1>c DEF Untouched
<1>d. "users" \in Object /\ "schedules" \in Object /\ "shifts" \in Object
  BY DEF Object, Table
<1>1. Makes(r[0], r[1], "shifts", Narrowed(r[0].view["shifts"], "ix_shifts_user_id"))
  BY <1>0, <1>c, <1>d, Narrowing
<1>2. Makes(r[1], r[2], "shifts", Narrowed(r[1].view["shifts"], "ix_shifts_schedule_id"))
  BY <1>1, Made, <1>c, <1>d, Narrowing
<1>3. Makes(r[2], r[3], "shifts", Narrowed(r[2].view["shifts"], "ix_shifts_id"))
  BY <1>2, Made, <1>c, <1>d, Narrowing
<1>4. Makes(r[3], r[4], "shifts", {})
  BY <1>3, Made, <1>c, <1>d, Emptying
<1>5. Makes(r[4], r[5], "schedules",
            Narrowed(r[4].view["schedules"], "ix_schedules_week_start"))
  BY <1>4, Made, <1>c, <1>d, Narrowing
<1>6. Makes(r[5], r[6], "schedules", Narrowed(r[5].view["schedules"], "ix_schedules_id"))
  BY <1>5, Made, <1>c, <1>d, Narrowing
<1>7. Makes(r[6], r[7], "schedules", {})
  BY <1>6, Made, <1>c, <1>d, Emptying
<1>8. Makes(r[7], r[8], "users", Narrowed(r[7].view["users"], "ix_users_id"))
  BY <1>7, Made, <1>c, <1>d, Narrowing
<1>9. Makes(r[8], r[9], "users", Narrowed(r[8].view["users"], "ix_users_email"))
  BY <1>8, Made, <1>c, <1>d, Narrowing
<1>10. Makes(r[9], r[10], "users", {})
  BY <1>9, Made, <1>c, <1>d, Emptying
<1>e. \A o \in Object : r[10].view[o] = {}
  BY <1>d, <1>0, <1>1, <1>2, <1>3, <1>4, <1>5, <1>6, <1>7, <1>8, <1>9, <1>10 DEF Makes
<1> QED
  BY <1>b, <1>e, <1>10 DEF Makes, IsView, Blank

\* The tables and types of the fourth script are dropped.
LEMMA TablesDropped ==
    ASSUME NEW base, IsView(base)
    PROVE  LET result == Result(base, DropPersonTwoTables)
           IN  /\ IsView(result.view)
               /\ \A o \in {"users", "schedules", "shifts"} : result.view[o] = base[o]
               /\ \A o \in Object \ {"users", "schedules", "shifts"} : result.view[o] = {}
<1> DEFINE r == RunAlone(base, DropPersonTwoTables)
<1>a. Len(DropPersonTwoTables) = 8
  BY DEF DropPersonTwoTables
<1>b. IsRun(r, base, DropPersonTwoTables) /\ Result(base, DropPersonTwoTables) = r[8]
  BY <1>a, RunEquation DEF Result
<1> HIDE DEF r
<1>c. /\ r[0] = Untouched(base)
      /\ r[1] = Tried(r[0], DropTable("attendance_records"))
      /\ r[2] = Tried(r[1], DropTypeIfExists("attendance_status"))
      /\ r[3] = Tried(r[2], DropTable("staff_availability"))
      /\ r[4] = Tried(r[3], DropTable("swap_requests"))
      /\ r[5] = Tried(r[4], DropTypeIfExists("swap_status"))
      /\ r[6] = Tried(r[5], DropTable("audit_logs"))
      /\ r[7] = Tried(r[6], DropTypeIfExists("audit_action_type"))
      /\ r[8] = Tried(r[7], DropTable("staff_assignments"))
  <2>1. r[0] = Untouched(base) /\ r[1] = Tried(r[0], DropPersonTwoTables[1])
        /\ r[2] = Tried(r[1], DropPersonTwoTables[2])
        /\ r[3] = Tried(r[2], DropPersonTwoTables[3])
        /\ r[4] = Tried(r[3], DropPersonTwoTables[4])
        /\ r[5] = Tried(r[4], DropPersonTwoTables[5])
        /\ r[6] = Tried(r[5], DropPersonTwoTables[6])
        /\ r[7] = Tried(r[6], DropPersonTwoTables[7])
        /\ r[8] = Tried(r[7], DropPersonTwoTables[8])
    BY <1>a, <1>b DEF IsRun
  <2> QED
    BY <2>1 DEF DropPersonTwoTables
<1>0. IsView(r[0].view) /\ r[0].view = base
  BY <1>c DEF Untouched
<1>d. Object = {"users", "schedules", "shifts", "staff_assignments", "audit_logs",
                "swap_requests", "staff_availability", "attendance_records",
                "audit_action_type", "swap_status", "attendance_status"}
  BY DEF Object, Table, EnumType
<1>e. "attendance_records" \in Object /\ "attendance_status" \in Object
      /\ "staff_availability" \in Object /\ "swap_requests" \in Object
      /\ "swap_status" \in Object /\ "audit_logs" \in Object
      /\ "audit_action_type" \in Object /\ "staff_assignments" \in Object
  BY <1>d
<1>1. Makes(r[0], r[1], "attendance_records", {})
  BY <1>0, <1>c, <1>e, Emptying
<1>2. Makes(r[1], r[2], "attendance_status", {})
  BY <1>1, Made, <1>c, <1>e, Emptying
<1>3. Makes(r[2], r[3], "staff_availability", {})
  BY <1>2, Made, <1>c, <1>e, Emptying
<1>4. Makes(r[3], r[4], "swap_requests", {})
  BY <1>3, Made, <1>c, <1>e, Emptying
<1>5. Makes(r[4], r[5], "swap_status", {})
  BY <1>4, Made, <1>c, <1>e, Emptying
<1>6. Makes(r[5], r[6], "audit_logs", {})
  BY <1>5, Made, <1>c, <1>e, Emptying
<1>7. Makes(r[6], r[7], "audit_action_type", {})
  BY <1>6, Made, <1>c, <1>e, Emptying
<1>8. Makes(r[7], r[8], "staff_assignments", {})
  BY <1>7, Made, <1>c, <1>e, Emptying
<1> QED
  BY <1>b, <1>d, <1>0, <1>1, <1>2, <1>3, <1>4, <1>5, <1>6, <1>7, <1>8 DEF Makes

\* The shifts as the downgrade makes them.
RestoredShifts ==
    LegacyShift \cup Columns({"is_deleted", "deleted_at", "department_id", "headcount"})
    \cup References({<<"created_by", "users">>})

\* The shifts are made anew in their old shape.
LEMMA ShiftsRestored ==
    ASSUME NEW base, IsView(base)
    PROVE  LET result == Result(base, RestoreLegacyShifts)
           IN  /\ IsView(result.view)
               /\ result.view["shifts"] = RestoredShifts
               /\ \A o \in Object \ {"shifts"} : result.view[o] = base[o]
<1> DEFINE r == RunAlone(base, RestoreLegacyShifts)
<1>a. Len(RestoreLegacyShifts) = 2
  BY DEF RestoreLegacyShifts
<1>b. IsRun(r, base, RestoreLegacyShifts) /\ Result(base, RestoreLegacyShifts) = r[2]
  BY <1>a, RunEquation DEF Result
<1> HIDE DEF r
<1>c. /\ r[0] = Untouched(base)
      /\ r[1] = Tried(r[0], DropTable("shifts"))
      /\ r[2] = Tried(r[1], CreateTable("shifts", RestoredShifts))
  <2>1. r[0] = Untouched(base) /\ r[1] = Tried(r[0], RestoreLegacyShifts[1])
        /\ r[2] = Tried(r[1], RestoreLegacyShifts[2])
    BY <1>a, <1>b DEF IsRun
  <2> QED
    BY <2>1 DEF RestoreLegacyShifts, RestoredShifts
<1>0. IsView(r[0].view) /\ r[0].view = base
  BY <1>c DEF Untouched
<1>d. "shifts" \in Object
  BY DEF Object, Table
<1>1. Makes(r[0], r[1], "shifts", {})
  BY <1>0, <1>c, <1>d, Emptying
<1>2. Makes(r[1], r[2], "shifts", RestoredShifts)
  BY <1>1, <1>c, <1>d, Made, Recreating
<1> QED
  BY <1>b, <1>0, <1>1, <1>2 DEF Makes

\* The legacy table comes back as it was, but for its indices.
LEMMA RestoredParts == RestoredShifts = WithoutIndices(SecuredShifts(Shifts1))
<1>1. WithoutIndices(Shifts1) = LegacyShift
  <2>1. \A p \in LegacyShift : p[2] # "index"
    BY DEF LegacyShift, Columns, Column, Says
  <2>2. \A p : p \in Shifts1 <=> p \in LegacyShift \cup {Index("ix_shifts_id"),
                       Index("ix_shifts_schedule_id"), Index("ix_shifts_user_id")}
    BY DEF Shifts1, Indexed
  <2>3. \A i : Index(i)[2] = "index"
    BY DEF Index
  <2> QED
    BY <2>1, <2>2, <2>3 DEF WithoutIndices
<1> DEFINE more == {Column("is_deleted"), Column("deleted_at"), Column("department_id"),
                    Column("headcount"), Column("created_by"), Says("created_by", "users")}
<1>2. \A p \in more : p[2] # "index"
  BY DEF Column, Says
<1>3. SecuredShifts(Shifts1) = Shifts1 \cup more
  BY DEF SecuredShifts, Widened, Plain, CreatedBy
<1>4. RestoredShifts = LegacyShift \cup more
  <2>1. References({<<"created_by", "users">>}) =
           {Column("created_by"), Says("created_by", "users")}
    BY DEF References, Columns, NamesIn, Says
  <2>2. Columns({"is_deleted", "deleted_at", "department_id", "headcount"}) =
           {Column("is_deleted"), Column("deleted_at"), Column("department_id"),
            Column("headcount")}
    BY DEF Columns
  <2> QED
    BY <2>1, <2>2 DEF RestoredShifts
<1> HIDE DEF more
<1> QED
  BY <1>1, <1>2, <1>3, <1>4 DEF WithoutIndices

\* Going down from the fourth revision keeps users and schedules.
LEMMA FourthScriptUndone ==
    ASSUME NEW base, IsView(base)
    PROVE  LET result == Result(base, Down[4])
           IN  /\ IsView(result.view)
               /\ result.view["users"] = base["users"]
               /\ result.view["schedules"] = base["schedules"]
               /\ result.view["shifts"] = RestoredShifts
               /\ \A o \in Object \ {"users", "schedules", "shifts"} : result.view[o] = {}
<1> DEFINE X == {DropPersonTwoTables[i] : i \in 1 .. 8}
                \cup {RestoreLegacyShifts[i] : i \in 1 .. 2}
           first == Result(base, DropPersonTwoTables)
           second == Result(first.view, RestoreLegacyShifts)
<1>a. DropPersonTwoTables \in Seq(X)
  BY DEF DropPersonTwoTables
<1>b. RestoreLegacyShifts \in Seq(X)
  BY DEF RestoreLegacyShifts
<1> HIDE DEF X
<1>c. Down[4] = DropPersonTwoTables \o RestoreLegacyShifts
  BY DEF Down
<1>d. Result(base, Down[4]).view = second.view
  BY <1>a, <1>b, <1>c, InTurn
<1>1. /\ IsView(first.view)
      /\ first.view["users"] = base["users"] /\ first.view["schedules"] = base["schedules"]
      /\ \A o \in Object \ {"users", "schedules", "shifts"} : first.view[o] = {}
  BY TablesDropped
<1> HIDE DEF first
<1>2. /\ IsView(second.view) /\ second.view["shifts"] = RestoredShifts
      /\ \A o \in Object \ {"shifts"} : second.view[o] = first.view[o]
  BY <1>1, ShiftsRestored
<1>3. "users" \in Object /\ "schedules" \in Object
  BY DEF Object, Table
<1> HIDE DEF second
<1> QED
  BY <1>d, <1>1, <1>2, <1>3

-----------------------------------------------------------------------------
(* The chain of scripts *)

ClimbBody(f, base, from, n) ==
    [r \in from .. (from + n) |->
        IF r = from THEN Untouched(base) ELSE RunThrough(f[r - 1], Up[r])]

\* The same for the recursion over revisions.
LEMMA ClimbExists ==
    ASSUME NEW base, NEW from \in Nat, NEW n \in Nat
    PROVE  \E f : f = ClimbBody(f, base, from, n)
<1> DEFINE S == {m \in Nat : \E f : f = ClimbBody(f, base, from, m)}
<1>1. 0 \in S
  <2> DEFINE f == [r \in from .. (from + 0) |-> Untouched(base)]
  <2>1. f = ClimbBody(f, base, from, 0)
    BY DEF ClimbBody
  <2> QED
    BY <2>1
<1>2. ASSUME NEW m \in Nat, m \in S PROVE m + 1 \in S
  <2>1. PICK f : f = ClimbBody(f, base, from, m)
    BY <1>2
  <2> DEFINE k == from + m + 1
             x == RunThrough(f[from + m], Up[k])
             g == [r \in from .. (from + (m + 1)) |-> IF r = k THEN x ELSE f[r]]
  <2>2. \A r \in from .. (from + m) : g[r] = f[r]
    OBVIOUS
  <2>3. \A r \in from .. (from + m) : g[r] = ClimbBody(g, base, from, m + 1)[r]
    BY <2>1, <2>2 DEF ClimbBody
  <2>4. g[k] = ClimbBody(g, base, from, m + 1)[k]
    BY <2>2 DEF ClimbBody
  <2>5. g = ClimbBody(g, base, from, m + 1)
    <3>1. ClimbBody(g, base, from, m + 1) =
            [r \in from .. (from + (m + 1)) |-> ClimbBody(g, base, from, m + 1)[r]]
      BY DEF ClimbBody
    <3>2. g = [r \in from .. (from + (m + 1)) |-> g[r]]
      OBVIOUS
    <3>3. \A r \in from .. (from + (m + 1)) : r \in from .. (from + m) \/ r = k
      OBVIOUS
    <3> HIDE DEF g, k
    <3> QED
      BY <2>3, <2>4, <3>1, <3>2, <3>3
  <2> QED
    BY <2>5
<1> HIDE DEF S
<1>3. n \in S
  BY <1>1, <1>2, Counting
<1> QED
  BY <1>3 DEF S

\* So Upgraded goes from each revision to the next by its script.
LEMMA UpgradedEquation ==
    ASSUME NEW base, NEW from \in Revision
    PROVE  /\ Upgraded(base, from)[from] = Untouched(base)
           /\ \A r \in (from + 1) .. Newest :
                 Upgraded(base, from)[r] = RunThrough(Upgraded(base, from)[r - 1], Up[r])
<1> DEFINE F(f) == [r \in from .. Newest |->
                       IF r = from THEN Untouched(base) ELSE RunThrough(f[r - 1], Up[r])]
<1>0. from \in Nat /\ Newest - from \in Nat /\ from + (Newest - from) = Newest
  BY DEF Revision, Newest
<1>1. \E f : f = F(f)
  <2>1. PICK f : f = ClimbBody(f, base, from, Newest - from)
    BY <1>0, ClimbExists
  <2>2. f = F(f)
    BY <2>1, <1>0 DEF ClimbBody
  <2> QED
    BY <2>2
<1>2. Upgraded(base, from) = CHOOSE f : f = F(f)
  BY DEF Upgraded
<1>3. Upgraded(base, from) = F(Upgraded(base, from))
  <2> HIDE DEF F
  <2> QED
    BY <1>1, <1>2
<1> QED
  BY <1>0, <1>3

\* What a script adds to what came before it.
LEMMA RunThroughParts ==
    ASSUME NEW before, NEW script
    PROVE  /\ RunThrough(before, script).view = Result(before.view, script).view
           /\ RunThrough(before, script).accepted
                <=> before.accepted /\ Result(before.view, script).accepted
BY DEF RunThrough

\* Each schema is what its script makes of the one before.
LEMMA SchemaSteps ==
    /\ Schema[0] = Blank
    /\ \A r \in 1 .. Newest : Schema[r] = Result(Schema[r - 1], Up[r]).view
<1> DEFINE at == Upgraded(Blank, 0)
<1>1. 0 \in Revision /\ \A r \in 1 .. Newest : r \in Revision /\ r - 1 \in Revision
  BY DEF Revision, Newest
<1>2. at[0] = Untouched(Blank) /\ \A r \in 1 .. Newest : at[r] = RunThrough(at[r - 1], Up[r])
  BY <1>1, UpgradedEquation
<1>3. \A r \in Revision : Schema[r] = at[r].view
  BY DEF Schema
<1> HIDE DEF at
<1>4. Schema[0] = Blank
  BY <1>1, <1>2, <1>3 DEF Untouched
<1> QED
  BY <1>1, <1>2, <1>3, <1>4, RunThroughParts

-----------------------------------------------------------------------------
(* What can be in the catalog of a revision *)

\* What is in a catalog before the fourth script.
Holds(view, users, shifts) ==
    /\ IsView(view)
    /\ view["users"] = users /\ view["schedules"] = Schedules1 /\ view["shifts"] = shifts
    /\ \A o \in Object \ {"users", "schedules", "shifts"} : view[o] = {}

\* The legacy shifts lack what the second script adds, and refer to users.
LEMMA ShiftsContents ==
    ASSUME NEW parts, parts \in {Shifts1, WithoutIndices(Shifts1)}
    PROVE  /\ parts # {} /\ <<"user_id", "users">> \in parts
           /\ \A c \in SecurityColumns : Lacks(parts, c)
           /\ <<"user_id", "users">> \in SecuredShifts(parts)
           /\ Column("headcount") \in SecuredShifts(parts)
<1>1. <<"user_id", "users">> \in Shifts1 /\ <<"user_id", "users">> \in WithoutIndices(Shifts1)
  BY DEF Shifts1, Indexed, LegacyShift, Says, WithoutIndices
<1>2. \A c \in SecurityColumns : Lacks(Shifts1, c)
  BY DEF Shifts1, Indexed, Index, LegacyShift, Columns, Column, Says, Lacks, SecurityColumns
<1>3. \A c \in SecurityColumns : Lacks(parts, c)
  BY <1>2 DEF Lacks, WithoutIndices
<1>4. parts \subseteq SecuredShifts(parts) /\ Column("headcount") \in SecuredShifts(parts)
  BY DEF SecuredShifts, Widened
<1> QED
  BY <1>1, <1>3, <1>4

\* The columns of the second script are no indices.
LEMMA BareSecured ==
    WithoutIndices(SecuredShifts(Shifts1)) = SecuredShifts(WithoutIndices(Shifts1))
<1> DEFINE more == {Column("is_deleted"), Column("deleted_at"), Column("department_id"),
                    Column("headcount"), Column("created_by"), Says("created_by", "users")}
<1>1. \A p \in more : p[2] # "index"
  BY DEF Column, Says
<1>2. \A parts : SecuredShifts(parts) = parts \cup more
  BY DEF SecuredShifts, Widened, Plain, CreatedBy
<1> HIDE DEF more
<1> QED
  BY <1>1, <1>2 DEF WithoutIndices

\* The schemas up to the third.
LEMMA SchemaContents ==
    /\ Holds(Schema[1], Users1, Shifts1)
    /\ Holds(Schema[2], Users2, SecuredShifts(Shifts1))
    /\ Holds(Schema[3], Users3, SecuredShifts(Shifts1))
<1>0. Schema[0] = Blank /\ Schema[1] = Result(Schema[0], Up[1]).view
      /\ Schema[2] = Result(Schema[1], Up[2]).view /\ Schema[3] = Result(Schema[2], Up[3]).view
  BY SchemaSteps DEF Newest
<1>d. "users" \in Object /\ "schedules" \in Object /\ "shifts" \in Object
  BY DEF Object, Table
<1>1. Holds(Schema[1], Users1, Shifts1)
  BY <1>0, FirstScript DEF Holds
<1>2. Holds(Schema[2], Users2, SecuredShifts(Shifts1))
  <2>1. /\ IsView(Schema[1]) /\ Schema[1]["users"] = Users1 /\ Schema[1]["shifts"] = Shifts1
        /\ Shifts1 # {} /\ \A c \in SecurityColumns : Lacks(Shifts1, c)
    BY <1>1, ShiftsContents DEF Holds
  <2> QED
    BY <1>0, <1>d, <1>1, <2>1, SecondScript DEF Holds
<1>3. Holds(Schema[3], Users3, SecuredShifts(Shifts1))
  BY <1>0, <1>d, <1>2, ThirdScript DEF Holds
<1> QED
  BY <1>1, <1>2, <1>3

\* The shifts of the initial schema, with and without their indices.
Legacy == {Shifts1, WithoutIndices(Shifts1)}

Bared(view) == [view EXCEPT !["shifts"] = WithoutIndices(@)]

\* What a catalog can be at a revision: its schema, or what going down from the
\* newest revision leaves, without the indices of the shifts.
Forms(r) == {Schema[r]} \cup {Bared(Schema[v]) : v \in {r} \cap 1 .. 3}

\* Catalogs that agree on every object are equal.
LEMMA SameView ==
    ASSUME NEW v, IsView(v), NEW w, IsView(w), \A o \in Object : v[o] = w[o]
    PROVE  v = w
BY DEF IsView

\* So what Holds says determines a catalog.
LEMMA SameHolds ==
    ASSUME NEW v, NEW w, NEW users, NEW shifts,
           Holds(v, users, shifts), Holds(w, users, shifts)
    PROVE  v = w
<1>1. \A o \in Object : v[o] = w[o]
  BY DEF Holds
<1> QED
  BY <1>1, SameView DEF Holds

\* A catalog without the indices of its shifts.
LEMMA BaredHolds ==
    ASSUME NEW v, NEW users, NEW shifts, Holds(v, users, shifts)
    PROVE  Holds(Bared(v), users, WithoutIndices(shifts))
<1>1. "shifts" \in Object /\ "users" \in Object /\ "schedules" \in Object
  BY DEF Object, Table
<1>2. /\ DOMAIN Bared(v) = DOMAIN v
      /\ Bared(v)["shifts"] = WithoutIndices(shifts)
      /\ \A o \in Object \ {"shifts"} : Bared(v)[o] = v[o]
      /\ Bared(v) = [o \in Object |-> Bared(v)[o]]
  BY <1>1 DEF Bared, Holds, IsView
<1> QED
  BY <1>1, <1>2 DEF Holds, IsView

\* What the catalog of a revision up to the third holds, and that nothing else does.
LEMMA FormContents ==
    /\ \A v : v \in Forms(0) <=> v = Blank
    /\ \A v : v \in Forms(1) <=> \E parts \in Legacy : Holds(v, Users1, parts)
    /\ \A v : v \in Forms(2) <=> \E parts \in Legacy : Holds(v, Users2, SecuredShifts(parts))
    /\ \A v : v \in Forms(3) <=> \E parts \in Legacy : Holds(v, Users3, SecuredShifts(parts))
    /\ \A v : v \in Forms(4) <=> v = Schema[4]
<1>1. /\ \A v : v \in Forms(0) <=> v = Schema[0]
      /\ \A v : v \in Forms(4) <=> v = Schema[4]
  BY DEF Forms
<1>2. \A r \in 1 .. 3 : \A v : v \in Forms(r) <=> v = Schema[r] \/ v = Bared(Schema[r])
  BY DEF Forms
<1>3. Schema[0] = Blank
  BY SchemaSteps
<1>4. ASSUME NEW v
      PROVE  v \in Forms(1) <=> \E parts \in Legacy : Holds(v, Users1, parts)
  <2>1. Holds(Schema[1], Users1, Shifts1)
        /\ Holds(Bared(Schema[1]), Users1, WithoutIndices(Shifts1))
    BY SchemaContents, BaredHolds
  <2> QED
    BY <1>2, <2>1, SameHolds DEF Legacy
<1>5. ASSUME NEW v
      PROVE  v \in Forms(2) <=> \E parts \in Legacy : Holds(v, Users2, SecuredShifts(parts))
  <2>1. /\ Holds(Schema[2], Users2, SecuredShifts(Shifts1))
        /\ Holds(Bared(Schema[2]), Users2, SecuredShifts(WithoutIndices(Shifts1)))
    BY SchemaContents, BaredHolds, BareSecured
  <2> QED
    BY <1>2, <2>1, SameHolds DEF Legacy
<1>6. ASSUME NEW v
      PROVE  v \in Forms(3) <=> \E parts \in Legacy : Holds(v, Users3, SecuredShifts(parts))
  <2>1. /\ Holds(Schema[3], Users3, SecuredShifts(Shifts1))
        /\ Holds(Bared(Schema[3]), Users3, SecuredShifts(WithoutIndices(Shifts1)))
    BY SchemaContents, BaredHolds, BareSecured
  <2> QED
    BY <1>2, <2>1, SameHolds DEF Legacy
<1> QED
  BY <1>1, <1>3, <1>4, <1>5, <1>6

\* Before the fourth script nothing refers to the shifts.
LEMMA UnreferredShifts ==
    ASSUME NEW view, NEW shifts, Holds(view, Users3, shifts)
    PROVE  Unreferred(view, "shifts")
<1>1. \A p \in Users3 : p[2] # "shifts"
  BY DEF Users3, Users2, WithToken, Users1, UsersColumns, Widened, Narrowed, Indexed, Index,
         Columns, Column, Says, Default, Length, Plain
<1>2. \A p \in Schedules1 : p[2] # "shifts"
  BY DEF Schedules1, SchedulesColumns, Indexed, Index, Column, Says
<1> QED
  BY <1>1, <1>2 DEF Holds, Unreferred

\* The newest schema.
LEMMA NewestContents ==
    ASSUME NEW base \in Forms(3)
    PROVE  LET result == Result(base, Up[4])
           IN  /\ result.view = Schema[4] /\ result.accepted
               /\ IsView(Schema[4])
               /\ Schema[4]["users"] = Users3 /\ Schema[4]["schedules"] = Schedules1
               /\ Schema[4]["shifts"] = ShiftsTable
               /\ Schema[4]["attendance_records"] = AttendanceTable
<1>d. {"users", "schedules", "shifts"} \subseteq Object
  BY DEF Object, Table
<1>1. PICK parts \in Legacy : Holds(base, Users3, SecuredShifts(parts))
  BY FormContents
<1>2. Holds(Schema[3], Users3, SecuredShifts(Shifts1))
  BY SchemaContents
<1>3. Users3 # {}
  BY TokenContents
<1>4. SecuredShifts(parts) # {} /\ SecuredShifts(Shifts1) # {}
  BY ShiftsContents DEF Legacy
<1> DEFINE one == Result(base, Up[4])
           two == Result(Schema[3], Up[4])
<1>5. Schema[4] = two.view
  BY SchemaSteps DEF Newest
<1>6. Unreferred(base, "shifts") /\ Unreferred(Schema[3], "shifts")
  BY <1>1, <1>2, UnreferredShifts
<1>7. ASSUME NEW view, NEW shifts, Holds(view, Users3, shifts), shifts # {},
             Unreferred(view, "shifts")
      PROVE  LET result == Result(view, Up[4])
             IN  /\ IsView(result.view) /\ result.accepted
                 /\ result.view["users"] = Users3
                 /\ result.view["schedules"] = Schedules1
                 /\ result.view["shifts"] = ShiftsTable
                 /\ result.view["staff_assignments"] = AssignmentTable
                 /\ result.view["audit_logs"] = AuditTable
                 /\ result.view["audit_action_type"] = {<<"audit_action_type", "type">>}
                 /\ result.view["swap_requests"] = SwapTable
                 /\ result.view["swap_status"] = {<<"swap_status", "type">>}
                 /\ result.view["staff_availability"] = AvailabilityTable
                 /\ result.view["attendance_records"] = AttendanceTable
                 /\ result.view["attendance_status"] = {<<"attendance_status", "type">>}
  <2>1. IsView(view) /\ view["users"] = Users3 /\ view["schedules"] = Schedules1
        /\ view["shifts"] # {} /\ view["users"] # {}
        /\ \A o \in Object \ {"users", "schedules", "shifts"} : view[o] = {}
    BY <1>3, <1>7 DEF Holds
  <2> QED
    BY <1>7, <2>1, FourthScript
<1>8. /\ IsView(one.view) /\ one.accepted /\ IsView(two.view)
      /\ \A o \in Object : one.view[o] = two.view[o]
  <2>1. /\ IsView(one.view) /\ one.accepted
        /\ one.view["users"] = Users3
        /\ one.view["schedules"] = Schedules1
        /\ one.view["shifts"] = ShiftsTable
        /\ one.view["staff_assignments"] = AssignmentTable
        /\ one.view["audit_logs"] = AuditTable
        /\ one.view["audit_action_type"] = {<<"audit_action_type", "type">>}
        /\ one.view["swap_requests"] = SwapTable
        /\ one.view["swap_status"] = {<<"swap_status", "type">>}
        /\ one.view["staff_availability"] = AvailabilityTable
        /\ one.view["attendance_records"] = AttendanceTable
        /\ one.view["attendance_status"] = {<<"attendance_status", "type">>}
    BY <1>1, <1>4, <1>6, <1>7
  <2>2. /\ IsView(two.view)
        /\ two.view["users"] = Users3
        /\ two.view["schedules"] = Schedules1
        /\ two.view["shifts"] = ShiftsTable
        /\ two.view["staff_assignments"] = AssignmentTable
        /\ two.view["audit_logs"] = AuditTable
        /\ two.view["audit_action_type"] = {<<"audit_action_type", "type">>}
        /\ two.view["swap_requests"] = SwapTable
        /\ two.view["swap_status"] = {<<"swap_status", "type">>}
        /\ two.view["staff_availability"] = AvailabilityTable
        /\ two.view["attendance_records"] = AttendanceTable
        /\ two.view["attendance_status"] = {<<"attendance_status", "type">>}
    BY <1>2, <1>4, <1>6, <1>7
  <2> HIDE DEF one, two
  <2> QED
    BY <2>1, <2>2 DEF Object, Table, EnumType
<1>9. Schema[4]["users"] = Users3 /\ Schema[4]["schedules"] = Schedules1
      /\ Schema[4]["shifts"] = ShiftsTable /\ Schema[4]["attendance_records"] = AttendanceTable
  BY <1>2, <1>4, <1>5, <1>6, <1>7
<1> HIDE DEF one, two
<1>10. one.view = two.view
  BY <1>8, SameView
<1> QED
  BY <1>5, <1>8, <1>9, <1>10 DEF one

\* Going up from a form of a revision leads to a form of the next, and no statement
\* is refused.
THEOREM UpForms ==
    ASSUME NEW r \in 1 .. Newest, NEW base \in Forms(r - 1)
    PROVE  Result(base, Up[r]).view \in Forms(r) /\ Result(base, Up[r]).accepted
<1>d. {"users", "schedules", "shifts"} \subseteq Object
  BY DEF Object, Table
<1>1. CASE r = 1
  <2>1. base = Blank /\ Schema[0] = Blank /\ Schema[1] = Result(Schema[0], Up[1]).view
    BY <1>1, FormContents, SchemaSteps DEF Newest
  <2>2. Schema[1] \in Forms(1)
    BY DEF Forms
  <2> QED
    BY <1>1, <2>1, <2>2, FirstScript
<1>2. CASE r = 2
  <2>1. PICK parts \in Legacy : Holds(base, Users1, parts)
    BY <1>2, FormContents
  <2>2. /\ IsView(base) /\ base["users"] = Users1 /\ base["shifts"] = parts
        /\ parts # {} /\ \A c \in SecurityColumns : Lacks(parts, c)
    BY <2>1, ShiftsContents DEF Holds, Legacy
  <2> DEFINE result == Result(base, Up[2])
  <2>3. /\ IsView(result.view) /\ result.accepted
        /\ result.view["users"] = Users2 /\ result.view["shifts"] = SecuredShifts(parts)
        /\ \A o \in Object \ {"users", "shifts"} : result.view[o] = base[o]
    BY <2>2, SecondScript
  <2> HIDE DEF result
  <2>4. Holds(result.view, Users2, SecuredShifts(parts))
    BY <1>d, <2>1, <2>3 DEF Holds
  <2>5. result.view \in Forms(2)
    BY <2>4, FormContents
  <2> QED
    BY <1>2, <2>3, <2>5 DEF result
<1>3. CASE r = 3
  <2>1. PICK parts \in Legacy : Holds(base, Users2, SecuredShifts(parts))
    BY <1>3, FormContents
  <2>2. IsView(base) /\ base["users"] = Users2
    BY <2>1 DEF Holds
  <2> DEFINE result == Result(base, Up[3])
  <2>3. /\ IsView(result.view) /\ result.accepted /\ result.view["users"] = Users3
        /\ \A o \in Object \ {"users"} : result.view[o] = base[o]
    BY <2>2, ThirdScript
  <2> HIDE DEF result
  <2>4. Holds(result.view, Users3, SecuredShifts(parts))
    BY <1>d, <2>1, <2>3 DEF Holds
  <2>5. result.view \in Forms(3)
    BY <2>4, FormContents
  <2> QED
    BY <1>3, <2>3, <2>5 DEF result
<1>4. CASE r = 4
  <2>1. base \in Forms(3)
    BY <1>4
  <2>2. Result(base, Up[4]).view = Schema[4] /\ Result(base, Up[4]).accepted
    BY <2>1, NewestContents
  <2> QED
    BY <1>4, <2>2, FormContents
<1> QED
  BY <1>1, <1>2, <1>3, <1>4 DEF Newest

\* Going down from a form of a revision leads to a form of the one before.
THEOREM DownForms ==
    ASSUME NEW r \in 1 .. Newest, NEW base \in Forms(r)
    PROVE  Result(base, Down[r]).view \in Forms(r - 1)
<1>d. {"users", "schedules", "shifts"} \subseteq Object
  BY DEF Object, Table
<1>1. CASE r = 1
  <2>1. PICK parts \in Legacy : Holds(base, Users1, parts)
    BY <1>1, FormContents
  <2>2. IsView(base) /\ \A o \in Object \ {"users", "schedules", "shifts"} : base[o] = {}
    BY <2>1 DEF Holds
  <2>3. Result(base, Down[1]).view = Blank
    BY <2>2, FirstScriptUndone
  <2> QED
    BY <1>1, <2>3, FormContents
<1>2. CASE r = 2
  <2>1. PICK parts \in Legacy : Holds(base, Users2, SecuredShifts(parts))
    BY <1>2, FormContents
  <2>2. /\ IsView(base) /\ base["users"] = Users2 /\ base["shifts"] = SecuredShifts(parts)
        /\ \A c \in SecurityColumns : Lacks(parts, c)
    BY <2>1, ShiftsContents DEF Holds, Legacy
  <2> DEFINE result == Result(base, Down[2])
  <2>3. /\ IsView(result.view)
        /\ result.view["users"] = Users1 /\ result.view["shifts"] = parts
        /\ \A o \in Object \ {"users", "shifts"} : result.view[o] = base[o]
    BY <2>2, SecondScriptUndone
  <2> HIDE DEF result
  <2>4. Holds(result.view, Users1, parts)
    BY <1>d, <2>1, <2>3 DEF Holds
  <2>5. result.view \in Forms(1)
    BY <2>4, FormContents
  <2> QED
    BY <1>2, <2>5 DEF result
<1>3. CASE r = 3
  <2>1. PICK parts \in Legacy : Holds(base, Users3, SecuredShifts(parts))
    BY <1>3, FormContents
  <2>2. IsView(base) /\ base["users"] = Users3
    BY <2>1 DEF Holds
  <2> DEFINE result == Result(base, Down[3])
  <2>3. /\ IsView(result.view) /\ result.view["users"] = Users2
        /\ \A o \in Object \ {"users"} : result.view[o] = base[o]
    BY <2>2, ThirdScriptUndone
  <2> HIDE DEF result
  <2>4. Holds(result.view, Users2, SecuredShifts(parts))
    BY <1>d, <2>1, <2>3 DEF Holds
  <2>5. result.view \in Forms(2)
    BY <2>4, FormContents
  <2> QED
    BY <1>3, <2>5 DEF result
<1>4. CASE r = 4
  <2>1. Schema[3] \in Forms(3)
    BY DEF Forms
  <2>2. /\ base = Schema[4] /\ IsView(base)
        /\ base["users"] = Users3 /\ base["schedules"] = Schedules1
    BY <1>4, <2>1, NewestContents, FormContents
  <2> DEFINE result == Result(base, Down[4])
  <2>3. /\ IsView(result.view)
        /\ result.view["users"] = Users3 /\ result.view["schedules"] = Schedules1
        /\ result.view["shifts"] = RestoredShifts
        /\ \A o \in Object \ {"users", "schedules", "shifts"} : result.view[o] = {}
    BY <2>2, FourthScriptUndone
  <2> HIDE DEF result
  <2>4. Holds(result.view, Users3, SecuredShifts(WithoutIndices(Shifts1)))
    BY <2>3, RestoredParts, BareSecured DEF Holds
  <2>5. result.view \in Forms(3)
    BY <2>4, FormContents DEF Legacy
  <2> QED
    BY <1>4, <2>5 DEF result
<1> QED
  BY <1>1, <1>2, <1>3, <1>4 DEF Newest

-----------------------------------------------------------------------------
(* What the scripts lock first *)

RefersToUsers(parts) == <<"user_id", "users">> \in parts \/ <<"created_by", "users">> \in parts

\* What the forms of the revisions are told apart by.
LEMMA FormShifts ==
    ASSUME NEW v \in Revision, NEW base \in Forms(v)
    PROVE  /\ IsView(base)
           /\ v = 0 <=> base["shifts"] = {}
           /\ v \in 0 .. 1 <=> Lacks(base["shifts"], "headcount")
           /\ v # 0 => RefersToUsers(base["shifts"])
           /\ v \in 0 .. 1 => Lacks(base["shifts"], "created_by")
           /\ v \notin 0 .. 1 => <<"created_by", "users">> \in base["shifts"]
           /\ v # 4 => base["attendance_records"] = {}
           /\ v = 4 => base["attendance_records"] = AttendanceTable
<1>d. /\ "shifts" \in Object
      /\ "attendance_records" \in Object \ {"users", "schedules", "shifts"}
  BY DEF Object, Table
<1>c. Column("headcount")[1] = "headcount" /\ "headcount" \in SecurityColumns
      /\ "created_by" \in SecurityColumns
  BY DEF Column, SecurityColumns
<1>1. CASE v = 0
  <2>1. base = Blank
    BY <1>1, FormContents
  <2> QED
    BY <1>1, <1>d, <2>1 DEF Blank, IsView, Lacks
<1>2. CASE v = 1
  <2>1. PICK parts \in Legacy : Holds(base, Users1, parts)
    BY <1>2, FormContents
  <2> QED
    BY <1>2, <1>c, <1>d, <2>1, ShiftsContents DEF Holds, Legacy, RefersToUsers
<1>3. ASSUME NEW parts \in Legacy
      PROVE  /\ SecuredShifts(parts) # {} /\ RefersToUsers(SecuredShifts(parts))
             /\ ~Lacks(SecuredShifts(parts), "headcount")
             /\ <<"created_by", "users">> \in SecuredShifts(parts)
  <2>1. <<"created_by", "users">> \in SecuredShifts(parts)
    BY DEF SecuredShifts, Widened, CreatedBy, Says
  <2> QED
    BY <1>c, <2>1, ShiftsContents DEF Legacy, Lacks, RefersToUsers
<1>4. CASE v = 2
  <2>1. PICK parts \in Legacy : Holds(base, Users2, SecuredShifts(parts))
    BY <1>4, FormContents
  <2> QED
    BY <1>3, <1>4, <1>d, <2>1 DEF Holds
<1>5. CASE v = 3
  <2>1. PICK parts \in Legacy : Holds(base, Users3, SecuredShifts(parts))
    BY <1>5, FormContents
  <2> QED
    BY <1>3, <1>5, <1>d, <2>1 DEF Holds
<1>6. CASE v = 4
  <2>1. Schema[3] \in Forms(3)
    BY DEF Forms
  <2>2. /\ base = Schema[4] /\ IsView(base) /\ base["shifts"] = ShiftsTable
        /\ base["attendance_records"] = AttendanceTable
    BY <1>6, <2>1, NewestContents, FormContents
  <2> QED
    BY <1>6, <1>c, <2>2, FourthScriptLeaves DEF Lacks, RefersToUsers
<1> QED
  BY <1>1, <1>2, <1>4, <1>5, <1>6 DEF Revision, Newest

\* A script begins as its first section does.
LEMMA SequenceFirst ==
    ASSUME NEW X, NEW s \in Seq(X), NEW t \in Seq(X), Len(s) # 0
    PROVE  s \o t \in Seq(X) /\ Len(s \o t) # 0 /\ (s \o t)[1] = s[1]
OBVIOUS

\* Every script has statements; the longest begin as their first sections do.
LEMMA ScriptLengths ==
    /\ \A r \in 1 .. Newest : Len(Up[r]) \in Nat \ {0} /\ Len(Down[r]) \in Nat \ {0}
    /\ Up[4][1] = DropTable("shifts")
    /\ Down[4][1] = DropTable("attendance_records")
    /\ Len(Down[1]) = 10
<1>1. Len(Up[1]) \in Nat \ {0} /\ Len(Down[1]) \in Nat \ {0} /\ Len(Down[1]) = 10
  BY DEF Up, Down, InitialSchema, DropInitialSchema
<1>2. Len(Up[2]) \in Nat \ {0} /\ Len(Down[2]) \in Nat \ {0}
  BY DEF Up, Down, AddSecurityColumns, DropSecurityColumns
<1>3. Len(Up[3]) \in Nat \ {0} /\ Len(Down[3]) \in Nat \ {0}
  BY DEF Up, Down, FixVersionDefault, RestoreVersionDefault
<1>4. Len(Up[4]) \in Nat \ {0} /\ Up[4][1] = DropTable("shifts")
  <2> DEFINE X == {RebuildShifts[i] : i \in 1 .. 4} \cup {CreateAssignments[i] : i \in 1 .. 3}
                  \cup {CreateAuditLogs[i] : i \in 1 .. 4}
                  \cup {CreateSwapRequests[i] : i \in 1 .. 4}
                  \cup {CreateAvailability[i] : i \in 1 .. 2}
                  \cup {CreateAttendance[i] : i \in 1 .. 4}
             Begins(s) == s \in Seq(X) /\ Len(s) # 0 /\ s[1] = RebuildShifts[1]
  <2>1. RebuildShifts \in Seq(X) /\ Len(RebuildShifts) # 0
    BY DEF RebuildShifts
  <2>2. CreateAssignments \in Seq(X)
    BY DEF CreateAssignments
  <2>3. CreateAuditLogs \in Seq(X)
    BY DEF CreateAuditLogs
  <2>4. CreateSwapRequests \in Seq(X)
    BY DEF CreateSwapRequests
  <2>5. CreateAvailability \in Seq(X)
    BY DEF CreateAvailability
  <2>6. CreateAttendance \in Seq(X)
    BY DEF CreateAttendance
  <2> HIDE DEF X
  <2>7. ASSUME NEW s, Begins(s), NEW t \in Seq(X) PROVE Begins(s \o t)
    BY <2>7, SequenceFirst
  <2>8. Begins(RebuildShifts)
    BY <2>1
  <2> HIDE DEF Begins
  <2>9. Begins(PersonTwoSchema)
    <3>1. Begins(RebuildShifts \o CreateAssignments)
      BY <2>2, <2>7, <2>8
    <3>2. Begins(RebuildShifts \o CreateAssignments \o CreateAuditLogs)
      BY <2>3, <2>7, <3>1
    <3>3. Begins(RebuildShifts \o CreateAssignments \o CreateAuditLogs \o CreateSwapRequests)
      BY <2>4, <2>7, <3>2
    <3>4. Begins(RebuildShifts \o CreateAssignments \o CreateAuditLogs \o CreateSwapRequests
                 \o CreateAvailability)
      BY <2>5, <2>7, <3>3
    <3> QED
      BY <2>6, <2>7, <3>4 DEF PersonTwoSchema
  <2>10. RebuildShifts[1] = DropTable("shifts")
    BY DEF RebuildShifts
  <2>11. Up[4] = PersonTwoSchema
    BY DEF Up
  <2> QED
    BY <2>9, <2>10, <2>11 DEF Begins
<1>5. Len(Down[4]) \in Nat \ {0} /\ Down[4][1] = DropTable("attendance_records")
  <2> DEFINE X == {DropPersonTwoTables[i] : i \in 1 .. 8}
                  \cup {RestoreLegacyShifts[i] : i \in 1 .. 2}
  <2>1. DropPersonTwoTables \in Seq(X) /\ Len(DropPersonTwoTables) # 0
    BY DEF DropPersonTwoTables
  <2>2. RestoreLegacyShifts \in Seq(X)
    BY DEF RestoreLegacyShifts
  <2> HIDE DEF X
  <2>3. /\ Down[4] \in Seq(X) /\ Len(Down[4]) # 0
        /\ Down[4][1] = DropPersonTwoTables[1]
    BY <2>1, <2>2, SequenceFirst DEF Down
  <2>4. DropPersonTwoTables[1] = DropTable("attendance_records")
    BY DEF DropPersonTwoTables
  <2> QED
    BY <2>3, <2>4
<1>6. \A r \in 1 .. Newest : r = 1 \/ r = 2 \/ r = 3 \/ r = 4
  BY DEF Newest
<1>7. \A r \in 1 .. Newest : Len(Up[r]) \in Nat \ {0}
  BY <1>1, <1>2, <1>3, <1>4, <1>6
<1>8. \A r \in 1 .. Newest : Len(Down[r]) \in Nat \ {0}
  BY <1>1, <1>2, <1>3, <1>5, <1>6
<1> QED
  BY <1>1, <1>4, <1>5, <1>7, <1>8

\* A statement locks the table it is about, and one that drops a table those the
\* table refers to.
LEMMA LocksOn ==
    ASSUME NEW view, NEW st
    PROVE  st.on \in Locks(view, st)
BY DEF Locks

LEMMA DropLocks ==
    ASSUME NEW view, NEW t, NEW c, NEW other \in Object, <<c, other>> \in view[t]
    PROVE  other \in Locks(view, DropTable(t))
<1>1. DropTable(t).kind = "drop" /\ DropTable(t).on = t
  BY DEF DropTable, Change
<1>2. Parts(view[t], DropTable(t)) = {}
  BY <1>1 DEF Parts
<1>3. other \in ReferredTo(view[t])
  BY DEF ReferredTo
<1>4. (view[t] \ {}) \cup ({} \ view[t]) = view[t]
  OBVIOUS
<1> QED
  BY <1>1, <1>2, <1>3 DEF Locks, ReferredTo

\* All scripts but one lock the users with their first statement, or have it refused.
LEMMA FirstLocks ==
    ASSUME NEW v \in Revision, NEW base \in Forms(v), NEW r \in 1 .. Newest
    PROVE  /\ Accepts(base, Up[r][1]) => "users" \in Locks(base, Up[r][1])
           /\ Accepts(base, Down[r][1]) /\ r # 1 => "users" \in Locks(base, Down[r][1])
           /\ Accepts(base, Down[1][1]) => RefersToUsers(base["shifts"])
<1>u. "users" \in Object
  BY DEF Object, Table
<1>1. Up[1][1].on = "users"
  BY DEF Up, InitialSchema, CreateTable, Change
<1>2. Up[2][1].on = "users"
  BY DEF Up, AddSecurityColumns, AddColumn, Change
<1>3. Up[3][1].on = "users"
  BY DEF Up, FixVersionDefault, AlterColumn, Change
<1>4. Accepts(base, Up[4][1]) => "users" \in Locks(base, Up[4][1])
  <2>1. Up[4][1].kind = "drop" /\ Up[4][1].on = "shifts"
    BY ScriptLengths DEF DropTable, Change
  <2>2. Accepts(base, Up[4][1]) => base["shifts"] # {}
    BY <2>1 DEF Accepts
  <2>3. base["shifts"] # {} => RefersToUsers(base["shifts"])
    BY FormShifts
  <2> QED
    BY <1>u, <2>2, <2>3, DropLocks, ScriptLengths DEF RefersToUsers
<1>5. Accepts(base, Down[2][1]) => "users" \in Locks(base, Down[2][1])
  <2> DEFINE st == DropColumn("shifts", "created_by")
  <2>1. st.kind = "alter" /\ st.on = "shifts" /\ st.old = {"created_by"} /\ st.new = {}
    BY DEF DropColumn, Change
  <2>2. Down[2][1] = st
    BY DEF Down, DropSecurityColumns
  <2> HIDE DEF st
  <2>3. Accepts(base, st) => ~Lacks(base["shifts"], "created_by")
    BY <2>1 DEF Accepts, NamesIn, Lacks
  <2>4. ~Lacks(base["shifts"], "created_by") => <<"created_by", "users">> \in base["shifts"]
    BY FormShifts
  <2>5. <<"created_by", "users">> \notin Parts(base["shifts"], st)
    BY <2>1 DEF Parts
  <2>6. ASSUME NEW p \in base["shifts"] \ Parts(base["shifts"], st), p[2] = "users"
        PROVE  "users" \in Locks(base, st)
    BY <1>u, <2>1, <2>6 DEF Locks, ReferredTo
  <2>7. <<"created_by", "users">>[2] = "users"
    OBVIOUS
  <2> QED
    BY <2>2, <2>3, <2>4, <2>5, <2>6, <2>7
<1>6. Down[3][1].on = "users"
  BY DEF Down, RestoreVersionDefault, AlterColumn, Change
<1>7. Accepts(base, Down[4][1]) => "users" \in Locks(base, Down[4][1])
  <2>1. Down[4][1].kind = "drop" /\ Down[4][1].on = "attendance_records"
    BY ScriptLengths DEF DropTable, Change
  <2>2. Accepts(base, Down[4][1]) => base["attendance_records"] # {}
    BY <2>1 DEF Accepts
  <2>3. base["attendance_records"] # {}
          => <<"staff_id", "users">> \in base["attendance_records"]
    BY FormShifts, FourthScriptLeaves
  <2> QED
    BY <1>u, <2>2, <2>3, DropLocks, ScriptLengths
<1>8. Accepts(base, Down[1][1]) => RefersToUsers(base["shifts"])
  <2>1. Down[1][1].kind = "alter" /\ Down[1][1].on = "shifts"
    BY DEF Down, DropInitialSchema, DropIndex, Change
  <2>2. Accepts(base, Down[1][1]) => base["shifts"] # {}
    BY <2>1 DEF Accepts
  <2> QED
    BY <2>2, FormShifts
<1>9. r = 1 \/ r = 2 \/ r = 3 \/ r = 4
  BY DEF Newest
<1> QED
  BY <1>1, <1>2, <1>3, <1>4, <1>5, <1>6, <1>7, <1>8, <1>9, LocksOn

\* That one, which removes the initial schema, drops three indices of the shifts
\* before it drops the table and locks the users.
LEMMA IndicesFirst ==
    /\ \A i \in 1 .. 3 : /\ Down[1][i].on = "shifts"
                         /\ \A parts : RefersToUsers(parts) =>
                                          RefersToUsers(Parts(parts, Down[1][i]))
    /\ \A view : RefersToUsers(view["shifts"]) => "users" \in Locks(view, Down[1][4])
<1>1. ASSUME NEW n, n \in {"ix_shifts_user_id", "ix_shifts_schedule_id", "ix_shifts_id"}
      PROVE  LET st == DropIndex(n, "shifts")
             IN  /\ st.on = "shifts"
                 /\ \A parts : RefersToUsers(parts) => RefersToUsers(Parts(parts, st))
  BY <1>1 DEF DropIndex, Change, Parts, RefersToUsers
<1>2. \A i \in 1 .. 3 : Down[1][i] \in {DropIndex("ix_shifts_user_id", "shifts"),
         DropIndex("ix_shifts_schedule_id", "shifts"), DropIndex("ix_shifts_id", "shifts")}
  BY DEF Down, DropInitialSchema
<1>3. Down[1][4] = DropTable("shifts")
  BY DEF Down, DropInitialSchema
<1>4. "users" \in Object
  BY DEF Object, Table
<1>5. \A view : RefersToUsers(view["shifts"]) => "users" \in Locks(view, Down[1][4])
  BY <1>3, <1>4, DropLocks DEF RefersToUsers
<1> QED
  BY <1>1, <1>2, <1>5
=================================================================================
