-------------------------- MODULE AvailabilityProofs --------------------------
(***************************************************************************)
(* Theorems about Availability for any number of clients and keys, any     *)
(* hours and any forms of a time.                                          *)
(***************************************************************************)
EXTENDS Availability, TLAPS

-----------------------------------------------------------------------------
(* What a step does to the request it belongs to *)

\* The request of c becomes q, and nobody else's changes.
Becomes(c, q) ==
    /\ req' \in [Client -> Request] /\ req'[c] = q
    /\ \A v \in Client \ {c} : req'[v] = req[v]

LEMMA RequestEffect ==
    ASSUME TypeOK, NEW c \in Client, NEW q \in Request, req' = [req EXCEPT ![c] = q]
    PROVE  Becomes(c, q)
BY DEF TypeOK, Becomes

LEMMA NoRequestType ==
    /\ NoRequest \in Request
    /\ NoRequest.pc = "idle" /\ NoRequest.duplicate = FALSE
BY DEF NoRequest, Request, Phase, Answer

\* Moved(c, phase): the request of c is in that phase, about what it was about.
Moved(c, phase) ==
    /\ req' \in [Client -> Request]
    /\ req'[c].pc = phase /\ req'[c].key = req[c].key
    /\ req'[c].window = req[c].window /\ req'[c].seen = req[c].seen
    /\ \A v \in Client \ {c} : req'[v] = req[v]

LEMMA RefuseEffect ==
    ASSUME TypeOK, NEW c \in Client, NEW status \in Answer, NEW duplicate \in BOOLEAN,
           Refuse(c, status, duplicate)
    PROVE  Moved(c, "answered") /\ req'[c].duplicate = duplicate /\ rows' = rows
<1> DEFINE q == [req[c] EXCEPT !.pc = "answered", !.answer = status, !.duplicate = duplicate]
<1>1. req[c] \in Request
  BY DEF TypeOK
<1>2. /\ q \in Request /\ q.pc = "answered" /\ q.key = req[c].key
      /\ q.window = req[c].window /\ q.seen = req[c].seen /\ q.duplicate = duplicate
  BY <1>1 DEF Request, Phase
<1>3. req' = [req EXCEPT ![c] = q] /\ rows' = rows
  BY DEF Refuse
<1> HIDE DEF q
<1> QED
  BY <1>2, <1>3, RequestEffect DEF Becomes, Moved

LEMMA AnswerEffect ==
    ASSUME TypeOK, NEW c \in Client, NEW status \in Answer,
           req' = [req EXCEPT ![c] = [@ EXCEPT !.pc = "answered", !.answer = status]]
    PROVE  Moved(c, "answered") /\ req'[c].duplicate = req[c].duplicate
<1> DEFINE q == [req[c] EXCEPT !.pc = "answered", !.answer = status]
<1>1. req[c] \in Request
  BY DEF TypeOK
<1>2. /\ q \in Request /\ q.pc = "answered" /\ q.key = req[c].key
      /\ q.window = req[c].window /\ q.seen = req[c].seen /\ q.duplicate = req[c].duplicate
  BY <1>1 DEF Request, Phase
<1>3. req' = [req EXCEPT ![c] = q]
  OBVIOUS
<1> HIDE DEF q
<1> QED
  BY <1>2, <1>3, RequestEffect DEF Becomes, Moved

LEMMA WrittenEffect ==
    ASSUME TypeOK, NEW c \in Client, req' = [req EXCEPT ![c].pc = "written"]
    PROVE  Moved(c, "written") /\ req'[c].duplicate = req[c].duplicate
<1> DEFINE q == [req[c] EXCEPT !.pc = "written"]
<1>1. req[c] \in Request
  BY DEF TypeOK
<1>2. /\ q \in Request /\ q.pc = "written" /\ q.key = req[c].key
      /\ q.window = req[c].window /\ q.seen = req[c].seen /\ q.duplicate = req[c].duplicate
  BY <1>1 DEF Request, Phase
<1>3. req' = [req EXCEPT ![c] = q]
  OBVIOUS
<1> HIDE DEF q
<1> QED
  BY <1>2, <1>3, RequestEffect DEF Becomes, Moved

LEMMA LoadEffect ==
    ASSUME TypeOK, NEW c \in Client, LoadRow(c), req[c].key \in Key
    PROVE  /\ req' \in [Client -> Request]
           /\ req'[c].pc = "loaded" /\ req'[c].key = req[c].key
           /\ req'[c].window = req[c].window /\ req'[c].seen = rows[req[c].key]
           /\ req'[c].duplicate = req[c].duplicate
           /\ \A v \in Client \ {c} : req'[v] = req[v]
<1> DEFINE q == [req[c] EXCEPT !.pc = "loaded", !.seen = rows[req[c].key]]
<1>1. req[c] \in Request /\ rows[req[c].key] \in Window \cup {NoWindow}
  BY DEF TypeOK
<1>2. /\ q \in Request /\ q.pc = "loaded" /\ q.key = req[c].key
      /\ q.window = req[c].window /\ q.seen = rows[req[c].key]
      /\ q.duplicate = req[c].duplicate
  BY <1>1 DEF Request, Phase
<1>3. req' = [req EXCEPT ![c] = q]
  BY DEF LoadRow
<1> HIDE DEF q
<1> QED
  BY <1>2, <1>3, RequestEffect DEF Becomes

\* An accepted body, or a refused one.
Arrived(c, k, start, end, open) ==
    /\ req' \in [Client -> Request]
    /\ \A v \in Client \ {c} : req'[v] = req[v]
    /\ req'[c].duplicate = FALSE
    /\ \/ /\ req'[c].pc = "received" /\ req'[c].key = k
          /\ req'[c].window = [start |-> start.hour, end |-> end.hour, open |-> open]
          /\ Judge(start, end) = "ok"
       \/ req'[c].pc = "answered"

LEMMA ReceiveEffect ==
    ASSUME TypeOK, NEW c \in Client, NEW k \in Key, NEW start \in RawTime, NEW end \in RawTime,
           NEW open \in BOOLEAN, Receive(c, k, start, end, open)
    PROVE  Arrived(c, k, start, end, open)
<1> DEFINE win == [start |-> start.hour, end |-> end.hour, open |-> open]
           q == [NoRequest EXCEPT !.pc = "received", !.key = k, !.window = win]
           p == [NoRequest EXCEPT !.pc = "answered", !.answer = Judge(start, end)]
<1>1. win \in Window
  BY DEF Window, RawTime
<1>2. q \in Request /\ q.pc = "received" /\ q.key = k /\ q.window = win /\ q.duplicate = FALSE
  BY <1>1 DEF Request, NoRequest, Phase, Answer
<1>3. CASE Judge(start, end) = "ok"
  <2>1. req' = [req EXCEPT ![c] = q]
    BY <1>3 DEF Receive
  <2> HIDE DEF q
  <2> QED
    BY <1>2, <1>3, <2>1, RequestEffect DEF Becomes, Arrived
<1>4. CASE Judge(start, end) # "ok"
  <2>1. Judge(start, end) \in Answer
    BY <1>4 DEF Judge, Answer
  <2>2. p \in Request /\ p.pc = "answered" /\ p.duplicate = FALSE
    BY <2>1 DEF Request, NoRequest, Phase
  <2>3. req' = [req EXCEPT ![c] = p]
    BY <1>4 DEF Receive
  <2> HIDE DEF p
  <2> QED
    BY <2>2, <2>3, RequestEffect DEF Becomes, Arrived
<1> QED
  BY <1>3, <1>4

-----------------------------------------------------------------------------
(* Type correctness, and rows that stay *)

LEMMA MergeType ==
    ASSUME NEW seen \in Window \cup {NoWindow}, NEW window \in Window,
           NEW row \in Window \cup {NoWindow}, seen # NoWindow => row # NoWindow
    PROVE  Merge(seen, window, row) \in Window
<1>1. CASE seen = NoWindow
  BY <1>1 DEF Merge
<1>2. CASE seen # NoWindow
  <2>1. row \in Window /\ seen \in Window
    BY <1>2
  <2> QED
    BY <1>2, <2>1 DEF Merge, Window
<1> QED
  BY <1>1, <1>2

\* What a request holds in each phase; a row that it has read, or that has refused
\* it, is still there.
Filled(c) ==
    /\ req[c].pc \in {"received", "loaded", "written"} =>
         req[c].key \in Key /\ req[c].window \in Window
    /\ req[c].pc \in {"loaded", "written"} /\ req[c].seen # NoWindow =>
         rows[req[c].key] # NoWindow
    /\ req[c].duplicate => req[c].key \in Key /\ rows[req[c].key] # NoWindow

TypeInv == TypeOK /\ \A c \in Client : Filled(c)

\* Rows are changed, never deleted.
RowsStay ==
    /\ rows' \in [Key -> Window \cup {NoWindow}]
    /\ \A k \in Key : rows[k] # NoWindow => rows'[k] # NoWindow

LEMMA NoWindowApart == NoWindow \notin Window
BY HourAssumption, NullAssumption DEF Window

\* The others keep what they hold.
LEMMA OthersFilled ==
    ASSUME TypeInv, RowsStay, NEW c \in Client, req' \in [Client -> Request], Filled(c)',
           \A v \in Client \ {c} : req'[v] = req[v]
    PROVE  TypeInv'
<1>1. ASSUME NEW v \in Client \ {c} PROVE Filled(v)'
  BY <1>1 DEF TypeInv, Filled, RowsStay
<1> QED
  BY <1>1 DEF TypeInv, TypeOK, RowsStay

LEMMA ApplyEffect ==
    ASSUME TypeInv, NEW c \in Client, At(c, "written"), Apply(c)
    PROVE  /\ RowsStay
           /\ req[c].key \in Key
           /\ rows'[req[c].key] = Merge(req[c].seen, req[c].window, rows[req[c].key])
           /\ \A k \in Key \ {req[c].key} : rows'[k] = rows[k]
<1> DEFINE k == req[c].key
<1>1. /\ k \in Key /\ req[c].window \in Window /\ req[c].seen \in Window \cup {NoWindow}
      /\ rows[k] \in Window \cup {NoWindow}
      /\ req[c].seen # NoWindow => rows[k] # NoWindow
      /\ rows \in [Key -> Window \cup {NoWindow}]
  <2>1. Filled(c) /\ req[c] \in Request
    BY DEF TypeInv, TypeOK
  <2> QED
    BY <2>1 DEF At, Filled, Request, TypeInv, TypeOK
<1>2. Merge(req[c].seen, req[c].window, rows[k]) \in Window
  BY <1>1, MergeType
<1>3. rows' = [rows EXCEPT ![k] = Merge(req[c].seen, req[c].window, rows[k])]
  BY <1>1 DEF Apply
<1> HIDE DEF k
<1>4. /\ rows'[k] = Merge(req[c].seen, req[c].window, rows[k])
      /\ \A j \in Key \ {k} : rows'[j] = rows[j]
      /\ rows' \in [Key -> Window \cup {NoWindow}]
  BY <1>1, <1>2, <1>3
<1>5. RowsStay
  BY <1>2, <1>4, NoWindowApart DEF RowsStay
<1> QED
  BY <1>1, <1>4, <1>5 DEF k

LEMMA TypeInit == Init => TypeInv
BY NoRequestType DEF Init, TypeInv, TypeOK, Filled

LEMMA TypeStep == TypeInv /\ [Next]_vars => TypeInv'
<1> SUFFICES ASSUME TypeInv, [Next]_vars PROVE TypeInv'
  OBVIOUS
<1>0. TypeOK /\ \A c \in Client : Filled(c)
  BY DEF TypeInv
<1>a. rows' = rows => RowsStay
  BY <1>0 DEF RowsStay, TypeOK
<1>b. ASSUME NEW c \in Client, NEW status \in Answer, Refuse(c, status, FALSE) PROVE TypeInv'
  <2>1. Moved(c, "answered") /\ req'[c].duplicate = FALSE /\ rows' = rows
    BY <1>0, <1>b, RefuseEffect
  <2>2. Filled(c)'
    BY <2>1 DEF Filled, Moved
  <2> QED
    BY <1>a, <2>1, <2>2, OthersFilled DEF Moved
<1>1. ASSUME NEW c \in Client, NEW k \in Key, NEW start \in RawTime, NEW end \in RawTime,
             NEW open \in BOOLEAN, Receive(c, k, start, end, open)
      PROVE  TypeInv'
  <2>0. Arrived(c, k, start, end, open)
    BY <1>0, <1>1, ReceiveEffect
  <2>1. [start |-> start.hour, end |-> end.hour, open |-> open] \in Window
    BY DEF Window, RawTime
  <2>2. Filled(c)'
    BY <2>0, <2>1 DEF Filled, Arrived
  <2>3. rows' = rows
    BY <1>1 DEF Receive
  <2> QED
    BY <1>a, <2>0, <2>2, <2>3, OthersFilled DEF Arrived
<1>2. ASSUME NEW c \in Client, LoadRow(c) PROVE TypeInv'
  <2>1. Filled(c) /\ At(c, "received") /\ rows' = rows
    BY <1>0, <1>2 DEF LoadRow
  <2>2. req[c].key \in Key /\ req[c].window \in Window
    BY <2>1 DEF Filled, At
  <2>3. Filled(c)'
    BY <1>0, <1>2, <2>1, <2>2, LoadEffect DEF Filled
  <2> QED
    BY <1>0, <1>2, <1>a, <2>1, <2>2, <2>3, LoadEffect, OthersFilled
<1>3. ASSUME NEW c \in Client, WriteRow(c) PROVE TypeInv'
  <2>1. Filled(c) /\ At(c, "loaded") /\ rows' = rows
    BY <1>0, <1>3 DEF WriteRow, Refuse
  <2>2. CASE req' = [req EXCEPT ![c].pc = "written"]
    <3>1. Moved(c, "written") /\ req'[c].duplicate = req[c].duplicate
      BY <1>0, <2>2, WrittenEffect
    <3>2. Filled(c)'
      BY <2>1, <3>1 DEF Filled, Moved, At
    <3> QED
      BY <1>a, <2>1, <3>1, <3>2, OthersFilled DEF Moved
  <2>3. CASE Refuse(c, "500", TRUE) /\ rows[req[c].key] # NoWindow
    <3>1. Moved(c, "answered") /\ req'[c].duplicate = TRUE
      BY <1>0, <2>3, RefuseEffect DEF Answer
    <3>2. Filled(c)'
      BY <2>1, <2>3, <3>1 DEF Filled, Moved, At
    <3> QED
      BY <1>a, <2>1, <3>1, <3>2, OthersFilled DEF Moved
  <2> QED
    BY <1>3, <2>2, <2>3 DEF WriteRow
<1>4. ASSUME NEW c \in Client, Commit(c) \/ CommitFails(c) PROVE TypeInv'
  <2>1. At(c, "written") /\ Apply(c) /\ Filled(c)
    BY <1>0, <1>4 DEF Commit, CommitFails
  <2>2. Moved(c, "answered") /\ req'[c].duplicate = req[c].duplicate
    BY <1>0, <1>4, AnswerEffect DEF Commit, CommitFails, Answer
  <2>3. RowsStay
    BY <2>1, ApplyEffect
  <2>4. Filled(c)'
    BY <2>1, <2>2, <2>3 DEF Filled, Moved, RowsStay
  <2> QED
    BY <2>2, <2>3, <2>4, OthersFilled DEF Moved
<1>5. ASSUME NEW c \in Client, Respond(c) PROVE TypeInv'
  <2>1. Becomes(c, NoRequest) /\ rows' = rows
    BY <1>0, <1>5, NoRequestType, RequestEffect DEF Respond
  <2>2. Filled(c)'
    BY <2>1, NoRequestType DEF Becomes, Filled
  <2> QED
    BY <1>a, <2>1, <2>2, OthersFilled DEF Becomes
<1>6. ASSUME NEW c \in Client, StatementFails(c) PROVE TypeInv'
  BY <1>b, <1>6 DEF StatementFails, Answer
<1>7. CASE Crash
  BY <1>0, <1>7, NoRequestType DEF Crash, TypeInv, TypeOK, Filled
<1>8. CASE UNCHANGED vars
  BY <1>0, <1>8 DEF vars, TypeInv, TypeOK, Filled
<1> QED
  BY <1>1, <1>2, <1>3, <1>4, <1>5, <1>6, <1>7, <1>8 DEF Next, Handle, Fail

\* The variables keep their types.
THEOREM TypeCorrect == Spec => []TypeOK
<1>1. TypeInv => TypeOK
  BY DEF TypeInv
<1> QED
  BY <1>1, TypeInit, TypeStep, PTL DEF Spec

\* Whoever is refused for a duplicate finds the row there.
THEOREM DuplicatesAreStored == Spec => []DuplicateIsStored
<1>1. TypeInv => DuplicateIsStored
  BY DEF TypeInv, Filled, DuplicateIsStored
<1> QED
  BY <1>1, TypeInit, TypeStep, PTL DEF Spec

-----------------------------------------------------------------------------
(* Windows are ordered where no two upserts of a key run together *)

Ordered(win) == win # NoWindow => win.start < win.end

\* From its query to its commit an upsert relies on the row as it has read it.
Upserting(c) == req[c].pc \in {"loaded", "written"}

\* No two requests rely on their copies of one row at the same time: the upserts of
\* a key run one after the other.  Nothing in the code sees to that.
PutsApart ==
    \A c, v \in Client : Upserting(c) /\ Upserting(v) /\ req[c].key = req[v].key => c = v

\* What a request has seen is what is stored, and its own window is ordered.
OrderInv ==
    /\ StoredWindowOrdered
    /\ \A c \in Client :
         /\ req[c].pc \in {"received", "loaded", "written"} => Ordered(req[c].window)
         /\ Upserting(c) => req[c].seen = rows[req[c].key]

\* One form of strings is compared as the times that they stand for.
LEMMA OneFormJudged ==
    ASSUME NEW f \in {"short", "long"}, Format = {f}, NEW start \in RawTime, NEW end \in RawTime,
           Judge(start, end) = "ok"
    PROVE  start.hour < end.hour
<1>1. start.format = f /\ end.format = f /\ start.hour \in Nat /\ end.hour \in Nat
  BY HourAssumption DEF RawTime
<1>2. ~NotAfter(end, start)
  BY <1>1 DEF Judge, Truthy, IsNumber
<1> QED
  BY <1>1, <1>2 DEF NotAfter

LEMMA MergeUnchanged ==
    ASSUME NEW seen \in Window \cup {NoWindow}, NEW window \in Window
    PROVE  LET row == Merge(seen, window, seen)
           IN  row.start = window.start /\ row.end = window.end
<1>1. CASE seen = NoWindow
  BY <1>1 DEF Merge
<1>2. CASE seen # NoWindow
  BY <1>2 DEF Merge, Window
<1> QED
  BY <1>1, <1>2

\* As long as the upserts of a key run one after the other, and bodies write times in
\* one form, every stored window starts before it ends, however the requests for
\* different keys interleave, fail or die: an unordered window needs two forms, or
\* two requests that hold a copy of one row together.
THEOREM PutsApartOrderWindows ==
    ASSUME NEW f \in {"short", "long"}, Format = {f}
    PROVE  Spec /\ []PutsApart => []StoredWindowOrdered
<1>1. Init => OrderInv
  BY NoRequestType DEF Init, OrderInv, StoredWindowOrdered, Upserting
<1>2. ASSUME TypeInv, PutsApart, OrderInv, [Next]_vars PROVE OrderInv'
  <2>0. TypeOK /\ \A c \in Client : Filled(c)
    BY <1>2 DEF TypeInv
  <2>1. ASSUME NEW c \in Client, NEW k \in Key, NEW start \in RawTime, NEW end \in RawTime,
               NEW open \in BOOLEAN, Receive(c, k, start, end, open)
        PROVE  OrderInv'
    <3>0. Arrived(c, k, start, end, open)
      BY <2>0, <2>1, ReceiveEffect
    <3>1. rows' = rows
      BY <2>1 DEF Receive
    <3>2. req'[c].pc = "received" => Ordered(req'[c].window)
      <4>1. ASSUME req'[c].pc = "received"
            PROVE  /\ req'[c].window = [start |-> start.hour, end |-> end.hour, open |-> open]
                   /\ start.hour < end.hour
        BY <3>0, <4>1, OneFormJudged DEF Arrived
      <4> QED
        BY <4>1 DEF Ordered
    <3>3. req'[c].pc \in {"received", "answered"}
      BY <3>0 DEF Arrived
    <3> QED
      BY <1>2, <3>0, <3>1, <3>2, <3>3 DEF OrderInv, StoredWindowOrdered, Upserting, Arrived
  <2>2. ASSUME NEW c \in Client, LoadRow(c) PROVE OrderInv'
    <3>1. At(c, "received") /\ rows' = rows /\ req[c].key \in Key
      BY <2>0, <2>2 DEF LoadRow, Filled, At
    <3> QED
      BY <1>2, <2>0, <2>2, <3>1, LoadEffect DEF OrderInv, StoredWindowOrdered, Upserting, At
  <2>3. ASSUME NEW c \in Client, WriteRow(c) PROVE OrderInv'
    <3>1. At(c, "loaded") /\ rows' = rows /\ (Moved(c, "written") \/ Moved(c, "answered"))
      BY <2>0, <2>3, WrittenEffect, RefuseEffect DEF WriteRow, Refuse, Answer
    <3> QED
      BY <1>2, <3>1 DEF OrderInv, StoredWindowOrdered, Upserting, Moved, At
  <2>4. ASSUME NEW c \in Client, Commit(c) \/ CommitFails(c) PROVE OrderInv'
    <3>1. At(c, "written") /\ Apply(c) /\ Moved(c, "answered")
      BY <2>0, <2>4, AnswerEffect DEF Commit, CommitFails, Answer
    <3>2. /\ req[c].seen = rows[req[c].key] /\ Ordered(req[c].window)
          /\ req[c].window \in Window /\ req[c].key \in Key
          /\ rows[req[c].key] \in Window \cup {NoWindow}
      BY <1>2, <2>0, <3>1 DEF OrderInv, Upserting, At, Filled, TypeOK
    <3>3. /\ rows'[req[c].key].start = req[c].window.start
          /\ rows'[req[c].key].end = req[c].window.end
          /\ req[c].window # NoWindow
      BY <1>2, <3>1, <3>2, ApplyEffect, MergeUnchanged, NoWindowApart
    <3>4. \A k \in Key \ {req[c].key} : rows'[k] = rows[k]
      BY <1>2, <3>1, ApplyEffect
    <3>5. StoredWindowOrdered'
      BY <1>2, <3>2, <3>3, <3>4 DEF OrderInv, StoredWindowOrdered, Ordered
    <3>6. ASSUME NEW v \in Client, Upserting(v)'
          PROVE  req'[v] = req[v] /\ req'[v].seen = rows'[req'[v].key]
      <4>1. v # c /\ req'[v] = req[v] /\ Upserting(v) /\ Upserting(c)
        BY <3>1, <3>6 DEF Moved, Upserting, At
      <4>2. req[v].key \in Key \ {req[c].key}
        BY <1>2, <2>0, <4>1 DEF PutsApart, Upserting, Filled
      <4> QED
        BY <1>2, <3>4, <4>1, <4>2 DEF OrderInv
    <3> QED
      BY <1>2, <3>1, <3>5, <3>6 DEF OrderInv, Moved
  <2>5. ASSUME NEW c \in Client, Respond(c) PROVE OrderInv'
    <3>1. Becomes(c, NoRequest) /\ rows' = rows
      BY <2>0, <2>5, NoRequestType, RequestEffect DEF Respond
    <3> QED
      BY <1>2, <3>1, NoRequestType DEF OrderInv, StoredWindowOrdered, Upserting, Becomes
  <2>6. ASSUME NEW c \in Client, StatementFails(c) PROVE OrderInv'
    <3>1. Moved(c, "answered") /\ rows' = rows
      BY <2>0, <2>6, RefuseEffect DEF StatementFails, Answer
    <3> QED
      BY <1>2, <3>1 DEF OrderInv, StoredWindowOrdered, Upserting, Moved
  <2>7. CASE Crash
    BY <1>2, <2>7, NoRequestType DEF Crash, OrderInv, StoredWindowOrdered, Upserting
  <2>8. CASE UNCHANGED vars
    BY <1>2, <2>8 DEF vars, OrderInv, StoredWindowOrdered, Upserting
  <2> QED
    BY <1>2, <2>1, <2>2, <2>3, <2>4, <2>5, <2>6, <2>7, <2>8 DEF Next, Handle, Fail
<1>3. OrderInv => StoredWindowOrdered
  BY DEF OrderInv
<1>4. TypeInv /\ PutsApart /\ OrderInv /\ [Next]_vars => OrderInv'
  BY <1>2
<1> QED
  BY <1>1, <1>3, <1>4, TypeInit, TypeStep, PTL DEF Spec
=============================================================================
