--------------------------- MODULE AttendanceProofs ---------------------------
(***************************************************************************)
(* Theorems about Attendance for any number of clients, connections,       *)
(* records and staff members and any bound on the clock.                   *)
(***************************************************************************)
EXTENDS Attendance, FiniteSetTheorems, TLAPS

-----------------------------------------------------------------------------
(* What a step does to the request it belongs to *)

\* The request of c becomes q, and nobody else's changes.
Becomes(c, q) == req'[c] = q /\ \A v \in Client \ {c} : req'[v] = req[v]

LEMMA RequestEffect ==
    ASSUME TypeOK, NEW c \in Client, NEW q \in Request, req' = [req EXCEPT ![c] = q]
    PROVE  req' \in [Client -> Request] /\ Becomes(c, q)
BY DEF TypeOK, Becomes

\* Moved(c, phase, stamp): the request of c is in that phase with that time, and
\* otherwise about the same.
Moved(c, phase, stamp) ==
    /\ req' \in [Client -> Request]
    /\ req'[c].pc = phase /\ req'[c].stamp = stamp
    /\ req'[c].op = req[c].op /\ req'[c].record = req[c].record
    /\ req'[c].staff = req[c].staff
    /\ \A v \in Client \ {c} : req'[v] = req[v]

LEMMA GotoEffect ==
    ASSUME TypeOK, NEW c \in Client, NEW phase \in Phase, Goto(c, phase)
    PROVE  Moved(c, phase, req[c].stamp)
<1> DEFINE q == [req[c] EXCEPT !.pc = phase]
<1>1. req[c] \in Request
  BY DEF TypeOK
<1>2. /\ q \in Request /\ q.pc = phase /\ q.op = req[c].op /\ q.record = req[c].record
      /\ q.staff = req[c].staff /\ q.stamp = req[c].stamp
  BY <1>1 DEF Request
<1>3. req' = [req EXCEPT ![c] = q]
  BY DEF Goto
<1> HIDE DEF q
<1> QED
  BY <1>2, <1>3, RequestEffect DEF Becomes, Moved

LEMMA AnswerEffect ==
    ASSUME TypeOK, NEW c \in Client, NEW status \in Answer,
           req' = [req EXCEPT ![c] = [@ EXCEPT !.pc = "answered", !.answer = status]]
    PROVE  Moved(c, "answered", req[c].stamp)
<1> DEFINE q == [req[c] EXCEPT !.pc = "answered", !.answer = status]
<1>1. req[c] \in Request
  BY DEF TypeOK
<1>2. /\ q \in Request /\ q.pc = "answered" /\ q.op = req[c].op /\ q.record = req[c].record
      /\ q.staff = req[c].staff /\ q.stamp = req[c].stamp
  BY <1>1 DEF Request, Phase
<1>3. req' = [req EXCEPT ![c] = q]
  OBVIOUS
<1> HIDE DEF q
<1> QED
  BY <1>2, <1>3, RequestEffect DEF Becomes, Moved

LEMMA StampEffect ==
    ASSUME TypeOK, NEW c \in Client, TakeStamp(c)
    PROVE  Moved(c, "stamped", now)
<1> DEFINE q == [req[c] EXCEPT !.pc = "stamped", !.stamp = now]
<1>1. req[c] \in Request /\ now \in Stamp
  BY DEF TypeOK, Stamp
<1>2. /\ q \in Request /\ q.pc = "stamped" /\ q.op = req[c].op /\ q.record = req[c].record
      /\ q.staff = req[c].staff /\ q.stamp = now
  BY <1>1 DEF Request, Phase
<1>3. req' = [req EXCEPT ![c] = q]
  BY DEF TakeStamp
<1> HIDE DEF q
<1> QED
  BY <1>2, <1>3, RequestEffect DEF Becomes, Moved

\* A request that arrives.
Arrived(c, op, r, u) ==
    /\ req' \in [Client -> Request]
    /\ req'[c].pc = "received" /\ req'[c].stamp = NoTime
    /\ req'[c].op = op /\ req'[c].record = r /\ req'[c].staff = u
    /\ \A v \in Client \ {c} : req'[v] = req[v]

LEMMA NoRequestType == NoRequest \in Request /\ NoRequest.pc = "idle" /\ NoRequest.op = "none"
BY DEF NoRequest, Request, Phase, Answer, Stamp

LEMMA ClockInArrives ==
    ASSUME TypeOK, NEW c \in Client, NEW r \in Record, NEW u \in Staff, NEW known \in BOOLEAN,
           ReceiveClockIn(c, r, u, known)
    PROVE  Arrived(c, "in", r, u)
<1> DEFINE q == [NoRequest EXCEPT !.pc = "received", !.op = "in", !.record = r, !.staff = u,
                                  !.knownShift = known]
<1>1. /\ q \in Request /\ q.pc = "received" /\ q.op = "in" /\ q.record = r /\ q.staff = u
      /\ q.stamp = NoTime
  BY DEF NoRequest, Request, Phase, Answer, Stamp
<1>2. req' = [req EXCEPT ![c] = q]
  BY DEF ReceiveClockIn
<1> HIDE DEF q
<1> QED
  BY <1>1, <1>2, RequestEffect DEF Becomes, Arrived

LEMMA ClockOutArrives ==
    ASSUME TypeOK, NEW c \in Client, NEW r \in Record, NEW u \in Staff,
           ReceiveClockOut(c, r, u)
    PROVE  Arrived(c, "out", r, u)
<1> DEFINE q == [NoRequest EXCEPT !.pc = "received", !.op = "out", !.record = r, !.staff = u]
<1>1. /\ q \in Request /\ q.pc = "received" /\ q.op = "out" /\ q.record = r /\ q.staff = u
      /\ q.stamp = NoTime
  BY DEF NoRequest, Request, Phase, Answer, Stamp
<1>2. req' = [req EXCEPT ![c] = q]
  BY DEF ReceiveClockOut
<1> HIDE DEF q
<1> QED
  BY <1>1, <1>2, RequestEffect DEF Becomes, Arrived

LEMMA CommitAnswers ==
    ASSUME TypeOK, NEW c \in Client, Commit(c)
    PROVE  Moved(c, "answered", req[c].stamp)
<1> DEFINE status == IF req[c].op = "in" THEN "201" ELSE "200"
<1>1. status \in Answer
  BY DEF Answer
<1>2. req' = [req EXCEPT ![c] = [@ EXCEPT !.pc = "answered", !.answer = status]]
  BY DEF Commit
<1> HIDE DEF status
<1> QED
  BY <1>1, <1>2, AnswerEffect

-----------------------------------------------------------------------------
(* The kinds of steps: what the invariants need to know of an action *)

\* The handler goes on, or ends with an exception: no row changes.
Advances(c) ==
    /\ UNCHANGED <<records, closings, now>>
    /\ \/ /\ At(c, "received") /\ req[c].op = "in" /\ Open(req[c].staff) = {}
          /\ Moved(c, "checked", req[c].stamp)
       \/ /\ At(c, "received") /\ req[c].op = "out"
          /\ records[req[c].record].staff = req[c].staff
          /\ records[req[c].record].clockOut = NoTime
          /\ Moved(c, "checked", req[c].stamp)
       \/ At(c, "checked") /\ Moved(c, "stamped", now)
       \/ At(c, "stamped") /\ Moved(c, "written", req[c].stamp)
       \/ ~At(c, "idle") /\ Moved(c, "answered", req[c].stamp)

Finishes(c) ==
    /\ At(c, "written") /\ Apply(c) /\ UNCHANGED now
    /\ Moved(c, "answered", req[c].stamp)

Arrives(c) ==
    /\ At(c, "idle")
    /\ ConnectionIsFree
    /\ UNCHANGED <<records, closings, now>>
    /\ \E r \in Record, u \in Staff :
         \/ /\ Arrived(c, "in", r, u)
            /\ records[r].staff = Nobody
            /\ \A v \in Client : req[v].op = "in" => req[v].record # r
         \/ Arrived(c, "out", r, u)

\* Requests end: those whose request changes are gone.
Vanish ==
    /\ UNCHANGED <<records, closings, now>>
    /\ req' \in [Client -> Request]
    /\ \A c \in Client : req'[c] \in {req[c], NoRequest}

LEMMA StepKinds ==
    ASSUME TypeOK, [Next]_vars
    PROVE  \/ \E c \in Client : Advances(c) \/ Finishes(c) \/ Arrives(c)
           \/ Vanish
           \/ Tick
<1>a. ASSUME NEW c \in Client, NEW status \in Answer, ~At(c, "idle"), Refuse(c, status)
      PROVE  Advances(c)
  BY <1>a, AnswerEffect DEF Refuse, Advances
<1>1. ASSUME NEW c \in Client, Receive(c) PROVE Arrives(c)
  <2>0. ConnectionIsFree
    BY <1>1 DEF Receive
  <2>1. CASE \E r \in Record, u \in Staff, known \in BOOLEAN : ReceiveClockIn(c, r, u, known)
    BY <2>0, <2>1, ClockInArrives DEF ReceiveClockIn, Arrives
  <2>2. CASE \E r \in Record, u \in Staff : ReceiveClockOut(c, r, u)
    BY <2>0, <2>2, ClockOutArrives DEF ReceiveClockOut, Arrives
  <2> QED
    BY <1>1, <2>1, <2>2 DEF Receive
<1>2. ASSUME NEW c \in Client, CheckOpenSession(c) PROVE Advances(c)
  <2>1. CASE Open(req[c].staff) = {}
    BY <1>2, <2>1, GotoEffect DEF CheckOpenSession, Goto, Advances, Phase
  <2>2. CASE Open(req[c].staff) # {}
    BY <1>2, <2>2, <1>a DEF CheckOpenSession, At, Answer
  <2> QED
    BY <2>1, <2>2
<1>3. ASSUME NEW c \in Client, LoadRecord(c) PROVE Advances(c)
  <2> DEFINE found == /\ records[req[c].record].staff = req[c].staff
                      /\ records[req[c].record].clockOut = NoTime
  <2>1. CASE found
    BY <1>3, <2>1, GotoEffect DEF LoadRecord, Goto, Advances, Phase
  <2>2. CASE ~found
    BY <1>3, <2>2, <1>a DEF LoadRecord, At, Answer
  <2> QED
    BY <2>1, <2>2
<1>4. ASSUME NEW c \in Client, TakeStamp(c) PROVE Advances(c)
  BY <1>4, StampEffect DEF TakeStamp, Advances
<1>5. ASSUME NEW c \in Client, InsertRecord(c) \/ UpdateRecord(c) PROVE Advances(c)
  <2>1. CASE Goto(c, "written")
    BY <1>5, <2>1, GotoEffect DEF InsertRecord, UpdateRecord, Goto, Advances, Phase
  <2>2. CASE Refuse(c, "500")
    BY <1>5, <2>2, <1>a DEF InsertRecord, UpdateRecord, At, Answer
  <2> QED
    BY <1>5, <2>1, <2>2 DEF InsertRecord, UpdateRecord
<1>6. ASSUME NEW c \in Client, Commit(c) \/ CommitFails(c) PROVE Finishes(c)
  BY <1>6, CommitAnswers, AnswerEffect DEF Commit, CommitFails, Finishes, Answer
<1>7. ASSUME NEW c \in Client, StatementFails(c) PROVE Advances(c)
  BY <1>7, <1>a DEF StatementFails, At, Answer
<1>8. ASSUME NEW c \in Client, Respond(c) PROVE Vanish
  <2>1. req' \in [Client -> Request] /\ Becomes(c, NoRequest)
    BY <1>8, NoRequestType, RequestEffect DEF Respond
  <2> QED
    BY <1>8, <2>1 DEF Respond, Becomes, Vanish
<1>9. CASE Crash
  BY <1>9, NoRequestType DEF Crash, Vanish
<1>10. CASE UNCHANGED vars
  BY <1>10 DEF vars, Vanish, TypeOK
<1> QED
  BY <1>1, <1>2, <1>3, <1>4, <1>5, <1>6, <1>7, <1>8, <1>9, <1>10 DEF Next, Handle, Fail

-----------------------------------------------------------------------------
(* Type correctness, with what a request holds in each phase and what a row does *)

Past(c) == req[c].pc \in {"checked", "stamped", "written"}

Filled(c) ==
    /\ req[c].pc = "idle" => req[c].op = "none"
    /\ req[c].pc # "idle" => /\ req[c].op \in {"in", "out"}
                             /\ req[c].record \in Record /\ req[c].staff \in Staff
    /\ req[c].pc \in {"received", "checked"} => req[c].stamp = NoTime
    /\ req[c].pc \in {"stamped", "written"} => req[c].stamp \in Clock /\ req[c].stamp <= now
    /\ req[c].op = "in" /\ req[c].pc # "answered" => records[req[c].record].staff = Nobody
    /\ req[c].op = "out" /\ Past(c) =>
         /\ records[req[c].record].staff = req[c].staff
         /\ ~At(c, "checked") => records[req[c].record].clockIn <= req[c].stamp

\* A record that exists ends after it begins, and is open until it has been closed.
RowFilled(r) ==
    /\ records[r].staff \in Staff =>
         /\ records[r].clockIn \in Clock /\ records[r].clockIn <= now
         /\ records[r].clockOut # NoTime =>
              /\ records[r].clockOut \in Clock
              /\ records[r].clockIn <= records[r].clockOut /\ records[r].clockOut <= now
    /\ records[r].clockOut = NoTime => closings[r] = 0

\* No two clock-ins have drawn the same id.
FreshIds ==
    \A v, c \in Client :
        req[v].op = "in" /\ req[c].op = "in" /\ req[v].record = req[c].record => v = c

TypeInv ==
    /\ TypeOK
    /\ \A c \in Client : Filled(c)
    /\ \A r \in Record : RowFilled(r)
    /\ FreshIds

LEMMA RowType ==
    ASSUME NEW row \in Row
    PROVE  /\ row.staff \in Staff \cup {Nobody} /\ row.clockIn \in Stamp /\ row.clockOut \in Stamp
           /\ row.staff = Nobody => row = AbsentRow
           /\ row.staff # Nobody => row.clockIn \in Clock
BY NullAssumption DEF Row, AbsentRow, Stamp

LEMMA ClockType == Clock \subseteq Int /\ NoTime \notin Clock
BY TimeAssumption, NullAssumption DEF Clock

LEMMA TypeInit == Init => TypeInv
<1> SUFFICES ASSUME Init PROVE TypeInv
  OBVIOUS
<1>1. TypeOK
  BY NoRequestType, TimeAssumption DEF Init, TypeOK, Row, Clock
<1>2. \A c \in Client : Filled(c)
  BY NoRequestType DEF Init, Filled, Past, At
<1>3. \A r \in Record : RowFilled(r)
  BY NullAssumption DEF Init, RowFilled, AbsentRow
<1>4. FreshIds
  BY NoRequestType DEF Init, FreshIds
<1> QED
  BY <1>1, <1>2, <1>3, <1>4 DEF TypeInv

\* What a commit makes of the row.
LEMMA ApplyEffect ==
    ASSUME TypeInv, NEW c \in Client, At(c, "written"), Apply(c)
    PROVE  LET r == req[c].record IN
           /\ records' \in [Record -> Row] /\ closings' \in [Record -> Nat]
           /\ r \in Record /\ records'[r].staff = req[c].staff
           /\ \A s \in Record \ {r} : records'[s] = records[s] /\ closings'[s] = closings[s]
           /\ req[c].op = "in" =>
                /\ records'[r].clockIn = req[c].stamp /\ records'[r].clockOut = NoTime
                /\ closings'[r] = closings[r]
           /\ req[c].op = "out" =>
                /\ records'[r].clockIn = records[r].clockIn
                /\ records'[r].clockOut = req[c].stamp
                /\ closings'[r] = closings[r] + 1
<1> DEFINE r == req[c].record
<1>1. /\ r \in Record /\ req[c].staff \in Staff /\ req[c].stamp \in Clock
      /\ req[c].op \in {"in", "out"}
      /\ req[c].op = "out" => records[r].staff = req[c].staff
  BY DEF TypeInv, Filled, At, Past
<1>2. records \in [Record -> Row] /\ closings \in [Record -> Nat]
  BY DEF TypeInv, TypeOK
<1>3. CASE req[c].op = "in"
  <2> DEFINE row == [staff |-> req[c].staff, clockIn |-> req[c].stamp, clockOut |-> NoTime]
  <2>1. row \in Row /\ row.staff = req[c].staff /\ row.clockIn = req[c].stamp
        /\ row.clockOut = NoTime
    BY <1>1 DEF Row, Stamp
  <2>2. records' = [records EXCEPT ![r] = row] /\ closings' = closings
    BY <1>3 DEF Apply
  <2> HIDE DEF row
  <2> QED
    BY <1>1, <1>2, <1>3, <2>1, <2>2
<1>4. CASE req[c].op = "out"
  <2> DEFINE row == [records[r] EXCEPT !.clockOut = req[c].stamp]
  <2>1. records[r] \in [staff : Staff, clockIn : Clock, clockOut : Stamp]
    BY <1>1, <1>2, <1>4, NullAssumption DEF Row, AbsentRow
  <2>2. row \in Row /\ row.staff = req[c].staff /\ row.clockIn = records[r].clockIn
        /\ row.clockOut = req[c].stamp
    BY <1>1, <1>4, <2>1 DEF Row, Stamp
  <2>3. /\ records' = [records EXCEPT ![r] = row]
        /\ closings' = [closings EXCEPT ![r] = @ + 1]
    BY <1>4 DEF Apply
  <2> HIDE DEF row
  <2> QED
    BY <1>1, <1>2, <1>4, <2>2, <2>3
<1> QED
  BY <1>1, <1>3, <1>4

LEMMA TypeStep == TypeInv /\ [Next]_vars => TypeInv'
<1> SUFFICES ASSUME TypeInv, [Next]_vars PROVE TypeInv'
  OBVIOUS
<1> USE ClockType
<1>1. TypeOK
  BY DEF TypeInv
<1>2. ASSUME NEW c \in Client, Advances(c) PROVE TypeInv'
  <2>1. /\ UNCHANGED <<records, closings, now>>
        /\ \A v \in Client \ {c} : req'[v] = req[v]
        /\ req' \in [Client -> Request]
    BY <1>2 DEF Advances, Moved
  <2>2. Filled(c)' /\ req'[c].op = req[c].op /\ req'[c].record = req[c].record
    <3>1. Filled(c) /\ now \in Clock
      BY DEF TypeInv, TypeOK
    <3>2. \A r \in Record : records[r].staff \in Staff => records[r].clockIn <= now
      BY DEF TypeInv, RowFilled
    <3>3. ~At(c, "idle")
      BY <1>2 DEF Advances, At
    <3>4. /\ req[c].op \in {"in", "out"} /\ req[c].record \in Record /\ req[c].staff \in Staff
          /\ req'[c].op = req[c].op /\ req'[c].record = req[c].record
          /\ req'[c].staff = req[c].staff /\ now \in Int
      BY <1>2, <3>1, <3>3 DEF Advances, Moved, Filled, At
    <3>5. CASE At(c, "received") /\ Moved(c, "checked", req[c].stamp)
               /\ (req[c].op = "out" => records[req[c].record].staff = req[c].staff)
      BY <2>1, <3>1, <3>4, <3>5 DEF Moved, Filled, At, Past
    <3>6. CASE At(c, "checked") /\ Moved(c, "stamped", now)
      BY <2>1, <3>1, <3>2, <3>4, <3>6 DEF Moved, Filled, At, Past
    <3>7. CASE At(c, "stamped") /\ Moved(c, "written", req[c].stamp)
      BY <2>1, <3>1, <3>4, <3>7 DEF Moved, Filled, At, Past
    <3>8. CASE Moved(c, "answered", req[c].stamp)
      BY <2>1, <3>1, <3>4, <3>8 DEF Moved, Filled, At, Past
    <3>9. req[c].op = "in" => req[c].op # "out"
      OBVIOUS
    <3> QED
      BY <1>2, <3>4, <3>5, <3>6, <3>7, <3>8, <3>9 DEF Advances
  <2>3. \A v \in Client : Filled(v)'
    BY <2>1, <2>2 DEF TypeInv, Filled, At, Past
  <2>4. FreshIds'
    BY <2>1, <2>2 DEF TypeInv, FreshIds
  <2> QED
    BY <2>1, <2>3, <2>4 DEF TypeInv, TypeOK, RowFilled
<1>3. ASSUME NEW c \in Client, Finishes(c) PROVE TypeInv'
  <2>r. PICK r \in Record : r = req[c].record
    BY <1>3 DEF Finishes, At, TypeInv, Filled
  <2>1. /\ At(c, "written") /\ Filled(c) /\ Apply(c) /\ now' = now /\ now \in Clock
        /\ Moved(c, "answered", req[c].stamp)
    BY <1>3 DEF Finishes, TypeInv, TypeOK
  <2>a. /\ records' \in [Record -> Row] /\ closings' \in [Record -> Nat]
        /\ records'[r].staff = req[c].staff
        /\ \A s \in Record \ {r} : records'[s] = records[s] /\ closings'[s] = closings[s]
        /\ req[c].op = "in" => /\ records'[r].clockIn = req[c].stamp
                               /\ records'[r].clockOut = NoTime /\ closings'[r] = closings[r]
        /\ req[c].op = "out" => /\ records'[r].clockIn = records[r].clockIn
                                /\ records'[r].clockOut = req[c].stamp
    BY <2>r, <2>1, ApplyEffect
  <2>b. /\ req[c].stamp \in Clock /\ req[c].stamp <= now
        /\ req[c].op = "in" => records[r].staff = Nobody
        /\ req[c].op = "out" => records[r].staff = req[c].staff
                                /\ records[r].clockIn <= req[c].stamp
        /\ req[c].op \in {"in", "out"} /\ req[c].staff \in Staff
    BY <2>r, <2>1 DEF Filled, At, Past
  <2>2. TypeOK'
    BY <2>1, <2>a DEF TypeOK, Moved
  <2>3. \A s \in Record : RowFilled(s)'
    <3>1. RowFilled(r)'
      <4>1. CASE req[c].op = "in"
        <5>1. records[r] \in Row
          BY DEF TypeInv, TypeOK
        <5>2. records[r] = AbsentRow
          BY <2>b, <4>1, <5>1, RowType
        <5>3. closings[r] = 0
          BY <5>2 DEF TypeInv, RowFilled, AbsentRow
        <5> QED
          BY <2>1, <2>a, <2>b, <4>1, <5>3 DEF RowFilled
      <4>2. CASE req[c].op = "out"
        <5>1. records[r].clockIn \in Clock
          BY <2>b, <4>2 DEF TypeInv, RowFilled
        <5>2. records[r].clockIn \in Int /\ req[c].stamp \in Int /\ now \in Int
              /\ req[c].stamp # NoTime
          BY <2>1, <2>b, <5>1
        <5>3. records'[r].clockIn = records[r].clockIn /\ records'[r].clockOut = req[c].stamp
              /\ now' = now /\ records[r].clockIn <= req[c].stamp
          BY <2>1, <2>a, <2>b, <4>2
        <5>4. records[r].clockIn <= now
          BY <2>b, <5>2, <5>3
        <5> QED
          BY <2>b, <5>1, <5>2, <5>3, <5>4 DEF RowFilled
      <4> QED
        BY <2>b, <4>1, <4>2
    <3>2. \A s \in Record \ {r} : RowFilled(s)'
      BY <2>1, <2>a DEF TypeInv, RowFilled
    <3> QED
      BY <3>1, <3>2
  <2>4. \A v \in Client : Filled(v)'
    <3>1. Filled(c)'
      BY <2>1 DEF Filled, Moved, At, Past
    <3>2. ASSUME NEW v \in Client \ {c} PROVE Filled(v)'
      <4>1. req'[v] = req[v] /\ Filled(v)
        BY <2>1 DEF Moved, TypeInv
      <4>2. req[v].op = "in" /\ req[v].pc # "answered" => records'[req[v].record].staff = Nobody
        <5>1. ASSUME req[v].op = "in", req[v].pc # "answered"
              PROVE  req[v].record \in Record \ {r} /\ records[req[v].record].staff = Nobody
          <6>1. req[v].record \in Record /\ records[req[v].record].staff = Nobody
            BY <4>1, <5>1 DEF Filled
          <6>2. CASE req[c].op = "in"
            BY <2>r, <5>1, <6>1, <6>2 DEF TypeInv, FreshIds
          <6>3. CASE req[c].op = "out"
            BY <2>b, <6>1, <6>3, NullAssumption
          <6> QED
            BY <2>b, <6>2, <6>3
        <5> QED
          BY <2>a, <5>1
      <4>3. req[v].op = "out" /\ Past(v) =>
              /\ records'[req[v].record].staff = req[v].staff
              /\ records'[req[v].record].clockIn = records[req[v].record].clockIn
        <5>1. CASE req[v].record = r
          <6>1. ASSUME req[v].op = "out", Past(v) PROVE req[c].op = "out"
            BY <2>b, <4>1, <5>1, <6>1, NullAssumption DEF Filled, At, Past
          <6> QED
            BY <2>a, <2>b, <4>1, <5>1, <6>1 DEF Filled, At, Past
        <5>2. CASE req[v].record # r
          BY <2>a, <4>1, <5>2 DEF Filled, Past
        <5> QED
          BY <5>1, <5>2
      <4> QED
        BY <2>1, <4>1, <4>2, <4>3 DEF Filled, At, Past
    <3> QED
      BY <3>1, <3>2
  <2>5. FreshIds'
    BY <2>1 DEF TypeInv, FreshIds, Moved
  <2> QED
    BY <2>2, <2>3, <2>4, <2>5 DEF TypeInv
<1>4. ASSUME NEW c \in Client, Arrives(c) PROVE TypeInv'
  <2>1. PICK r \in Record, u \in Staff :
          \/ /\ Arrived(c, "in", r, u)
             /\ records[r].staff = Nobody
             /\ \A v \in Client : req[v].op = "in" => req[v].record # r
          \/ Arrived(c, "out", r, u)
    BY <1>4 DEF Arrives
  <2>2. /\ UNCHANGED <<records, closings, now>>
        /\ \A v \in Client \ {c} : req'[v] = req[v]
        /\ req' \in [Client -> Request]
    BY <1>4, <2>1 DEF Arrives, Arrived
  <2>3. Filled(c)'
    BY <2>1, <2>2 DEF Arrived, Filled, At, Past
  <2>4. \A v \in Client : Filled(v)'
    BY <2>2, <2>3 DEF TypeInv, Filled, At, Past
  <2>5. FreshIds'
    BY <2>1, <2>2 DEF TypeInv, FreshIds, Arrived
  <2> QED
    BY <2>2, <2>4, <2>5 DEF TypeInv, TypeOK, RowFilled
<1>5. CASE Vanish
  <2>1. \A v \in Client : Filled(v)'
    BY <1>5, NoRequestType DEF Vanish, TypeInv, Filled, At, Past
  <2>2. FreshIds'
    BY <1>5, NoRequestType DEF Vanish, TypeInv, FreshIds
  <2> QED
    BY <1>5, <2>1, <2>2 DEF Vanish, TypeInv, TypeOK, RowFilled
<1>6. CASE Tick
  <2>1. now \in Clock /\ now' = now + 1 /\ now' \in Clock /\ UNCHANGED <<records, closings, req>>
    BY <1>6, TimeAssumption DEF Tick, TypeInv, TypeOK, Clock
  <2>2. \A t \in Clock : t <= now => t <= now'
    BY <2>1
  <2>3. ASSUME NEW v \in Client PROVE Filled(v)'
    <3>1. Filled(v)
      BY DEF TypeInv
    <3> QED
      BY <2>1, <2>2, <3>1 DEF Filled, At, Past
  <2>4. ASSUME NEW r \in Record PROVE RowFilled(r)'
    <3>1. RowFilled(r)
      BY DEF TypeInv
    <3> QED
      BY <2>1, <2>2, <3>1 DEF RowFilled
  <2> QED
    BY <2>1, <2>3, <2>4 DEF TypeInv, TypeOK, FreshIds
<1> QED
  BY <1>1, <1>2, <1>3, <1>4, <1>5, <1>6, StepKinds

\* The variables keep their types.
THEOREM TypeCorrect == Spec => []TypeOK
<1>1. TypeInv => TypeOK
  BY DEF TypeInv
<1> QED
  BY <1>1, TypeInit, TypeStep, PTL DEF Spec

-----------------------------------------------------------------------------
(* The pool *)

\* The requests with a connection are no more than the pool has connections.
PoolInv == IsFiniteSet(Connected) /\ Cardinality(Connected) <= PoolSize

\* Nobody has a connection to begin with.
LEMMA PoolInit == Init => PoolInv
<1> SUFFICES ASSUME Init PROVE PoolInv
  OBVIOUS
<1>1. Connected = {}
  BY NoRequestType DEF Init, Connected
<1> QED
  BY <1>1, FS_EmptySet, PoolAssumption DEF PoolInv

\* A part of what is within the pool is within the pool.
LEMMA PartBound ==
    ASSUME NEW A, NEW B, A \subseteq B, IsFiniteSet(B), Cardinality(B) <= PoolSize
    PROVE  IsFiniteSet(A) /\ Cardinality(A) <= PoolSize
<1>1. A \in SUBSET B
  OBVIOUS
<1>2. IsFiniteSet(A) /\ Cardinality(A) <= Cardinality(B)
  BY <1>1, FS_Subset
<1>3. Cardinality(A) \in Nat /\ Cardinality(B) \in Nat /\ PoolSize \in Nat
  BY <1>2, PoolAssumption, FS_CardinalityType
<1> QED
  BY <1>2, <1>3

\* Only a request that arrives takes a connection, and it has waited for one.
LEMMA PoolStep == TypeInv /\ PoolInv /\ [Next]_vars => PoolInv'
<1> SUFFICES ASSUME TypeInv, PoolInv, [Next]_vars PROVE PoolInv'
  OBVIOUS
<1>1. ASSUME Connected' \subseteq Connected
      PROVE  PoolInv'
  BY <1>1, PartBound DEF PoolInv
<1>2. ASSUME NEW c \in Client, Advances(c) \/ Finishes(c)
      PROVE  PoolInv'
  BY <1>1, <1>2 DEF Advances, Finishes, Moved, At, Connected
<1>3. ASSUME NEW c \in Client, Arrives(c)
      PROVE  PoolInv'
  <2>1. ConnectionIsFree /\ \A v \in Client \ {c} : req'[v] = req[v]
    BY <1>3 DEF Arrives, Arrived
  <2>2. Connected' \subseteq Connected \cup {c}
    BY <2>1 DEF Connected
  <2>3. /\ IsFiniteSet(Connected \cup {c})
        /\ Cardinality(Connected \cup {c}) <= Cardinality(Connected) + 1
    BY FS_AddElement, FS_CardinalityType DEF PoolInv
  <2>4. /\ Cardinality(Connected) \in Nat /\ Cardinality(Connected \cup {c}) \in Nat
        /\ PoolSize \in Nat
    BY <2>3, FS_CardinalityType, PoolAssumption DEF PoolInv
  <2>5. Cardinality(Connected \cup {c}) <= PoolSize
    BY <2>1, <2>3, <2>4 DEF ConnectionIsFree
  <2> QED
    BY <2>2, <2>3, <2>5, PartBound DEF PoolInv
<1>4. CASE Vanish
  BY <1>1, <1>4, NoRequestType DEF Vanish, Connected
<1>5. CASE Tick
  BY <1>1, <1>5 DEF Tick, Connected
<1> QED
  BY <1>2, <1>3, <1>4, <1>5, StepKinds DEF TypeInv

-----------------------------------------------------------------------------
(* Repeated closings *)

\* The transactions that have found a record open are within the pool.
LEMMA ClosingSize ==
    ASSUME PoolInv, NEW r
    PROVE  /\ IsFiniteSet(Closing(r)) /\ Cardinality(Closing(r)) \in Nat
           /\ Cardinality(Closing(r)) <= PoolSize
<1>1. Closing(r) \subseteq Connected
  BY DEF Closing, Connected
<1> QED
  BY <1>1, PartBound, FS_CardinalityType DEF PoolInv

\* No record has been closed to begin with.
LEMMA ClosingInit == Init => ClosingsBounded
<1> SUFFICES ASSUME Init, NEW r \in Record
             PROVE  closings[r] + Cardinality(Closing(r)) <= PoolSize
  BY DEF ClosingsBounded
<1>1. closings[r] = 0
  BY DEF Init
<1> QED
  BY <1>1, PoolInit, ClosingSize

\* Fewer transactions hold what they have read, and nothing is closed.
LEMMA ClosingShrinks ==
    ASSUME TypeInv, PoolInv, ClosingsBounded, NEW r \in Record, closings'[r] = closings[r],
           Closing(r)' \subseteq Closing(r)
    PROVE  closings'[r] + Cardinality(Closing(r)') <= PoolSize
<1>1. IsFiniteSet(Closing(r)) /\ Closing(r)' \in SUBSET Closing(r)
  BY ClosingSize
<1>2. Cardinality(Closing(r)') <= Cardinality(Closing(r)) /\ Cardinality(Closing(r)') \in Nat
  BY <1>1, FS_Subset, FS_CardinalityType
<1>3. closings[r] \in Nat /\ closings[r] + Cardinality(Closing(r)) <= PoolSize
  BY DEF TypeInv, TypeOK, ClosingsBounded
<1> QED
  BY <1>2, <1>3, ClosingSize, PoolAssumption

\* A clock-out that finds the record open finds it never closed, and every closing is
\* of a transaction that has.
LEMMA ClosingStep ==
    TypeInv /\ PoolInv /\ PoolInv' /\ ClosingsBounded /\ [Next]_vars => ClosingsBounded'
<1> SUFFICES ASSUME TypeInv, PoolInv, PoolInv', ClosingsBounded, [Next]_vars, NEW r \in Record
             PROVE  closings'[r] + Cardinality(Closing(r)') <= PoolSize
  BY DEF ClosingsBounded
<1>1. ASSUME NEW c \in Client, Advances(c), Moved(c, "checked", req[c].stamp),
             At(c, "received"), req[c].op = "out", req[c].record = r
      PROVE  closings'[r] + Cardinality(Closing(r)') <= PoolSize
  <2>1. closings'[r] = 0
    <3>1. records[r].clockOut = NoTime
      BY <1>1 DEF Advances, Moved, At
    <3> QED
      BY <1>1, <3>1 DEF Advances, TypeInv, RowFilled
  <2>2. Closing(r)' \subseteq Connected'
    BY DEF Closing, Connected
  <2>3. IsFiniteSet(Closing(r)') /\ Cardinality(Closing(r)') <= PoolSize
    BY <2>2, PartBound DEF PoolInv
  <2>4. Cardinality(Closing(r)') \in Nat
    BY <2>3, FS_CardinalityType
  <2> QED
    BY <2>1, <2>3, <2>4
<1>2. ASSUME NEW c \in Client, Advances(c)
      PROVE  closings'[r] + Cardinality(Closing(r)') <= PoolSize
  <2>1. CASE At(c, "received") /\ req[c].op = "out" /\ req[c].record = r
             /\ Moved(c, "checked", req[c].stamp)
    BY <1>1, <1>2, <2>1
  <2>2. CASE ~(At(c, "received") /\ req[c].op = "out" /\ req[c].record = r
               /\ Moved(c, "checked", req[c].stamp))
    <3>1. Closing(r)' \subseteq Closing(r) /\ closings' = closings
      BY <1>2, <2>2 DEF Advances, Moved, Closing, At
    <3> QED
      BY <3>1, ClosingShrinks
  <2> QED
    BY <2>1, <2>2
<1>3. ASSUME NEW c \in Client, Finishes(c)
      PROVE  closings'[r] + Cardinality(Closing(r)') <= PoolSize
  <2>1. /\ At(c, "written") /\ Apply(c) /\ Moved(c, "answered", req[c].stamp)
        /\ req[c].record \in Record /\ req[c].op \in {"in", "out"}
    BY <1>3 DEF Finishes, TypeInv, Filled, At
  <2>2. CASE req[c].op = "out" /\ req[c].record = r
    <3>1. closings'[r] = closings[r] + 1 /\ closings[r] \in Nat
      BY <2>1, <2>2, ApplyEffect DEF TypeInv, TypeOK
    <3>2. Closing(r)' \subseteq Closing(r) \ {c} /\ c \in Closing(r)
      BY <2>1, <2>2 DEF Moved, Closing, At
    <3>3. IsFiniteSet(Closing(r))
      BY ClosingSize
    <3>4. /\ IsFiniteSet(Closing(r) \ {c})
          /\ Cardinality(Closing(r) \ {c}) = Cardinality(Closing(r)) - 1
      BY <3>2, <3>3, FS_RemoveElement
    <3>5. Closing(r)' \in SUBSET (Closing(r) \ {c})
      BY <3>2
    <3>6. Cardinality(Closing(r)') <= Cardinality(Closing(r)) - 1
          /\ Cardinality(Closing(r)') \in Nat
      BY <3>4, <3>5, FS_Subset, FS_CardinalityType
    <3>7. closings[r] + Cardinality(Closing(r)) <= PoolSize
      BY DEF ClosingsBounded
    <3> QED
      BY <3>1, <3>6, <3>7, ClosingSize, PoolAssumption
  <2>3. CASE ~(req[c].op = "out" /\ req[c].record = r)
    <3>1. closings'[r] = closings[r]
      BY <2>1, <2>3, ApplyEffect
    <3>2. Closing(r)' \subseteq Closing(r)
      BY <2>1 DEF Moved, Closing, At
    <3> QED
      BY <3>1, <3>2, ClosingShrinks
  <2> QED
    BY <2>2, <2>3
<1>4. ASSUME NEW c \in Client, Arrives(c)
      PROVE  closings'[r] + Cardinality(Closing(r)') <= PoolSize
  <2>1. Closing(r)' \subseteq Closing(r) /\ closings' = closings
    BY <1>4 DEF Arrives, Arrived, Closing
  <2> QED
    BY <2>1, ClosingShrinks
<1>5. CASE Vanish
  <2>1. Closing(r)' \subseteq Closing(r) /\ closings' = closings
    BY <1>5, NoRequestType DEF Vanish, Closing
  <2> QED
    BY <2>1, ClosingShrinks
<1>6. CASE Tick
  <2>1. Closing(r)' \subseteq Closing(r) /\ closings' = closings
    BY <1>6 DEF Tick, Closing
  <2> QED
    BY <2>1, ClosingShrinks
<1> QED
  BY <1>2, <1>3, <1>4, <1>5, <1>6, StepKinds DEF TypeInv

\* A record is not closed more often than the pool has connections.
THEOREM ClosingsAreBounded == Spec => []ClosingsBounded
BY TypeInit, TypeStep, PoolInit, PoolStep, ClosingInit, ClosingStep, PTL DEF Spec

-----------------------------------------------------------------------------
(* Sessions that last at one instant *)

\* A clock-in past its check will have the record r last at t; one without a
\* time yet will take it no earlier than now.
Starts(r, u, t) ==
    \E c \in Client :
        /\ req[c].op = "in" /\ Past(c) /\ req[c].record = r /\ req[c].staff = u
        /\ IF req[c].stamp = NoTime THEN now <= t ELSE req[c].stamp <= t

\* A clock-out past its check will end the record r later than t.
Ends(r, t) ==
    \E c \in Client :
        /\ req[c].op = "out" /\ Past(c) /\ req[c].record = r
        /\ req[c].stamp = NoTime \/ t < req[c].stamp

Lasts(r, u, t) ==
    /\ records[r].staff = u /\ records[r].clockIn <= t
    /\ records[r].clockOut = NoTime \/ t < records[r].clockOut \/ Ends(r, t)

\* What lasts at t, or may once the transactions in flight have committed.
Load(u, t) == {r \in Record : Starts(r, u, t) \/ Lasts(r, u, t)}

LoadInv ==
    \A u \in Staff, t \in Clock :
        IsFiniteSet(Load(u, t)) /\ Cardinality(Load(u, t)) <= PoolSize

\* Requests within the pool name no more records than the pool has connections.
LEMMA NamedBound ==
    ASSUME NEW r, NEW C, IsFiniteSet(C), Cardinality(C) <= PoolSize
    PROVE  /\ IsFiniteSet({r[c].record : c \in C})
           /\ Cardinality({r[c].record : c \in C}) <= PoolSize
<1> DEFINE named == {r[c].record : c \in C}
           f == [c \in C |-> r[c].record]
<1>1. f \in Surjection(C, named)
  BY DEF Surjection
<1> HIDE DEF f, named
<1>2. IsFiniteSet(named) /\ Cardinality(named) <= Cardinality(C)
  BY <1>1, FS_Surjection
<1>3. Cardinality(named) \in Nat /\ Cardinality(C) \in Nat
  BY <1>2, FS_CardinalityType
<1>4. IsFiniteSet(named) /\ Cardinality(named) <= PoolSize
  BY <1>2, <1>3, PoolAssumption
<1> QED
  BY <1>4 DEF named

\* Nothing lasts to begin with.
LEMMA LoadInit == Init => LoadInv
<1> SUFFICES ASSUME Init, NEW u \in Staff, NEW t \in Clock
             PROVE  IsFiniteSet(Load(u, t)) /\ Cardinality(Load(u, t)) <= PoolSize
  BY DEF LoadInv
<1>1. Load(u, t) = {}
  BY NoRequestType, NullAssumption DEF Init, Load, Starts, Lasts, AbsentRow
<1>2. IsFiniteSet({}) /\ Cardinality({}) = 0 /\ PoolSize \in Nat
  BY FS_EmptySet, PoolAssumption
<1> QED
  BY <1>1, <1>2

\* A clock-in that finds no open session: of what lasts now or later, every record
\* belongs to a transaction in flight.
LEMMA CheckedLoad ==
    ASSUME TypeInv, NEW u \in Staff, Open(u) = {}, UNCHANGED <<records, now>>,
           NEW t \in Clock, now <= t
    PROVE  Load(u, t)' \subseteq {req'[v].record : v \in Connected'}
<1> SUFFICES ASSUME NEW r \in Record, Starts(r, u, t)' \/ Lasts(r, u, t)'
             PROVE  \E v \in Connected' : r = req'[v].record
  BY DEF Load
<1>1. CASE Starts(r, u, t)'
  BY <1>1 DEF Starts, Past, Connected
<1>2. CASE Lasts(r, u, t)'
  <2>1. records[r].staff = u /\ records[r].clockOut # NoTime
    BY <1>2 DEF Lasts, Open
  <2>2. records[r].clockOut \in Clock /\ records[r].clockOut <= now
    BY <2>1 DEF TypeInv, RowFilled
  <2>3. ~(t < records[r].clockOut)
    <3>1. now \in Int /\ t \in Int /\ records[r].clockOut \in Int
      BY <2>2, ClockType DEF TypeInv, TypeOK
    <3> QED
      BY <2>2, <3>1
  <2>4. Ends(r, t)'
    BY <1>2, <2>1, <2>3 DEF Lasts
  <2> QED
    BY <2>4 DEF Ends, Past, Connected
<1> QED
  BY <1>1, <1>2

\* A step of c that leaves the rows alone: what c itself may start or end later is
\* all that can be new in a load.
LEMMA OwnLoad ==
    ASSUME NEW c \in Client, NEW u \in Staff, NEW t \in Clock,
           records' = records, now' = now,
           \A v \in Client \ {c} : req'[v] = req[v],
           NEW r \in Record, Starts(r, u, t)' \/ Lasts(r, u, t)'
    PROVE  \/ r \in Load(u, t)
           \/ /\ Past(c)' /\ req'[c].op = "in" /\ req'[c].record = r /\ req'[c].staff = u
              /\ IF req'[c].stamp = NoTime THEN now <= t ELSE req'[c].stamp <= t
           \/ /\ Past(c)' /\ req'[c].op = "out" /\ req'[c].record = r
              /\ records[r].staff = u /\ records[r].clockIn <= t
              /\ req'[c].stamp = NoTime \/ t < req'[c].stamp
<1>1. CASE Starts(r, u, t)'
  <2>1. PICK v \in Client :
          /\ req'[v].op = "in" /\ Past(v)' /\ req'[v].record = r /\ req'[v].staff = u
          /\ IF req'[v].stamp = NoTime THEN now <= t ELSE req'[v].stamp <= t
    BY <1>1 DEF Starts
  <2>2. CASE v = c
    BY <2>1, <2>2
  <2>3. CASE v # c
    BY <2>1, <2>3 DEF Load, Starts, Past
  <2> QED
    BY <2>2, <2>3
<1>2. CASE Lasts(r, u, t)'
  <2>1. CASE Ends(r, t)'
    <3>1. PICK v \in Client :
            /\ req'[v].op = "out" /\ Past(v)' /\ req'[v].record = r
            /\ req'[v].stamp = NoTime \/ t < req'[v].stamp
      BY <2>1 DEF Ends
    <3>2. records[r].staff = u /\ records[r].clockIn <= t
      BY <1>2 DEF Lasts
    <3>3. CASE v = c
      BY <3>1, <3>2, <3>3
    <3>4. CASE v # c
      BY <3>1, <3>2, <3>4 DEF Load, Lasts, Ends, Past
    <3> QED
      BY <3>3, <3>4
  <2>2. CASE ~Ends(r, t)'
    BY <1>2, <2>2 DEF Load, Lasts
  <2> QED
    BY <2>1, <2>2
<1> QED
  BY <1>1, <1>2

\* A handler that goes on, but for the check of a clock-in, adds to no load.
LEMMA AdvancedLoad ==
    ASSUME TypeInv, NEW c \in Client, Advances(c), NEW u \in Staff, NEW t \in Clock,
           \/ ~(/\ At(c, "received") /\ req[c].op = "in" /\ Open(req[c].staff) = {}
                /\ Moved(c, "checked", req[c].stamp))
           \/ req[c].staff # u
           \/ ~(now <= t)
    PROVE  Load(u, t)' \subseteq Load(u, t)
<1> SUFFICES ASSUME NEW r \in Record, Starts(r, u, t)' \/ Lasts(r, u, t)'
             PROVE  r \in Load(u, t)
  BY DEF Load
<1>0. /\ records' = records /\ now' = now /\ Filled(c) /\ now \in Clock
      /\ \A v \in Client \ {c} : req'[v] = req[v]
      /\ req'[c].op = req[c].op /\ req'[c].record = req[c].record /\ req'[c].staff = req[c].staff
  BY DEF Advances, Moved, TypeInv, TypeOK
<1>1. CASE /\ Past(c)' /\ req'[c].op = "in" /\ req'[c].record = r /\ req'[c].staff = u
           /\ IF req'[c].stamp = NoTime THEN now <= t ELSE req'[c].stamp <= t
  <2>1. Past(c) /\ IF req[c].stamp = NoTime THEN now <= t ELSE req[c].stamp <= t
    <3>1. CASE At(c, "received")
      BY <1>0, <1>1, <3>1, NullAssumption DEF Advances, Moved, At, Past, Filled
    <3>2. CASE At(c, "checked") /\ Moved(c, "stamped", now)
      BY <1>0, <1>1, <3>2, ClockType DEF Moved, At, Past, Filled
    <3>3. CASE At(c, "stamped") /\ Moved(c, "written", req[c].stamp)
      BY <1>1, <3>3 DEF Moved, At, Past
    <3>4. CASE Moved(c, "answered", req[c].stamp)
      BY <1>1, <3>4 DEF Moved, Past
    <3> QED
      BY <3>1, <3>2, <3>3, <3>4 DEF Advances
  <2> QED
    BY <1>0, <1>1, <2>1 DEF Load, Starts
<1>2. CASE /\ Past(c)' /\ req'[c].op = "out" /\ req'[c].record = r
           /\ records[r].staff = u /\ records[r].clockIn <= t
           /\ req'[c].stamp = NoTime \/ t < req'[c].stamp
  <2>1. \/ records[r].clockOut = NoTime
        \/ Past(c) /\ (req[c].stamp = NoTime \/ t < req[c].stamp)
    <3>1. CASE At(c, "received")
      BY <1>0, <1>2, <3>1 DEF Advances, Moved, At, Past
    <3>2. CASE At(c, "checked") /\ Moved(c, "stamped", now)
      BY <3>2 DEF At, Past, TypeInv, Filled
    <3>3. CASE At(c, "stamped") /\ Moved(c, "written", req[c].stamp)
      BY <1>2, <3>3 DEF Moved, At, Past
    <3>4. CASE Moved(c, "answered", req[c].stamp)
      BY <1>2, <3>4 DEF Moved, Past
    <3> QED
      BY <3>1, <3>2, <3>3, <3>4 DEF Advances
  <2> QED
    BY <1>0, <1>2, <2>1 DEF Load, Lasts, Ends
<1> QED
  BY <1>0, <1>1, <1>2, OwnLoad

\* A commit makes of what may last what does.
LEMMA FinishedLoad ==
    ASSUME TypeInv, NEW c \in Client, Finishes(c), NEW u \in Staff, NEW t \in Clock
    PROVE  Load(u, t)' \subseteq Load(u, t)
<1> SUFFICES ASSUME NEW r \in Record, Starts(r, u, t)' \/ Lasts(r, u, t)'
             PROVE  r \in Load(u, t)
  BY DEF Load
<1>0. /\ At(c, "written") /\ Past(c) /\ Apply(c) /\ now' = now /\ Filled(c)
      /\ Moved(c, "answered", req[c].stamp) /\ ~Past(c)'
      /\ req[c].stamp \in Clock /\ req[c].op \in {"in", "out"}
  BY DEF Finishes, TypeInv, Filled, At, Past, Moved
<1>1. \A v \in Client : Past(v)' => Past(v) /\ req'[v] = req[v]
  BY <1>0 DEF Moved, Past
<1>2. CASE Starts(r, u, t)'
  BY <1>0, <1>1, <1>2 DEF Load, Starts
<1>3. CASE Lasts(r, u, t)'
  <2>1. Ends(r, t)' => Ends(r, t)
    BY <1>1 DEF Ends
  <2>2. CASE req[c].record # r
    BY <1>0, <1>3, <2>1, <2>2, ApplyEffect DEF Load, Lasts
  <2>3. CASE req[c].record = r /\ req[c].op = "in"
    <3>1. records'[r].staff = req[c].staff /\ records'[r].clockIn = req[c].stamp
      BY <1>0, <2>3, ApplyEffect
    <3>2. req[c].staff = u /\ req[c].stamp <= t /\ req[c].stamp # NoTime
      BY <1>0, <1>3, <3>1, ClockType DEF Lasts
    <3> QED
      BY <1>0, <2>3, <3>2 DEF Load, Starts
  <2>4. CASE req[c].record = r /\ req[c].op = "out"
    <3>1. /\ records'[r].staff = req[c].staff /\ records'[r].clockIn = records[r].clockIn
          /\ records'[r].clockOut = req[c].stamp
      BY <1>0, <2>4, ApplyEffect
    <3>2. records[r].staff = u /\ records[r].clockIn <= t
      BY <1>0, <1>3, <2>4, <3>1 DEF Lasts, Filled
    <3>3. Ends(r, t)
      BY <1>0, <1>3, <2>1, <2>4, <3>1, ClockType DEF Lasts, Ends
    <3> QED
      BY <3>2, <3>3 DEF Load, Lasts
  <2> QED
    BY <1>0, <2>2, <2>3, <2>4
<1> QED
  BY <1>2, <1>3

\* Only a clock-in that passes its check adds to a load, and what lasts then is
\* held by the open transactions.
LEMMA LoadStep == TypeInv /\ PoolInv' /\ LoadInv /\ [Next]_vars => LoadInv'
<1> SUFFICES ASSUME TypeInv, PoolInv', LoadInv, [Next]_vars, NEW u \in Staff, NEW t \in Clock
             PROVE  IsFiniteSet(Load(u, t)') /\ Cardinality(Load(u, t)') <= PoolSize
  BY DEF LoadInv
<1>1. IsFiniteSet(Load(u, t)) /\ Cardinality(Load(u, t)) <= PoolSize
  BY DEF LoadInv
<1>2. SUFFICES \/ Load(u, t)' \subseteq Load(u, t)
               \/ Load(u, t)' \subseteq {req'[v].record : v \in Connected'}
  <2>1. CASE Load(u, t)' \subseteq Load(u, t)
    BY <1>1, <2>1, PartBound
  <2>2. CASE Load(u, t)' \subseteq {req'[v].record : v \in Connected'}
    <3>1. IsFiniteSet(Connected') /\ Cardinality(Connected') <= PoolSize
      BY DEF PoolInv
    <3>2. /\ IsFiniteSet({req'[v].record : v \in Connected'})
          /\ Cardinality({req'[v].record : v \in Connected'}) <= PoolSize
      BY <3>1, NamedBound
    <3> QED
      BY <2>2, <3>2, PartBound
  <2> QED
    BY <1>2, <2>1, <2>2
<1>3. ASSUME NEW c \in Client, Advances(c)
      PROVE  \/ Load(u, t)' \subseteq Load(u, t)
             \/ Load(u, t)' \subseteq {req'[v].record : v \in Connected'}
  <2>1. CASE req[c].staff = u /\ now <= t /\ Open(u) = {}
    BY <1>3, <2>1, CheckedLoad DEF Advances
  <2>2. CASE ~(req[c].staff = u /\ now <= t /\ Open(u) = {})
    BY <1>3, <2>2, AdvancedLoad
  <2> QED
    BY <2>1, <2>2
<1>4. ASSUME NEW c \in Client, Finishes(c) PROVE Load(u, t)' \subseteq Load(u, t)
  BY <1>4, FinishedLoad
<1>5. ASSUME NEW c \in Client, Arrives(c) PROVE Load(u, t)' \subseteq Load(u, t)
  <2>1. /\ records' = records /\ now' = now /\ ~Past(c)'
        /\ \A v \in Client \ {c} : req'[v] = req[v]
    BY <1>5 DEF Arrives, Arrived, Past
  <2> QED
    BY <2>1, OwnLoad DEF Load
<1>6. CASE Vanish
  <2>1. \A v \in Client : Past(v)' => Past(v) /\ req'[v] = req[v]
    BY <1>6, NoRequestType DEF Vanish, Past
  <2>2. records' = records /\ now' = now
    BY <1>6 DEF Vanish
  <2> QED
    BY <2>1, <2>2 DEF Load, Starts, Lasts, Ends
<1>7. CASE Tick
  <2>1. /\ records' = records /\ req' = req /\ now \in Int /\ t \in Int
        /\ now' = now + 1
    BY <1>7, ClockType DEF Tick, TypeInv, TypeOK
  <2>2. now' <= t => now <= t
    BY <2>1
  <2> QED
    BY <2>1, <2>2 DEF Load, Starts, Lasts, Ends, Past
<1> QED
  BY <1>3, <1>4, <1>5, <1>6, <1>7, StepKinds DEF TypeInv

\* What lasts is part of the load.
LEMMA LoadBoundsSessions ==
    ASSUME TypeInv, LoadInv, NEW u \in Staff, NEW t \in Clock
    PROVE  /\ IsFiniteSet(Sessions(u, t))
           /\ Cardinality(Sessions(u, t)) <= PoolSize
<1>1. Sessions(u, t) \subseteq Load(u, t)
  BY DEF Sessions, Covers, Load, Lasts
<1> QED
  BY <1>1, PartBound DEF LoadInv

\* No more sessions of a staff member than the pool has connections last at one
\* instant, and none ends before it begins.
THEOREM SessionsAreBounded == Spec => []SessionsBounded
<1>1. ASSUME TypeInv, LoadInv PROVE SessionsBounded
  <2>1. ASSUME NEW r \in Record, records[r].clockOut # NoTime
        PROVE  records[r].clockIn <= records[r].clockOut
    <3>1. records[r] \in Row
      BY <1>1 DEF TypeInv, TypeOK
    <3>2. records[r].staff \in Staff
      BY <2>1, <3>1, RowType DEF AbsentRow
    <3> QED
      BY <1>1, <2>1, <3>2 DEF TypeInv, RowFilled
  <2>2. 0 .. now \subseteq Clock
    BY <1>1, TimeAssumption DEF TypeInv, TypeOK, Clock
  <2> QED
    BY <1>1, <2>1, <2>2, LoadBoundsSessions DEF SessionsBounded
<1> QED
  BY <1>1, TypeInit, TypeStep, PoolInit, PoolStep, LoadInit, LoadStep, PTL DEF Spec

-----------------------------------------------------------------------------
(* The double clock-in *)

\* The clock-ins of a staff member that are past their check.
ClockingIn(u) == {c \in Client : req[c].op = "in" /\ Past(c) /\ req[c].staff = u}

\* No two clock-ins of one staff member are between get_open_session and the end of
\* their transactions at once: what a lock or a partial unique index would give, and
\* what the code leaves to chance.
ClockInsApart == \A u \in Staff : \A c, v \in ClockingIn(u) : c = v

\* The records that are open, or will be once the clock-ins in flight have committed.
Opening(u) == Open(u) \cup {req[c].record : c \in ClockingIn(u)}

SingleOpening == \A u \in Staff : \A r, s \in Opening(u) : r = s

\* Nothing is open to begin with.
LEMMA OpeningInit == Init => SingleOpening
  BY NoRequestType, NullAssumption
     DEF Init, SingleOpening, Opening, Open, ClockingIn, AbsentRow

\* With the clock-ins apart, one that passes its check has the staff member to itself.
LEMMA OpeningStep ==
    TypeInv /\ ClockInsApart' /\ SingleOpening /\ [Next]_vars => SingleOpening'
<1> SUFFICES ASSUME TypeInv, ClockInsApart', SingleOpening, [Next]_vars, NEW u \in Staff
             PROVE  \A r, s \in Opening(u)' : r = s
  BY DEF SingleOpening
<1>1. CASE Opening(u)' \subseteq Opening(u)
  BY <1>1 DEF SingleOpening
<1>2. ASSUME NEW c \in Client, Advances(c)
      PROVE  \A r, s \in Opening(u)' : r = s
  <2>1. CASE c \in ClockingIn(u)' /\ c \notin ClockingIn(u)
    <3>1. /\ At(c, "received") /\ req[c].op = "in" /\ req[c].staff = u /\ Open(u) = {}
      BY <1>2, <2>1 DEF Advances, Moved, ClockingIn, Past, At
    <3>2. Open(u)' = {}
      BY <1>2, <3>1 DEF Advances, Open
    <3>3. \A v \in ClockingIn(u)' : v = c
      BY <2>1 DEF ClockInsApart
    <3> QED
      BY <3>2, <3>3 DEF Opening
  <2>2. CASE ~(c \in ClockingIn(u)' /\ c \notin ClockingIn(u))
    <3>1. ClockingIn(u)' \subseteq ClockingIn(u)
      BY <1>2, <2>2 DEF Advances, Moved, ClockingIn, Past
    <3>2. \A v \in ClockingIn(u)' : req'[v].record = req[v].record
      BY <1>2 DEF Advances, Moved, ClockingIn
    <3>3. Open(u)' = Open(u)
      BY <1>2 DEF Advances, Open
    <3> QED
      BY <1>1, <3>1, <3>2, <3>3 DEF Opening
  <2> QED
    BY <2>1, <2>2
<1>3. ASSUME NEW c \in Client, Finishes(c)
      PROVE  Opening(u)' \subseteq Opening(u)
  <2>1. /\ At(c, "written") /\ Apply(c) /\ Past(c) /\ ~Past(c)'
        /\ req[c].op \in {"in", "out"} /\ req[c].stamp \in Clock
        /\ \A v \in Client \ {c} : req'[v] = req[v]
    BY <1>3 DEF Finishes, Moved, At, Past, TypeInv, Filled
  <2>2. {req'[v].record : v \in ClockingIn(u)'} \subseteq Opening(u)
    BY <2>1 DEF ClockingIn, Opening, Past
  <2>3. ASSUME NEW r \in Record, records'[r].staff = u, records'[r].clockOut = NoTime
        PROVE  r \in Opening(u)
    <3>1. CASE r # req[c].record
      BY <2>1, <2>3, <3>1, ApplyEffect DEF Open, Opening
    <3>2. CASE r = req[c].record /\ req[c].op = "in"
      BY <2>1, <2>3, <3>2, ApplyEffect DEF ClockingIn, Opening
    <3>3. CASE r = req[c].record /\ req[c].op = "out"
      BY <2>1, <2>3, <3>3, ApplyEffect, ClockType
    <3> QED
      BY <2>1, <3>1, <3>2, <3>3
  <2> QED
    BY <2>2, <2>3 DEF Opening, Open
<1>4. ASSUME NEW c \in Client, Arrives(c)
      PROVE  Opening(u)' \subseteq Opening(u)
  BY <1>4 DEF Arrives, Arrived, Opening, Open, ClockingIn, Past
<1>5. CASE Vanish
  BY <1>1, <1>5, NoRequestType DEF Vanish, Opening, Open, ClockingIn, Past
<1>6. CASE Tick
  BY <1>1, <1>6 DEF Tick, Opening, Open, ClockingIn, Past
<1> QED
  BY <1>1, <1>2, <1>3, <1>4, <1>5, <1>6, StepKinds DEF TypeInv

\* Where clock-ins of one staff member search for an open session one at a time, each
\* after the commit of the one before, nobody has two: their running together is the
\* only way to a double clock-in.
THEOREM ClockInsApartOpenOnce == Spec /\ []ClockInsApart => []OneOpenSession
<1>1. SingleOpening => OneOpenSession
  <2> SUFFICES ASSUME SingleOpening, NEW u \in Staff
               PROVE  Cardinality(Open(u)) <= 1
    BY DEF OneOpenSession
  <2>1. CASE Open(u) = {}
    BY <2>1, FS_EmptySet
  <2>2. ASSUME NEW r \in Open(u)
        PROVE  Cardinality(Open(u)) <= 1
    <3>1. Open(u) = {r}
      BY <2>2 DEF SingleOpening, Opening
    <3>2. Cardinality({r}) = 1
      BY FS_Singleton
    <3> QED
      BY <3>1, <3>2
  <2> QED
    BY <2>1, <2>2
<1> QED
  BY <1>1, TypeInit, TypeStep, OpeningInit, OpeningStep, PTL DEF Spec
=============================================================================
