--------------------------- MODULE AdmissionProofs ---------------------------
(***************************************************************************)
(* Theorems about Admission for any number of requests and users and any   *)
(* size of the two supplies.                                               *)
(***************************************************************************)
EXTENDS Admission, FiniteSetTheorems, TLAPS

-----------------------------------------------------------------------------
(* What a step does to the request it belongs to *)

\* The request of r becomes q, and nobody else's changes.
Becomes(r, q) == req'[r] = q /\ \A v \in Request \ {r} : req'[v] = req[v]

\* The part of TypeOK that is about requests.
JobsOK ==
    /\ req \in [Request -> Job]
    /\ \A r \in Request : At(r, "idle") <=> req[r] = NoJob

LEMMA JobEffect ==
    ASSUME TypeOK, NEW r \in Request, NEW q \in Job, q.pc = "idle" <=> q = NoJob,
           req' = [req EXCEPT ![r] = q]
    PROVE  JobsOK' /\ Becomes(r, q)
BY DEF TypeOK, JobsOK, Becomes, At

\* Moved(r, phase): the request is in another phase and otherwise the same.
Moved(r, phase) ==
    /\ req'[r].pc = phase /\ req'[r].user = req[r].user
    /\ req'[r].token = req[r].token /\ req'[r].route = req[r].route
    /\ \A v \in Request \ {r} : req'[v] = req[v]

LEMMA GotoEffect ==
    ASSUME TypeOK, NEW r \in Request, NEW phase \in Phase \ {"idle"}, Goto(r, phase)
    PROVE  JobsOK' /\ Moved(r, phase) /\ req'[r].answer = req[r].answer
<1> DEFINE q == [req[r] EXCEPT !.pc = phase]
<1>1. req[r] \in Job
  BY DEF TypeOK
<1>2. /\ q \in Job /\ q.pc = phase /\ q.user = req[r].user /\ q.token = req[r].token
      /\ q.route = req[r].route /\ q.answer = req[r].answer
  BY <1>1 DEF Job
<1>3. q.pc = "idle" <=> q = NoJob
  BY <1>2 DEF NoJob
<1>4. req' = [req EXCEPT ![r] = q]
  BY DEF Goto
<1> HIDE DEF q
<1>5. JobsOK' /\ Becomes(r, q)
  BY <1>2, <1>3, <1>4, JobEffect
<1> QED
  BY <1>2, <1>5 DEF Becomes, Moved

LEMMA SettleEffect ==
    ASSUME TypeOK, NEW r \in Request, NEW status \in Answer, Settle(r, status)
    PROVE  JobsOK' /\ Moved(r, "closing") /\ req'[r].answer = status
<1> DEFINE q == [req[r] EXCEPT !.pc = "closing", !.answer = status]
<1>1. req[r] \in Job
  BY DEF TypeOK
<1>2. /\ q \in Job /\ q.pc = "closing" /\ q.user = req[r].user /\ q.token = req[r].token
      /\ q.route = req[r].route /\ q.answer = status
  BY <1>1 DEF Job, Phase
<1>3. q.pc = "idle" <=> q = NoJob
  BY <1>2 DEF NoJob
<1>4. req' = [req EXCEPT ![r] = q]
  BY DEF Settle
<1> HIDE DEF q
<1>5. JobsOK' /\ Becomes(r, q)
  BY <1>2, <1>3, <1>4, JobEffect
<1> QED
  BY <1>2, <1>5 DEF Becomes, Moved

LEMMA ArriveEffect ==
    ASSUME TypeOK, NEW r \in Request, NEW u \in User, NEW token \in Token, NEW route \in Route,
           Arrive(r, u, token, route)
    PROVE  /\ JobsOK'
           /\ req'[r].pc = "arrived" /\ req'[r].answer = "none"
           /\ \A v \in Request \ {r} : req'[v] = req[v]
<1> DEFINE q == [pc |-> "arrived", user |-> u, token |-> token, route |-> route,
                 answer |-> "none"]
<1>1. q \in Job /\ (q.pc = "idle" <=> q = NoJob) /\ q.pc = "arrived" /\ q.answer = "none"
  BY DEF Job, Phase, Answer, NoJob
<1>2. req' = [req EXCEPT ![r] = q]
  BY DEF Arrive
<1> HIDE DEF q
<1> QED
  BY <1>1, <1>2, JobEffect DEF Becomes

LEMMA NoJobType == NoJob \in Job /\ NoJob.pc = "idle"
BY DEF NoJob, Job, Phase, Token, Answer

LEMMA CloseEffect ==
    ASSUME TypeOK, NEW r \in Request, CloseSession(r)
    PROVE  JobsOK' /\ Becomes(r, NoJob)
<1>1. req' = [req EXCEPT ![r] = NoJob]
  BY DEF CloseSession
<1> QED
  BY <1>1, NoJobType, JobEffect

-----------------------------------------------------------------------------
(* Type correctness *)

LEMMA TypeInit == Init => TypeOK
BY NoJobType DEF Init, TypeOK, At

LEMMA TypeStep == TypeOK /\ [Next]_vars => TypeOK'
<1> SUFFICES ASSUME TypeOK, [Next]_vars PROVE TypeOK'
  OBVIOUS
<1> USE DEF JobsOK, TypeOK
<1>1. ASSUME NEW r \in Request, NEW u \in User, NEW token \in Token \ {"none"},
             NEW route \in Route, Arrive(r, u, token, route)
      PROVE  TypeOK'
  BY <1>1, ArriveEffect DEF Arrive
<1>2. ASSUME NEW r \in Request, OpenSession(r) PROVE TypeOK'
  <2>1. JobsOK'
    BY <1>2, GotoEffect DEF OpenSession, Phase
  <2> QED
    BY <1>2, <2>1 DEF OpenSession, OnFreeThread
<1>3. ASSUME NEW r \in Request, DecodeToken(r) PROVE TypeOK'
  <2>1. JobsOK'
    BY <1>3, GotoEffect, SettleEffect DEF DecodeToken, Phase, Answer
  <2> QED
    BY <1>3, <2>1 DEF DecodeToken
<1>4. ASSUME NEW r \in Request, TakeConnection(r) PROVE TypeOK'
  <2>1. JobsOK'
    BY <1>4, GotoEffect DEF TakeConnection, Phase
  <2> QED
    BY <1>4, <2>1 DEF TakeConnection
<1>5. ASSUME NEW r \in Request, TimeOut(r) PROVE TypeOK'
  <2>1. JobsOK'
    BY <1>5, SettleEffect DEF TimeOut, Answer
  <2> QED
    BY <1>5, <2>1 DEF TimeOut
<1>6. ASSUME NEW r \in Request, ReadUser(r) PROVE TypeOK'
  <2>1. JobsOK'
    BY <1>6, GotoEffect, SettleEffect DEF ReadUser, Phase, Answer
  <2> QED
    BY <1>6, <2>1 DEF ReadUser
<1>7. ASSUME NEW r \in Request, ReadFails(r) PROVE TypeOK'
  <2>1. JobsOK'
    BY <1>7, SettleEffect DEF ReadFails, Answer
  <2> QED
    BY <1>7, <2>1 DEF ReadFails
<1>8. ASSUME NEW r \in Request, CheckRole(r) PROVE TypeOK'
  <2>1. JobsOK'
    BY <1>8, GotoEffect, SettleEffect DEF CheckRole, Phase, Answer
  <2> QED
    BY <1>8, <2>1 DEF CheckRole, OnFreeThread
<1>9. ASSUME NEW r \in Request, BuildService(r) PROVE TypeOK'
  <2>1. JobsOK'
    BY <1>9, GotoEffect DEF BuildService, Phase
  <2> QED
    BY <1>9, <2>1 DEF BuildService, OnFreeThread
<1>10. ASSUME NEW r \in Request, StartHandler(r) PROVE TypeOK'
  <2>1. JobsOK'
    BY <1>10, GotoEffect DEF StartHandler, Phase
  <2> QED
    BY <1>10, <2>1 DEF StartHandler
<1>11. ASSUME NEW r \in Request, FinishHandler(r) PROVE TypeOK'
  <2>1. JobsOK'
    BY <1>11, GotoEffect, SettleEffect DEF FinishHandler, Phase, Answer
  <2> QED
    BY <1>11, <2>1 DEF FinishHandler
<1>12. ASSUME NEW r \in Request, ValidateResponse(r) PROVE TypeOK'
  <2>1. JobsOK'
    BY <1>12, SettleEffect DEF ValidateResponse, Answer
  <2> QED
    BY <1>12, <2>1 DEF ValidateResponse, OnFreeThread
<1>13. ASSUME NEW r \in Request, CloseSession(r) PROVE TypeOK'
  <2>1. JobsOK'
    BY <1>13, CloseEffect
  <2>2. late' \in [User -> Nat]
    BY <1>13 DEF CloseSession
  <2> QED
    BY <1>13, <2>1, <2>2 DEF CloseSession
<1>14. ASSUME NEW u \in User, DeleteUser(u) PROVE TypeOK'
  BY <1>14 DEF DeleteUser, At
<1>15. ASSUME Crash PROVE TypeOK'
  BY <1>15, NoJobType DEF Crash, At
<1>16. ASSUME UNCHANGED vars PROVE TypeOK'
  BY <1>16 DEF vars, At
<1> QED
  BY <1>1, <1>2, <1>3, <1>4, <1>5, <1>6, <1>7, <1>8, <1>9, <1>10, <1>11, <1>12, <1>13,
     <1>14, <1>15, <1>16 DEF Next, NeedsThread, Proceed

\* The variables keep their types and an ended request leaves nothing behind,
\* for any number of requests, users, threads and connections.
THEOREM TypeCorrect == Spec => []TypeOK
<1> QED
  BY TypeInit, TypeStep, PTL DEF Spec

-----------------------------------------------------------------------------
(* The two supplies *)

\* Sets of requests are finite, so their cardinalities are numbers.
LEMMA SomeRequests ==
    ASSUME NEW S \in SUBSET Request
    PROVE  IsFiniteSet(S) /\ Cardinality(S) \in Nat /\ Cardinality(S) <= Cardinality(Request)
BY RequestAssumption, FS_Subset, FS_CardinalityType

\* One request more stays within a limit that was not reached.
LEMMA OneMore ==
    ASSUME NEW S \in SUBSET Request, NEW r \in Request, NEW limit \in Nat,
           Cardinality(S) < limit
    PROVE  Cardinality(S \cup {r}) <= limit
BY SomeRequests, FS_AddElement

\* Fewer requests stay within a limit.
LEMMA OneLess ==
    ASSUME NEW S \in SUBSET Request, NEW T \in SUBSET S, NEW limit \in Nat,
           Cardinality(S) <= limit
    PROVE  Cardinality(T) <= limit
<1>1. Cardinality(T) <= Cardinality(S) /\ Cardinality(T) \in Nat
  BY SomeRequests, FS_Subset
<1> QED
  BY <1>1, SomeRequests

\* Only r moves, and its thread and connection are accounted for before and
\* after: then nothing leaks.
LEMMA AccountsKept ==
    ASSUME TypeOK, TypeOK', NothingLeaks, NEW r \in Request,
           \A v \in Request \ {r} : req'[v] = req[v],
           \A v \in Request \ {r} : v \in onThread' <=> v \in onThread,
           \A v \in Request \ {r} : v \in checkedOut' <=> v \in checkedOut,
           r \in onThread' <=> OccupiesThread(r)',
           KeepsConnection(r)' => r \in checkedOut',
           r \in checkedOut' => KeepsConnection(r)' \/ At(r, "closing")',
           ~ThreadIsFree => (r \in onThread' => r \in onThread),
           ~ConnectionIsFree => (r \in checkedOut' => r \in checkedOut)
    PROVE  NothingLeaks'
<1>1. onThread' = {v \in Request : OccupiesThread(v)'}
  BY DEF NothingLeaks, OccupiesThread, TypeOK
<1>2. \A v \in Request : KeepsConnection(v)' => v \in checkedOut'
  BY DEF NothingLeaks, KeepsConnection
<1>3. \A v \in checkedOut' : KeepsConnection(v)' \/ At(v, "closing")'
  BY DEF NothingLeaks, KeepsConnection, At, TypeOK
<1>4. Cardinality(onThread') <= MaxThreads
  <2>1. CASE r \in onThread' => r \in onThread
    <3>1. onThread' \subseteq onThread
      BY <2>1 DEF TypeOK
    <3> QED
      BY <3>1, OneLess, SupplyAssumption DEF NothingLeaks, TypeOK
  <2>2. CASE ThreadIsFree /\ r \in onThread' /\ r \notin onThread
    <3>1. onThread' = onThread \cup {r}
      BY <2>2 DEF TypeOK
    <3> QED
      BY <2>2, <3>1, OneMore, SupplyAssumption DEF ThreadIsFree, TypeOK
  <2> QED
    BY <2>1, <2>2
<1>5. Cardinality(checkedOut') <= MaxConnections
  <2>1. CASE r \in checkedOut' => r \in checkedOut
    <3>1. checkedOut' \subseteq checkedOut
      BY <2>1 DEF TypeOK
    <3> QED
      BY <3>1, OneLess, SupplyAssumption DEF NothingLeaks, TypeOK
  <2>2. CASE ConnectionIsFree /\ r \in checkedOut' /\ r \notin checkedOut
    <3>1. checkedOut' = checkedOut \cup {r}
      BY <2>2 DEF TypeOK
    <3> QED
      BY <2>2, <3>1, OneMore, SupplyAssumption DEF ConnectionIsFree, TypeOK
  <2> QED
    BY <2>1, <2>2
<1> QED
  BY <1>1, <1>2, <1>3, <1>4, <1>5 DEF NothingLeaks

LEMMA LeakInit == Init => NothingLeaks
<1> SUFFICES ASSUME Init PROVE NothingLeaks
  OBVIOUS
<1>1. \A r \in Request : req[r].pc = "idle"
  BY DEF Init, NoJob
<1> QED
  BY <1>1, FS_EmptySet, SupplyAssumption
     DEF Init, NothingLeaks, OccupiesThread, KeepsConnection

LEMMA LeakStep == TypeOK /\ TypeOK' /\ NothingLeaks /\ [Next]_vars => NothingLeaks'
<1> SUFFICES ASSUME TypeOK, TypeOK', NothingLeaks, [Next]_vars PROVE NothingLeaks'
  OBVIOUS
<1>1. ASSUME NEW r \in Request, NEW u \in User, NEW token \in Token \ {"none"},
             NEW route \in Route, Arrive(r, u, token, route)
      PROVE  NothingLeaks'
  <2>1. req[r].pc = "idle" /\ req'[r].pc = "arrived" /\ \A v \in Request \ {r} : req'[v] = req[v]
    BY <1>1, ArriveEffect DEF Arrive, At
  <2>2. r \notin onThread /\ r \notin checkedOut
    BY <2>1 DEF NothingLeaks, OccupiesThread, KeepsConnection, At
  <2> QED
    BY <1>1, <2>1, <2>2, AccountsKept DEF Arrive, OccupiesThread, KeepsConnection
<1>2. ASSUME NEW r \in Request, OpenSession(r) PROVE NothingLeaks'
  <2>1. /\ req[r].pc = "arrived" /\ req'[r].pc \in {"opened"}
        /\ \A v \in Request \ {r} : req'[v] = req[v]
    BY <1>2, GotoEffect, SettleEffect DEF OpenSession, Moved, At, Phase, Answer
  <2> QED
    BY <1>2, <2>1, AccountsKept
       DEF OpenSession, OnFreeThread, NothingLeaks, OccupiesThread, KeepsConnection, At
<1>3. ASSUME NEW r \in Request, DecodeToken(r) PROVE NothingLeaks'
  <2>1. req[r].pc = "opened" /\ r \notin onThread /\ r \notin checkedOut
    BY <1>3 DEF DecodeToken, NothingLeaks, OccupiesThread, KeepsConnection, At
  <2>2. CASE Settle(r, "401") /\ UNCHANGED onThread
    <3>1. req'[r].pc = "closing" /\ \A v \in Request \ {r} : req'[v] = req[v]
      BY <2>2, SettleEffect DEF Moved, Answer
    <3> QED
      BY <1>3, <2>1, <2>2, <3>1, AccountsKept
         DEF DecodeToken, OccupiesThread, KeepsConnection, At
  <2>3. CASE Goto(r, "queued") /\ onThread' = onThread \cup {r}
    <3>1. req'[r].pc = "queued" /\ \A v \in Request \ {r} : req'[v] = req[v]
      BY <2>3, GotoEffect DEF Moved, Phase
    <3> QED
      BY <1>3, <2>1, <2>3, <3>1, AccountsKept
         DEF DecodeToken, OccupiesThread, KeepsConnection, At
  <2> QED
    BY <1>3, <2>2, <2>3 DEF DecodeToken
<1>4. ASSUME NEW r \in Request, TakeConnection(r) PROVE NothingLeaks'
  <2>1. /\ req[r].pc = "queued" /\ req'[r].pc \in {"reading"}
        /\ \A v \in Request \ {r} : req'[v] = req[v]
    BY <1>4, GotoEffect, SettleEffect DEF TakeConnection, Moved, At, Phase, Answer
  <2> QED
    BY <1>4, <2>1, AccountsKept
       DEF TakeConnection, NothingLeaks, OccupiesThread, KeepsConnection, At
<1>5. ASSUME NEW r \in Request, TimeOut(r) PROVE NothingLeaks'
  <2>1. /\ req[r].pc = "queued" /\ req'[r].pc \in {"closing"}
        /\ \A v \in Request \ {r} : req'[v] = req[v]
    BY <1>5, GotoEffect, SettleEffect DEF TimeOut, Moved, At, Phase, Answer
  <2> QED
    BY <1>5, <2>1, AccountsKept
       DEF TimeOut, NothingLeaks, OccupiesThread, KeepsConnection, At
<1>6. ASSUME NEW r \in Request, ReadUser(r) PROVE NothingLeaks'
  <2>1. /\ req[r].pc = "reading" /\ req'[r].pc \in {"loaded", "closing"}
        /\ \A v \in Request \ {r} : req'[v] = req[v]
    BY <1>6, GotoEffect, SettleEffect DEF ReadUser, Moved, At, Phase, Answer
  <2> QED
    BY <1>6, <2>1, AccountsKept
       DEF ReadUser, NothingLeaks, OccupiesThread, KeepsConnection, At
<1>7. ASSUME NEW r \in Request, ReadFails(r) PROVE NothingLeaks'
  <2>1. /\ req[r].pc = "reading" /\ req'[r].pc \in {"closing"}
        /\ \A v \in Request \ {r} : req'[v] = req[v]
    BY <1>7, GotoEffect, SettleEffect DEF ReadFails, Moved, At, Phase, Answer
  <2> QED
    BY <1>7, <2>1, AccountsKept
       DEF ReadFails, NothingLeaks, OccupiesThread, KeepsConnection, At
<1>8. ASSUME NEW r \in Request, CheckRole(r) PROVE NothingLeaks'
  <2>1. /\ req[r].pc = "loaded" /\ req'[r].pc \in {"cleared", "closing"}
        /\ \A v \in Request \ {r} : req'[v] = req[v]
    BY <1>8, GotoEffect, SettleEffect DEF CheckRole, Moved, At, Phase, Answer
  <2> QED
    BY <1>8, <2>1, AccountsKept
       DEF CheckRole, OnFreeThread, NothingLeaks, OccupiesThread, KeepsConnection, At
<1>9. ASSUME NEW r \in Request, BuildService(r) PROVE NothingLeaks'
  <2>1. /\ req[r].pc = "cleared" /\ req'[r].pc \in {"ready"}
        /\ \A v \in Request \ {r} : req'[v] = req[v]
    BY <1>9, GotoEffect, SettleEffect DEF BuildService, Moved, At, Phase, Answer
  <2> QED
    BY <1>9, <2>1, AccountsKept
       DEF BuildService, OnFreeThread, NothingLeaks, OccupiesThread, KeepsConnection, At
<1>10. ASSUME NEW r \in Request, StartHandler(r) PROVE NothingLeaks'
  <2>1. /\ req[r].pc = "ready" /\ req'[r].pc \in {"running"}
        /\ \A v \in Request \ {r} : req'[v] = req[v]
    BY <1>10, GotoEffect, SettleEffect DEF StartHandler, Moved, At, Phase, Answer
  <2> QED
    BY <1>10, <2>1, AccountsKept
       DEF StartHandler, NothingLeaks, OccupiesThread, KeepsConnection, At
<1>11. ASSUME NEW r \in Request, FinishHandler(r) PROVE NothingLeaks'
  <2>1. /\ req[r].pc = "running" /\ req'[r].pc \in {"returned", "closing"}
        /\ \A v \in Request \ {r} : req'[v] = req[v]
    BY <1>11, GotoEffect, SettleEffect DEF FinishHandler, Moved, At, Phase, Answer
  <2> QED
    BY <1>11, <2>1, AccountsKept
       DEF FinishHandler, NothingLeaks, OccupiesThread, KeepsConnection, At
<1>12. ASSUME NEW r \in Request, ValidateResponse(r) PROVE NothingLeaks'
  <2>1. /\ req[r].pc = "returned" /\ req'[r].pc \in {"closing"}
        /\ \A v \in Request \ {r} : req'[v] = req[v]
    BY <1>12, GotoEffect, SettleEffect DEF ValidateResponse, Moved, At, Phase, Answer
  <2> QED
    BY <1>12, <2>1, AccountsKept
       DEF ValidateResponse, OnFreeThread, NothingLeaks, OccupiesThread, KeepsConnection, At
<1>13. ASSUME NEW r \in Request, CloseSession(r) PROVE NothingLeaks'
  <2>1. /\ req[r].pc = "closing" /\ req'[r].pc = "idle"
        /\ \A v \in Request \ {r} : req'[v] = req[v]
    BY <1>13, CloseEffect, NoJobType DEF CloseSession, Becomes, At
  <2> QED
    BY <1>13, <2>1, AccountsKept
       DEF CloseSession, NothingLeaks, OccupiesThread, KeepsConnection, At
<1>14. ASSUME NEW u \in User, DeleteUser(u) PROVE NothingLeaks'
  BY <1>14 DEF DeleteUser, NothingLeaks, OccupiesThread, KeepsConnection, At
<1>15. ASSUME Crash PROVE NothingLeaks'
  <2>1. \A r \in Request : req'[r].pc = "idle"
    BY <1>15, NoJobType DEF Crash
  <2> QED
    BY <1>15, <2>1, FS_EmptySet, SupplyAssumption
       DEF Crash, NothingLeaks, OccupiesThread, KeepsConnection
<1>16. ASSUME UNCHANGED vars PROVE NothingLeaks'
  BY <1>16 DEF vars, NothingLeaks, OccupiesThread, KeepsConnection, At
<1> QED
  BY <1>1, <1>2, <1>3, <1>4, <1>5, <1>6, <1>7, <1>8, <1>9, <1>10, <1>11, <1>12, <1>13, <1>14, <1>15, <1>16 DEF Next, NeedsThread, Proceed

\* Threads and connections are accounted for and their limits hold, for every
\* size of the two supplies, whatever way requests end.
THEOREM SuppliesAreConserved == Spec => []NothingLeaks
<1> QED
  BY TypeInit, TypeStep, LeakInit, LeakStep, PTL DEF Spec

\* In a stall the threads and the connections belong to different requests.
LEMMA StallCount ==
    ASSUME TypeOK, NothingLeaks, Stalled
    PROVE  Cardinality(Active) >= MaxThreads + MaxConnections
<1>1. onThread \cap checkedOut = {}
  BY DEF Stalled, NothingLeaks, KeepsConnection, At, TypeOK
<1>2. onThread \cup checkedOut \subseteq Active
  BY DEF Stalled, NothingLeaks, OccupiesThread, KeepsConnection, Active, At, TypeOK
<1>3. IsFiniteSet(onThread) /\ IsFiniteSet(checkedOut)
  BY SomeRequests DEF TypeOK
<1>4. Cardinality(onThread) >= MaxThreads /\ Cardinality(checkedOut) >= MaxConnections
  BY <1>3, FS_CardinalityType, SupplyAssumption DEF Stalled, ThreadIsFree, ConnectionIsFree
<1>5. Cardinality(onThread \cup checkedOut) = Cardinality(onThread) + Cardinality(checkedOut)
  <2>1. Cardinality(onThread \cup checkedOut)
          = Cardinality(onThread) + Cardinality(checkedOut) - Cardinality(onThread \cap checkedOut)
    BY <1>3, FS_Union
  <2>2. Cardinality(onThread \cap checkedOut) = 0
    BY <1>1, FS_EmptySet
  <2>3. Cardinality(onThread) \in Nat /\ Cardinality(checkedOut) \in Nat
    BY <1>3, FS_CardinalityType
  <2> QED
    BY <2>1, <2>2, <2>3
<1>6. Active \in SUBSET Request
  BY DEF Active
<1>7. IsFiniteSet(Active) /\ Cardinality(Active) \in Nat
  BY <1>6, SomeRequests
<1>8. Cardinality(onThread \cup checkedOut) <= Cardinality(Active)
  BY <1>2, <1>7, FS_Subset
<1> QED
  BY <1>3, <1>4, <1>5, <1>7, <1>8, FS_CardinalityType, SupplyAssumption

\* The server never stalls while it takes fewer requests at once than it has
\* threads and connections together.
THEOREM StallsNeedACrowd == Spec => []StallNeedsCrowd
<1>1. TypeOK /\ NothingLeaks => StallNeedsCrowd
  BY StallCount DEF StallNeedsCrowd
<1> QED
  BY <1>1, TypeCorrect, SuppliesAreConserved, PTL

-----------------------------------------------------------------------------
(* Deleted users *)

Served(u) == {r \in Request : req[r].user = u /\ Admitted(r)}

\* Nobody is late before the deletion; after it, what is late and what is still
\* being served together are at most what the server can hold.
LateInv ==
    \A u \in User :
        /\ u \notin deleted => late[u] = 0
        /\ u \in deleted => late[u] + Cardinality(Served(u)) <= Cardinality(Request)

LEMMA LateInit == Init => LateInv
BY DEF Init, LateInv

\* A step that lets nobody in on behalf of a deleted user keeps the bound.
LEMMA NobodyLetIn ==
    ASSUME TypeOK, LateInv, UNCHANGED <<deleted, late>>,
           \A u \in deleted : Served(u)' \subseteq Served(u)
    PROVE  LateInv'
<1> SUFFICES ASSUME NEW u \in deleted
             PROVE  late[u] + Cardinality(Served(u)') <= Cardinality(Request)
  BY DEF LateInv
<1>1. Served(u) \in SUBSET Request /\ Served(u)' \subseteq Served(u)
  BY DEF Served
<1>2. /\ Cardinality(Served(u)') \in Nat /\ Cardinality(Served(u)) \in Nat
      /\ Cardinality(Served(u)') <= Cardinality(Served(u))
  BY <1>1, SomeRequests, FS_Subset
<1>3. late[u] + Cardinality(Served(u)) <= Cardinality(Request) /\ late[u] \in Nat
  BY DEF LateInv, TypeOK
<1>4. Cardinality(Request) \in Nat
  BY SomeRequests
<1> QED
  BY <1>2, <1>3, <1>4

\* Only r moves, and it is admitted afterwards only if it was, for the same user.
LEMMA StaysOut ==
    ASSUME TypeOK, LateInv, NEW r \in Request, UNCHANGED <<deleted, late>>,
           \A v \in Request \ {r} : req'[v] = req[v],
           Admitted(r)' => Admitted(r) /\ req'[r].user = req[r].user
    PROVE  LateInv'
<1>1. \A u \in deleted : Served(u)' \subseteq Served(u)
  BY DEF Served, Admitted, At
<1> QED
  BY <1>1, NobodyLetIn

LEMMA LateStep == TypeOK /\ TypeOK' /\ LateInv /\ [Next]_vars => LateInv'
<1> SUFFICES ASSUME TypeOK, TypeOK', LateInv, [Next]_vars PROVE LateInv'
  OBVIOUS
<1>1. ASSUME NEW r \in Request, NEW u \in User, NEW token \in Token \ {"none"},
             NEW route \in Route, Arrive(r, u, token, route)
      PROVE  LateInv'
  BY <1>1, ArriveEffect, StaysOut DEF Arrive, Admitted, At
<1>2. ASSUME NEW r \in Request, OpenSession(r) PROVE LateInv'
  BY <1>2, GotoEffect, StaysOut DEF OpenSession, OnFreeThread, Moved, Admitted, At, Phase
<1>3. ASSUME NEW r \in Request, DecodeToken(r) PROVE LateInv'
  <2>1. \/ Moved(r, "closing") /\ req'[r].answer = "401"
        \/ Moved(r, "queued")
    BY <1>3, GotoEffect, SettleEffect DEF DecodeToken, Phase, Answer
  <2> QED
    BY <1>3, <2>1, StaysOut DEF DecodeToken, Moved, Admitted, At
<1>4. ASSUME NEW r \in Request, TakeConnection(r) PROVE LateInv'
  BY <1>4, GotoEffect, StaysOut DEF TakeConnection, Moved, Admitted, At, Phase
<1>5. ASSUME NEW r \in Request, TimeOut(r) PROVE LateInv'
  BY <1>5, SettleEffect, StaysOut DEF TimeOut, Moved, Admitted, At, Answer
<1>6. ASSUME NEW r \in Request, ReadUser(r) PROVE LateInv'
  <2>1. CASE Settle(r, "401")
    BY <1>6, <2>1, SettleEffect, StaysOut DEF ReadUser, Moved, Admitted, At, Answer
  <2>2. CASE req[r].user \notin deleted /\ Goto(r, "loaded")
    <3>1. Moved(r, "loaded")
      BY <2>2, GotoEffect DEF Phase
    <3>2. \A u \in deleted : Served(u)' \subseteq Served(u)
      BY <2>2, <3>1 DEF Moved, Served, Admitted, At
    <3> QED
      BY <1>6, <3>2, NobodyLetIn DEF ReadUser
  <2> QED
    BY <1>6, <2>1, <2>2 DEF ReadUser
<1>7. ASSUME NEW r \in Request, ReadFails(r) PROVE LateInv'
  BY <1>7, SettleEffect, StaysOut DEF ReadFails, Moved, Admitted, At, Answer
<1>8. ASSUME NEW r \in Request, CheckRole(r) PROVE LateInv'
  <2>1. \/ Moved(r, "closing") /\ req'[r].answer = "403"
        \/ Moved(r, "cleared")
    BY <1>8, GotoEffect, SettleEffect DEF CheckRole, Phase, Answer
  <2> QED
    BY <1>8, <2>1, StaysOut DEF CheckRole, OnFreeThread, Moved, Admitted, At
<1>9. ASSUME NEW r \in Request, BuildService(r) PROVE LateInv'
  BY <1>9, GotoEffect, StaysOut DEF BuildService, OnFreeThread, Moved, Admitted, At, Phase
<1>10. ASSUME NEW r \in Request, StartHandler(r) PROVE LateInv'
  BY <1>10, GotoEffect, StaysOut DEF StartHandler, Moved, Admitted, At, Phase
<1>11. ASSUME NEW r \in Request, FinishHandler(r) PROVE LateInv'
  <2>1. \/ Moved(r, "closing") /\ req'[r].answer = "refused"
        \/ Moved(r, "returned")
    BY <1>11, GotoEffect, SettleEffect DEF FinishHandler, Phase, Answer
  <2> QED
    BY <1>11, <2>1, StaysOut DEF FinishHandler, Moved, Admitted, At
<1>12. ASSUME NEW r \in Request, ValidateResponse(r) PROVE LateInv'
  <2>1. Moved(r, "closing")
    BY <1>12, SettleEffect DEF ValidateResponse, Answer
  <2> QED
    BY <1>12, <2>1, StaysOut DEF ValidateResponse, OnFreeThread, Moved, Admitted, At
<1>13. ASSUME NEW r \in Request, CloseSession(r) PROVE LateInv'
  <2>1. req'[r].pc = "idle" /\ \A v \in Request \ {r} : req'[v] = req[v]
    BY <1>13, CloseEffect, NoJobType DEF Becomes
  <2>2. CASE UNCHANGED late
    BY <1>13, <2>1, <2>2, StaysOut DEF CloseSession, Admitted, At
  <2>3. CASE /\ req[r].answer = "200"
             /\ req[r].user \in deleted
             /\ late' = [late EXCEPT ![req[r].user] = @ + 1]
    <3> SUFFICES ASSUME NEW u \in User
                 PROVE  /\ u \notin deleted => late'[u] = 0
                        /\ u \in deleted =>
                             late'[u] + Cardinality(Served(u)') <= Cardinality(Request)
      BY <1>13 DEF CloseSession, LateInv
    <3>1. CASE u # req[r].user
      <4>1. late'[u] = late[u] /\ Served(u)' = Served(u)
        BY <1>13, <2>1, <2>3, <3>1 DEF CloseSession, Served, Admitted, At, TypeOK
      <4> QED
        BY <4>1 DEF LateInv
    <3>2. CASE u = req[r].user
      <4>1. late'[u] = late[u] + 1 /\ late[u] \in Nat /\ u \in deleted
        BY <2>3, <3>2 DEF TypeOK
      <4>2. r \in Served(u) /\ Served(u)' = Served(u) \ {r}
        BY <1>13, <2>1, <2>3, <3>2 DEF CloseSession, Served, Admitted, At
      <4>3. Served(u) \in SUBSET Request
        BY DEF Served
      <4>4. IsFiniteSet(Served(u)) /\ Cardinality(Served(u)) \in Nat
        BY <4>3, SomeRequests
      <4>5. Cardinality(Served(u)') = Cardinality(Served(u)) - 1
        BY <4>2, <4>4, FS_RemoveElement
      <4>6. late[u] + Cardinality(Served(u)) <= Cardinality(Request)
        BY <4>1 DEF LateInv
      <4> QED
        BY <4>1, <4>4, <4>5, <4>6
    <3> QED
      BY <3>1, <3>2
  <2> QED
    BY <1>13, <2>2, <2>3 DEF CloseSession
<1>14. ASSUME NEW d \in User, DeleteUser(d) PROVE LateInv'
  <2> SUFFICES ASSUME NEW u \in User
               PROVE  /\ u \notin deleted' => late'[u] = 0
                      /\ u \in deleted' =>
                           late'[u] + Cardinality(Served(u)') <= Cardinality(Request)
    BY DEF LateInv
  <2>1. late' = late /\ Served(u)' = Served(u) /\ deleted' = deleted \cup {d}
    BY <1>14 DEF DeleteUser, Served, Admitted, At
  <2>2. Served(u) \in SUBSET Request
    BY DEF Served
  <2>3. Cardinality(Served(u)) \in Nat /\ Cardinality(Served(u)) <= Cardinality(Request)
    BY <2>2, SomeRequests
  <2> QED
    BY <1>14, <2>1, <2>3 DEF DeleteUser, LateInv
<1>15. ASSUME Crash PROVE LateInv'
  <2>1. \A r \in Request : req'[r].pc = "idle"
    BY <1>15, NoJobType DEF Crash
  <2>2. \A u \in deleted : Served(u)' \subseteq Served(u)
    BY <2>1 DEF Served, Admitted, At
  <2> QED
    BY <1>15, <2>2, NobodyLetIn DEF Crash
<1>16. ASSUME UNCHANGED vars PROVE LateInv'
  BY <1>16, NobodyLetIn DEF vars, Served, Admitted, At
<1> QED
  BY <1>1, <1>2, <1>3, <1>4, <1>5, <1>6, <1>7, <1>8, <1>9, <1>10, <1>11, <1>12, <1>13,
     <1>14, <1>15, <1>16 DEF Next, NeedsThread, Proceed

\* After a deletion the user is served at most once for every request the server
\* can hold, whatever their number and order.
THEOREM LateServiceIsBounded == Spec => []LateIsBounded
<1>1. TypeOK /\ LateInv => LateIsBounded
  BY DEF TypeOK, LateInv, LateIsBounded, Served
<1> QED
  BY <1>1, TypeInit, TypeStep, LateInit, LateStep, PTL DEF Spec
=============================================================================
