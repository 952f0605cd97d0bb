----------------------------- MODULE SwapProofs -----------------------------
(***************************************************************************)
(* Theorems about SwapWorkflow for every set of clients, swaps and people, *)
(* every size of the connection pool, rate limit and window.               *)
(***************************************************************************)
EXTENDS SwapWorkflow, FiniteSetTheorems, SequenceTheorems, TLAPS

-----------------------------------------------------------------------------
(* What the actions do to the request of the client they serve *)

\* Only the request of c changes, and it stays a request.
OnlyRequest(c) ==
    /\ req' \in [Client -> Request]
    /\ \A v \in Client : v # c => req'[v] = req[v]

\* The request keeps what it is about; only its progress changes.
SameJob(c) ==
    /\ req'[c].op = req[c].op
    /\ req'[c].swap = req[c].swap
    /\ req'[c].actor = req[c].actor
    /\ req'[c].decision = req[c].decision
    /\ req'[c].began = req[c].began

\* A step that answers the request of c.
LEMMA AnswerEffect ==
    ASSUME TypeOK, NEW c \in Client, NEW status \in Answer,
           req' = [req EXCEPT ![c] = [@ EXCEPT !.pc = "answered", !.answer = status]]
    PROVE  /\ OnlyRequest(c) /\ SameJob(c)
           /\ req'[c].pc = "answered" /\ req'[c].answer = status
<1> DEFINE q == [req[c] EXCEPT !.pc = "answered", !.answer = status]
<1>1. req[c] \in Request
  BY DEF TypeOK
<1>2. /\ q \in Request
      /\ q.pc = "answered" /\ q.answer = status
      /\ q.op = req[c].op /\ q.swap = req[c].swap /\ q.actor = req[c].actor
      /\ q.decision = req[c].decision /\ q.began = req[c].began
  BY <1>1 DEF Request, Phase
<1>3. req' = [req EXCEPT ![c] = q]
  OBVIOUS
<1> HIDE DEF q
<1> QED
  BY <1>2, <1>3 DEF TypeOK, OnlyRequest, SameJob

\* A step that moves the request of c to another phase.
LEMMA GotoEffect ==
    ASSUME TypeOK, NEW c \in Client, NEW phase \in Phase, Goto(c, phase)
    PROVE  /\ OnlyRequest(c) /\ SameJob(c)
           /\ req'[c].pc = phase /\ req'[c].answer = req[c].answer
  BY DEF TypeOK, Goto, OnlyRequest, SameJob, Request

\* A successful commit answers a submission with 201 and a decision with 200.
LEMMA CommitEffect ==
    ASSUME TypeOK, NEW c \in Client, Commit(c)
    PROVE  /\ OnlyRequest(c) /\ SameJob(c)
           /\ req'[c].pc = "answered"
           /\ req'[c].answer = IF req[c].op = "create" THEN "201" ELSE "200"
<1> DEFINE status == IF req[c].op = "create" THEN "201" ELSE "200"
<1>1. /\ status \in Answer
      /\ req' = [req EXCEPT ![c] = [@ EXCEPT !.pc = "answered", !.answer = status]]
  BY DEF Commit, Answer
<1> HIDE DEF status
<1>2. /\ OnlyRequest(c) /\ SameJob(c)
      /\ req'[c].pc = "answered" /\ req'[c].answer = status
  BY <1>1, AnswerEffect
<1> QED
  BY <1>2 DEF status

-----------------------------------------------------------------------------
(* Type correctness *)

\* What a request carries, and which answers its operation can have.
RequestFilled ==
    \A c \in Client :
      /\ req[c].op = "none" => req[c].pc \in {"idle", "answered"}
      /\ req[c].op # "none" => req[c].swap \in Swap
      /\ req[c].op = "create" => req[c].actor \in Staff
      /\ req[c].op = "decide" => req[c].actor \in Admin
      /\ req[c].pc = "checked" => req[c].op = "create"
      /\ req[c].pc = "locked" => req[c].op = "decide"
      /\ req[c].answer \in {"200", "409"} => req[c].op = "decide"

TypeInv == TypeOK /\ RequestFilled

\* The initial state is well typed.
LEMMA TypeInit == Init => TypeInv
  BY NullAssumption, RateAssumption
     DEF Init, TypeInv, TypeOK, RequestFilled, NoRequest, Request, Phase, Answer, Payload,
         Decision, Clock, AbsentRow, SwapRow

\* A commit puts well-typed rows into the tables.
LEMMA ApplyType ==
    ASSUME TypeInv, NEW c \in Client, At(c, "audited"), Apply(c)
    PROVE  swaps' \in [Swap -> SwapRow] /\ auditLog' \in [Swap -> Seq(AuditEntry)]
<1> DEFINE s == req[c].swap
<1>1. s \in Swap /\ req[c] \in Request
  BY DEF TypeInv, TypeOK, RequestFilled, At
<1>2. CASE req[c].op = "create"
  <2> DEFINE row == [status |-> "PENDING", requester |-> req[c].actor,
                     created |-> req[c].began, resolvedBy |-> Nobody]
             e == [action |-> "CREATE", actor |-> req[c].actor,
                   before |-> "absent", after |-> "PENDING"]
  <2>1. row \in SwapRow /\ e \in AuditEntry
    BY <1>1, <1>2 DEF TypeInv, RequestFilled, SwapRow, AuditEntry, Request
  <2>2. swaps' = [swaps EXCEPT ![s] = row] /\ auditLog' = [auditLog EXCEPT ![s] = Append(@, e)]
    BY <1>2 DEF Apply
  <2> HIDE DEF row, e, s
  <2>3. Append(auditLog[s], e) \in Seq(AuditEntry)
    BY <1>1, <2>1 DEF TypeInv, TypeOK
  <2> QED
    BY <1>1, <2>1, <2>2, <2>3 DEF TypeInv, TypeOK
<1>3. CASE req[c].op = "decide"
  <2> DEFINE row == [swaps[s] EXCEPT !.status = req[c].decision, !.resolvedBy = req[c].actor]
             e == [action |-> "UPDATE", actor |-> req[c].actor,
                   before |-> "PENDING", after |-> req[c].decision]
  <2>1. swaps[s] \in SwapRow
    BY <1>1 DEF TypeInv, TypeOK
  <2>2. row \in SwapRow /\ e \in AuditEntry
    BY <1>1, <1>3, <2>1 DEF TypeInv, RequestFilled, SwapRow, AuditEntry, Request
  <2>3. swaps' = [swaps EXCEPT ![s] = row] /\ auditLog' = [auditLog EXCEPT ![s] = Append(@, e)]
    BY <1>3 DEF Apply
  <2> HIDE DEF row, e, s
  <2>4. Append(auditLog[s], e) \in Seq(AuditEntry)
    BY <1>1, <2>2 DEF TypeInv, TypeOK
  <2> QED
    BY <1>1, <2>2, <2>3, <2>4 DEF TypeInv, TypeOK
<1> QED
  BY <1>2, <1>3 DEF Apply

\* Every step of the server keeps the state well typed.
LEMMA TypeStep == TypeInv /\ [Next]_vars => TypeInv'
<1> SUFFICES ASSUME TypeInv, [Next]_vars PROVE TypeInv'
  OBVIOUS
<1> USE DEF TypeInv, TypeOK, RequestFilled
<1>1. CASE UNCHANGED vars
  BY <1>1 DEF vars
<1>2. ASSUME NEW c \in Client, NEW s \in Swap, NEW u \in Staff, NEW p \in Payload,
             ReceiveCreate(c, s, u, p)
      PROVE  TypeInv'
  <2> DEFINE q == IF p # "sameShift"
                  THEN [NoRequest EXCEPT !.pc = "received", !.op = "create", !.swap = s,
                                         !.actor = u, !.payload = p, !.began = now]
                  ELSE [NoRequest EXCEPT !.pc = "answered", !.answer = "422"]
  <2>1. /\ q \in Request
        /\ q.pc \in {"received", "answered"} /\ q.answer \notin {"200", "409"}
        /\ q.op = "none" => q.pc = "answered"
        /\ q.op # "none" => q.op = "create" /\ q.swap = s /\ q.actor = u
    <3>1. CASE p # "sameShift"
      <4>1. q = [pc |-> "received", op |-> "create", swap |-> s, actor |-> u, payload |-> p,
                 decision |-> "APPROVED", began |-> now, answer |-> "none"]
        BY <3>1 DEF NoRequest
      <4> HIDE DEF q
      <4> QED
        BY <4>1 DEF Request, Phase, Answer, Decision
    <3>2. CASE p = "sameShift"
      <4>1. q = [pc |-> "answered", op |-> "none", swap |-> NoSwap, actor |-> Nobody,
                 payload |-> "valid", decision |-> "APPROVED", began |-> 0, answer |-> "422"]
        BY <3>2 DEF NoRequest
      <4> HIDE DEF q
      <4> QED
        BY <4>1, RateAssumption DEF Request, Phase, Answer, Decision, Payload, Clock
    <3> QED
      BY <3>1, <3>2
  <2>2. req' = [req EXCEPT ![c] = q] /\ UNCHANGED <<swaps, auditLog, told, now>>
    BY <1>2 DEF ReceiveCreate
  <2> HIDE DEF q
  <2> QED
    BY <2>1, <2>2
<1>3. ASSUME NEW c \in Client, NEW s \in Swap, NEW a \in Deciders, NEW d \in Decision,
             ReceiveDecision(c, s, a, d)
      PROVE  TypeInv'
  BY <1>3 DEF ReceiveDecision, Deciders, NoRequest, Request, Phase, Answer, Payload
<1>4. ASSUME NEW c \in Client, NEW phase \in Phase, Goto(c, phase), req[c].op # "none",
             phase = "checked" => req[c].op = "create",
             phase = "locked" => req[c].op = "decide"
      PROVE  TypeInv'
  <2>1. /\ OnlyRequest(c) /\ SameJob(c)
        /\ req'[c].pc = phase /\ req'[c].answer = req[c].answer
    BY <1>4, GotoEffect
  <2> QED
    BY <1>4, <2>1 DEF Goto, OnlyRequest, SameJob
<1>5. ASSUME NEW c \in Client, NEW status \in Answer, OnlyRequest(c), SameJob(c),
             req'[c].pc = "answered", req'[c].answer = status,
             status \in {"200", "409"} => req[c].op = "decide",
             swaps' \in [Swap -> SwapRow], auditLog' \in [Swap -> Seq(AuditEntry)],
             UNCHANGED <<told, now>>
      PROVE  TypeInv'
  BY <1>5 DEF OnlyRequest, SameJob
<1>6. ASSUME NEW c \in Client, NEW status \in Answer, Refuse(c, status),
             status \in {"200", "409"} => req[c].op = "decide"
      PROVE  TypeInv'
  <2>1. /\ OnlyRequest(c) /\ SameJob(c)
        /\ req'[c].pc = "answered" /\ req'[c].answer = status
    BY <1>6, AnswerEffect DEF Refuse
  <2> QED
    BY <1>5, <1>6, <2>1 DEF Refuse
<1>7. ASSUME NEW c \in Client, CheckRate(c) \/ InsertSwap(c)
      PROVE  TypeInv'
  <2>1. req[c].op = "create"
    BY <1>7 DEF CheckRate, InsertSwap, At
  <2> QED
    BY <1>4, <1>6, <1>7, <2>1 DEF CheckRate, InsertSwap, Phase, Answer
<1>8. ASSUME NEW c \in Client, LockSwap(c)
      PROVE  TypeInv'
  BY <1>4, <1>6, <1>8 DEF LockSwap, Phase, Answer
<1>9. ASSUME NEW c \in Client, SetStatus(c) \/ RecordAudit(c)
      PROVE  TypeInv'
  BY <1>4, <1>9 DEF SetStatus, RecordAudit, At, Phase
<1>10. ASSUME NEW c \in Client, Commit(c)
       PROVE  TypeInv'
  <2>1. /\ OnlyRequest(c) /\ SameJob(c) /\ req'[c].pc = "answered"
        /\ req'[c].answer = IF req[c].op = "create" THEN "201" ELSE "200"
    BY <1>10, CommitEffect
  <2>2. req[c].op \in {"create", "decide"}
    BY <1>10 DEF Commit, Apply
  <2>3. req'[c].answer \in Answer
    BY <2>1 DEF Answer
  <2>4. swaps' \in [Swap -> SwapRow] /\ auditLog' \in [Swap -> Seq(AuditEntry)]
    BY <1>10, ApplyType DEF Commit
  <2>5. /\ UNCHANGED <<told, now>>
        /\ req'[c].answer \in {"200", "409"} => req[c].op = "decide"
    BY <1>10, <2>1, <2>2 DEF Commit
  <2> QED
    BY <1>5, <2>1, <2>3, <2>4, <2>5
<1>11. ASSUME NEW c \in Client, Respond(c)
       PROVE  TypeInv'
  <2>1. req[c].answer = "200" => req[c].swap \in Swap
    OBVIOUS
  <2>2. told' \in [Swap -> Nat]
    <3> DEFINE s == req[c].swap
    <3>1. CASE req[c].answer = "200"
      <4>1. s \in Swap /\ told' = [told EXCEPT ![s] = @ + 1]
        BY <1>11, <2>1, <3>1 DEF Respond
      <4> HIDE DEF s
      <4> QED
        BY <4>1
    <3>2. CASE req[c].answer # "200"
      BY <1>11, <3>2 DEF Respond
    <3> QED
      BY <3>1, <3>2
  <2> QED
    BY <1>11, <2>2, NullAssumption, RateAssumption
       DEF Respond, NoRequest, Request, Phase, Answer, Payload, Decision, Clock
<1>12. ASSUME NEW c \in Client, StatementFails(c)
       PROVE  TypeInv'
  BY <1>6, <1>12 DEF StatementFails, Answer
<1>13. ASSUME NEW c \in Client, CommitFails(c)
       PROVE  TypeInv'
  <2>1. /\ OnlyRequest(c) /\ SameJob(c)
        /\ req'[c].pc = "answered" /\ req'[c].answer = "500" /\ "500" \in Answer
    BY <1>13, AnswerEffect DEF CommitFails, Answer
  <2>2. swaps' \in [Swap -> SwapRow] /\ auditLog' \in [Swap -> Seq(AuditEntry)]
    BY <1>13, ApplyType DEF CommitFails
  <2> QED
    BY <1>5, <1>13, <2>1, <2>2 DEF CommitFails
<1>14. CASE Crash
  BY <1>14, RateAssumption
     DEF Crash, NoRequest, Request, Phase, Answer, Payload, Decision, Clock
<1>15. CASE Tick
  BY <1>15, RateAssumption DEF Tick, Clock
<1> QED
  BY <1>1, <1>2, <1>3, <1>7, <1>8, <1>9, <1>10, <1>11, <1>12, <1>13, <1>14, <1>15
     DEF Next, Receive, Handle, Fail

\* Every reachable state of SwapWorkflow is well typed.
THEOREM TypeCorrect == Spec => []TypeOK
<1>1. TypeInv => TypeOK
  BY DEF TypeInv
<1> QED
  BY <1>1, TypeInit, TypeStep, PTL DEF Spec

-----------------------------------------------------------------------------
(* Row locks, decisions and the audit trail *)

\* A swap being submitted has an id of its own, unused until its commit.
FreshIds ==
    \A c \in Client : req[c].op = "create" =>
      /\ req[c].pc # "answered" => swaps[req[c].swap].status = "absent"
      /\ \A v \in Client \ {c} : req[v].op = "create" => req[v].swap # req[c].swap

\* A locked row is pending, and locked by one transaction.
LockHeld ==
    \A c \in Client : HoldsLock(c) =>
      /\ swaps[req[c].swap].status = "PENDING"
      /\ \A v \in Client \ {c} : HoldsLock(v) => req[v].swap # req[c].swap

\* A decision that is about to be announced.
Success(c) == At(c, "answered") /\ req[c].answer = "200"

\* A decision about to be announced has been taken, has not been announced
\* before, and is announced by nobody else.
ToldOnce ==
    /\ \A s \in Swap : told[s] # 0 => swaps[s].status \in Decision
    /\ \A c \in Client : Success(c) =>
         /\ swaps[req[c].swap].status \in Decision
         /\ told[req[c].swap] = 0
         /\ \A v \in Client \ {c} : Success(v) => req[v].swap # req[c].swap

LockInv ==
    /\ FreshIds
    /\ LockHeld
    /\ AuditReplaysRow
    /\ ConflictIsFinal
    /\ ToldOnce

\* No rows, no trail, nobody told.
LEMMA LockInit == Init => LockInv
  BY DEF Init, LockInv, FreshIds, LockHeld, HoldsLock, AuditReplaysRow, ConflictIsFinal, ToldOnce,
         Success, At, NoRequest, AbsentRow, Decision

\* What a commit does to the row of the request and to its trail: the row of a
\* submission appears, the pending row of a decision is decided.
LEMMA ApplyEffect ==
    ASSUME TypeInv, LockInv, NEW c \in Client, At(c, "audited"), Apply(c)
    PROVE  /\ req[c].swap \in Swap
           /\ \A r \in Swap : r # req[c].swap =>
                swaps'[r] = swaps[r] /\ auditLog'[r] = auditLog[r]
           /\ \/ /\ req[c].op = "create" /\ req[c].actor \in Staff
                 /\ swaps[req[c].swap].status = "absent"
                 /\ swaps'[req[c].swap].status = "PENDING"
                 /\ swaps'[req[c].swap].requester = req[c].actor
                 /\ auditLog[req[c].swap] = <<>>
                 /\ auditLog' = [auditLog EXCEPT ![req[c].swap] =
                      Append(@, [action |-> "CREATE", actor |-> req[c].actor,
                                 before |-> "absent", after |-> "PENDING"])]
              \/ /\ req[c].op = "decide" /\ req[c].actor \in Admin
                 /\ swaps[req[c].swap].status = "PENDING"
                 /\ req[c].decision \in Decision
                 /\ swaps'[req[c].swap].status = req[c].decision
                 /\ swaps'[req[c].swap].resolvedBy = req[c].actor
                 /\ swaps'[req[c].swap].requester = swaps[req[c].swap].requester
                 /\ swaps'[req[c].swap].created = swaps[req[c].swap].created
                 /\ auditLog' = [auditLog EXCEPT ![req[c].swap] =
                      Append(@, [action |-> "UPDATE", actor |-> req[c].actor,
                                 before |-> "PENDING", after |-> req[c].decision])]
<1> DEFINE s == req[c].swap
<1>1. s \in Swap /\ req[c].decision \in Decision /\ swaps[s] \in SwapRow
  BY DEF TypeInv, TypeOK, RequestFilled, At, Request
<1>2. CASE req[c].op = "create"
  <2>1. swaps[s].status = "absent" /\ req[c].actor \in Staff
    BY <1>2 DEF LockInv, FreshIds, At, TypeInv, RequestFilled
  <2>2. auditLog[s] = <<>>
    BY <1>1, <2>1 DEF LockInv, AuditReplaysRow
  <2>3. /\ swaps' = [swaps EXCEPT ![s] = [status |-> "PENDING", requester |-> req[c].actor,
                                          created |-> req[c].began, resolvedBy |-> Nobody]]
        /\ auditLog' = [auditLog EXCEPT ![s] =
             Append(@, [action |-> "CREATE", actor |-> req[c].actor,
                        before |-> "absent", after |-> "PENDING"])]
    BY <1>2 DEF Apply
  <2>4. /\ swaps'[s].status = "PENDING" /\ swaps'[s].requester = req[c].actor
        /\ \A r \in Swap : r # s => swaps'[r] = swaps[r] /\ auditLog'[r] = auditLog[r]
    BY <1>1, <2>3 DEF TypeInv, TypeOK
  <2> QED
    BY <1>1, <1>2, <2>1, <2>2, <2>3, <2>4
<1>3. CASE req[c].op = "decide"
  <2> DEFINE row == [swaps[s] EXCEPT !.status = req[c].decision, !.resolvedBy = req[c].actor]
  <2>1. swaps[s].status = "PENDING" /\ req[c].actor \in Admin
    BY <1>3 DEF LockInv, LockHeld, HoldsLock, At, TypeInv, RequestFilled
  <2>2. /\ row.status = req[c].decision /\ row.resolvedBy = req[c].actor
        /\ row.requester = swaps[s].requester /\ row.created = swaps[s].created
    BY <1>1 DEF SwapRow
  <2>3. /\ swaps' = [swaps EXCEPT ![s] = row]
        /\ auditLog' = [auditLog EXCEPT ![s] =
             Append(@, [action |-> "UPDATE", actor |-> req[c].actor,
                        before |-> "PENDING", after |-> req[c].decision])]
    BY <1>3 DEF Apply
  <2> HIDE DEF row
  <2> QED
    BY <1>1, <1>3, <2>1, <2>2, <2>3 DEF TypeInv, TypeOK
<1> QED
  BY <1>2, <1>3 DEF Apply

\* The trails a submission and a decision leave.
LEMMA FirstEntry == ASSUME NEW e PROVE Append(<<>>, e) = <<e>>
  OBVIOUS

\* The trail after a second entry.
LEMMA SecondEntry == ASSUME NEW d, NEW e PROVE Append(<<d>>, e) = <<d, e>>
<1> DEFINE S == {d, e}
<1>1. <<d>> \in Seq(S) /\ e \in S /\ <<d, e>> \in Seq(S)
  OBVIOUS
<1> HIDE DEF S
<1>2. /\ Append(<<d>>, e) \in Seq(S)
      /\ Len(Append(<<d>>, e)) = Len(<<d>>) + 1
      /\ \A i \in 1 .. Len(<<d>>) : Append(<<d>>, e)[i] = <<d>>[i]
      /\ Append(<<d>>, e)[Len(<<d>>) + 1] = e
  BY <1>1, AppendProperties
<1>3. /\ Len(<<d>>) = 1 /\ <<d>>[1] = d
      /\ Len(<<d, e>>) = 2 /\ <<d, e>>[1] = d /\ <<d, e>>[2] = e
  OBVIOUS
<1> DEFINE p == Append(<<d>>, e)
           q == <<d, e>>
<1>4. /\ p \in Seq(S) /\ q \in Seq(S) /\ Len(p) = 2 /\ Len(q) = 2
      /\ p[1] = q[1] /\ p[2] = q[2]
  BY <1>1, <1>2, <1>3
<1> HIDE DEF p, q
<1>5. \A i \in 1 .. Len(p) : p[i] = q[i]
  BY <1>4
<1>6. p = q
  BY <1>4, <1>5, SeqEqual
<1> QED
  BY <1>6 DEF p, q

\* A commit keeps every row in step with its trail.
LEMMA ApplyTrail ==
    ASSUME TypeInv, TypeInv', LockInv, NEW c \in Client, At(c, "audited"), Apply(c)
    PROVE  AuditReplaysRow'
<1> DEFINE s == req[c].swap
<1>1. /\ s \in Swap
      /\ \A r \in Swap : r # s => swaps'[r] = swaps[r] /\ auditLog'[r] = auditLog[r]
  BY ApplyEffect
<1> DEFINE Replays(row, log) ==
             LET create == [action |-> "CREATE", actor |-> row.requester,
                            before |-> "absent", after |-> "PENDING"]
                 update == [action |-> "UPDATE", actor |-> row.resolvedBy,
                            before |-> "PENDING", after |-> row.status]
             IN  /\ row.status = "absent" => log = <<>>
                 /\ row.status = "PENDING" => log = <<create>>
                 /\ row.status \in Decision => log = <<create, update>>
<1>2. \A r \in Swap : Replays(swaps[r], auditLog[r])
  BY DEF LockInv, AuditReplaysRow
<1>3. Replays(swaps'[s], auditLog'[s])
  <2>1. CASE req[c].op = "create"
    <3> DEFINE e == [action |-> "CREATE", actor |-> req[c].actor,
                     before |-> "absent", after |-> "PENDING"]
    <3>1. /\ swaps'[s].status = "PENDING" /\ swaps'[s].requester = req[c].actor
          /\ auditLog[s] = <<>>
          /\ auditLog' = [auditLog EXCEPT ![s] = Append(@, e)]
      BY <2>1, ApplyEffect
    <3>2. auditLog'[s] = <<e>>
      <4> HIDE DEF e, s
      <4>1. auditLog'[s] = Append(auditLog[s], e)
        BY <1>1, <3>1 DEF TypeInv, TypeOK
      <4> QED
        BY <3>1, <4>1, FirstEntry
    <3> QED
      BY <3>1, <3>2 DEF Decision
  <2>2. CASE req[c].op = "decide"
    <3> DEFINE d == [action |-> "CREATE", actor |-> swaps[s].requester,
                     before |-> "absent", after |-> "PENDING"]
               e == [action |-> "UPDATE", actor |-> req[c].actor,
                     before |-> "PENDING", after |-> req[c].decision]
    <3>1. /\ swaps[s].status = "PENDING"
          /\ swaps'[s].status = req[c].decision /\ swaps'[s].resolvedBy = req[c].actor
          /\ swaps'[s].requester = swaps[s].requester
          /\ req[c].decision \in Decision
          /\ auditLog' = [auditLog EXCEPT ![s] = Append(@, e)]
      BY <2>2, ApplyEffect
    <3>2. auditLog[s] = <<d>>
      BY <1>1, <1>2, <3>1
    <3>3. auditLog'[s] = <<d, e>>
      <4> HIDE DEF d, e, s
      <4>1. auditLog'[s] = Append(auditLog[s], e)
        BY <1>1, <3>1 DEF TypeInv, TypeOK
      <4> QED
        BY <3>2, <4>1, SecondEntry
    <3>4. swaps'[s].status # "absent" /\ swaps'[s].status # "PENDING"
      BY <3>1 DEF Decision
    <3> QED
      BY <3>1, <3>3, <3>4
  <2> QED
    BY <2>1, <2>2 DEF Apply
<1>4. \A r \in Swap : Replays(swaps'[r], auditLog'[r])
  BY <1>1, <1>2, <1>3
<1> QED
  BY <1>4 DEF AuditReplaysRow

\* Every step keeps row locks exclusive, rows and trails in step, and decisions
\* announced once.
LEMMA LockStep == TypeInv /\ TypeInv' /\ LockInv /\ [Next]_vars => LockInv'
<1> SUFFICES ASSUME TypeInv, TypeInv', LockInv, [Next]_vars PROVE LockInv'
  OBVIOUS
<1> USE DEF HoldsLock, At, Success
<1>1. CASE UNCHANGED vars
  BY <1>1 DEF vars, LockInv, FreshIds, LockHeld, AuditReplaysRow, ConflictIsFinal, ToldOnce
<1>2. ASSUME NEW c \in Client, NEW status \in Answer \ {"200"}, Refuse(c, status),
             status = "409" => swaps[req[c].swap].status \in Decision
      PROVE  LockInv'
  <2>1. /\ OnlyRequest(c) /\ SameJob(c)
        /\ req'[c].pc = "answered" /\ req'[c].answer = status
    BY <1>2, AnswerEffect DEF Refuse, TypeInv
  <2> QED
    BY <1>2, <2>1 DEF Refuse, OnlyRequest, SameJob, LockInv, FreshIds, LockHeld,
                      AuditReplaysRow, ConflictIsFinal, ToldOnce
<1>3. ASSUME NEW c \in Client, NEW s \in Swap, NEW u \in Staff, NEW p \in Payload,
             ReceiveCreate(c, s, u, p)
      PROVE  LockInv'
  <2>1. /\ \/ /\ req'[c].op = "create" /\ req'[c].swap = s /\ req'[c].pc = "received"
              /\ req'[c].answer = "none"
           \/ req'[c].op = "none" /\ req'[c].answer = "422"
        /\ \A v \in Client : v # c => req'[v] = req[v]
        /\ swaps[s].status = "absent"
        /\ \A v \in Client : req[v].op = "create" => req[v].swap # s
        /\ UNCHANGED <<swaps, auditLog, told>>
    BY <1>3 DEF ReceiveCreate, NoRequest, TypeInv, TypeOK
  <2> QED
    BY <2>1 DEF LockInv, FreshIds, LockHeld, AuditReplaysRow, ConflictIsFinal, ToldOnce
<1>4. ASSUME NEW c \in Client, NEW s \in Swap, NEW a \in Deciders, NEW d \in Decision,
             ReceiveDecision(c, s, a, d)
      PROVE  LockInv'
  <2>1. /\ req'[c].op = "decide" /\ req'[c].pc = "received"
        /\ \A v \in Client : v # c => req'[v] = req[v]
        /\ UNCHANGED <<swaps, auditLog, told>>
    BY <1>4 DEF ReceiveDecision, NoRequest, TypeInv, TypeOK
  <2> QED
    BY <2>1 DEF LockInv, FreshIds, LockHeld, AuditReplaysRow, ConflictIsFinal, ToldOnce
<1>5. ASSUME NEW c \in Client, NEW phase \in Phase \ {"answered"}, Goto(c, phase),
             req[c].pc # "answered",
             req[c].op = "decide" => HoldsLock(c)
      PROVE  LockInv'
  <2>1. OnlyRequest(c) /\ SameJob(c) /\ req'[c].pc = phase
    BY <1>5, GotoEffect DEF TypeInv
  <2> QED
    BY <1>5, <2>1 DEF Goto, OnlyRequest, SameJob, LockInv, FreshIds, LockHeld,
                      AuditReplaysRow, ConflictIsFinal, ToldOnce
<1>6. ASSUME NEW c \in Client, CheckRate(c) \/ InsertSwap(c)
      PROVE  LockInv'
  BY <1>2, <1>5, <1>6 DEF CheckRate, InsertSwap, Phase, Answer, TypeInv, RequestFilled
<1>7. ASSUME NEW c \in Client, LockSwap(c)
      PROVE  LockInv'
  <2>1. CASE swaps[req[c].swap].status = "absent" /\ Refuse(c, "404")
    BY <1>2, <2>1 DEF Answer
  <2>2. CASE swaps[req[c].swap].status \in Decision /\ Refuse(c, "409")
    BY <1>2, <2>2 DEF Answer
  <2>3. CASE swaps[req[c].swap].status = "PENDING" /\ Goto(c, "locked")
    <3>1. OnlyRequest(c) /\ SameJob(c) /\ req'[c].pc = "locked"
      BY <2>3, GotoEffect DEF Phase, TypeInv
    <3>2. req[c].op = "decide" /\ RowIsFree(c)
      BY <1>7 DEF LockSwap
    <3>3. LockHeld'
      BY <2>3, <3>1, <3>2 DEF Goto, RowIsFree, OnlyRequest, SameJob, LockInv, LockHeld
    <3> QED
      BY <2>3, <3>1, <3>2, <3>3
         DEF Goto, OnlyRequest, SameJob, LockInv, FreshIds, AuditReplaysRow, ConflictIsFinal,
             ToldOnce
  <2> QED
    BY <1>7, <2>1, <2>2, <2>3 DEF LockSwap
<1>8. ASSUME NEW c \in Client, SetStatus(c) \/ RecordAudit(c)
      PROVE  LockInv'
  BY <1>5, <1>8 DEF SetStatus, RecordAudit, Phase
<1>9. ASSUME NEW c \in Client, req[c].pc = "audited", Apply(c), OnlyRequest(c), SameJob(c),
             req'[c].pc = "answered", req'[c].answer \in {"200", "201", "500"},
             req'[c].answer = "200" => req[c].op = "decide",
             UNCHANGED told
      PROVE  LockInv'
  <2> DEFINE s == req[c].swap
  <2>1. AuditReplaysRow'
    BY <1>9, ApplyTrail
  <2>2. /\ s \in Swap
        /\ \A r \in Swap : r # s => swaps'[r] = swaps[r]
        /\ \/ /\ req[c].op = "create"
              /\ swaps[s].status = "absent" /\ swaps'[s].status = "PENDING"
           \/ /\ req[c].op = "decide"
              /\ swaps[s].status = "PENDING" /\ swaps'[s].status \in Decision
    BY <1>9, ApplyEffect
  <2>3. told[s] = 0 /\ \A v \in Client : Success(v) => req[v].swap # s
    BY <2>2 DEF LockInv, ToldOnce, Decision
  <2>4. FreshIds'
    BY <1>9, <2>2 DEF OnlyRequest, SameJob, LockInv, FreshIds, TypeInv, RequestFilled
  <2>5. LockHeld'
    BY <1>9, <2>2 DEF OnlyRequest, SameJob, LockInv, LockHeld, TypeInv, RequestFilled, Decision
  <2>6. ConflictIsFinal'
    BY <1>9, <2>2
       DEF OnlyRequest, SameJob, LockInv, ConflictIsFinal, TypeInv, RequestFilled, Decision
  <2>7. ToldOnce'
    <3>1. \A r \in Swap : swaps[r].status \in Decision => swaps'[r].status \in Decision
      BY <2>2 DEF Decision
    <3>2. \A r \in Swap : told[r] # 0 => swaps'[r].status \in Decision
      BY <3>1 DEF LockInv, ToldOnce
    <3>3. ASSUME NEW v \in Client, v # c, Success(v)'
          PROVE  /\ swaps'[req'[v].swap].status \in Decision
                 /\ told[req'[v].swap] = 0
                 /\ \A x \in Client \ {v} : Success(x)' => req'[x].swap # req'[v].swap
      <4>1. Success(v) /\ req'[v] = req[v] /\ req[v].swap \in Swap /\ req[v].swap # s
        BY <1>9, <2>3, <3>3 DEF OnlyRequest, TypeInv, RequestFilled
      <4> QED
        BY <1>9, <3>1, <4>1 DEF OnlyRequest, SameJob, LockInv, ToldOnce
    <3>4. ASSUME Success(c)'
          PROVE  /\ swaps'[req'[c].swap].status \in Decision
                 /\ told[req'[c].swap] = 0
                 /\ \A x \in Client \ {c} : Success(x)' => req'[x].swap # req'[c].swap
      <4>1. req[c].op = "decide" /\ req'[c].swap = s
        BY <1>9, <3>4 DEF SameJob
      <4> QED
        BY <1>9, <2>2, <2>3, <4>1 DEF OnlyRequest
    <3> QED
      BY <1>9, <3>2, <3>3, <3>4 DEF ToldOnce
  <2> QED
    BY <2>1, <2>4, <2>5, <2>6, <2>7 DEF LockInv
<1>10. ASSUME NEW c \in Client, Commit(c)
       PROVE  LockInv'
  <2>1. /\ OnlyRequest(c) /\ SameJob(c) /\ req'[c].pc = "answered"
        /\ req'[c].answer = IF req[c].op = "create" THEN "201" ELSE "200"
    BY <1>10, CommitEffect DEF TypeInv
  <2>2. req[c].op \in {"create", "decide"}
    BY <1>10 DEF Commit, Apply
  <2> QED
    BY <1>9, <1>10, <2>1, <2>2 DEF Commit
<1>11. ASSUME NEW c \in Client, Respond(c)
       PROVE  LockInv'
  <2>1. /\ req'[c] = NoRequest
        /\ \A v \in Client : v # c => req'[v] = req[v]
        /\ UNCHANGED <<swaps, auditLog>>
    BY <1>11 DEF Respond, TypeInv, TypeOK
  <2>2. ToldOnce'
    <3>1. CASE req[c].answer = "200"
      <4>1. /\ Success(c) /\ req[c].swap \in Swap
            /\ told' = [told EXCEPT ![req[c].swap] = @ + 1]
        BY <1>11, <3>1 DEF Respond, TypeInv, RequestFilled
      <4>2. swaps[req[c].swap].status \in Decision
        BY <4>1 DEF LockInv, ToldOnce
      <4>3. \A v \in Client : Success(v)' => v # c /\ Success(v)
        BY <2>1 DEF NoRequest
      <4>4. \A r \in Swap : r # req[c].swap => told'[r] = told[r]
        BY <4>1 DEF TypeInv, TypeOK
      <4>5. \A v \in Client \ {c} : Success(v) =>
              req[v].swap \in Swap /\ req[v].swap # req[c].swap
        BY <4>1 DEF LockInv, ToldOnce, TypeInv, RequestFilled
      <4> QED
        BY <2>1, <4>2, <4>3, <4>4, <4>5 DEF LockInv, ToldOnce
    <3>2. CASE req[c].answer # "200"
      BY <1>11, <2>1, <3>2 DEF Respond, LockInv, ToldOnce, NoRequest
    <3> QED
      BY <3>1, <3>2
  <2> QED
    BY <2>1, <2>2 DEF NoRequest, LockInv, FreshIds, LockHeld, AuditReplaysRow, ConflictIsFinal
<1>12. ASSUME NEW c \in Client, StatementFails(c)
       PROVE  LockInv'
  BY <1>2, <1>12 DEF StatementFails, Answer
<1>13. ASSUME NEW c \in Client, CommitFails(c)
       PROVE  LockInv'
  <2>1. /\ OnlyRequest(c) /\ SameJob(c)
        /\ req'[c].pc = "answered" /\ req'[c].answer = "500"
    BY <1>13, AnswerEffect DEF CommitFails, Answer, TypeInv
  <2>2. CASE Apply(c)
    BY <1>9, <1>13, <2>1, <2>2 DEF CommitFails
  <2>3. CASE UNCHANGED <<swaps, auditLog>>
    BY <1>13, <2>1, <2>3 DEF CommitFails, OnlyRequest, SameJob, LockInv, FreshIds, LockHeld,
                             AuditReplaysRow, ConflictIsFinal, ToldOnce
  <2> QED
    BY <1>13, <2>2, <2>3 DEF CommitFails
<1>14. CASE Crash
  BY <1>14 DEF Crash, NoRequest, LockInv, FreshIds, LockHeld, AuditReplaysRow, ConflictIsFinal,
               ToldOnce
<1>15. CASE Tick
  BY <1>15 DEF Tick, LockInv, FreshIds, LockHeld, AuditReplaysRow, ConflictIsFinal, ToldOnce
<1> QED
  BY <1>1, <1>3, <1>4, <1>6, <1>7, <1>8, <1>10, <1>11, <1>12, <1>13, <1>14, <1>15
     DEF Next, Receive, Handle, Fail

\* HR-02, for any number of clients, administrators and swaps: a row is what its
\* audit trail says, and is decided at most once.
THEOREM TrailIsExact == Spec => []AuditReplaysRow
<1>1. TypeInv /\ LockInv => AuditReplaysRow
  BY DEF LockInv
<1> QED
  BY <1>1, TypeInit, TypeStep, LockInit, LockStep, PTL DEF Spec

\* AU-08: a 409 is about a swap that has been decided for good.
THEOREM ConflictsAreFinal == Spec => []ConflictIsFinal
<1>1. TypeInv /\ LockInv => ConflictIsFinal
  BY DEF LockInv
<1> QED
  BY <1>1, TypeInit, TypeStep, LockInit, LockStep, PTL DEF Spec

-----------------------------------------------------------------------------
(* The workflow implements the swap life cycle *)

\* A commit is a submission or a decision of the life cycle.
LEMMA ApplyRefines ==
    ASSUME TypeInv, LockInv, NEW c \in Client, At(c, "audited"), Apply(c), UNCHANGED told
    PROVE  Lifecycle!Next
<1> DEFINE status == [r \in Swap |-> swaps[r].status]
<1>1. PICK s \in Swap : s = req[c].swap
  BY ApplyEffect
<1>2. CASE req[c].op = "create"
  <2>1. PICK u \in Staff : u = req[c].actor
    BY <1>2, ApplyEffect
  <2>2. /\ swaps[s].status = "absent" /\ swaps'[s].status = "PENDING"
        /\ \A r \in Swap : r # s => swaps'[r] = swaps[r]
        /\ auditLog' = [auditLog EXCEPT ![s] =
             Append(@, [action |-> "CREATE", actor |-> u,
                        before |-> "absent", after |-> "PENDING"])]
    BY <1>1, <1>2, <2>1, ApplyEffect
  <2>3. status' = [status EXCEPT ![s] = "PENDING"]
    BY <2>2
  <2>4. Lifecycle!Submit(s, u)
    BY <2>2, <2>3 DEF Lifecycle!Submit, Lifecycle!Submitted
  <2> QED
    BY <2>4 DEF Lifecycle!Next
<1>3. CASE req[c].op = "decide"
  <2>1. PICK a \in Admin, d \in Decision : a = req[c].actor /\ d = req[c].decision
    BY <1>3, ApplyEffect
  <2>2. /\ swaps[s].status = "PENDING" /\ swaps'[s].status = d
        /\ \A r \in Swap : r # s => swaps'[r] = swaps[r]
        /\ auditLog' = [auditLog EXCEPT ![s] =
             Append(@, [action |-> "UPDATE", actor |-> a,
                        before |-> "PENDING", after |-> d])]
    BY <1>1, <1>3, <2>1, ApplyEffect
  <2>3. status' = [status EXCEPT ![s] = d]
    BY <2>2
  <2>4. Lifecycle!Decide(s, a, d)
    BY <2>2, <2>3 DEF Lifecycle!Decide, Lifecycle!Decided
  <2> QED
    BY <2>4 DEF Lifecycle!Next, Lifecycle!Decision, Decision
<1> QED
  BY <1>2, <1>3 DEF Apply

\* The response that announces a decision is a Tell; any other response is none
\* of the life cycle's business.
LEMMA RespondRefines ==
    ASSUME TypeInv, LockInv, NEW c \in Client, Respond(c)
    PROVE  [Lifecycle!Next]_(Lifecycle!vars)
<1> DEFINE s == req[c].swap
<1>1. UNCHANGED <<swaps, auditLog>>
  BY DEF Respond
<1>2. CASE req[c].answer = "200"
  <2>1. s \in Swap /\ Success(c)
    BY <1>2 DEF Respond, Success, TypeInv, RequestFilled
  <2>2. swaps[s].status \in Decision /\ told[s] = 0
    BY <2>1 DEF LockInv, ToldOnce
  <2>3. told' = [told EXCEPT ![s] = 1]
    BY <1>2, <2>1, <2>2 DEF Respond
  <2>4. Lifecycle!Tell(s)
    BY <1>1, <2>1, <2>2, <2>3 DEF Lifecycle!Tell, Lifecycle!Decision, Decision
  <2> QED
    BY <2>1, <2>4 DEF Lifecycle!Next
<1>3. CASE req[c].answer # "200"
  BY <1>1, <1>3 DEF Respond, Lifecycle!vars
<1> QED
  BY <1>2, <1>3

\* A step of the workflow is a step of the life cycle or leaves it alone.
LEMMA StepRefines ==
    TypeInv /\ LockInv /\ [Next]_vars => [Lifecycle!Next]_(Lifecycle!vars)
<1> SUFFICES ASSUME TypeInv, LockInv, [Next]_vars
             PROVE  [Lifecycle!Next]_(Lifecycle!vars)
  OBVIOUS
<1>1. ASSUME UNCHANGED <<swaps, auditLog, told>>
      PROVE  [Lifecycle!Next]_(Lifecycle!vars)
  BY <1>1 DEF Lifecycle!vars
<1>2. ASSUME NEW c \in Client, Receive(c)
      PROVE  UNCHANGED <<swaps, auditLog, told>>
  BY <1>2 DEF Receive, ReceiveCreate, ReceiveDecision
<1>3. ASSUME NEW c \in Client,
             CheckRate(c) \/ InsertSwap(c) \/ LockSwap(c) \/ SetStatus(c) \/ RecordAudit(c)
               \/ StatementFails(c)
      PROVE  UNCHANGED <<swaps, auditLog, told>>
  BY <1>3 DEF CheckRate, InsertSwap, LockSwap, SetStatus, RecordAudit, StatementFails, Goto,
              Refuse
<1>4. ASSUME NEW c \in Client, Commit(c) \/ CommitFails(c)
      PROVE  [Lifecycle!Next]_(Lifecycle!vars)
  BY <1>1, <1>4, ApplyRefines DEF Commit, CommitFails
<1>5. CASE UNCHANGED vars \/ Crash \/ Tick
  BY <1>1, <1>5 DEF vars, Crash, Tick
<1> QED
  BY <1>1, <1>2, <1>3, <1>4, <1>5, RespondRefines DEF Next, Handle, Fail

\* For any number of clients, administrators and swaps, under races, failures and
\* crashes, a swap is decided once and one client at most is told that it was.
THEOREM WorkflowImplementsLifecycle == Spec => ImplementsLifecycle
<1>1. Init => Lifecycle!Init
  BY DEF Init, Lifecycle!Init, AbsentRow
<1> QED
  BY <1>1, TypeInit, TypeStep, LockInit, LockStep, StepRefines, PTL
     DEF Spec, ImplementsLifecycle, Lifecycle!Spec

-----------------------------------------------------------------------------
(* The rate limit *)

\* The requests with a connection are no more than the pool has connections.
PoolInv == IsFiniteSet(Connected) /\ Cardinality(Connected) <= PoolSize

\* Nobody has a connection to begin with.
LEMMA PoolInit == Init => PoolInv
<1> SUFFICES ASSUME Init PROVE PoolInv
  OBVIOUS
<1>1. Connected = {}
  BY DEF Init, Connected, NoRequest
<1> QED
  BY <1>1, FS_EmptySet, PoolAssumption DEF PoolInv

\* Fewer requests with a connection are still within the pool.
LEMMA FewerConnected ==
    ASSUME PoolInv, Connected' \subseteq Connected
    PROVE  PoolInv'
<1>1. IsFiniteSet(Connected') /\ Cardinality(Connected') <= Cardinality(Connected)
  BY FS_Subset DEF PoolInv
<1>2. Cardinality(Connected') \in Nat /\ Cardinality(Connected) \in Nat
  BY <1>1, FS_CardinalityType DEF PoolInv
<1> QED
  BY <1>1, <1>2, PoolAssumption DEF PoolInv

\* Only a request that arrives takes a connection, and it has waited for one.
LEMMA PoolStep == TypeInv /\ PoolInv /\ [Next]_vars => PoolInv'
<1> SUFFICES ASSUME TypeInv, PoolInv, [Next]_vars PROVE PoolInv'
  OBVIOUS
<1>1. ASSUME Connected' \subseteq Connected
      PROVE  PoolInv'
  BY <1>1, FewerConnected
<1>2. CASE UNCHANGED req
  BY <1>1, <1>2 DEF Connected
<1>3. ASSUME NEW c \in Client, Receive(c)
      PROVE  PoolInv'
  <2>1. ConnectionIsFree /\ \A v \in Client : v # c => req'[v] = req[v]
    BY <1>3 DEF Receive, ReceiveCreate, ReceiveDecision, TypeInv, TypeOK
  <2>2. Connected' \in SUBSET (Connected \cup {c})
    BY <2>1 DEF Connected
  <2>3. /\ IsFiniteSet(Connected \cup {c})
        /\ Cardinality(Connected \cup {c}) <= Cardinality(Connected) + 1
    BY FS_AddElement, FS_CardinalityType DEF PoolInv
  <2>4. IsFiniteSet(Connected') /\ Cardinality(Connected') <= Cardinality(Connected \cup {c})
    BY <2>2, <2>3, FS_Subset
  <2>5. /\ Cardinality(Connected') \in Nat /\ Cardinality(Connected) \in Nat
        /\ Cardinality(Connected \cup {c}) \in Nat
    BY <2>3, <2>4, FS_CardinalityType DEF PoolInv
  <2> QED
    BY <2>1, <2>3, <2>4, <2>5, PoolAssumption DEF PoolInv, ConnectionIsFree
<1>4. ASSUME NEW c \in Client,
             \/ CheckRate(c) \/ InsertSwap(c) \/ LockSwap(c) \/ SetStatus(c) \/ RecordAudit(c)
             \/ Commit(c) \/ Fail(c)
      PROVE  PoolInv'
  <2>1. c \in Connected
    BY <1>4 DEF CheckRate, InsertSwap, LockSwap, SetStatus, RecordAudit, Commit, Fail,
                StatementFails, CommitFails, At, Connected
  <2>2. \A v \in Client : v # c => req'[v] = req[v]
    BY <1>4 DEF CheckRate, InsertSwap, LockSwap, SetStatus, RecordAudit, Commit, Fail,
                StatementFails, CommitFails, Goto, Refuse, TypeInv, TypeOK
  <2> QED
    BY <1>1, <2>1, <2>2 DEF Connected
<1>5. ASSUME NEW c \in Client, Respond(c)
      PROVE  PoolInv'
  BY <1>1, <1>5 DEF Respond, NoRequest, Connected, TypeInv, TypeOK
<1>6. CASE Crash
  BY <1>1, <1>6 DEF Crash, NoRequest, Connected
<1> QED
  BY <1>2, <1>3, <1>4, <1>5, <1>6 DEF Next, Handle, Tick, vars

\* A row that names a requester is there.
RequestersKnown == \A s \in Swap : swaps[s].requester \in Staff => swaps[s].status # "absent"

\* No row names anybody to begin with.
LEMMA RequestersInit == Init => RequestersKnown
  BY NullAssumption DEF Init, RequestersKnown, AbsentRow

\* A commit that names a requester makes the row.
LEMMA RequestersStep ==
    TypeInv /\ LockInv /\ RequestersKnown /\ [Next]_vars => RequestersKnown'
<1> SUFFICES ASSUME TypeInv, LockInv, RequestersKnown, [Next]_vars PROVE RequestersKnown'
  OBVIOUS
<1>1. CASE UNCHANGED swaps
  BY <1>1 DEF RequestersKnown
<1>2. ASSUME NEW c \in Client, At(c, "audited"), Apply(c)
      PROVE  RequestersKnown'
  BY <1>2, ApplyEffect DEF RequestersKnown, Decision
<1> QED
  BY <1>1, <1>2
     DEF Next, Receive, ReceiveCreate, ReceiveDecision, Handle, Fail, CheckRate, InsertSwap,
         LockSwap, SetStatus, RecordAudit, Commit, Respond, StatementFails, CommitFails, Crash,
         Tick, Goto, Refuse, vars

\* What the query counts is what the user has submitted within the window.
LEMMA RecentIsSubmitted ==
    ASSUME TypeInv, RequestersKnown, NEW u \in Staff
    PROVE  Submitted(u) = Recent(u)
<1>1. /\ now \in Int /\ RateWindow \in Int
      /\ \A s \in Swap : swaps[s].created \in Int
  BY RateAssumption DEF TypeInv, TypeOK, SwapRow, Clock
<1>2. ASSUME NEW s \in Swap
      PROVE  now - swaps[s].created <= RateWindow <=> swaps[s].created >= now - RateWindow
  BY <1>1
<1> QED
  BY <1>2 DEF Submitted, Recent, RequestersKnown

\* Room for b submissions beyond the last that may be; the finiteness that makes
\* the cardinality meaningful rides along.
Room(b, u) ==
    /\ IsFiniteSet(Recent(u))
    /\ Cardinality(Recent(u)) + Cardinality(Unseen(u)) <= RateMax - 1 + b

RateInv(b) == \A u \in Staff : Room(b, u)

\* No more than b submissions of a user are past their check.
UnseenWithin(b) ==
    \A u \in Staff : IsFiniteSet(Unseen(u)) /\ Cardinality(Unseen(u)) <= b

\* The submissions past their check are within the pool.
LEMMA UnseenWithinPool == PoolInv => UnseenWithin(PoolSize)
<1> SUFFICES ASSUME PoolInv, NEW u \in Staff
             PROVE  IsFiniteSet(Unseen(u)) /\ Cardinality(Unseen(u)) <= PoolSize
  BY DEF UnseenWithin
<1>1. Unseen(u) \in SUBSET Connected
  BY DEF Unseen, Connected
<1>2. IsFiniteSet(Unseen(u)) /\ Cardinality(Unseen(u)) <= Cardinality(Connected)
  BY <1>1, FS_Subset DEF PoolInv
<1>3. Cardinality(Unseen(u)) \in Nat /\ Cardinality(Connected) \in Nat
  BY <1>2, FS_CardinalityType DEF PoolInv
<1> QED
  BY <1>2, <1>3, PoolAssumption DEF PoolInv

\* Nobody has submitted anything to begin with.
LEMMA RateInit == ASSUME NEW b \in Nat PROVE Init => RateInv(b)
<1> SUFFICES ASSUME Init, NEW u \in Staff
             PROVE  Room(b, u)
  BY DEF RateInv
<1>1. Recent(u) = {} /\ Unseen(u) = {}
  BY DEF Init, Recent, Unseen, AbsentRow, NoRequest
<1>2. IsFiniteSet({}) /\ Cardinality({}) = 0
  BY FS_EmptySet
<1> QED
  BY <1>1, <1>2, RateAssumption DEF Room

\* A step that neither brings the user a swap nor lets a check pass keeps the bound.
LEMMA QuietStep ==
    ASSUME NEW b \in Nat, NEW u \in Staff, RateInv(b), UnseenWithin(b),
           Recent(u)' \subseteq Recent(u), Unseen(u)' \subseteq Unseen(u)
    PROVE  Room(b, u)'
<1>1. /\ IsFiniteSet(Recent(u)) /\ IsFiniteSet(Unseen(u))
      /\ Cardinality(Recent(u)) + Cardinality(Unseen(u)) <= RateMax - 1 + b
      /\ Recent(u)' \in SUBSET Recent(u) /\ Unseen(u)' \in SUBSET Unseen(u)
  BY DEF RateInv, UnseenWithin, Room
<1>2. IsFiniteSet(Recent(u)') /\ Cardinality(Recent(u)') <= Cardinality(Recent(u))
  BY <1>1, FS_Subset
<1>3. IsFiniteSet(Unseen(u)') /\ Cardinality(Unseen(u)') <= Cardinality(Unseen(u))
  BY <1>1, FS_Subset
<1>4. /\ Cardinality(Recent(u)) \in Nat /\ Cardinality(Recent(u)') \in Nat
      /\ Cardinality(Unseen(u)) \in Nat /\ Cardinality(Unseen(u)') \in Nat
      /\ RateMax \in Nat
  BY <1>1, <1>2, <1>3, FS_CardinalityType, RateAssumption
<1> QED
  BY <1>1, <1>2, <1>3, <1>4 DEF Room

\* A check that passes has counted fewer than RateMax swaps.
LEMMA CheckedStep ==
    ASSUME NEW b \in Nat, NEW u \in Staff, RateInv(b), UnseenWithin(b)',
           Recent(u)' = Recent(u), Cardinality(Recent(u)) < RateMax
    PROVE  Room(b, u)'
<1>1. /\ IsFiniteSet(Recent(u))
      /\ IsFiniteSet(Unseen(u)') /\ Cardinality(Unseen(u)') <= b
  BY DEF RateInv, Room, UnseenWithin
<1>2. /\ Cardinality(Recent(u)) \in Nat /\ Cardinality(Unseen(u)') \in Nat
      /\ RateMax \in Nat
  BY <1>1, FS_CardinalityType, RateAssumption
<1> QED
  BY <1>1, <1>2 DEF Room

\* A commit moves one submission of the user from the unseen to the counted.
LEMMA SubmittedStep ==
    ASSUME NEW b \in Nat, NEW u \in Staff, NEW s \in Swap, NEW c \in Unseen(u),
           RateInv(b), UnseenWithin(b),
           Recent(u)' \subseteq Recent(u) \cup {s}, Unseen(u)' \subseteq Unseen(u) \ {c}
    PROVE  Room(b, u)'
<1> DEFINE more == Recent(u) \cup {s}
           less == Unseen(u) \ {c}
<1>1. /\ IsFiniteSet(Recent(u))
      /\ Cardinality(Recent(u)) + Cardinality(Unseen(u)) <= RateMax - 1 + b
      /\ IsFiniteSet(Unseen(u))
  BY DEF RateInv, Room, UnseenWithin
<1>2. IsFiniteSet(more) /\ Cardinality(more) <= Cardinality(Recent(u)) + 1
  <2>1. /\ IsFiniteSet(more)
        /\ \/ Cardinality(more) = Cardinality(Recent(u))
           \/ Cardinality(more) = Cardinality(Recent(u)) + 1
    BY <1>1, FS_AddElement
  <2> QED
    BY <1>1, <2>1, FS_CardinalityType
<1>3. IsFiniteSet(less) /\ Cardinality(less) = Cardinality(Unseen(u)) - 1
  BY <1>1, FS_RemoveElement
<1>4. Recent(u)' \in SUBSET more /\ Unseen(u)' \in SUBSET less
  OBVIOUS
<1> HIDE DEF more, less
<1>5. /\ IsFiniteSet(Recent(u)') /\ Cardinality(Recent(u)') <= Cardinality(more)
      /\ IsFiniteSet(Unseen(u)') /\ Cardinality(Unseen(u)') <= Cardinality(less)
  BY <1>2, <1>3, <1>4, FS_Subset
<1>6. /\ Cardinality(Recent(u)) \in Nat /\ Cardinality(Recent(u)') \in Nat
      /\ Cardinality(Unseen(u)) \in Nat /\ Cardinality(Unseen(u)') \in Nat
      /\ Cardinality(more) \in Nat /\ Cardinality(less) \in Nat
      /\ RateMax \in Nat
  BY <1>1, <1>2, <1>3, <1>5, FS_CardinalityType, RateAssumption
<1> QED
  BY <1>1, <1>2, <1>3, <1>5, <1>6 DEF Room

\* As long as no more than b submissions of a user are past their check, every step
\* keeps them within the limit and b beyond the last that may be.
LEMMA RateStep ==
    ASSUME NEW b \in Nat
    PROVE  TypeInv /\ LockInv /\ UnseenWithin(b) /\ UnseenWithin(b)' /\ RateInv(b)
             /\ [Next]_vars => RateInv(b)'
<1> SUFFICES ASSUME TypeInv, LockInv, UnseenWithin(b), UnseenWithin(b)', RateInv(b),
                    [Next]_vars
             PROVE  RateInv(b)'
  OBVIOUS
<1> USE DEF At
<1>1. ASSUME \A u \in Staff : Recent(u)' \subseteq Recent(u) /\ Unseen(u)' \subseteq Unseen(u)
      PROVE  RateInv(b)'
  <2> SUFFICES ASSUME NEW u \in Staff
               PROVE  Room(b, u)'
    BY DEF RateInv
  <2> QED
    BY <1>1, QuietStep
<1>2. CASE UNCHANGED vars
  BY <1>1, <1>2 DEF vars, Recent, Unseen
<1>3. ASSUME NEW c \in Client, \A v \in Client : v # c => req'[v] = req[v],
             UNCHANGED <<swaps, now>>,
             req'[c].pc \in {"checked", "written", "audited"} =>
               \/ SameJob(c) /\ req[c].pc \in {"checked", "written", "audited"}
               \/ req'[c].op # "create"
      PROVE  RateInv(b)'
  <2>1. \A u \in Staff : Recent(u)' = Recent(u)
    BY <1>3 DEF Recent
  <2>2. \A u \in Staff : Unseen(u)' \subseteq Unseen(u)
    BY <1>3 DEF Unseen, SameJob
  <2> QED
    BY <1>1, <2>1, <2>2
<1>4. ASSUME NEW c \in Client, NEW status \in Answer, Refuse(c, status)
      PROVE  RateInv(b)'
  <2>1. OnlyRequest(c) /\ SameJob(c) /\ req'[c].pc = "answered"
    BY <1>4, AnswerEffect DEF Refuse, TypeInv
  <2> QED
    BY <1>3, <1>4, <2>1 DEF Refuse, OnlyRequest
<1>5. ASSUME NEW c \in Client, Receive(c)
      PROVE  RateInv(b)'
  <2>1. /\ req'[c].pc \in {"received", "answered"}
        /\ \A v \in Client : v # c => req'[v] = req[v]
        /\ UNCHANGED <<swaps, now>>
    <3>1. CASE \E s \in Swap, u \in Staff, p \in Payload : ReceiveCreate(c, s, u, p)
      BY <3>1 DEF ReceiveCreate, NoRequest, TypeInv, TypeOK
    <3>2. CASE \E s \in Swap, a \in Deciders, d \in Decision : ReceiveDecision(c, s, a, d)
      BY <3>2 DEF ReceiveDecision, NoRequest, TypeInv, TypeOK
    <3> QED
      BY <1>5, <3>1, <3>2 DEF Receive
  <2> QED
    BY <1>3, <2>1
<1>6. ASSUME NEW c \in Client, CheckRate(c)
      PROVE  RateInv(b)'
  <2>1. CASE Goto(c, "checked") /\ Cardinality(Recent(req[c].actor)) < RateMax
    <3> SUFFICES ASSUME NEW u \in Staff
                 PROVE  Room(b, u)'
      BY DEF RateInv
    <3>1. OnlyRequest(c) /\ SameJob(c)
      BY <2>1, GotoEffect DEF Phase, TypeInv
    <3>2. Recent(u)' = Recent(u)
      BY <2>1 DEF Goto, Recent
    <3>3. CASE u = req[c].actor
      BY <2>1, <3>2, <3>3, CheckedStep DEF Unseen
    <3>4. CASE u # req[c].actor
      <4>1. Unseen(u)' \subseteq Unseen(u)
        BY <3>1, <3>4 DEF Unseen, OnlyRequest, SameJob
      <4> QED
        BY <3>2, <4>1, QuietStep
    <3> QED
      BY <3>3, <3>4
  <2> QED
    BY <1>4, <1>6, <2>1 DEF CheckRate, Answer
<1>7. ASSUME NEW c \in Client, NEW phase \in Phase, Goto(c, phase),
             req[c].op = "create" => req[c].pc \in {"checked", "written"}
      PROVE  RateInv(b)'
  <2>1. OnlyRequest(c) /\ SameJob(c) /\ req'[c].pc = phase
    BY <1>7, GotoEffect DEF TypeInv
  <2> QED
    BY <1>3, <1>7, <2>1 DEF Goto, OnlyRequest, SameJob
<1>8. ASSUME NEW c \in Client, InsertSwap(c) \/ LockSwap(c) \/ SetStatus(c) \/ RecordAudit(c)
      PROVE  RateInv(b)'
  <2>1. CASE InsertSwap(c)
    BY <1>4, <1>7, <2>1 DEF InsertSwap, Phase, Answer
  <2>2. CASE LockSwap(c)
    BY <1>4, <1>7, <2>2 DEF LockSwap, Phase, Answer
  <2>3. CASE SetStatus(c) \/ RecordAudit(c)
    BY <1>7, <2>3 DEF SetStatus, RecordAudit, Phase, TypeInv, RequestFilled
  <2> QED
    BY <1>8, <2>1, <2>2, <2>3
<1>9. ASSUME NEW c \in Client, req[c].pc = "audited", Apply(c), OnlyRequest(c), SameJob(c),
             req'[c].pc = "answered", UNCHANGED now
      PROVE  RateInv(b)'
  <2> SUFFICES ASSUME NEW u \in Staff
               PROVE  Room(b, u)'
    BY DEF RateInv
  <2>1. /\ req[c].swap \in Swap
        /\ \A r \in Swap : r # req[c].swap => swaps'[r] = swaps[r]
    BY <1>9, ApplyEffect
  <2>2. Unseen(u)' \subseteq Unseen(u) \ {c}
    BY <1>9 DEF OnlyRequest, Unseen
  <2>3. CASE req[c].op = "create" /\ req[c].actor = u
    <3>1. Recent(u)' \subseteq Recent(u) \cup {req[c].swap}
      BY <1>9, <2>1 DEF Recent
    <3>2. c \in Unseen(u)
      BY <1>9, <2>3 DEF Unseen
    <3> QED
      BY <2>1, <2>2, <3>1, <3>2, SubmittedStep
  <2>4. CASE req[c].op = "create" /\ req[c].actor # u
    <3>1. swaps'[req[c].swap].requester # u
      BY <1>9, <2>4, ApplyEffect
    <3>2. Recent(u)' \subseteq Recent(u)
      BY <1>9, <2>1, <3>1 DEF Recent
    <3> QED
      BY <2>2, <3>2, QuietStep
  <2>5. CASE req[c].op = "decide"
    <3>1. /\ swaps[req[c].swap].status = "PENDING"
          /\ swaps'[req[c].swap].requester = swaps[req[c].swap].requester
          /\ swaps'[req[c].swap].created = swaps[req[c].swap].created
      BY <1>9, <2>5, ApplyEffect
    <3>2. Recent(u)' \subseteq Recent(u)
      BY <1>9, <2>1, <3>1 DEF Recent
    <3> QED
      BY <2>2, <3>2, QuietStep
  <2> QED
    BY <1>9, <2>3, <2>4, <2>5 DEF Apply
<1>10. ASSUME NEW c \in Client, Commit(c)
       PROVE  RateInv(b)'
  BY <1>9, <1>10, CommitEffect DEF Commit, TypeInv
<1>11. ASSUME NEW c \in Client, Respond(c)
       PROVE  RateInv(b)'
  <2>1. /\ req'[c].pc = "idle"
        /\ \A v \in Client : v # c => req'[v] = req[v]
        /\ UNCHANGED <<swaps, now>>
    BY <1>11 DEF Respond, NoRequest, TypeInv, TypeOK
  <2> QED
    BY <1>3, <2>1
<1>12. ASSUME NEW c \in Client, StatementFails(c)
       PROVE  RateInv(b)'
  BY <1>4, <1>12 DEF StatementFails, Answer
<1>13. ASSUME NEW c \in Client, CommitFails(c)
       PROVE  RateInv(b)'
  <2>1. OnlyRequest(c) /\ SameJob(c) /\ req'[c].pc = "answered"
    BY <1>13, AnswerEffect DEF CommitFails, Answer, TypeInv
  <2>2. CASE Apply(c)
    BY <1>9, <1>13, <2>1, <2>2 DEF CommitFails
  <2>3. CASE UNCHANGED <<swaps, auditLog>>
    BY <1>3, <1>13, <2>1, <2>3 DEF CommitFails, OnlyRequest
  <2> QED
    BY <1>13, <2>2, <2>3 DEF CommitFails
<1>14. CASE Crash
  <2>1. \A u \in Staff : Recent(u)' = Recent(u) /\ Unseen(u)' = {}
    BY <1>14 DEF Crash, NoRequest, Recent, Unseen
  <2> QED
    BY <1>1, <2>1
<1>15. CASE Tick
  <2>1. ASSUME NEW u \in Staff
        PROVE  Recent(u)' \subseteq Recent(u) /\ Unseen(u)' = Unseen(u)
    <3>1. \A s \in Swap : swaps[s].created \in Int
      BY RateAssumption DEF TypeInv, TypeOK, SwapRow, Clock
    <3>2. now \in Int /\ now' = now + 1 /\ RateWindow \in Int
      BY <1>15, RateAssumption DEF Tick, TypeInv, TypeOK, Clock
    <3> QED
      BY <1>15, <3>1, <3>2 DEF Tick, Recent, Unseen
  <2> QED
    BY <1>1, <2>1
<1> QED
  BY <1>2, <1>5, <1>6, <1>8, <1>10, <1>11, <1>12, <1>13, <1>14, <1>15 DEF Next, Handle, Fail

\* HR-03 without a lock: whatever runs together, a user has no more swaps in the
\* window than the limit and one for each connection beyond the last that may.
THEOREM RateIsBounded == Spec => []RateLimitBound
<1>1. PICK b \in Nat : b = PoolSize
  BY PoolAssumption
<1>2. Init => RateInv(b)
  BY RateInit
<1>3. PoolInv => UnseenWithin(b)
  BY <1>1, UnseenWithinPool DEF UnseenWithin
<1>4. TypeInv /\ LockInv /\ UnseenWithin(b) /\ UnseenWithin(b)' /\ RateInv(b)
        /\ [Next]_vars => RateInv(b)'
  BY RateStep
<1>5. RateInv(b) /\ TypeInv /\ RequestersKnown => RateLimitBound
  BY <1>1, RecentIsSubmitted DEF RateInv, Room, RateLimitBound
<1> QED
  BY <1>2, <1>3, <1>4, <1>5, TypeInit, TypeStep, LockInit, LockStep, PoolInit, PoolStep,
     RequestersInit, RequestersStep, PTL
     DEF Spec

\* No two submissions of one user are between the count and the end of their
\* transactions at once: what a lock on the user would give, and what the code
\* leaves to chance.
CountsApart == \A u \in Staff : \A c, v \in Unseen(u) : c = v

\* One submission at most is then past its check.
LEMMA UnseenWithinOne == CountsApart => UnseenWithin(1)
<1> SUFFICES ASSUME CountsApart, NEW u \in Staff
             PROVE  IsFiniteSet(Unseen(u)) /\ Cardinality(Unseen(u)) <= 1
  BY DEF UnseenWithin
<1>1. CASE Unseen(u) = {}
  BY <1>1, FS_EmptySet
<1>2. ASSUME NEW c \in Unseen(u)
      PROVE  IsFiniteSet(Unseen(u)) /\ Cardinality(Unseen(u)) <= 1
  <2>1. Unseen(u) = {c}
    BY <1>2 DEF CountsApart
  <2>2. IsFiniteSet({c}) /\ Cardinality({c}) = 1
    BY FS_Singleton
  <2> QED
    BY <2>1, <2>2
<1> QED
  BY <1>1, <1>2

\* Where submissions of one user are counted one at a time, each after the commit
\* of the one before, HR-03's limit is kept: their running together is the only way
\* beyond it.
THEOREM CountsApartKeepLimit == Spec /\ []CountsApart => []RateLimit
<1>1. PICK b \in Nat : b = 1
  OBVIOUS
<1>2. Init => RateInv(b)
  BY RateInit
<1>3. CountsApart => UnseenWithin(b)
  BY <1>1, UnseenWithinOne
<1>4. TypeInv /\ LockInv /\ UnseenWithin(b) /\ UnseenWithin(b)' /\ RateInv(b)
        /\ [Next]_vars => RateInv(b)'
  BY RateStep
<1>5. RateInv(b) /\ UnseenWithin(b) /\ TypeInv /\ RequestersKnown => RateLimit
  <2> SUFFICES ASSUME RateInv(b), UnseenWithin(b), TypeInv, RequestersKnown, NEW u \in Staff
               PROVE  Cardinality(Submitted(u)) <= RateMax
    BY DEF RateLimit
  <2>1. /\ IsFiniteSet(Recent(u)) /\ IsFiniteSet(Unseen(u))
        /\ Cardinality(Recent(u)) + Cardinality(Unseen(u)) <= RateMax - 1 + b
    BY DEF RateInv, Room, UnseenWithin
  <2>2. /\ Cardinality(Recent(u)) \in Nat /\ Cardinality(Unseen(u)) \in Nat
        /\ RateMax \in Nat
    BY <2>1, FS_CardinalityType, RateAssumption
  <2> QED
    BY <1>1, <2>1, <2>2, RecentIsSubmitted
<1> QED
  BY <1>2, <1>3, <1>4, <1>5, TypeInit, TypeStep, LockInit, LockStep,
     RequestersInit, RequestersStep, PTL
     DEF Spec
=============================================================================
