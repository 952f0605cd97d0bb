---------------------------- MODULE RosterProofs ----------------------------
(***************************************************************************)
(* Theorems about Roster for every set of clients, size of the connection  *)
(* pool, shifts, staff and instants.                                       *)
(***************************************************************************)
EXTENDS Roster, FiniteSetTheorems, TLAPS

-----------------------------------------------------------------------------
(* What the actions do to the request of the client they serve *)

\* Only the request of c changes, and it stays a request.
OnlyRequest(c) ==
    /\ req' \in [Client -> Request]
    /\ \A v \in Client : v # c => req'[v] = req[v]

\* The request keeps what it is about; only its progress changes.
SameJob(c) ==
    /\ req'[c].op = req[c].op
    /\ req'[c].shift = req[c].shift
    /\ req'[c].staff = req[c].staff
    /\ req'[c].window = req[c].window

\* A step that answers the request of c with an exception's status.
LEMMA AnswerEffect ==
    ASSUME TypeOK, NEW c \in Client, NEW status \in Answer,
           req' = [req EXCEPT ![c] = [@ EXCEPT !.pc = "answered", !.answer = status]]
    PROVE  /\ OnlyRequest(c) /\ SameJob(c)
           /\ req'[c].pc = "answered" /\ req'[c].answer = status
<1> DEFINE q == [req[c] EXCEPT !.pc = "answered", !.answer = status]
<1>1. req[c] \in Request
  BY DEF TypeOK
<1>2. /\ q \in Request
      /\ q.pc = "answered" /\ q.answer = status
      /\ q.op = req[c].op /\ q.shift = req[c].shift
      /\ q.staff = req[c].staff /\ q.window = req[c].window
  BY <1>1 DEF Request, Phase
<1>3. req' = [req EXCEPT ![c] = q]
  OBVIOUS
<1> HIDE DEF q
<1> QED
  BY <1>2, <1>3 DEF TypeOK, OnlyRequest, SameJob

\* A step that moves the request of c to another phase.
LEMMA GotoEffect ==
    ASSUME TypeOK, NEW c \in Client, NEW phase \in Phase, Goto(c, phase)
    PROVE  /\ OnlyRequest(c) /\ SameJob(c)
           /\ req'[c].pc = phase /\ req'[c].answer = req[c].answer
  BY DEF TypeOK, Goto, OnlyRequest, SameJob, Request

\* Loading the shift fills in its window.
LEMMA LoadEffect ==
    ASSUME TypeOK, NEW c \in Client, NEW win \in Window,
           req' = [req EXCEPT ![c] = [@ EXCEPT !.pc = "loaded", !.window = win]]
    PROVE  /\ OnlyRequest(c)
           /\ req'[c].op = req[c].op /\ req'[c].shift = req[c].shift
           /\ req'[c].staff = req[c].staff /\ req'[c].window = win
           /\ req'[c].pc = "loaded" /\ req'[c].answer = req[c].answer
<1> DEFINE q == [req[c] EXCEPT !.pc = "loaded", !.window = win]
<1>1. req[c] \in Request
  BY DEF TypeOK
<1>2. /\ q \in Request
      /\ q.pc = "loaded" /\ q.answer = req[c].answer
      /\ q.op = req[c].op /\ q.shift = req[c].shift
      /\ q.staff = req[c].staff /\ q.window = win
  BY <1>1 DEF Request, Phase
<1>3. req' = [req EXCEPT ![c] = q]
  OBVIOUS
<1> HIDE DEF q
<1> QED
  BY <1>2, <1>3 DEF TypeOK, OnlyRequest

\* A successful commit answers the request and keeps its job.
LEMMA CommitEffect ==
    ASSUME TypeOK, NEW c \in Client, Commit(c)
    PROVE  /\ OnlyRequest(c) /\ SameJob(c)
           /\ req'[c].pc = "answered" /\ req'[c].answer \in {"200", "201"}
<1> DEFINE status == IF req[c].op = "create" THEN "201" ELSE "200"
           q == [req[c] EXCEPT !.pc = "answered", !.answer = status]
<1>1. req[c] \in Request /\ status \in Answer /\ status \in {"200", "201"}
  BY DEF TypeOK, Answer
<1>2. /\ q \in Request
      /\ q.pc = "answered" /\ q.answer \in {"200", "201"}
      /\ q.op = req[c].op /\ q.shift = req[c].shift
      /\ q.staff = req[c].staff /\ q.window = req[c].window
  BY <1>1 DEF Request, Phase
<1>3. req' = [req EXCEPT ![c] = q]
  BY DEF Commit
<1> HIDE DEF q
<1> QED
  BY <1>2, <1>3 DEF TypeOK, OnlyRequest, SameJob

-----------------------------------------------------------------------------
(* Type correctness *)

\* The entry a request with a well-typed shift and staff member will write.
LEMMA EntryType ==
    ASSUME TypeOK, NEW c \in Client,
           req[c].op = "create" => req[c].shift \in Shift,
           req[c].op # "create" => req[c].shift \in Shift /\ req[c].staff \in StaffId
    PROVE  EntryOf(c) \in Entry
  BY DEF EntryOf, Entry

\* What a request carries once it is past the phases that fill it in.
RequestFilled ==
    \A c \in Client :
      /\ req[c].op = "none" => req[c].pc \in {"idle", "answered"}
                               /\ req[c].answer \notin {"200", "201"}
      /\ req[c].op # "none" => req[c].shift \in Shift
      /\ req[c].pc \in {"loaded", "checked"} => req[c].op = "assign"
      /\ req[c].op = "create" => req[c].window \in Window
      /\ req[c].op = "assign" => req[c].staff \in StaffId
      /\ req[c].op = "assign" /\ req[c].pc \in {"loaded", "checked", "inserted", "audited"}
           => req[c].window \in Window

\* Every row of shifts that is not absent has a window.
RowsFilled == \A s \in Shift : shifts[s].state # "absent" => shifts[s].window \in Window

TypeInv == TypeOK /\ RequestFilled /\ RowsFilled

\* The initial state is well typed.
LEMMA TypeInit == Init => TypeInv
  BY NullAssumption
     DEF Init, TypeInv, TypeOK, RequestFilled, RowsFilled, NoRequest, Request, Phase, Answer,
         AbsentRow, ShiftRow

\* Every step of the server keeps the state well typed.
LEMMA TypeStep == TypeInv /\ [Next]_vars => TypeInv'
<1> SUFFICES ASSUME TypeInv, [Next]_vars PROVE TypeInv'
  OBVIOUS
<1> USE DEF TypeInv, TypeOK, RequestFilled, RowsFilled
<1>1. CASE UNCHANGED vars
  BY <1>1 DEF vars
<1>2. ASSUME NEW c \in Client, NEW s \in Shift, NEW p \in Body, ReceiveCreate(c, s, p)
      PROVE  TypeInv'
  BY <1>2, BodyAssumption
     DEF ReceiveCreate, At, ValidPayload, Window, Payload, NoRequest, Request, Phase, Answer
<1>3. ASSUME NEW c \in Client, NEW s \in Shift, NEW u \in StaffId, ReceiveAssign(c, s, u)
      PROVE  TypeInv'
  BY <1>3 DEF ReceiveAssign, At, NoRequest, Request, Phase, Answer
<1>4. ASSUME NEW c \in Client, NEW phase \in Phase, Goto(c, phase), req[c].op # "none",
             phase = "checked" => req[c].op = "assign", phase # "loaded",
             phase \in {"checked", "inserted", "audited"} => req[c].window \in Window
      PROVE  TypeInv'
<2>1. OnlyRequest(c) /\ SameJob(c) /\ req'[c].pc = phase
  BY <1>4, GotoEffect
<2> QED
  BY <1>4, <2>1 DEF Goto, OnlyRequest, SameJob
<1>5. ASSUME NEW c \in Client, NEW status \in Answer \ {"200", "201"}, Refuse(c, status)
      PROVE  TypeInv'
<2>1. /\ OnlyRequest(c) /\ SameJob(c)
      /\ req'[c].pc = "answered" /\ req'[c].answer = status
  BY <1>5, AnswerEffect DEF Refuse
<2> QED
  BY <1>5, <2>1 DEF Refuse, OnlyRequest, SameJob
<1>6. ASSUME NEW c \in Client, InsertShift(c) \/ RecordAudit(c)
      PROVE  TypeInv'
<2>1. CASE InsertShift(c)
  BY <1>4, <2>1 DEF InsertShift, At, Phase
<2>2. CASE RecordAudit(c)
  <3>1. req[c].op \in {"create", "assign"} /\ req[c].window \in Window
    BY <2>2 DEF RecordAudit, At, Request
  <3> QED
    BY <1>4, <2>2, <3>1 DEF RecordAudit, At, Phase
<2> QED
  BY <1>6, <2>1, <2>2
<1>7. ASSUME NEW c \in Client, LoadShift(c)
      PROVE  TypeInv'
<2>1. CASE shifts[req[c].shift].state = "live"
  <3> DEFINE win == shifts[req[c].shift].window
  <3>1. req[c].shift \in Shift /\ win \in Window
    BY <1>7, <2>1 DEF LoadShift
  <3>2. /\ req' = [req EXCEPT ![c] = [@ EXCEPT !.pc = "loaded", !.window = win]]
        /\ UNCHANGED <<shifts, assignments, auditLog, acked>>
    BY <1>7, <2>1 DEF LoadShift
  <3> HIDE DEF win
  <3>3. /\ OnlyRequest(c)
        /\ req'[c].op = req[c].op /\ req'[c].shift = req[c].shift
        /\ req'[c].staff = req[c].staff /\ req'[c].window = win
        /\ req'[c].pc = "loaded"
    BY <3>1, <3>2, LoadEffect
  <3> QED
    BY <1>7, <3>1, <3>2, <3>3 DEF LoadShift, OnlyRequest
<2>2. CASE shifts[req[c].shift].state # "live"
  BY <1>5, <1>7, <2>2 DEF LoadShift, Answer
<2> QED
  BY <2>1, <2>2
<1>8. ASSUME NEW c \in Client, CheckOverlap(c) \/ InsertAssignment(c)
      PROVE  TypeInv'
<2>1. req[c].op = "assign"
  BY <1>8 DEF CheckOverlap, InsertAssignment, At
<2> QED
  BY <1>4, <1>5, <1>8, <2>1 DEF CheckOverlap, InsertAssignment, At, Phase, Answer
<1>9. ASSUME NEW c \in Client, At(c, "audited"), Apply(c), EntryOf(c) \in Entry
      PROVE  /\ shifts' \in [Shift -> ShiftRow]
             /\ RowsFilled'
             /\ assignments' \subseteq Shift \X StaffId
             /\ auditLog' \in [Entry -> Nat]
  BY <1>9 DEF Apply, At, ShiftRow, Request
<1>10. ASSUME NEW c \in Client, At(c, "audited")
       PROVE  EntryOf(c) \in Entry
  BY <1>10, EntryType DEF At, Request
<1>11. ASSUME NEW c \in Client, Commit(c)
       PROVE  TypeInv'
<2>1. OnlyRequest(c) /\ SameJob(c) /\ req'[c].pc = "answered" /\ req[c].op # "none"
  BY <1>11, CommitEffect DEF Commit, At
<2> QED
  BY <1>9, <1>10, <1>11, <2>1 DEF Commit, OnlyRequest, SameJob
<1>12. ASSUME NEW c \in Client, Respond(c)
       PROVE  TypeInv'
  BY <1>12, EntryType DEF Respond, At, Request, NoRequest, Phase, Answer
<1>13. ASSUME NEW c \in Client, StatementFails(c)
       PROVE  TypeInv'
  BY <1>5, <1>13 DEF StatementFails, Answer
<1>14. ASSUME NEW c \in Client, CommitFails(c)
       PROVE  TypeInv'
<2>1. /\ OnlyRequest(c) /\ SameJob(c)
      /\ req'[c].pc = "answered" /\ req'[c].answer = "500"
  BY <1>14, AnswerEffect DEF CommitFails, Answer
<2> QED
  BY <1>9, <1>10, <1>14, <2>1 DEF CommitFails, OnlyRequest, SameJob
<1>15. CASE Crash
  BY <1>15 DEF Crash, Request, NoRequest, Phase, Answer
<1>16. ASSUME NEW s \in Shift, SoftDelete(s)
       PROVE  TypeInv'
  BY <1>16 DEF SoftDelete, ShiftRow
<1> QED
  BY <1>1, <1>2, <1>3, <1>4, <1>5, <1>6, <1>7, <1>8, <1>11, <1>12, <1>13, <1>14, <1>15, <1>16
     DEF Next, Receive, Handle, Fail

\* Every reachable state of Roster is well typed.
THEOREM TypeCorrect == Spec => []TypeOK
<1>1. TypeInv => TypeOK
  BY DEF TypeInv
<1> QED
  BY <1>1, TypeInit, TypeStep, PTL DEF Spec

-----------------------------------------------------------------------------
(* The ledger: rows, keys and audit entries *)

\* A shift being created has an id of its own, unused until its commit.
FreshIds ==
    \A c \in Client : req[c].op = "create" =>
      /\ req[c].pc # "answered" => shifts[req[c].shift].state = "absent"
      /\ \A v \in Client \ {c} : req[v].op = "create" => req[v].shift # req[c].shift

\* A request that has loaded its shift holds the window of that shift's row.
BoundToRow ==
    \A c \in Client :
      req[c].op = "assign" /\ req[c].pc \in {"loaded", "checked", "inserted", "audited"} =>
        /\ shifts[req[c].shift].state # "absent"
        /\ shifts[req[c].shift].window = req[c].window

\* An inserted key is no committed row's and no other open transaction's.
KeysHeld ==
    \A c \in Client : HoldsAssignment(c) =>
      /\ <<req[c].shift, req[c].staff>> \notin assignments
      /\ \A v \in Client \ {c} : HoldsAssignment(v) =>
           <<req[v].shift, req[v].staff>> # <<req[c].shift, req[c].staff>>

\* A success that is about to be sent is about a committed write.
SuccessIsCommitted ==
    \A c \in Client : req[c].pc = "answered" /\ req[c].answer \in {"200", "201"} =>
      auditLog[EntryOf(c)] = 1

\* A committed assignment is to a row that exists.
AssignedRows == \A a \in assignments : shifts[a[1]].state # "absent"

LedgerInv ==
    /\ FreshIds
    /\ AssignedRows
    /\ BoundToRow
    /\ KeysHeld
    /\ AuditMatchesTables
    /\ SuccessIsCommitted
    /\ AckedIsDurable

\* Empty tables and an empty audit log agree.
LEMMA LedgerInit == Init => LedgerInv
  BY DEF Init, LedgerInv, FreshIds, AssignedRows, BoundToRow, KeysHeld,
         AuditMatchesTables, SuccessIsCommitted,
         AckedIsDurable, HoldsAssignment, NoRequest, AbsentRow, Entry

\* Before its commit, the audit entry of a write has not been recorded.
LEMMA EntryIsNew ==
    ASSUME TypeInv, LedgerInv, NEW c \in Client, At(c, "audited")
    PROVE  EntryOf(c) \in Entry /\ auditLog[EntryOf(c)] = 0
<1>1. CASE req[c].op = "create"
  BY <1>1 DEF TypeInv, RequestFilled, LedgerInv, FreshIds, AuditMatchesTables, At, EntryOf, Entry
<1>2. CASE req[c].op = "assign"
  <2>1. /\ req[c].shift \in Shift /\ req[c].staff \in StaffId
        /\ <<req[c].shift, req[c].staff>> \notin assignments
        /\ EntryOf(c) = AssignEntry(req[c].shift, req[c].staff)
    BY <1>2 DEF TypeInv, RequestFilled, LedgerInv, KeysHeld, HoldsAssignment, At, EntryOf
  <2> QED
    BY <2>1 DEF LedgerInv, AuditMatchesTables, Entry
<1>3. req[c].op \in {"create", "assign"}
  BY DEF TypeInv, TypeOK, RequestFilled, At, Request
<1> QED
  BY <1>1, <1>2, <1>3

\* A commit keeps the audit log in step with the tables.
LEMMA ApplyAudit ==
    ASSUME TypeInv, LedgerInv, NEW c \in Client, At(c, "audited"), Apply(c)
    PROVE  /\ AuditMatchesTables'
           /\ auditLog'[EntryOf(c)] = 1
           /\ \A e \in Entry : auditLog[e] = 1 => auditLog'[e] = 1
<1>1. EntryOf(c) \in Entry /\ auditLog[EntryOf(c)] = 0
  BY EntryIsNew
<1>2. /\ auditLog'[EntryOf(c)] = 1
      /\ \A e \in Entry : e # EntryOf(c) => auditLog'[e] = auditLog[e]
  BY <1>1 DEF Apply, TypeInv, TypeOK
<1>3. ASSUME req[c].op = "create" PROVE AuditMatchesTables'
  <2>1. /\ req[c].shift \in Shift
        /\ shifts' = [shifts EXCEPT ![req[c].shift] =
                        [state |-> "live", window |-> req[c].window]]
        /\ assignments' = assignments
    BY <1>3 DEF Apply, TypeInv, RequestFilled
  <2>2. ASSUME NEW s \in Shift
        PROVE  auditLog'[CreateEntry(s)] = (IF shifts'[s].state = "absent" THEN 0 ELSE 1)
    BY <1>2, <1>3, <2>1
       DEF LedgerInv, AuditMatchesTables, TypeInv, TypeOK, EntryOf, CreateEntry, Entry
  <2>3. ASSUME NEW s \in Shift, NEW u \in StaffId
        PROVE  auditLog'[AssignEntry(s, u)] = (IF <<s, u>> \in assignments' THEN 1 ELSE 0)
    <3>1. AssignEntry(s, u) # EntryOf(c) /\ AssignEntry(s, u) \in Entry
      BY <1>3 DEF EntryOf, CreateEntry, AssignEntry, Entry
    <3> QED
      BY <1>2, <2>1, <3>1 DEF LedgerInv, AuditMatchesTables
  <2> QED
    BY <2>2, <2>3 DEF AuditMatchesTables
<1>4. ASSUME req[c].op = "assign" PROVE AuditMatchesTables'
  <2>1. /\ req[c].shift \in Shift /\ req[c].staff \in StaffId
        /\ assignments' = assignments \cup {<<req[c].shift, req[c].staff>>}
        /\ shifts' = shifts
    BY <1>4 DEF Apply, TypeInv, RequestFilled
  <2>2. ASSUME NEW s \in Shift
        PROVE  auditLog'[CreateEntry(s)] = (IF shifts'[s].state = "absent" THEN 0 ELSE 1)
    <3>1. CreateEntry(s) # EntryOf(c) /\ CreateEntry(s) \in Entry
      BY <1>4 DEF EntryOf, CreateEntry, AssignEntry, Entry
    <3> QED
      BY <1>2, <2>1, <3>1 DEF LedgerInv, AuditMatchesTables
  <2>3. ASSUME NEW s \in Shift, NEW u \in StaffId
        PROVE  auditLog'[AssignEntry(s, u)] = (IF <<s, u>> \in assignments' THEN 1 ELSE 0)
    <3>1. AssignEntry(s, u) \in Entry
      BY DEF Entry
    <3>2. AssignEntry(s, u) = EntryOf(c) <=> s = req[c].shift /\ u = req[c].staff
      BY <1>4 DEF EntryOf, AssignEntry
    <3> QED
      BY <1>2, <2>1, <3>1, <3>2 DEF LedgerInv, AuditMatchesTables
  <2> QED
    BY <2>2, <2>3 DEF AuditMatchesTables
<1>5. \A e \in Entry : auditLog[e] = 1 => auditLog'[e] = 1
  BY <1>1, <1>2
<1> QED
  BY <1>2, <1>3, <1>4, <1>5 DEF Apply

\* Every step keeps rows, unique keys, audit entries and answers in agreement.
LEMMA LedgerStep == TypeInv /\ TypeInv' /\ LedgerInv /\ [Next]_vars => LedgerInv'
<1> SUFFICES ASSUME TypeInv, TypeInv', LedgerInv, [Next]_vars PROVE LedgerInv'
  OBVIOUS
<1> USE DEF HoldsAssignment
<1>1. CASE UNCHANGED vars
  BY <1>1 DEF vars, LedgerInv, FreshIds, AssignedRows, BoundToRow, KeysHeld, AuditMatchesTables,
              SuccessIsCommitted, AckedIsDurable, EntryOf
<1>2. ASSUME NEW c \in Client, OnlyRequest(c), SameJob(c), req'[c].pc = "answered",
             req'[c].answer \notin {"200", "201"},
             UNCHANGED <<shifts, assignments, auditLog, acked>>
      PROVE  LedgerInv'
  BY <1>2 DEF OnlyRequest, SameJob, LedgerInv, FreshIds, AssignedRows, BoundToRow, KeysHeld,
              AuditMatchesTables, SuccessIsCommitted, AckedIsDurable, EntryOf
<1>3. ASSUME NEW c \in Client, NEW status \in Answer \ {"200", "201"}, Refuse(c, status)
      PROVE  LedgerInv'
<2>1. /\ OnlyRequest(c) /\ SameJob(c)
      /\ req'[c].pc = "answered" /\ req'[c].answer = status
  BY <1>3, AnswerEffect DEF Refuse, TypeInv
<2> QED
  BY <1>2, <1>3, <2>1 DEF Refuse
<1>4. ASSUME NEW c \in Client, NEW s \in Shift, NEW p \in Body, ReceiveCreate(c, s, p)
      PROVE  LedgerInv'
<2> DEFINE r == IF ValidPayload(p)
                THEN [NoRequest EXCEPT !.pc = "received", !.op = "create",
                                       !.shift = s, !.window = p]
                ELSE [NoRequest EXCEPT !.pc = "answered", !.answer = "422"]
<2>1. /\ r.op \in {"none", "create"}
      /\ r.op = "create" => r.shift = s /\ r.pc = "received"
      /\ r.answer \notin {"200", "201"}
  BY DEF NoRequest
<2>2. /\ req' = [req EXCEPT ![c] = r]
      /\ UNCHANGED <<shifts, assignments, auditLog, acked>>
  BY <1>4 DEF ReceiveCreate
<2> HIDE DEF r
<2>3. req'[c] = r /\ \A v \in Client : v # c => req'[v] = req[v]
  BY <2>2 DEF TypeInv, TypeOK
<2>4. FreshIds'
  <3>1. /\ shifts[s].state = "absent"
        /\ \A v \in Client : req[v].op = "create" => req[v].shift # s
    BY <1>4 DEF ReceiveCreate
  <3>2. req'[c].op = "create" => req'[c].shift = s
    BY <2>1, <2>3
  <3>3. FreshIds /\ shifts' = shifts
    BY <2>2 DEF LedgerInv
  <3> QED
    BY <2>3, <3>1, <3>2, <3>3 DEF FreshIds
<2> QED
  BY <2>1, <2>2, <2>3, <2>4
     DEF LedgerInv, AssignedRows, BoundToRow, KeysHeld, AuditMatchesTables, SuccessIsCommitted,
         AckedIsDurable, EntryOf
<1>5. ASSUME NEW c \in Client, NEW s \in Shift, NEW u \in StaffId, ReceiveAssign(c, s, u)
      PROVE  LedgerInv'
<2>1. /\ req'[c].op = "assign" /\ req'[c].pc = "received"
      /\ \A v \in Client : v # c => req'[v] = req[v]
      /\ UNCHANGED <<shifts, assignments, auditLog, acked>>
  BY <1>5 DEF ReceiveAssign, TypeInv, TypeOK, NoRequest
<2> QED
  BY <2>1 DEF LedgerInv, FreshIds, AssignedRows, BoundToRow, KeysHeld, AuditMatchesTables,
              SuccessIsCommitted, AckedIsDurable, EntryOf
<1>6. ASSUME NEW c \in Client, InsertShift(c) \/ RecordAudit(c)
      PROVE  LedgerInv'
<2>1. /\ OnlyRequest(c) /\ SameJob(c)
      /\ req'[c].pc \in {"inserted", "audited"}
      /\ req[c].op = "create" \/ req[c].pc = "inserted"
      /\ req[c].pc # "answered"
      /\ UNCHANGED <<shifts, assignments, auditLog, acked>>
  BY <1>6, GotoEffect DEF InsertShift, RecordAudit, At, Goto, Phase, TypeInv
<2> QED
  BY <2>1 DEF OnlyRequest, SameJob, LedgerInv, FreshIds, AssignedRows, BoundToRow, KeysHeld,
              AuditMatchesTables, SuccessIsCommitted, AckedIsDurable, EntryOf
<1>7. ASSUME NEW c \in Client, LoadShift(c)
      PROVE  LedgerInv'
<2>1. CASE shifts[req[c].shift].state = "live"
  <3> DEFINE win == shifts[req[c].shift].window
  <3>1. req[c].shift \in Shift /\ win \in Window
    BY <1>7, <2>1 DEF LoadShift, TypeInv, RequestFilled, RowsFilled
  <3>2. /\ req' = [req EXCEPT ![c] = [@ EXCEPT !.pc = "loaded", !.window = win]]
        /\ UNCHANGED <<shifts, assignments, auditLog, acked>>
    BY <1>7, <2>1 DEF LoadShift
  <3>3. win = shifts[req[c].shift].window
    OBVIOUS
  <3> HIDE DEF win
  <3>4. /\ OnlyRequest(c)
        /\ req'[c].op = req[c].op /\ req'[c].shift = req[c].shift
        /\ req'[c].staff = req[c].staff /\ req'[c].window = win
        /\ req'[c].pc = "loaded"
    BY <3>1, <3>2, LoadEffect DEF TypeInv
  <3> QED
    BY <1>7, <2>1, <3>1, <3>2, <3>3, <3>4
       DEF LoadShift, OnlyRequest, LedgerInv, FreshIds, AssignedRows, BoundToRow, KeysHeld,
           AuditMatchesTables, SuccessIsCommitted, AckedIsDurable, EntryOf
<2>2. CASE shifts[req[c].shift].state # "live"
  BY <1>3, <1>7, <2>2 DEF LoadShift, Answer
<2> QED
  BY <2>1, <2>2
<1>8. ASSUME NEW c \in Client, CheckOverlap(c)
      PROVE  LedgerInv'
<2>1. CASE Goto(c, "checked")
  <3>1. OnlyRequest(c) /\ SameJob(c) /\ req'[c].pc = "checked"
    BY <2>1, GotoEffect DEF Phase, TypeInv
  <3>2. req[c].pc = "loaded" /\ req[c].op = "assign"
    BY <1>8 DEF CheckOverlap, At, TypeInv, RequestFilled
  <3> QED
    BY <2>1, <3>1, <3>2
       DEF Goto, OnlyRequest, SameJob, LedgerInv, FreshIds, AssignedRows, BoundToRow, KeysHeld,
           AuditMatchesTables, SuccessIsCommitted, AckedIsDurable, EntryOf
<2> QED
  BY <1>3, <1>8, <2>1 DEF CheckOverlap, Answer
<1>9. ASSUME NEW c \in Client, InsertAssignment(c)
      PROVE  LedgerInv'
<2>1. ASSUME Goto(c, "inserted"), <<req[c].shift, req[c].staff>> \notin assignments
      PROVE  LedgerInv'
  <3>1. OnlyRequest(c) /\ SameJob(c) /\ req'[c].pc = "inserted"
    BY <2>1, GotoEffect DEF Phase, TypeInv
  <3>2. req[c].pc = "checked" /\ req[c].op = "assign" /\ KeyIsFree(c)
    BY <1>9 DEF InsertAssignment, At, TypeInv, RequestFilled
  <3>3. KeysHeld'
    BY <2>1, <3>1, <3>2 DEF Goto, KeyIsFree, OnlyRequest, SameJob, LedgerInv, KeysHeld
  <3> QED
    BY <2>1, <3>1, <3>2, <3>3
       DEF Goto, OnlyRequest, SameJob, LedgerInv, FreshIds, AssignedRows, BoundToRow,
           AuditMatchesTables, SuccessIsCommitted, AckedIsDurable, EntryOf
<2> QED
  BY <1>3, <1>9, <2>1 DEF InsertAssignment, Answer
<1>10. ASSUME NEW c \in Client, At(c, "audited"), Apply(c), OnlyRequest(c), SameJob(c),
              req'[c].pc = "answered", UNCHANGED acked
       PROVE  LedgerInv'
<2>1. /\ AuditMatchesTables'
      /\ auditLog'[EntryOf(c)] = 1
      /\ \A e \in Entry : auditLog[e] = 1 => auditLog'[e] = 1
  BY <1>10, ApplyAudit
<2>2. AckedIsDurable'
  BY <1>10, <2>1 DEF LedgerInv, AckedIsDurable, TypeInv, TypeOK
<2>3. SuccessIsCommitted'
  <3>1. ASSUME NEW v \in Client, v # c, req'[v].pc = "answered",
               req'[v].answer \in {"200", "201"}
        PROVE  auditLog'[EntryOf(v)'] = 1
    <4>1. req[v].op # "none" /\ req'[v] = req[v] /\ auditLog[EntryOf(v)] = 1
      BY <1>10, <3>1 DEF OnlyRequest, LedgerInv, SuccessIsCommitted, TypeInv, RequestFilled
    <4>2. EntryOf(v) \in Entry
      BY <4>1, EntryType DEF TypeInv, RequestFilled, TypeOK, Request
    <4> QED
      BY <2>1, <4>1, <4>2 DEF EntryOf
  <3>2. EntryOf(c)' = EntryOf(c)
    BY <1>10 DEF SameJob, EntryOf
  <3> QED
    BY <2>1, <3>1, <3>2 DEF SuccessIsCommitted
<2>4. FreshIds' /\ AssignedRows' /\ BoundToRow' /\ KeysHeld'
  <3>1. CASE req[c].op = "create"
    BY <1>10, <3>1
       DEF At, Apply, OnlyRequest, SameJob, LedgerInv, FreshIds, AssignedRows, BoundToRow, KeysHeld,
           TypeInv, TypeOK, RequestFilled
  <3>2. CASE req[c].op = "assign"
    BY <1>10, <3>2
       DEF At, Apply, OnlyRequest, SameJob, LedgerInv, FreshIds, AssignedRows, BoundToRow, KeysHeld
  <3> QED
    BY <1>10, <3>1, <3>2 DEF Apply
<2> QED
  BY <2>1, <2>2, <2>3, <2>4 DEF LedgerInv
<1>11. ASSUME NEW c \in Client, Commit(c)
       PROVE  LedgerInv'
  BY <1>10, <1>11, CommitEffect DEF Commit, TypeInv
<1>12. ASSUME NEW c \in Client, Respond(c)
       PROVE  LedgerInv'
<2>1. /\ req'[c] = NoRequest
      /\ \A v \in Client : v # c => req'[v] = req[v]
      /\ UNCHANGED <<shifts, assignments, auditLog>>
  BY <1>12 DEF Respond, TypeInv, TypeOK
<2>2. AckedIsDurable'
  BY <1>12, <2>1 DEF Respond, At, LedgerInv, AckedIsDurable, SuccessIsCommitted
<2> QED
  BY <2>1, <2>2
     DEF NoRequest, LedgerInv, FreshIds, AssignedRows, BoundToRow, KeysHeld, AuditMatchesTables,
         SuccessIsCommitted, EntryOf
<1>13. ASSUME NEW c \in Client, StatementFails(c)
       PROVE  LedgerInv'
  BY <1>3, <1>13 DEF StatementFails, Answer
<1>14. ASSUME NEW c \in Client, CommitFails(c)
       PROVE  LedgerInv'
<2>1. /\ OnlyRequest(c) /\ SameJob(c)
      /\ req'[c].pc = "answered" /\ req'[c].answer = "500"
  BY <1>14, AnswerEffect DEF CommitFails, Answer, TypeInv
<2> QED
  BY <1>2, <1>10, <1>14, <2>1 DEF CommitFails
<1>15. CASE Crash
  BY <1>15 DEF Crash, NoRequest, LedgerInv, FreshIds, AssignedRows, BoundToRow, KeysHeld,
               AuditMatchesTables, SuccessIsCommitted, AckedIsDurable, EntryOf
<1>16. ASSUME NEW s \in Shift, SoftDelete(s)
       PROVE  LedgerInv'
<2>1. /\ shifts[s].state = "live" /\ shifts'[s].state = "deleted"
      /\ shifts'[s].window = shifts[s].window
      /\ \A r \in Shift : r # s => shifts'[r] = shifts[r]
      /\ UNCHANGED <<assignments, auditLog, req, acked>>
  BY <1>16 DEF SoftDelete, TypeInv, TypeOK, ShiftRow
<2>2. \A r \in Shift : /\ shifts'[r].state = "absent" <=> shifts[r].state = "absent"
                       /\ shifts'[r].window = shifts[r].window
  BY <2>1
<2> QED
  BY <2>1, <2>2
     DEF LedgerInv, FreshIds, AssignedRows, BoundToRow, KeysHeld,
         AuditMatchesTables, SuccessIsCommitted,
         AckedIsDurable, EntryOf, TypeInv, TypeOK, RequestFilled
<1> QED
  BY <1>1, <1>4, <1>5, <1>6, <1>7, <1>8, <1>9, <1>11, <1>12, <1>13, <1>14, <1>15, <1>16
     DEF Next, Receive, Handle, Fail

\* AU-07, for every number of clients, connections and shifts: a committed shift or assignment
\* has exactly one audit entry, and an entry is never there without its row.
THEOREM AuditExact == Spec => []AuditMatchesTables
<1>1. TypeInv /\ LedgerInv => AuditMatchesTables
  BY DEF LedgerInv
<1> QED
  BY <1>1, TypeInit, TypeStep, LedgerInit, LedgerStep, PTL DEF Spec

\* What a client was told has been done stays in the database.
THEOREM AckedDurable == Spec => []AckedIsDurable
<1>1. TypeInv /\ LedgerInv => AckedIsDurable
  BY DEF LedgerInv
<1> QED
  BY <1>1, TypeInit, TypeStep, LedgerInit, LedgerStep, PTL DEF Spec

-----------------------------------------------------------------------------
(* Double booking *)

\* Two windows that cover one instant overlap, by the predicate of the query.
LEMMA CoveringWindowsOverlap ==
    ASSUME NEW a \in Window, NEW b \in Window, NEW t \in Time, Covers(a, t), Covers(b, t)
    PROVE  Overlaps(a, b)
<1>1. a.start \in Int /\ a.end \in Int /\ b.start \in Int /\ b.end \in Int /\ t \in Int
  BY TimeAssumption DEF Window, Payload
<1> QED
  BY <1>1 DEF Covers, Overlaps

\* The requests with a connection are no more than the pool has connections.
PoolInv == IsFiniteSet(Connected) /\ Cardinality(Connected) <= PoolSize

\* Nobody has a connection to begin with.
LEMMA PoolInit == Init => PoolInv
<1> SUFFICES ASSUME Init PROVE PoolInv
  OBVIOUS
<1>1. Connected = {}
  BY DEF Init, Connected, NoRequest
<1> QED
  BY <1>1, FS_EmptySet, PoolAssumption DEF PoolInv

\* Fewer requests with a connection are still within the pool.
LEMMA FewerConnected ==
    ASSUME PoolInv, Connected' \subseteq Connected
    PROVE  PoolInv'
<1>1. IsFiniteSet(Connected') /\ Cardinality(Connected') <= Cardinality(Connected)
  BY FS_Subset DEF PoolInv
<1>2. Cardinality(Connected') \in Nat /\ Cardinality(Connected) \in Nat
  BY <1>1, FS_CardinalityType DEF PoolInv
<1> QED
  BY <1>1, <1>2, PoolAssumption DEF PoolInv

\* Only a request that arrives takes a connection, and it has waited for one.
LEMMA PoolStep == TypeInv /\ PoolInv /\ [Next]_vars => PoolInv'
<1> SUFFICES ASSUME TypeInv, PoolInv, [Next]_vars PROVE PoolInv'
  OBVIOUS
<1>1. ASSUME NEW c \in Client, c \in Connected,
             \A v \in Client : v # c => req'[v] = req[v]
      PROVE  PoolInv'
  <2>1. Connected' \subseteq Connected
    BY <1>1 DEF Connected
  <2> QED
    BY <2>1, FewerConnected
<1>2. CASE UNCHANGED req
  <2>1. Connected' \subseteq Connected
    BY <1>2 DEF Connected
  <2> QED
    BY <2>1, FewerConnected
<1>3. ASSUME NEW c \in Client, Receive(c)
      PROVE  PoolInv'
  <2>1. ConnectionIsFree /\ \A v \in Client : v # c => req'[v] = req[v]
    BY <1>3 DEF Receive, ReceiveCreate, ReceiveAssign, TypeInv, TypeOK
  <2>2. Connected' \in SUBSET (Connected \cup {c})
    BY <2>1 DEF Connected
  <2>3. /\ IsFiniteSet(Connected \cup {c})
        /\ Cardinality(Connected \cup {c}) <= Cardinality(Connected) + 1
    BY FS_AddElement, FS_CardinalityType DEF PoolInv
  <2>4. IsFiniteSet(Connected') /\ Cardinality(Connected') <= Cardinality(Connected \cup {c})
    BY <2>2, <2>3, FS_Subset
  <2>5. /\ Cardinality(Connected') \in Nat /\ Cardinality(Connected) \in Nat
        /\ Cardinality(Connected \cup {c}) \in Nat
    BY <2>3, <2>4, FS_CardinalityType DEF PoolInv
  <2> QED
    BY <2>1, <2>3, <2>4, <2>5, PoolAssumption DEF PoolInv, ConnectionIsFree
<1>4. ASSUME NEW c \in Client,
             \/ InsertShift(c) \/ LoadShift(c) \/ CheckOverlap(c) \/ InsertAssignment(c)
             \/ RecordAudit(c) \/ Commit(c) \/ Fail(c)
      PROVE  PoolInv'
  <2>1. c \in Connected
    BY <1>4 DEF InsertShift, LoadShift, CheckOverlap, InsertAssignment, RecordAudit, Commit,
                Fail, StatementFails, CommitFails, At, Connected
  <2>2. \A v \in Client : v # c => req'[v] = req[v]
    BY <1>4 DEF InsertShift, LoadShift, CheckOverlap, InsertAssignment, RecordAudit, Commit,
                Fail, StatementFails, CommitFails, Goto, Refuse, TypeInv, TypeOK
  <2> QED
    BY <1>1, <2>1, <2>2
<1>5. ASSUME NEW c \in Client, Respond(c)
      PROVE  PoolInv'
  <2>1. Connected' \subseteq Connected
    BY <1>5 DEF Respond, NoRequest, Connected, TypeInv, TypeOK
  <2> QED
    BY <2>1, FewerConnected
<1>6. CASE Crash
  <2>1. Connected' \subseteq Connected
    BY <1>6 DEF Crash, NoRequest, Connected
  <2> QED
    BY <2>1, FewerConnected
<1>7. ASSUME NEW s \in Shift, SoftDelete(s)
      PROVE  PoolInv'
  BY <1>2, <1>7 DEF SoftDelete
<1> QED
  BY <1>2, <1>3, <1>4, <1>5, <1>6, <1>7 DEF Next, Handle, vars

\* Requests within the pool name no more shifts than the pool has connections.
LEMMA HeldBound ==
    ASSUME NEW r, NEW C, IsFiniteSet(C), Cardinality(C) <= PoolSize
    PROVE  /\ IsFiniteSet({r[c].shift : c \in C})
           /\ Cardinality({r[c].shift : c \in C}) <= PoolSize
<1> DEFINE held == {r[c].shift : c \in C}
           f == [c \in C |-> r[c].shift]
<1>1. f \in Surjection(C, held)
  BY DEF Surjection
<1> HIDE DEF f, held
<1>2. IsFiniteSet(held) /\ Cardinality(held) <= Cardinality(C)
  BY <1>1, FS_Surjection
<1>3. Cardinality(held) \in Nat /\ Cardinality(C) \in Nat
  BY <1>2, FS_CardinalityType
<1>4. IsFiniteSet(held) /\ Cardinality(held) <= PoolSize
  BY <1>2, <1>3, PoolAssumption
<1> QED
  BY <1>4 DEF held

\* Booked and in-flight shifts of a staff member at an instant.
Load(u, t) == Booked(u, t) \cup InFlight(u, t)

\* The finiteness that makes the cardinalities meaningful rides along.
BookingInv ==
    \A u \in StaffId, t \in Time :
        /\ IsFiniteSet(Load(u, t))
        /\ Cardinality(Load(u, t)) <= PoolSize

\* Nobody is booked to begin with.
LEMMA BookingInit == Init => BookingInv
<1> SUFFICES ASSUME Init PROVE BookingInv
  OBVIOUS
<1>1. ASSUME NEW u \in StaffId, NEW t \in Time PROVE Load(u, t) = {}
  BY DEF Init, Load, Booked, InFlight, PastCheck, NoRequest
<1>2. PoolSize \in Nat
  BY PoolAssumption
<1>3. IsFiniteSet({}) /\ Cardinality({}) = 0
  BY FS_EmptySet
<1> QED
  BY <1>1, <1>2, <1>3 DEF BookingInv

\* A step that adds no shift to anybody's load keeps the bound.
LEMMA ShrinkingLoad ==
    ASSUME BookingInv, \A u \in StaffId, t \in Time : Load(u, t)' \subseteq Load(u, t)
    PROVE  BookingInv'
<1> SUFFICES ASSUME NEW u \in StaffId, NEW t \in Time
             PROVE  /\ IsFiniteSet(Load(u, t)')
                    /\ Cardinality(Load(u, t)') <= PoolSize
  BY DEF BookingInv
<1>1. /\ IsFiniteSet(Load(u, t)) /\ Cardinality(Load(u, t)) <= PoolSize
      /\ Load(u, t)' \in SUBSET Load(u, t)
  BY DEF BookingInv
<1>2. /\ IsFiniteSet(Load(u, t)')
      /\ Cardinality(Load(u, t)') <= Cardinality(Load(u, t))
  BY <1>1, FS_Subset
<1>3. /\ Cardinality(Load(u, t)') \in Nat /\ Cardinality(Load(u, t)) \in Nat
      /\ PoolSize \in Nat
  BY <1>1, <1>2, FS_CardinalityType, PoolAssumption
<1> QED
  BY <1>1, <1>2, <1>3

\* Passing the overlap check: whatever the staff member has booked at an instant
\* of the new shift is that shift itself.
LEMMA CheckedLoad ==
    ASSUME TypeInv, LedgerInv, NEW c \in Client, At(c, "loaded"), Conflicts(c) = {},
           Goto(c, "checked"), NEW u \in StaffId, NEW t \in Time,
           u = req[c].staff, Covers(req[c].window, t)
    PROVE  Load(u, t)' \subseteq {req[c].shift} \cup InFlight(u, t)'
<1>1. UNCHANGED <<shifts, assignments>>
  BY DEF Goto
<1>2. req[c].op = "assign" /\ req[c].window \in Window
  BY DEF At, TypeInv, RequestFilled
<1>3. Booked(u, t) \subseteq {req[c].shift}
  <2> SUFFICES ASSUME NEW s \in Booked(u, t), s # req[c].shift PROVE FALSE
    OBVIOUS
  <2>1. /\ s \in Shift /\ <<s, u>> \in assignments /\ shifts[s].state = "live"
        /\ Covers(shifts[s].window, t) /\ shifts[s].window \in Window
    BY DEF Booked, TypeInv, RowsFilled
  <2>2. Overlaps(shifts[s].window, req[c].window)
    BY <1>2, <2>1, CoveringWindowsOverlap
  <2> QED
    BY <2>1, <2>2 DEF Conflicts
<1>4. Booked(u, t)' = Booked(u, t)
  BY <1>1 DEF Booked
<1> QED
  BY <1>3, <1>4 DEF Load

\* The load is then held by open transactions.
LEMMA HeldLoad ==
    ASSUME TypeInv, LedgerInv, NEW c \in Client, At(c, "loaded"), Conflicts(c) = {},
           Goto(c, "checked"), NEW u \in StaffId, NEW t \in Time,
           u = req[c].staff, Covers(req[c].window, t)
    PROVE  Load(u, t)' \subseteq {req'[v].shift : v \in Connected'}
<1>1. SameJob(c) /\ req'[c].pc = "checked"
  BY GotoEffect DEF Phase, TypeInv
<1>2. req[c].shift \in {req'[v].shift : v \in Connected'}
  BY <1>1 DEF SameJob, Connected
<1>3. InFlight(u, t)' \subseteq {req'[v].shift : v \in Connected'}
  BY DEF InFlight, PastCheck, Connected
<1> QED
  BY <1>2, <1>3, CheckedLoad

\* Passing the check changes nobody else's load.
LEMMA UncheckedLoad ==
    ASSUME TypeInv, NEW c \in Client, Goto(c, "checked"), NEW u \in StaffId, NEW t \in Time,
           ~(u = req[c].staff /\ Covers(req[c].window, t))
    PROVE  Load(u, t)' \subseteq Load(u, t)
<1>1. OnlyRequest(c) /\ SameJob(c) /\ UNCHANGED <<shifts, assignments>>
  BY GotoEffect DEF Goto, Phase, TypeInv
<1>2. Booked(u, t)' = Booked(u, t)
  BY <1>1 DEF Booked
<1>3. InFlight(u, t)' \subseteq InFlight(u, t)
  BY <1>1 DEF InFlight, PastCheck, OnlyRequest, SameJob
<1> QED
  BY <1>2, <1>3 DEF Load

\* The request of c passes the overlap check.
PassesCheck(c) == At(c, "loaded") /\ Conflicts(c) = {} /\ Goto(c, "checked")

\* No step adds to anybody's load.
LoadShrinks == \A u \in StaffId, t \in Time : Load(u, t)' \subseteq Load(u, t)

\* Only a request that passes the check adds a shift to somebody's load.
LEMMA LoadStep ==
    TypeInv /\ LedgerInv /\ [Next]_vars
      => LoadShrinks \/ \E c \in Client : PassesCheck(c)
<1> SUFFICES ASSUME TypeInv, LedgerInv, [Next]_vars,
                    \A c \in Client : ~PassesCheck(c)
             PROVE  LoadShrinks
  OBVIOUS
<1> USE DEF LoadShrinks
<1>1. CASE UNCHANGED vars
  BY <1>1 DEF vars, Load, Booked, InFlight, PastCheck
<1>2. ASSUME NEW c \in Client, \A v \in Client : v # c => req'[v] = req[v],
             UNCHANGED <<shifts, assignments>>,
             PastCheck(c)' => PastCheck(c) /\ SameJob(c)
      PROVE  LoadShrinks
  <2> SUFFICES ASSUME NEW u \in StaffId, NEW t \in Time
               PROVE  Load(u, t)' \subseteq Load(u, t)
    OBVIOUS
  <2>1. Booked(u, t)' = Booked(u, t)
    BY <1>2 DEF Booked
  <2>2. InFlight(u, t)' \subseteq InFlight(u, t)
    BY <1>2 DEF InFlight, PastCheck, SameJob
  <2> QED
    BY <2>1, <2>2 DEF Load
<1>3. ASSUME NEW c \in Client, NEW status \in Answer, Refuse(c, status)
      PROVE  LoadShrinks
  <2>1. OnlyRequest(c) /\ SameJob(c) /\ req'[c].pc = "answered"
    BY <1>3, AnswerEffect DEF Refuse, TypeInv
  <2> QED
    BY <1>2, <1>3, <2>1 DEF Refuse, OnlyRequest, PastCheck
<1>4. ASSUME NEW c \in Client, Receive(c)
      PROVE  LoadShrinks
  <2>1. /\ req'[c].pc \in {"received", "answered"}
        /\ \A v \in Client : v # c => req'[v] = req[v]
        /\ UNCHANGED <<shifts, assignments>>
    <3>1. CASE \E s \in Shift, p \in Body : ReceiveCreate(c, s, p)
      BY <3>1 DEF ReceiveCreate, TypeInv, TypeOK, NoRequest
    <3>2. CASE \E s \in Shift, u \in StaffId : ReceiveAssign(c, s, u)
      BY <3>2 DEF ReceiveAssign, TypeInv, TypeOK, NoRequest
    <3> QED
      BY <1>4, <3>1, <3>2 DEF Receive
  <2> QED
    BY <1>2, <2>1 DEF PastCheck
<1>5. ASSUME NEW c \in Client, InsertShift(c) \/ RecordAudit(c)
      PROVE  LoadShrinks
  <2>1. /\ OnlyRequest(c) /\ SameJob(c)
        /\ req[c].op = "create" \/ req[c].pc = "inserted"
        /\ UNCHANGED <<shifts, assignments>>
    BY <1>5, GotoEffect DEF InsertShift, RecordAudit, At, Goto, Phase, TypeInv
  <2> QED
    BY <1>2, <2>1 DEF PastCheck, OnlyRequest, SameJob
<1>6. ASSUME NEW c \in Client, LoadShift(c)
      PROVE  LoadShrinks
  <2>1. CASE shifts[req[c].shift].state = "live"
    <3>1. req[c].shift \in Shift /\ shifts[req[c].shift].window \in Window
      BY <1>6, <2>1 DEF LoadShift, TypeInv, RequestFilled, RowsFilled
    <3>2. /\ OnlyRequest(c) /\ req'[c].pc = "loaded"
          /\ UNCHANGED <<shifts, assignments>>
      BY <1>6, <2>1, <3>1, LoadEffect DEF LoadShift, TypeInv
    <3> QED
      BY <1>2, <3>2 DEF PastCheck, OnlyRequest
  <2>2. CASE shifts[req[c].shift].state # "live"
    BY <1>3, <1>6, <2>2 DEF LoadShift, Answer
  <2> QED
    BY <2>1, <2>2
<1>7. ASSUME NEW c \in Client, CheckOverlap(c)
      PROVE  LoadShrinks
  BY <1>3, <1>7 DEF CheckOverlap, PassesCheck, Answer
<1>8. ASSUME NEW c \in Client, InsertAssignment(c)
      PROVE  LoadShrinks
  <2>1. CASE Goto(c, "inserted")
    <3>1. OnlyRequest(c) /\ SameJob(c) /\ UNCHANGED <<shifts, assignments>>
      BY <2>1, GotoEffect DEF Goto, Phase, TypeInv
    <3>2. PastCheck(c)
      BY <1>8 DEF InsertAssignment, At, PastCheck, TypeInv, RequestFilled
    <3> QED
      BY <1>2, <3>1, <3>2 DEF OnlyRequest
  <2> QED
    BY <1>3, <1>8, <2>1 DEF InsertAssignment, Answer
<1>9. ASSUME NEW c \in Client, At(c, "audited"), Apply(c), OnlyRequest(c), SameJob(c),
              req'[c].pc = "answered"
       PROVE  LoadShrinks
  <2> SUFFICES ASSUME NEW u \in StaffId, NEW t \in Time
               PROVE  Load(u, t)' \subseteq Load(u, t)
    OBVIOUS
  <2>1. InFlight(u, t)' \subseteq InFlight(u, t)
    BY <1>9 DEF InFlight, PastCheck, OnlyRequest
  <2>2. CASE req[c].op = "create"
    <3>1. /\ req[c].shift \in Shift /\ shifts[req[c].shift].state = "absent"
          /\ shifts' = [shifts EXCEPT ![req[c].shift] =
                          [state |-> "live", window |-> req[c].window]]
          /\ assignments' = assignments
      BY <1>9, <2>2 DEF At, Apply, TypeInv, RequestFilled, LedgerInv, FreshIds
    <3>2. <<req[c].shift, u>> \notin assignments
      BY <3>1 DEF LedgerInv, AssignedRows
    <3>3. Booked(u, t)' \subseteq Booked(u, t)
      BY <3>1, <3>2 DEF Booked, TypeInv, TypeOK
    <3> QED
      BY <2>1, <3>3 DEF Load
  <2>3. CASE req[c].op = "assign"
    <3>1. /\ assignments' = assignments \cup {<<req[c].shift, req[c].staff>>}
          /\ shifts' = shifts
          /\ shifts[req[c].shift].window = req[c].window
          /\ PastCheck(c)
      BY <1>9, <2>3 DEF At, Apply, LedgerInv, BoundToRow, PastCheck
    <3>2. Booked(u, t)' \subseteq Booked(u, t) \cup InFlight(u, t)
      BY <3>1 DEF Booked, InFlight
    <3> QED
      BY <2>1, <3>2 DEF Load
  <2> QED
    BY <1>9, <2>2, <2>3 DEF Apply
<1>10. ASSUME NEW c \in Client, Commit(c)
       PROVE  LoadShrinks
  BY <1>9, <1>10, CommitEffect DEF Commit, TypeInv
<1>11. ASSUME NEW c \in Client, Respond(c)
       PROVE  LoadShrinks
  <2>1. /\ req'[c].pc = "idle"
        /\ \A v \in Client : v # c => req'[v] = req[v]
        /\ UNCHANGED <<shifts, assignments>>
    BY <1>11 DEF Respond, NoRequest, TypeInv, TypeOK
  <2> QED
    BY <1>2, <2>1 DEF PastCheck
<1>12. ASSUME NEW c \in Client, StatementFails(c)
       PROVE  LoadShrinks
  BY <1>3, <1>12 DEF StatementFails, Answer
<1>13. ASSUME NEW c \in Client, CommitFails(c)
       PROVE  LoadShrinks
  <2>1. OnlyRequest(c) /\ SameJob(c) /\ req'[c].pc = "answered"
    BY <1>13, AnswerEffect DEF CommitFails, Answer, TypeInv
  <2> QED
    BY <1>2, <1>9, <1>13, <2>1 DEF CommitFails, OnlyRequest, PastCheck
<1>14. CASE Crash
  BY <1>14 DEF Crash, NoRequest, Load, Booked, InFlight, PastCheck
<1>15. ASSUME NEW s \in Shift, SoftDelete(s)
       PROVE  LoadShrinks
  <2>1. /\ \A r \in Shift : /\ shifts'[r].state = "live" => shifts[r].state = "live"
                            /\ shifts'[r].window = shifts[r].window
        /\ UNCHANGED <<assignments, req>>
    BY <1>15 DEF SoftDelete, TypeInv, TypeOK, ShiftRow
  <2> QED
    BY <2>1 DEF Load, Booked, InFlight, PastCheck
<1> QED
  BY <1>1, <1>4, <1>5, <1>6, <1>7, <1>8, <1>10, <1>11, <1>12, <1>13, <1>14, <1>15
     DEF Next, Handle, Fail

\* Every step keeps everybody's load within the pool.
LEMMA BookingStep ==
    TypeInv /\ LedgerInv /\ PoolInv' /\ BookingInv /\ [Next]_vars => BookingInv'
<1> SUFFICES ASSUME TypeInv, LedgerInv, PoolInv', BookingInv, [Next]_vars PROVE BookingInv'
  OBVIOUS
<1>1. CASE LoadShrinks
  BY <1>1, ShrinkingLoad DEF LoadShrinks
<1>2. ASSUME NEW c \in Client, PassesCheck(c)
      PROVE  BookingInv'
  <2> SUFFICES ASSUME NEW u \in StaffId, NEW t \in Time
               PROVE  /\ IsFiniteSet(Load(u, t)')
                      /\ Cardinality(Load(u, t)') <= PoolSize
    BY DEF BookingInv
  <2>1. PICK B : /\ Load(u, t)' \in SUBSET B
                 /\ IsFiniteSet(B) /\ Cardinality(B) <= PoolSize
    <3>1. CASE u = req[c].staff /\ Covers(req[c].window, t)
      <4>1. Load(u, t)' \subseteq {req'[v].shift : v \in Connected'}
        BY <1>2, <3>1, HeldLoad DEF PassesCheck
      <4> QED
        BY <4>1, HeldBound DEF PoolInv
    <3>2. CASE ~(u = req[c].staff /\ Covers(req[c].window, t))
      <4>1. Load(u, t)' \subseteq Load(u, t)
        BY <1>2, <3>2, UncheckedLoad DEF PassesCheck
      <4> QED
        BY <4>1 DEF BookingInv
    <3> QED
      BY <3>1, <3>2
  <2>2. IsFiniteSet(Load(u, t)') /\ Cardinality(Load(u, t)') <= Cardinality(B)
    BY <2>1, FS_Subset
  <2>3. /\ Cardinality(Load(u, t)') \in Nat /\ Cardinality(B) \in Nat
        /\ PoolSize \in Nat
    BY <2>1, <2>2, FS_CardinalityType, PoolAssumption
  <2> QED
    BY <2>1, <2>2, <2>3
<1> QED
  BY <1>1, <1>2, LoadStep

\* AU-04 without a lock: however requests interleave, fail or crash, a staff member
\* is never booked at one instant for more shifts than the pool has connections.
THEOREM DoubleBookingIsBounded == Spec => []BoundedDoubleBooking
<1>1. BookingInv => BoundedDoubleBooking
  BY DEF BookingInv, BoundedDoubleBooking, Load
<1> QED
  BY <1>1, TypeInit, TypeStep, LedgerInit, LedgerStep, PoolInit, PoolStep,
     BookingInit, BookingStep, PTL DEF Spec

\* No two requests for one staff member are between the overlap check and the end
\* of their transactions at once: what a lock on the staff member would give, and
\* what the code leaves to chance.
ChecksApart ==
    \A c, v \in Client :
        PastCheck(c) /\ PastCheck(v) /\ req[c].staff = req[v].staff => c = v

\* What a staff member has booked or is about to have at an instant is one shift.
SingleLoad == \A u \in StaffId, t \in Time : \A r, s \in Load(u, t) : r = s

\* Nobody is booked to begin with.
LEMMA SingleInit == Init => SingleLoad
  BY DEF Init, SingleLoad, Load, Booked, InFlight, PastCheck, NoRequest

\* With the checks apart, a request that passes its check has the staff member to
\* itself.
LEMMA SingleStep ==
    TypeInv /\ LedgerInv /\ ChecksApart' /\ SingleLoad /\ [Next]_vars => SingleLoad'
<1> SUFFICES ASSUME TypeInv, LedgerInv, ChecksApart', SingleLoad, [Next]_vars
             PROVE  SingleLoad'
  OBVIOUS
<1>1. CASE LoadShrinks
  BY <1>1 DEF LoadShrinks, SingleLoad
<1>2. ASSUME NEW c \in Client, PassesCheck(c)
      PROVE  SingleLoad'
  <2> SUFFICES ASSUME NEW u \in StaffId, NEW t \in Time
               PROVE  \A r, s \in Load(u, t)' : r = s
    BY DEF SingleLoad
  <2>1. CASE u = req[c].staff /\ Covers(req[c].window, t)
    <3>1. Load(u, t)' \subseteq {req[c].shift} \cup InFlight(u, t)'
      BY <1>2, <2>1, CheckedLoad DEF PassesCheck, Load
    <3>2. InFlight(u, t)' \subseteq {req[c].shift}
      <4>1. OnlyRequest(c) /\ SameJob(c) /\ PastCheck(c)'
        BY <1>2, GotoEffect
           DEF PassesCheck, At, PastCheck, SameJob, Phase, TypeInv, RequestFilled
      <4> QED
        BY <2>1, <4>1 DEF InFlight, ChecksApart, SameJob
    <3> QED
      BY <3>1, <3>2
  <2>2. CASE ~(u = req[c].staff /\ Covers(req[c].window, t))
    BY <1>2, <2>2, UncheckedLoad DEF PassesCheck, SingleLoad
  <2> QED
    BY <2>1, <2>2
<1> QED
  BY <1>1, <1>2, LoadStep

\* Where requests for one staff member pass the overlap check one at a time, each
\* after the commit of the one before, AU-04's promise is kept: their running
\* together is the only way to a double booking.
THEOREM ChecksApartNeverOverbook == Spec /\ []ChecksApart => []NoDoubleBooking
<1>1. SingleLoad => NoDoubleBooking
  <2> SUFFICES ASSUME SingleLoad, NEW u \in StaffId, NEW t \in Time
               PROVE  Cardinality(Booked(u, t)) <= 1
    BY DEF NoDoubleBooking
  <2>1. CASE Booked(u, t) = {}
    BY <2>1, FS_EmptySet
  <2>2. ASSUME NEW s \in Booked(u, t)
        PROVE  Cardinality(Booked(u, t)) <= 1
    <3>1. Booked(u, t) = {s}
      BY <2>2 DEF SingleLoad, Load
    <3> QED
      BY <3>1, FS_Singleton
  <2> QED
    BY <2>1, <2>2
<1> QED
  BY <1>1, TypeInit, TypeStep, LedgerInit, LedgerStep, SingleInit, SingleStep, PTL DEF Spec

-----------------------------------------------------------------------------
(* Refusals *)

\* Two windows that the query calls overlapping have an instant in common: the
\* later of their starts.
LEMMA OverlappingWindowsMeet ==
    ASSUME NEW a \in Window, NEW b \in Window, Overlaps(a, b)
    PROVE  \E t \in Time : Covers(a, t) /\ Covers(b, t)
<1>1. /\ a.start \in Time /\ b.start \in Time
      /\ a.start < a.end /\ b.start < b.end
      /\ a.start \in Int /\ a.end \in Int /\ b.start \in Int /\ b.end \in Int
  BY TimeAssumption DEF Window, Payload
<1>2. CASE a.start <= b.start
  BY <1>1, <1>2 DEF Overlaps, Covers
<1>3. CASE b.start <= a.start
  BY <1>1, <1>3 DEF Overlaps, Covers
<1> QED
  BY <1>1, <1>2, <1>3

\* The staff member of the request of c has another shift at an instant of the
\* requested one.
Clashes(c) ==
    \E s \in Shift \ {req[c].shift}, t \in Time :
        /\ <<s, req[c].staff>> \in assignments
        /\ Covers(shifts[s].window, t) /\ Covers(req[c].window, t)

\* A request that fails the overlap check clashes.
LEMMA ConflictClashes ==
    ASSUME TypeInv, NEW c \in Client, At(c, "loaded"), Conflicts(c) # {}
    PROVE  Clashes(c)
<1>1. PICK s \in Conflicts(c) : TRUE
  OBVIOUS
<1>2. /\ s \in Shift \ {req[c].shift} /\ <<s, req[c].staff>> \in assignments
      /\ Overlaps(shifts[s].window, req[c].window)
      /\ shifts[s].window \in Window /\ req[c].window \in Window
  BY <1>1 DEF Conflicts, At, TypeInv, RequestFilled, RowsFilled
<1>3. PICK t \in Time : Covers(shifts[s].window, t) /\ Covers(req[c].window, t)
  BY <1>2, OverlappingWindowsMeet
<1> QED
  BY <1>2, <1>3 DEF Clashes

\* Assignments stay, and the row of one keeps its window.
LEMMA AssignmentsStay ==
    TypeInv /\ LedgerInv /\ [Next]_vars =>
      /\ assignments \subseteq assignments'
      /\ \A a \in assignments : shifts'[a[1]].window = shifts[a[1]].window
<1> SUFFICES ASSUME TypeInv, LedgerInv, [Next]_vars
             PROVE  /\ assignments \subseteq assignments'
                    /\ \A a \in assignments : shifts'[a[1]].window = shifts[a[1]].window
  OBVIOUS
<1>1. CASE UNCHANGED <<shifts, assignments>>
  BY <1>1
<1>2. ASSUME NEW c \in Client, At(c, "audited"), Apply(c)
      PROVE  /\ assignments \subseteq assignments'
             /\ \A a \in assignments : shifts'[a[1]].window = shifts[a[1]].window
  <2>1. CASE req[c].op = "create" /\ req[c].op # "assign"
    <3>1. /\ assignments' = assignments
          /\ shifts[req[c].shift].state = "absent"
          /\ shifts' = [shifts EXCEPT ![req[c].shift] =
                          [state |-> "live", window |-> req[c].window]]
      BY <1>2, <2>1 DEF At, Apply, LedgerInv, FreshIds
    <3>2. \A a \in assignments : a[1] # req[c].shift /\ a[1] \in Shift
      BY <3>1 DEF LedgerInv, AssignedRows, TypeInv, TypeOK
    <3> QED
      BY <3>1, <3>2 DEF TypeInv, TypeOK
  <2>2. CASE req[c].op # "create"
    BY <1>2, <2>2 DEF Apply
  <2> QED
    BY <2>1, <2>2
<1>3. ASSUME NEW s \in Shift, SoftDelete(s)
      PROVE  /\ assignments \subseteq assignments'
             /\ \A a \in assignments : shifts'[a[1]].window = shifts[a[1]].window
  BY <1>3 DEF SoftDelete, TypeInv, TypeOK, ShiftRow
<1> QED
  BY <1>1, <1>2, <1>3
     DEF Next, Receive, ReceiveCreate, ReceiveAssign, Handle, Fail, InsertShift, LoadShift,
         CheckOverlap, InsertAssignment, RecordAudit, Commit, Respond, StatementFails,
         CommitFails, Crash, Goto, Refuse, vars

\* A 409 was there before, or the overlap check has just given it.
LEMMA RefusedByCheck ==
    ASSUME TypeInv, [Next]_vars, NEW c \in Client,
           At(c, "answered")', req'[c].answer = "409"
    PROVE  \/ req'[c] = req[c]
           \/ SameJob(c) /\ At(c, "loaded") /\ Conflicts(c) # {}
<1> SUFFICES ASSUME req'[c] # req[c]
             PROVE  SameJob(c) /\ At(c, "loaded") /\ Conflicts(c) # {}
  OBVIOUS
<1>1. ASSUME NEW v \in Client, NEW status \in Answer, Refuse(v, status)
      PROVE  v = c /\ SameJob(c) /\ status = "409"
  BY <1>1, AnswerEffect DEF Refuse, OnlyRequest, TypeInv
<1>2. ASSUME NEW v \in Client, NEW phase \in Phase \ {"answered"}, Goto(v, phase)
      PROVE  FALSE
  BY <1>2, GotoEffect DEF OnlyRequest, At, TypeInv
<1>3. ~UNCHANGED req
  OBVIOUS
<1>4. ASSUME NEW v \in Client, Receive(v) PROVE FALSE
  BY <1>4 DEF Receive, ReceiveCreate, ReceiveAssign, NoRequest, At, TypeInv, TypeOK
<1>5. ASSUME NEW v \in Client, InsertShift(v) \/ RecordAudit(v) PROVE FALSE
  BY <1>2, <1>5 DEF InsertShift, RecordAudit, Phase
<1>6. ASSUME NEW v \in Client, LoadShift(v) PROVE FALSE
  <2>1. CASE shifts[req[v].shift].state = "live"
    <3>1. shifts[req[v].shift].window \in Window
      BY <1>6, <2>1 DEF LoadShift, TypeInv, RequestFilled, RowsFilled
    <3> QED
      BY <1>6, <2>1, <3>1, LoadEffect DEF LoadShift, OnlyRequest, At, TypeInv
  <2>2. CASE shifts[req[v].shift].state # "live"
    BY <1>1, <1>6, <2>2 DEF LoadShift, Answer
  <2> QED
    BY <2>1, <2>2
<1>7. ASSUME NEW v \in Client, CheckOverlap(v)
      PROVE  SameJob(c) /\ At(c, "loaded") /\ Conflicts(c) # {}
  BY <1>1, <1>2, <1>7 DEF CheckOverlap, Answer, Phase
<1>8. ASSUME NEW v \in Client, InsertAssignment(v) \/ StatementFails(v) PROVE FALSE
  BY <1>1, <1>2, <1>8 DEF InsertAssignment, StatementFails, Answer, Phase
<1>9. ASSUME NEW v \in Client, Commit(v) PROVE FALSE
  BY <1>9, CommitEffect DEF OnlyRequest, TypeInv
<1>10. ASSUME NEW v \in Client, CommitFails(v) PROVE FALSE
  BY <1>10, AnswerEffect DEF CommitFails, OnlyRequest, Answer, TypeInv
<1>11. ASSUME NEW v \in Client, Respond(v) PROVE FALSE
  BY <1>11 DEF Respond, NoRequest, At, TypeInv, TypeOK
<1>12. CASE Crash
  BY <1>12 DEF Crash, NoRequest, At
<1> QED
  BY <1>3, <1>4, <1>5, <1>6, <1>7, <1>8, <1>9, <1>10, <1>11, <1>12
     DEF Next, Handle, Fail, SoftDelete, vars

\* No refusal to begin with.
LEMMA RefusalInit == Init => ConflictIsReal
  BY DEF Init, ConflictIsReal, At, NoRequest

\* A refusal keeps the clash it was given for.
LEMMA RefusalStep == TypeInv /\ LedgerInv /\ ConflictIsReal /\ [Next]_vars => ConflictIsReal'
<1> SUFFICES ASSUME TypeInv, LedgerInv, ConflictIsReal, [Next]_vars,
                    NEW c \in Client, At(c, "answered")', req'[c].answer = "409"
             PROVE  Clashes(c)'
  BY DEF ConflictIsReal, Clashes
<1>1. SameJob(c) /\ Clashes(c)
  <2>1. CASE req'[c] = req[c]
    BY <2>1 DEF SameJob, ConflictIsReal, Clashes, At
  <2>2. CASE SameJob(c) /\ At(c, "loaded") /\ Conflicts(c) # {}
    BY <2>2, ConflictClashes
  <2> QED
    BY <2>1, <2>2, RefusedByCheck
<1>2. PICK s \in Shift \ {req[c].shift}, t \in Time :
        /\ <<s, req[c].staff>> \in assignments
        /\ Covers(shifts[s].window, t) /\ Covers(req[c].window, t)
  BY <1>1 DEF Clashes
<1>3. /\ <<s, req[c].staff>> \in assignments'
      /\ shifts'[s].window = shifts[s].window
  BY <1>2, AssignmentsStay
<1>4. /\ s \in Shift \ {req'[c].shift} /\ <<s, req'[c].staff>> \in assignments'
      /\ Covers(shifts'[s].window, t) /\ Covers(req'[c].window, t)
  BY <1>1, <1>2, <1>3 DEF SameJob, Covers
<1> QED
  BY <1>4 DEF Clashes

\* For every set of instants, an assignment is refused as a conflict only if the
\* staff member is assigned to another shift at an instant of the requested one.
THEOREM RefusalsAreReal == Spec => []ConflictIsReal
  BY TypeInit, TypeStep, LedgerInit, LedgerStep, RefusalInit, RefusalStep, PTL DEF Spec

-----------------------------------------------------------------------------
(* Roster implements RosterLedger *)

\* The entries that the refinement calls recorded.
Recorded == {e \in Entry : auditLog[e] = 1}

\* An assignment that has been inserted is of a staff member who exists.
StaffExist == \A c \in Client : HoldsAssignment(c) => req[c].staff \in Registered

\* No request has inserted anything to begin with.
LEMMA StaffInit == Init => StaffExist
  BY DEF Init, StaffExist, HoldsAssignment, NoRequest

\* Only InsertAssignment makes a request hold an assignment, and it has asked the
\* foreign key.
LEMMA StaffStep == TypeInv /\ StaffExist /\ [Next]_vars => StaffExist'
<1> SUFFICES ASSUME TypeInv, StaffExist, [Next]_vars PROVE StaffExist'
  OBVIOUS
<1> USE DEF StaffExist, HoldsAssignment
<1>1. ASSUME NEW c \in Client, \A v \in Client : v # c => req'[v] = req[v],
             HoldsAssignment(c)' => req'[c].staff \in Registered
      PROVE  StaffExist'
  BY <1>1
<1>2. ASSUME NEW c \in Client, NEW status \in Answer, Refuse(c, status)
      PROVE  StaffExist'
  <2>1. OnlyRequest(c) /\ req'[c].pc = "answered"
    BY <1>2, AnswerEffect DEF Refuse, TypeInv
  <2> QED
    BY <1>1, <2>1 DEF OnlyRequest
<1>3. CASE UNCHANGED vars
  BY <1>3 DEF vars
<1>4. ASSUME NEW c \in Client, Receive(c)
      PROVE  StaffExist'
  <2>1. /\ req'[c].pc \in {"received", "answered"}
        /\ \A v \in Client : v # c => req'[v] = req[v]
    <3>1. CASE \E s \in Shift, p \in Body : ReceiveCreate(c, s, p)
      BY <3>1 DEF ReceiveCreate, TypeInv, TypeOK, NoRequest
    <3>2. CASE \E s \in Shift, u \in StaffId : ReceiveAssign(c, s, u)
      BY <3>2 DEF ReceiveAssign, TypeInv, TypeOK, NoRequest
    <3> QED
      BY <1>4, <3>1, <3>2 DEF Receive
  <2> QED
    BY <1>1, <2>1
<1>5. ASSUME NEW c \in Client, InsertShift(c) \/ RecordAudit(c)
      PROVE  StaffExist'
  <2>1. /\ OnlyRequest(c) /\ SameJob(c)
        /\ req[c].op = "create" \/ HoldsAssignment(c) \/ req[c].op # "assign"
    BY <1>5, GotoEffect DEF InsertShift, RecordAudit, At, Phase, TypeInv
  <2> QED
    BY <1>1, <2>1 DEF OnlyRequest, SameJob
<1>6. ASSUME NEW c \in Client, LoadShift(c)
      PROVE  StaffExist'
  <2>1. CASE shifts[req[c].shift].state = "live"
    <3>1. req[c].shift \in Shift /\ shifts[req[c].shift].window \in Window
      BY <1>6, <2>1 DEF LoadShift, TypeInv, RequestFilled, RowsFilled
    <3>2. OnlyRequest(c) /\ req'[c].pc = "loaded"
      BY <1>6, <2>1, <3>1, LoadEffect DEF LoadShift, TypeInv
    <3> QED
      BY <1>1, <3>2 DEF OnlyRequest
  <2>2. CASE shifts[req[c].shift].state # "live"
    BY <1>2, <1>6, <2>2 DEF LoadShift, Answer
  <2> QED
    BY <2>1, <2>2
<1>7. ASSUME NEW c \in Client, CheckOverlap(c)
      PROVE  StaffExist'
  <2>1. CASE Goto(c, "checked")
    <3>1. OnlyRequest(c) /\ req'[c].pc = "checked"
      BY <2>1, GotoEffect DEF Phase, TypeInv
    <3> QED
      BY <1>1, <3>1 DEF OnlyRequest
  <2> QED
    BY <1>2, <1>7, <2>1 DEF CheckOverlap, Answer
<1>8. ASSUME NEW c \in Client, InsertAssignment(c)
      PROVE  StaffExist'
  <2>1. CASE Goto(c, "inserted") /\ req[c].staff \in Registered
    <3>1. OnlyRequest(c) /\ SameJob(c)
      BY <2>1, GotoEffect DEF Phase, TypeInv
    <3> QED
      BY <1>1, <2>1, <3>1 DEF OnlyRequest, SameJob
  <2> QED
    BY <1>2, <1>8, <2>1 DEF InsertAssignment, Answer
<1>9. ASSUME NEW c \in Client, Commit(c) \/ CommitFails(c)
      PROVE  StaffExist'
  <2>1. OnlyRequest(c) /\ req'[c].pc = "answered"
    BY <1>9, CommitEffect, AnswerEffect DEF CommitFails, Answer, TypeInv
  <2> QED
    BY <1>1, <2>1 DEF OnlyRequest
<1>10. ASSUME NEW c \in Client, Respond(c)
       PROVE  StaffExist'
  BY <1>1, <1>10 DEF Respond, NoRequest, TypeInv, TypeOK
<1>11. ASSUME NEW c \in Client, StatementFails(c)
       PROVE  StaffExist'
  BY <1>2, <1>11 DEF StatementFails, Answer
<1>12. CASE Crash
  BY <1>12 DEF Crash, NoRequest
<1>13. ASSUME NEW s \in Shift, SoftDelete(s)
       PROVE  StaffExist'
  BY <1>13 DEF SoftDelete
<1> QED
  BY <1>3, <1>4, <1>5, <1>6, <1>7, <1>8, <1>9, <1>10, <1>11, <1>12, <1>13
     DEF Next, Handle, Fail

\* A transaction that commits records its entry, which was not there.
LEMMA Recording ==
    ASSUME TypeInv, LedgerInv, NEW c \in Client, At(c, "audited"), Apply(c)
    PROVE  EntryOf(c) \notin Recorded /\ Recorded' = Recorded \cup {EntryOf(c)}
<1>1. EntryOf(c) \in Entry /\ auditLog[EntryOf(c)] = 0
  BY EntryIsNew
<1>2. /\ auditLog'[EntryOf(c)] = 1
      /\ \A e \in Entry : e # EntryOf(c) => auditLog'[e] = auditLog[e]
  BY <1>1 DEF Apply, TypeInv, TypeOK
<1> QED
  BY <1>1, <1>2 DEF Recorded

\* A creation that commits publishes its shift.
LEMMA CreationPublishes ==
    ASSUME TypeInv, LedgerInv, NEW c \in Client, At(c, "audited"), Apply(c), UNCHANGED acked,
           req[c].op = "create"
    PROVE  Ledger!Next
<1> DEFINE s == req[c].shift
           win == req[c].window
<1>1. /\ s \in Shift /\ win \in Window
      /\ shifts[s].state = "absent"
      /\ shifts' = [shifts EXCEPT ![s] = [state |-> "live", window |-> win]]
      /\ UNCHANGED <<assignments, acked>>
  BY DEF At, Apply, TypeInv, RequestFilled, LedgerInv, FreshIds
<1>2. EntryOf(c) = Ledger!Created(s)
  BY DEF EntryOf, CreateEntry, Ledger!Created
<1> HIDE DEF s, win
<1>3. Ledger!Record(Ledger!Created(s))
  BY <1>2, Recording DEF Recorded, Ledger!Record
<1>4. Ledger!Publish(s, win)
  BY <1>1, <1>3 DEF Ledger!Publish
<1> QED
  BY <1>1, <1>4 DEF Ledger!Next, Ledger!Window, Window, Payload

\* The ledger counts as the server does.
LEMMA SameCount == \A S : Ledger!Cardinality(S) = Cardinality(S)
  BY DEF Ledger!Cardinality, Cardinality

\* A staff member who gets a live shift had room for it: one shift more is still
\* within what BookingInv allows.
LEMMA RoomForShift ==
    ASSUME BookingInv', NEW s \in Shift, NEW u \in StaffId, NEW t \in Time,
           Booked(u, t)' = Booked(u, t) \cup {s}, s \notin Booked(u, t)
    PROVE  Cardinality(Booked(u, t)) < PoolSize
<1>1. /\ IsFiniteSet(Load(u, t)') /\ Cardinality(Load(u, t)') <= PoolSize
      /\ Booked(u, t)' \in SUBSET (Load(u, t)')
  BY DEF BookingInv, Load
<1>2. /\ IsFiniteSet(Booked(u, t)')
      /\ Cardinality(Booked(u, t)') <= Cardinality(Load(u, t)')
  BY <1>1, FS_Subset
<1>3. Booked(u, t) \in SUBSET (Booked(u, t)')
  OBVIOUS
<1>4. IsFiniteSet(Booked(u, t))
  BY <1>2, <1>3, FS_Subset
<1>5. Cardinality(Booked(u, t)') = Cardinality(Booked(u, t)) + 1
  BY <1>4, FS_AddElement
<1>6. /\ Cardinality(Booked(u, t)) \in Nat /\ Cardinality(Load(u, t)') \in Nat
      /\ PoolSize \in Nat
  BY <1>1, <1>4, FS_CardinalityType, PoolAssumption
<1> QED
  BY <1>1, <1>2, <1>5, <1>6

\* An assignment that commits is one the ledger allows.
LEMMA AssignmentFits ==
    ASSUME TypeInv, LedgerInv, StaffExist, BookingInv', NEW c \in Client, At(c, "audited"),
           Apply(c), UNCHANGED acked, req[c].op = "assign"
    PROVE  Ledger!Next
<1>1. PICK s \in Shift, u \in Registered : s = req[c].shift /\ u = req[c].staff
  BY DEF At, TypeInv, RequestFilled, HoldsAssignment, StaffExist
<1>2. /\ shifts[s].state # "absent"
      /\ <<s, u>> \notin assignments
      /\ assignments' = assignments \cup {<<s, u>>}
      /\ UNCHANGED <<shifts, acked>>
      /\ EntryOf(c) = Ledger!Assigned(s, u)
  BY <1>1 DEF At, Apply, LedgerInv, BoundToRow, KeysHeld, HoldsAssignment, EntryOf, AssignEntry,
              Ledger!Assigned
<1>3. Ledger!Record(Ledger!Assigned(s, u))
  BY <1>2, Recording DEF Recorded, Ledger!Record
<1>4. ASSUME NEW t \in Time, Ledger!LiveAt(s, t)
      PROVE  Ledger!Cardinality(Ledger!Busy(u, t)) < PoolSize
  <2>1. shifts[s].state = "live" /\ Covers(shifts[s].window, t)
    BY <1>4 DEF Ledger!LiveAt, Covers
  <2>2. Ledger!Busy(u, t) = Booked(u, t)
    BY DEF Ledger!Busy, Ledger!LiveAt, Booked, Covers
  <2>3. Booked(u, t)' = Booked(u, t) \cup {s} /\ s \notin Booked(u, t)
    BY <1>2, <2>1 DEF Booked
  <2>4. u \in StaffId
    BY StaffAssumption
  <2> QED
    BY <2>2, <2>3, <2>4, RoomForShift, SameCount
<1>5. Ledger!Assign(s, u)
  BY <1>2, <1>3, <1>4 DEF Ledger!Assign
<1> QED
  BY <1>1, <1>5 DEF Ledger!Next

\* A step that leaves what is stored and told alone is a stutter of the ledger.
LEMMA QuietStep ==
    ASSUME UNCHANGED <<shifts, assignments, auditLog, acked>>
    PROVE  UNCHANGED Ledger!vars
  BY DEF Ledger!vars

\* A response with a success tells of an entry that is recorded.
LEMMA RespondTells ==
    ASSUME TypeInv, LedgerInv, NEW c \in Client, Respond(c)
    PROVE  [Ledger!Next]_(Ledger!vars)
<1>1. UNCHANGED <<shifts, assignments, auditLog>>
  BY DEF Respond
<1>2. CASE req[c].answer \in {"200", "201"}
  <2>1. req[c].op # "none"
    BY <1>2 DEF TypeInv, RequestFilled
  <2>2. EntryOf(c) \in Entry /\ auditLog[EntryOf(c)] = 1
    BY <1>2, <2>1, EntryType
       DEF Respond, At, LedgerInv, SuccessIsCommitted, TypeInv, TypeOK, RequestFilled, Request
  <2>3. Ledger!Tell(EntryOf(c))
    BY <1>1, <1>2 DEF Respond, Ledger!Tell
  <2> QED
    BY <2>2, <2>3 DEF Ledger!Next
<1>3. CASE req[c].answer \notin {"200", "201"}
  BY <1>1, <1>3, QuietStep DEF Respond
<1> QED
  BY <1>2, <1>3

\* A step of the server is a step of the ledger or leaves it as it is.
LEMMA StepImplements ==
    TypeInv /\ LedgerInv /\ StaffExist /\ BookingInv' /\ [Next]_vars
      => [Ledger!Next]_(Ledger!vars)
<1> SUFFICES ASSUME TypeInv, LedgerInv, StaffExist, BookingInv', [Next]_vars
             PROVE  [Ledger!Next]_(Ledger!vars)
  OBVIOUS
<1>1. CASE UNCHANGED vars
  BY <1>1, QuietStep DEF vars
<1>2. ASSUME NEW c \in Client, At(c, "audited"), Apply(c), UNCHANGED acked
      PROVE  Ledger!Next
  BY <1>2, CreationPublishes, AssignmentFits DEF Apply
<1>3. ASSUME NEW c \in Client, Receive(c)
      PROVE  [Ledger!Next]_(Ledger!vars)
  BY <1>3, QuietStep DEF Receive, ReceiveCreate, ReceiveAssign
<1>4. ASSUME NEW c \in Client,
             \/ InsertShift(c) \/ LoadShift(c) \/ CheckOverlap(c) \/ InsertAssignment(c)
             \/ RecordAudit(c) \/ StatementFails(c)
      PROVE  [Ledger!Next]_(Ledger!vars)
  <2>1. UNCHANGED <<shifts, assignments, auditLog, acked>>
    BY <1>4 DEF InsertShift, LoadShift, CheckOverlap, InsertAssignment, RecordAudit,
                StatementFails, Goto, Refuse
  <2> QED
    BY <2>1, QuietStep
<1>5. ASSUME NEW c \in Client, Commit(c) \/ CommitFails(c)
      PROVE  [Ledger!Next]_(Ledger!vars)
  BY <1>2, <1>5, QuietStep DEF Commit, CommitFails
<1>6. CASE Crash
  BY <1>6, QuietStep DEF Crash
<1>7. ASSUME NEW s \in Shift, SoftDelete(s)
      PROVE  Ledger!Next
  <2>1. Ledger!Retire(s)
    BY <1>7 DEF SoftDelete, Ledger!Retire
  <2> QED
    BY <2>1 DEF Ledger!Next
<1> QED
  BY <1>1, <1>3, <1>4, <1>5, <1>6, <1>7, RespondTells DEF Next, Handle, Fail

\* Shift creation and assignment implement the ledger: whatever requests run
\* together, fail or die, rows appear with their audit entries, only once and only
\* for staff who exist, nobody is given a live shift beyond one for each connection at
\* an instant, and clients are told of what has been recorded.
THEOREM RosterImplementsLedger == Spec => ImplementsLedger
<1>1. Init => Ledger!Init
  BY DEF Init, Ledger!Init, AbsentRow
<1> QED
  BY <1>1, TypeInit, TypeStep, LedgerInit, LedgerStep, PoolInit, PoolStep,
     BookingInit, BookingStep, StaffInit, StaffStep, StepImplements, PTL
     DEF Spec, ImplementsLedger, Ledger!Spec
=============================================================================
