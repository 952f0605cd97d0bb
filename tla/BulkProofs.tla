------------------------------ MODULE BulkProofs ------------------------------
(***************************************************************************)
(* Theorems about BulkUpload for any bound on the rows of a file.          *)
(*                                                                         *)
(* The invariant says what the loop knows after k rows: those rows, and no *)
(* others, are created or reported; only good rows are created; and while  *)
(* the session is usable no good row has been reported.  A commit is made  *)
(* with a usable session only, so it stores every good row.                *)
(***************************************************************************)
EXTENDS BulkUpload, FiniteSetTheorems, TLAPS

-----------------------------------------------------------------------------
(* The inductive invariant *)

\* The first k rows have been tried.
Tried(k) == k \in 0 .. Len(file.rows) /\ created \cup errors = 1 .. k

AllTried == Tried(Len(file.rows))

Kind(i) == file.rows[i].kind

Sorted ==
    /\ created \cap errors = {}
    /\ \A i \in created : Kind(i) = "valid"
    /\ session = "active" => \A i \in errors : Kind(i) # "valid"

Honest ==
    /\ answer \in {"200", "207"} =>
         /\ AllTried
         /\ answer = "207" <=> errors # {}
    /\ answer \in {"400", "422"} => stored = {}

BulkInv ==
    /\ TypeOK
    /\ \E k \in 0 .. Len(file.rows) : Tried(k)
    /\ Sorted
    /\ pc # "answered" => stored = {}
    /\ pc \in {"idle", "received", "rows"} => answer = "none"
    /\ pc = "committing" => answer \in {"200", "207"}
    /\ Honest
    /\ stored = {} \/ (stored = created /\ session = "active" /\ AllTried)
    /\ pc = "answered" /\ answer \in {"200", "207"} => stored = created

-----------------------------------------------------------------------------
(* Facts about files and rows *)

\* The rows of a file are a sequence no longer than the bound.
LEMMA FileRows ==
    ASSUME NEW f \in File
    PROVE  /\ Len(f.rows) \in Nat /\ Len(f.rows) <= MaxRows
           /\ DOMAIN f.rows = 1 .. Len(f.rows)
           /\ f.rows \in [1 .. Len(f.rows) -> Row]
<1>1. PICK n \in 0 .. MaxRows : f.rows \in [1 .. n -> Row]
  BY DEF File
<1>2. n \in Nat /\ n <= MaxRows
  BY <1>1, RowsAssumption
<1>3. f.rows \in Seq(Row) /\ Len(f.rows) = n
  BY <1>1, <1>2
<1> QED
  BY <1>1, <1>2, <1>3

LEMMA NoFileType == NoFile \in File /\ Len(NoFile.rows) = 0
<1>1. <<>> \in [1 .. 0 -> Row] /\ 0 \in 0 .. MaxRows
  BY RowsAssumption
<1>2. <<>> \in UNION {[1 .. n -> Row] : n \in 0 .. MaxRows}
  BY <1>1
<1>3. NoFile \in File
  BY <1>2 DEF NoFile, File
<1>4. NoFile.rows = <<>>
  BY DEF NoFile
<1> QED
  BY <1>3, <1>4

\* The loop is at the row after those it has tried.
LEMMA NextRowIs == ASSUME NEW k \in Nat, created \cup errors = 1 .. k PROVE NextRow = k + 1
<1>1. Cardinality(1 .. k) = IF 1 > k THEN 0 ELSE k - 1 + 1
  BY FS_Interval
<1>2. Cardinality(1 .. k) = k
  BY <1>1
<1> QED
  BY <1>2 DEF NextRow

\* A step that changes none of the rows' books keeps what they say.
LEMMA BooksStay ==
    ASSUME UNCHANGED <<file, created, errors, session>>
    PROVE  /\ (\E k \in 0 .. Len(file.rows) : Tried(k))'
                <=> (\E k \in 0 .. Len(file.rows) : Tried(k))
           /\ AllTried' <=> AllTried
           /\ Sorted' <=> Sorted
BY DEF Tried, AllTried, Sorted, Kind

-----------------------------------------------------------------------------
(* The steps *)

LEMMA BulkInit == Init => BulkInv
<1> SUFFICES ASSUME Init PROVE BulkInv
  OBVIOUS
<1>1. file \in File /\ Len(file.rows) = 0
  BY NoFileType DEF Init
<1>2. TypeOK
  BY <1>1 DEF Init, TypeOK, Phase, Answer
<1>3. Tried(0)
  BY <1>1 DEF Init, Tried
<1> QED
  BY <1>1, <1>2, <1>3 DEF Init, BulkInv, Sorted, Honest

\* A request that begins, and one that has ended.
LEMMA BeginStep ==
    ASSUME NEW f \in File, NEW phase \in {"received", "idle"}, Begin(phase, f)
    PROVE  BulkInv'
<1>1. TypeOK'
  BY DEF Begin, TypeOK, Phase, Answer
<1>2. Tried(0)' /\ 0 \in (0 .. Len(file.rows))'
  BY FileRows DEF Begin, Tried
<1> QED
  BY <1>1, <1>2 DEF Begin, BulkInv, Sorted, Honest

LEMMA RefuseStep ==
    ASSUME BulkInv, pc # "answered", NEW status \in {"400", "422", "500"}, Refuse(status)
    PROVE  BulkInv'
<1>1. stored = {} /\ UNCHANGED <<file, created, errors, session>> /\ stored' = {}
  BY DEF BulkInv, Refuse
<1>2. TypeOK'
  BY DEF BulkInv, Refuse, TypeOK, Phase, Answer
<1> QED
  BY <1>1, <1>2, BooksStay DEF BulkInv, Refuse, Honest

\* A row is tried: it is created, or reported.
LEMMA RowStep ==
    ASSUME BulkInv, MoreRows,
           \/ CreateRow
           \/ RejectRow
           \/ FlushFails
    PROVE  BulkInv'
<1>1. PICK k \in 0 .. Len(file.rows) : Tried(k)
  BY DEF BulkInv
<1>2. /\ file \in File /\ Len(file.rows) \in Nat /\ k \in Nat
      /\ Len(file.rows) <= MaxRows /\ MaxRows \in Nat
  BY <1>1, FileRows, RowsAssumption DEF BulkInv, TypeOK
<1>3. NextRow = k + 1
  BY <1>1, <1>2, NextRowIs DEF Tried
<1>4. k + 1 \in 1 .. Len(file.rows) /\ k + 1 \in Rows
  BY <1>2, <1>3 DEF MoreRows, Rows
<1>5. k + 1 \notin created \cup errors
  BY <1>1, <1>2 DEF Tried
<1>6. /\ pc = "rows" /\ UNCHANGED <<pc, file, stored, answer>> /\ stored = {}
      /\ answer = "none"
  BY DEF MoreRows, CreateRow, RejectRow, FlushFails, BulkInv
<1>7. \/ /\ created' = created \cup {k + 1} /\ errors' = errors /\ session' = session
         /\ Kind(k + 1) = "valid"
      \/ /\ created' = created /\ errors' = errors \cup {k + 1}
         /\ session' = "inactive" \/ (session' = session /\ Kind(k + 1) # "valid")
  BY <1>3 DEF CreateRow, RejectRow, FlushFails, Kind
<1>8. Tried(k + 1)'
  <2>1. (created \cup errors)' = (created \cup errors) \cup {k + 1}
    BY <1>7
  <2>2. (created \cup errors)' = 1 .. (k + 1)
    BY <1>1, <1>2, <2>1 DEF Tried
  <2> QED
    BY <1>2, <1>4, <1>6, <2>2 DEF Tried
<1>9. Sorted'
  BY <1>5, <1>6, <1>7 DEF BulkInv, Sorted, Kind
<1>10. TypeOK'
  BY <1>4, <1>6, <1>7 DEF BulkInv, TypeOK, CreateRow, RejectRow, FlushFails
<1>11. k + 1 \in (0 .. Len(file.rows))'
  BY <1>2, <1>4, <1>6
<1> QED
  BY <1>6, <1>8, <1>9, <1>10, <1>11 DEF BulkInv, Honest

LEMMA FinishStep ==
    ASSUME BulkInv, Finish PROVE BulkInv'
<1>1. pc = "rows" /\ stored = {} /\ UNCHANGED <<file, created, errors, session, stored>>
  BY DEF BulkInv, Finish, Refuse
<1>2. ASSUME Refuse("400") \/ Refuse("422") PROVE BulkInv'
  BY <1>1, <1>2, RefuseStep
<1>3. ASSUME pc' = "committing", answer' = IF errors = {} THEN "200" ELSE "207",
             UNCHANGED dbFailed
      PROVE  BulkInv'
  <2>1. PICK k \in 0 .. Len(file.rows) : Tried(k)
    BY DEF BulkInv
  <2>2. file \in File /\ Len(file.rows) \in Nat /\ k \in Nat
    BY <2>1, FileRows DEF BulkInv, TypeOK
  <2>3. NextRow = k + 1 /\ NextRow > Len(file.rows)
    BY <2>1, <2>2, NextRowIs DEF Tried, Finish
  <2>4. AllTried
    BY <2>1, <2>2, <2>3 DEF AllTried, Tried
  <2>5. answer' \in {"200", "207"} /\ (answer' = "207" <=> errors' # {})
    BY <1>1, <1>3
  <2>6. TypeOK'
    BY <1>1, <1>3, <2>5 DEF BulkInv, TypeOK, Phase, Answer
  <2>7. AllTried' /\ Sorted' /\ (\E i \in 0 .. Len(file.rows) : Tried(i))'
    BY <1>1, <2>4, BooksStay DEF BulkInv
  <2> QED
    BY <1>1, <1>3, <2>5, <2>6, <2>7 DEF BulkInv, Honest
<1> QED
  BY <1>2, <1>3 DEF Finish

\* get_db's commit, the one that fails included.
LEMMA CommitStep ==
    ASSUME BulkInv, Commit \/ CommitFails PROVE BulkInv'
<1>1. /\ pc = "committing" /\ stored = {} /\ answer \in {"200", "207"}
      /\ AllTried /\ (answer = "207" <=> errors # {})
  BY DEF BulkInv, Commit, CommitFails, Honest
<1>2. CASE Refuse("500")
  BY <1>1, <1>2, RefuseStep
<1>3. ASSUME session = "active", pc' = "answered",
             UNCHANGED <<file, created, errors, session>>, dbFailed' \in BOOLEAN,
             \/ stored' = created /\ answer' = answer
             \/ stored' \in {{}, created} /\ answer' = "500"
      PROVE  BulkInv'
  <2>1. TypeOK'
    BY <1>3 DEF BulkInv, TypeOK, Phase, Answer
  <2>2. AllTried' /\ Sorted' /\ (\E k \in 0 .. Len(file.rows) : Tried(k))'
    BY <1>1, <1>3, BooksStay DEF BulkInv
  <2> QED
    BY <1>1, <1>3, <2>1, <2>2 DEF BulkInv, Honest
<1>4. dbFailed' \in BOOLEAN
  BY DEF BulkInv, TypeOK, Commit, CommitFails, Refuse
<1> QED
  BY <1>2, <1>3, <1>4 DEF Commit, CommitFails

LEMMA BulkStep == BulkInv /\ [Next]_vars => BulkInv'
<1> SUFFICES ASSUME BulkInv, [Next]_vars PROVE BulkInv'
  OBVIOUS
<1>1. ASSUME NEW f \in File, Receive(f) PROVE BulkInv'
  BY <1>1, BeginStep DEF Receive
<1>2. CASE ReadFile
  <2>1. ASSUME pc' = "rows", pc = "received",
               UNCHANGED <<file, created, errors, session, dbFailed, stored, answer>>
        PROVE  BulkInv'
    <3>1. TypeOK'
      BY <2>1 DEF BulkInv, TypeOK, Phase
    <3> QED
      BY <2>1, <3>1, BooksStay DEF BulkInv, Honest
  <2> QED
    BY <1>2, <2>1, RefuseStep DEF ReadFile
<1>3. CASE CreateRow \/ RejectRow \/ FlushFails
  BY <1>3, RowStep DEF CreateRow, RejectRow, FlushFails
<1>4. CASE Finish
  BY <1>4, FinishStep
<1>5. CASE Commit \/ CommitFails
  BY <1>5, CommitStep
<1>6. CASE Respond \/ Crash
  BY <1>6, NoFileType, BeginStep DEF Respond, Crash
<1>7. CASE UNCHANGED vars
  <2>1. TypeOK'
    BY <1>7 DEF BulkInv, TypeOK, vars
  <2> QED
    BY <1>7, <2>1, BooksStay DEF BulkInv, Honest, vars
<1> QED
  BY <1>1, <1>2, <1>3, <1>4, <1>5, <1>6, <1>7 DEF Next, Handle

LEMMA Invariant == Spec => []BulkInv
BY BulkInit, BulkStep, PTL DEF Spec

-----------------------------------------------------------------------------
(* The theorems *)

\* BulkUpload's variables keep their types: no row outside the file is ever
\* created, reported or stored.
THEOREM TypeCorrect == Spec => []TypeOK
<1>1. BulkInv => TypeOK
  BY DEF BulkInv
<1> QED
  BY <1>1, Invariant, PTL

\* A file of any length is stored whole or not at all, although the exceptions of
\* its rows are caught one by one and the loop goes on after a failed flush.
THEOREM StoresAllOrNothing == Spec => []AllOrNothing
<1>1. BulkInv => AllOrNothing
  <2> SUFFICES ASSUME BulkInv, stored # {}
               PROVE  stored = {i \in DOMAIN file.rows : file.rows[i].kind = "valid"}
    BY DEF AllOrNothing
  <2>1. stored = created /\ session = "active" /\ AllTried /\ Sorted
    BY DEF BulkInv
  <2>2. DOMAIN file.rows = 1 .. Len(file.rows)
    BY FileRows DEF BulkInv, TypeOK
  <2>3. created \cup errors = DOMAIN file.rows
    BY <2>1, <2>2 DEF AllTried, Tried
  <2> QED
    BY <2>1, <2>3 DEF Sorted, Kind
<1> QED
  BY <1>1, Invariant, PTL

\* The answer to an upload of any length says what became of it.
THEOREM AnswerTellsTheTruth == Spec => []ReportIsTrue
<1>1. BulkInv => ReportIsTrue
  BY DEF BulkInv, Honest, AllTried, Tried, ReportIsTrue
<1> QED
  BY <1>1, Invariant, PTL
=============================================================================
