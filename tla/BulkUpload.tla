----------------------------- MODULE BulkUpload -----------------------------
(***************************************************************************)
(* POST /shifts/bulk-upload: router api/v1/shifts.py and                   *)
(* ShiftService.bulk_upload, under the session of database.get_db.         *)
(*                                                                         *)
(* One upload creates a shift, with its audit entry, for every row of a    *)
(* CSV file; the exceptions of a row are collected and the next row is     *)
(* tried.  All rows share one transaction without savepoints, and a        *)
(* SQLAlchemy session whose flush has failed is of no more use: the        *)
(* transaction is rolled back, and every later flush, and the commit of    *)
(* get_db, raise PendingRollbackError.  Uploads share no state but the     *)
(* shifts they add, so one at a time is modelled.                          *)
(***************************************************************************)
EXTENDS Integers, FiniteSets, Sequences

CONSTANT MaxRows  \* bound on the rows of a file

ASSUME RowsAssumption == MaxRows \in Nat

VARIABLES
    pc,        \* how far the request has come
    file,      \* the uploaded file
    created,   \* indices of the rows in BulkUploadResultSchema.created
    errors,    \* indices of the rows in BulkUploadResultSchema.errors
    session,   \* whether the session can still be used
    dbFailed,  \* whether the database has failed during the upload
    stored,    \* indices of the rows whose shift and audit entry are committed
    answer     \* the status of the response

vars == <<pc, file, created, errors, session, dbFailed, stored, answer>>

-----------------------------------------------------------------------------
(* Data *)

\* kind: "invalid" rows fail in ShiftCreateSchema or before it; "unstorable" ones
\* pass it and the database refuses them (a title over 255 characters, an integer
\* that does not fit).  ragged: the row has more fields than the header, which
\* DictReader files under the key None.
Row == [kind : {"valid", "invalid", "unstorable"}, ragged : BOOLEAN]

\* text: what becomes of the bytes: not UTF-8, refused by the csv reader, or rows.
File == [named : {"csv", "other"}, text : {"garbled", "unreadable", "rows"},
         rows : UNION {[1 .. n -> Row] : n \in 0 .. MaxRows}]

NoFile == [named |-> "other", text |-> "rows", rows |-> <<>>]

Phase == {"idle", "received", "rows", "committing", "answered"}

Answer == {"none", "200", "207", "400", "422", "500"}

-----------------------------------------------------------------------------
Init ==
    /\ pc = "idle"
    /\ file = NoFile
    /\ created = {} /\ errors = {}
    /\ session = "active"
    /\ dbFailed = FALSE
    /\ stored = {}
    /\ answer = "none"

\* Nothing is left of the upload before.
Begin(phase, f) ==
    /\ pc' = phase
    /\ file' = f
    /\ created' = {} /\ errors' = {}
    /\ session' = "active"
    /\ dbFailed' = FALSE
    /\ stored' = {}
    /\ answer' = "none"

Receive(f) == pc = "idle" /\ Begin("received", f)

\* The handler ends with an exception: get_db rolls back.
Refuse(status) ==
    /\ pc' = "answered"
    /\ answer' = status
    /\ UNCHANGED <<file, created, errors, session, dbFailed, stored>>

\* The name and the csv reader's exceptions are answered 400; the bytes are
\* decoded outside the try.
ReadFile ==
    /\ pc = "received"
    /\ \/ file.named = "other" /\ Refuse("400")
       \/ file.named = "csv" /\ file.text = "garbled" /\ Refuse("500")
       \/ file.named = "csv" /\ file.text = "unreadable" /\ Refuse("400")
       \/ /\ file.named = "csv" /\ file.text = "rows"
          /\ pc' = "rows"
          /\ UNCHANGED <<file, created, errors, session, dbFailed, stored, answer>>

\* The rows tried so far are those created and those reported.
NextRow == Cardinality(created \cup errors) + 1

MoreRows == pc = "rows" /\ NextRow <= Len(file.rows)

\* Fault: the rows created are numbered from zero.
CreateFromZero ==
    /\ MoreRows
    /\ file.rows[NextRow].kind = "valid"
    /\ session = "active"
    /\ created' = created \cup {NextRow - 1}
    /\ UNCHANGED <<pc, file, errors, session, dbFailed, stored, answer>>

\* The shift and its audit entry are flushed.
CreateRow ==
    /\ MoreRows
    /\ file.rows[NextRow].kind = "valid"
    /\ session = "active"
    /\ created' = created \cup {NextRow}
    /\ UNCHANGED <<pc, file, errors, session, dbFailed, stored, answer>>

\* The row is reported and the loop goes on.
RejectRow ==
    /\ MoreRows
    /\ file.rows[NextRow].kind = "invalid"
    /\ errors' = errors \cup {NextRow}
    /\ UNCHANGED <<pc, file, created, session, dbFailed, stored, answer>>

\* Faults: a failed flush is taken to leave the session usable; a row whose flush
\* fails is tried again.
FlushForgiven ==
    /\ MoreRows
    /\ file.rows[NextRow].kind # "invalid"
    /\ \/ file.rows[NextRow].kind = "unstorable" /\ UNCHANGED dbFailed
       \/ dbFailed' = TRUE
    /\ errors' = errors \cup {NextRow}
    /\ UNCHANGED <<pc, file, created, session, stored, answer>>

FlushRetried ==
    /\ MoreRows
    /\ file.rows[NextRow].kind # "invalid"
    /\ session' = "inactive"
    /\ dbFailed' = TRUE
    /\ UNCHANGED <<pc, file, created, errors, stored, answer>>

\* A flush fails: because an earlier one did, because the row does not fit, or
\* because the database has failed.  The row is reported like any other.
FlushFails ==
    /\ MoreRows
    /\ file.rows[NextRow].kind # "invalid"
    /\ \/ session = "inactive" /\ UNCHANGED dbFailed
       \/ file.rows[NextRow].kind = "unstorable" /\ UNCHANGED dbFailed
       \/ dbFailed' = TRUE
    /\ session' = "inactive"
    /\ errors' = errors \cup {NextRow}
    /\ UNCHANGED <<pc, file, created, stored, answer>>

\* A reported ragged row does not fit BulkUploadResultSchema, whose keys are
\* strings; its ValidationError is a ValueError, which the router answers 400.
\* The HTTPException of the 422 makes get_db roll back.
Finish ==
    /\ pc = "rows"
    /\ NextRow > Len(file.rows)
    /\ \/ /\ \E i \in errors : file.rows[i].ragged
          /\ Refuse("400")
       \/ /\ \A i \in errors : ~file.rows[i].ragged
          /\ created = {} /\ errors # {}
          /\ Refuse("422")
       \/ /\ \A i \in errors : ~file.rows[i].ragged
          /\ created # {} \/ errors = {}
          /\ pc' = "committing"
          /\ answer' = IF errors = {} THEN "200" ELSE "207"
          /\ UNCHANGED <<file, created, errors, session, dbFailed, stored>>

\* Fault: the answer goes out whatever becomes of the commit.
CommitUnchecked ==
    /\ pc = "committing"
    /\ pc' = "answered"
    /\ stored' = IF session = "active" THEN created ELSE {}
    /\ UNCHANGED <<file, created, errors, session, dbFailed, answer>>

\* get_db commits before the response is sent.
Commit ==
    /\ pc = "committing"
    /\ IF session = "active"
       THEN /\ pc' = "answered"
            /\ stored' = created
            /\ UNCHANGED <<file, created, errors, session, dbFailed, answer>>
       ELSE Refuse("500")

\* The database fails at the commit, before or after it has committed.
CommitFails ==
    /\ pc = "committing"
    /\ session = "active"
    /\ pc' = "answered"
    /\ answer' = "500"
    /\ dbFailed' = TRUE
    /\ stored' \in {{}, created}
    /\ UNCHANGED <<file, created, errors, session>>

\* The response is sent.
Respond == pc = "answered" /\ Begin("idle", NoFile)

\* The server dies: the open transaction is rolled back.
Crash == pc \in {"received", "rows", "committing"} /\ Begin("idle", NoFile)

Handle == ReadFile \/ CreateRow \/ RejectRow \/ FlushFails \/ Finish \/ Commit \/ Respond

Next ==
    \/ \E f \in File : Receive(f)
    \/ Handle
    \/ CommitFails
    \/ Crash

Spec == Init /\ [][Next]_vars

FairSpec == Spec /\ WF_vars(Handle)

-----------------------------------------------------------------------------
(* Properties *)

Rows == 1 .. MaxRows

\* The variables hold values of their types.
TypeOK ==
    /\ pc \in Phase
    /\ file \in File
    /\ created \subseteq Rows /\ errors \subseteq Rows /\ stored \subseteq Rows
    /\ session \in {"active", "inactive"}
    /\ dbFailed \in BOOLEAN
    /\ answer \in Answer

\* Whatever fails on the way, an upload stores all the good rows of its file or
\* none of them.
AllOrNothing ==
    stored \in {{}, {i \in DOMAIN file.rows : file.rows[i].kind = "valid"}}

\* The response tells the truth: 200 and 207 report every row, and the rows they
\* call created are in the database; after 400 and 422 nothing is.
ReportIsTrue ==
    pc = "answered" =>
        /\ answer \in {"200", "207"} =>
             /\ stored = created
             /\ created \cup errors = 1 .. Len(file.rows)
             /\ answer = "207" <=> errors # {}
        /\ answer \in {"400", "422"} => stored = {}

\* Every upload is answered or dies with the server.
EveryUploadEnds == pc = "received" ~> pc = "idle"

\* "Returns [...] 207 (partial)": unless the database fails, a file with a good
\* row and a bad one is a partial success.
PartialIs207 ==
    pc = "answered" /\ ~dbFailed /\ file.named = "csv" /\ file.text = "rows"
        /\ (\E i \in DOMAIN file.rows : file.rows[i].kind = "valid")
        /\ (\E i \in DOMAIN file.rows : file.rows[i].kind # "valid")
      => answer = "207"
=============================================================================
