-------------------------- MODULE OfflineValidation --------------------------
(***************************************************************************)
(* validate_flow_csv (src/ingestion/offline_validation.py): the rows of    *)
(* one flow CSV are submitted in batches over Delivery, without dropping   *)
(* duplicates, and the API's counters before and after decide whether the  *)
(* validation "completed".  A snapshot of the API's summary keeps the set  *)
(* that was counted; the code only ever takes its Cardinality.             *)
(***************************************************************************)
EXTENDS Delivery

CONSTANTS
  BatchSize,   \* --batch-size
  MaxRows      \* bound of the model: rows in the CSV

ASSUME OfflineAssumption == BatchSize \in Nat \ {0} /\ MaxRows \in Nat

VARIABLES
  phase,     \* where validate_flow_csv is
  eof,       \* the CSV has been read to its end
  read,      \* history: the flows adapted from the rows read
  batch,     \* flows adapted but not yet submitted
  n,         \* the report's flow counters
  ids,       \* prediction ids in all_results: the rows the API told of
  before,    \* the summary taken before the first row
  after,     \* the summary taken after the last one
  report     \* status, verification, failures, and whether it is on disk

offlineVars == <<phase, eof, read, batch, n, ids, before, after, report>>
vars == <<deliveryVars, offlineVars>>

Init ==
  /\ DeliveryInit
  /\ phase = "open" /\ eof = FALSE /\ read = <<>> /\ batch = <<>>
  /\ n = [extracted |-> 0, submitted |-> 0, successful |-> 0, failed |-> 0]
  /\ ids = {} /\ before = {} /\ after = {}
  /\ report = [status |-> "failed", verified |-> FALSE, failures |-> FALSE,
               written |-> FALSE]

-----------------------------------------------------------------------------
\* except Exception: recorded; finally: the report is written.
Fail ==
  /\ phase' = "closed"
  /\ report' = [report EXCEPT !.failures = TRUE, !.written = TRUE]

\* The batch size, the CSV's header and the API's health are in order, and
\* the summary answers.
OpenSummary ==
  /\ phase = "open"
  /\ before' = rows
  /\ phase' = "rows"
  /\ UNCHANGED <<deliveryVars, eof, read, batch, n, ids, after, report>>

\* One of them is not, or the API refuses the summary (401).
OpenFails ==
  /\ phase = "open"
  /\ Fail
  /\ UNCHANGED <<deliveryVars, eof, read, batch, n, ids, before, after>>

Reading == phase = "rows" /\ ~eof /\ Len(batch) < BatchSize
RowsLeft == n.extracted < MaxRows

RowAdapted(f) ==
  /\ Reading /\ RowsLeft
  /\ n' = [n EXCEPT !.extracted = @ + 1]
  /\ read' = Append(read, f) /\ batch' = Append(batch, f)
  /\ UNCHANGED <<deliveryVars, phase, eof, ids, before, after, report>>

RowRejected ==
  /\ Reading /\ RowsLeft
  /\ n' = [n EXCEPT !.extracted = @ + 1, !.failed = @ + 1]
  /\ report' = [report EXCEPT !.failures = TRUE]
  /\ UNCHANGED <<deliveryVars, phase, eof, read, batch, ids, before, after>>

EndOfRows ==
  /\ Reading
  /\ eof' = TRUE
  /\ UNCHANGED <<deliveryVars, phase, read, batch, n, ids, before, after, report>>

\* The reader raises further down the file.
RowsFail ==
  /\ Reading
  /\ Fail
  /\ UNCHANGED <<deliveryVars, eof, read, batch, n, ids, before, after>>

Submit ==
  /\ phase = "rows" /\ batch # <<>> /\ (eof \/ Len(batch) >= BatchSize)
  /\ BeginSend(batch)
  /\ n' = [n EXCEPT !.submitted = @ + Len(batch)]
  /\ phase' = "sending"
  /\ UNCHANGED <<eof, read, batch, ids, before, after, report>>

Sending ==
  /\ phase = "sending"
  /\ Post \/ RetryLater
  /\ UNCHANGED offlineVars

Submitted ==
  /\ phase = "sending"
  /\ Receive
  /\ ids' = ids \cup AttemptRows(current)
  /\ n' = [n EXCEPT !.successful = @ + Len(batch)]
  /\ batch' = <<>>
  /\ phase' = "rows"
  /\ UNCHANGED <<eof, read, before, after, report>>

\* ApiSendError: unlike in a live session the batch counts as failed.
SubmitFails ==
  /\ phase = "sending"
  /\ GiveUp
  /\ n' = [n EXCEPT !.failed = @ + Len(batch)]
  /\ Fail
  /\ UNCHANGED <<eof, read, batch, ids, before, after>>

\* The API answered 200, but without the fields a stored row has: the rows
\* count as failed, stored as they may be, and nothing is told of them.
AnswerIncomplete ==
  /\ phase = "sending"
  /\ Receive
  /\ n' = [n EXCEPT !.failed = @ + Len(batch)]
  /\ Fail
  /\ UNCHANGED <<eof, read, batch, ids, before, after>>

\* Deviation: the submit() after the row loop is forgotten.
RowsDoneUnflushed ==
  /\ phase = "rows" /\ eof
  /\ n.extracted > 0 /\ n.failed = 0
  /\ after' = rows
  /\ phase' = "verify"
  /\ UNCHANGED <<deliveryVars, eof, read, batch, n, ids, before, report>>

\* All rows went through: the summary is read again.
RowsDone ==
  /\ phase = "rows" /\ eof /\ batch = <<>>
  /\ n.extracted > 0 /\ n.failed = 0
  /\ after' = rows
  /\ phase' = "verify"
  /\ UNCHANGED <<deliveryVars, eof, read, batch, n, ids, before, report>>

\* No rows, or some failed: nothing is verified.
RowsRefused ==
  /\ phase = "rows" /\ eof /\ batch = <<>>
  /\ n.extracted = 0 \/ n.failed > 0
  /\ Fail
  /\ UNCHANGED <<deliveryVars, eof, read, batch, n, ids, before, after>>

Delta == Cardinality(after) - Cardinality(before)

\* Each prediction is fetched by its id and the counts are compared.
Verify ==
  /\ phase = "verify"
  /\ LET exact == Delta = Cardinality(ids) /\ ids \subseteq rows
     IN report' = [status |-> IF exact THEN "completed" ELSE "failed",
                   verified |-> exact, failures |-> report.failures \/ ~exact,
                   written |-> TRUE]
  /\ phase' = "closed"
  /\ UNCHANGED <<deliveryVars, eof, read, batch, n, ids, before, after>>

\* A verification read fails, the summary included.
VerifyFails ==
  /\ phase = "verify"
  /\ Fail
  /\ UNCHANGED <<deliveryVars, eof, read, batch, n, ids, before, after>>

\* KeyboardInterrupt passes the handler, not the finally clause.
CtrlC ==
  /\ \/ phase \in {"open", "rows", "verify"} /\ UNCHANGED deliveryVars
     \/ phase = "sending" /\ InterruptSend
  /\ phase' = "closed"
  /\ report' = [report EXCEPT !.written = TRUE]
  /\ UNCHANGED <<eof, read, batch, n, ids, before, after>>

-----------------------------------------------------------------------------
Environment ==
  /\ ApiStep \/ \E f \in Flow : OtherClient(f)
  /\ UNCHANGED offlineVars

Step ==
  \/ OpenSummary \/ OpenFails
  \/ \E f \in Flow : RowAdapted(f)
  \/ RowRejected \/ EndOfRows \/ RowsFail
  \/ Submit \/ Sending \/ Submitted \/ SubmitFails \/ AnswerIncomplete
  \/ RowsDone \/ RowsRefused \/ Verify \/ VerifyFails

Next == Step \/ CtrlC \/ Environment

\* One thread of a running program, every call of which ends.
Spec == Init /\ [][Next]_vars /\ WF_vars(Step)
-----------------------------------------------------------------------------
\* A completed validation stored the CSV and nothing else: between its two
\* summaries the API got each row of the file exactly once, although retries
\* may have stored batches twice and other clients use the same API.
CompletedIsExact ==
  report.status = "completed" =>
    /\ n.extracted = Len(read)
    /\ \A f \in Flow :
         Cardinality({r \in after \ before : FlowOf(r) = f})
           = Cardinality({i \in DOMAIN read : read[i] = f})
=============================================================================
