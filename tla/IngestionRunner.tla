--------------------------- MODULE IngestionRunner ---------------------------
(***************************************************************************)
(* run and main (src/ingestion/runner.py): a flow CSV, captured first or   *)
(* given, is read row by row; accepted flows are sent over Delivery when   *)
(* the batch is full or flush_seconds have passed, which is only looked at *)
(* when a row has been accepted.  FeatureMapping says which rows the       *)
(* adapter accepts and which batches the API can classify.                 *)
(***************************************************************************)
EXTENDS Delivery, FeatureMapping

CONSTANTS
  Headers,     \* the headers a CSV may have
  Row,         \* the rows a CSV may have, as functions on raw column names
  BatchSize,   \* --batch-size
  MaxRows      \* bound of the model: rows in the CSV

ASSUME RunnerAssumption == BatchSize \in Nat \ {0} /\ MaxRows \in Nat
\* A row is made of cells, and what send is called with is made by adapt.
ASSUME RowAssumption ==
  Flow = AdaptedFlow /\ \A row \in Row : \A raw \in DOMAIN row : row[raw] \in Cell
\* The collectors' tables and MAPPING_RULES, written apart, name the same column
\* for each feature under the default policy (CICIDS2017_DATASET_ARTIFACT_REPRODUCTION).
ASSUME TableAssumption ==
  \A f \in Feature :
    IF f \in DOMAIN Artifact THEN V3Source[f] = V3Source[Artifact[f]] ELSE Target(V3Source[f]) = f

VARIABLES
  header,  \* the CSV's header
  phase,   \* where run is
  batch,   \* flows accepted but not yet sent
  seen,    \* fingerprints of the run: never forgotten
  stats,   \* the counters run logs and returns
  exit     \* main's exit status: 0, 1, 130, or -1 while it runs

runnerVars == <<header, phase, batch, seen, stats, exit>>
vars == <<deliveryVars, runnerVars>>

Init ==
  /\ DeliveryInit
  /\ header \in Headers
  /\ phase = "capture" /\ batch = <<>> /\ seen = {} /\ exit = -1
  /\ stats = [captured |-> 0, accepted |-> 0, rejected |-> 0, duplicates |-> 0,
              sent |-> 0]

End(status) == phase' = "ended" /\ exit' = status

-----------------------------------------------------------------------------
\* The CSV is there and its header has every feature.
Captured ==
  /\ phase = "capture"
  /\ Compatible(header)
  /\ phase' = "rows"
  /\ UNCHANGED <<deliveryVars, header, batch, seen, stats, exit>>

\* The extractor is missing or fails, or the header is not compatible; or the
\* reader raises further down.
ReadFails ==
  /\ phase \in {"capture", "rows"}
  /\ End(1)
  /\ UNCHANGED <<deliveryVars, header, batch, seen, stats>>

RowsLeft == phase = "rows" /\ stats.captured < MaxRows
RowsOf(h) == {row \in Row : DOMAIN row = {h[i] : i \in DOMAIN h}}

\* Deviation: a fingerprint is only compared with the batch at hand.
KnownInBatch(f) == \E i \in DOMAIN batch : Fingerprint(batch[i]) = Fingerprint(f)

Known(f) == Fingerprint(f) \in seen

RowAccepted(f) ==
  /\ ~Known(f)
  /\ stats' = [stats EXCEPT !.captured = @ + 1, !.accepted = @ + 1]
  /\ seen' = seen \cup {Fingerprint(f)}
  /\ batch' = Append(batch, f)
  /\ phase' = "flush?"

RowDuplicate(f) ==
  /\ Known(f)
  /\ stats' = [stats EXCEPT !.captured = @ + 1, !.duplicates = @ + 1]
  /\ UNCHANGED <<phase, batch, seen>>

RowAdapted(row) ==
  /\ RowsLeft /\ Adapts(row)
  /\ \E f \in {Adapt(row)} : RowAccepted(f) \/ RowDuplicate(f)
  /\ UNCHANGED <<deliveryVars, header, exit>>

RowRejected(row) ==
  /\ RowsLeft /\ ~Adapts(row)
  /\ stats' = [stats EXCEPT !.captured = @ + 1, !.rejected = @ + 1]
  /\ UNCHANGED <<deliveryVars, header, phase, batch, seen, exit>>

\* The batch is full, or flush_seconds have passed since the last flush.
Flush ==
  /\ phase = "flush?"
  /\ BeginSend(batch)
  /\ phase' = "sending"
  /\ UNCHANGED <<header, batch, seen, stats, exit>>

NoFlush ==
  /\ phase = "flush?" /\ Len(batch) < BatchSize
  /\ phase' = "rows"
  /\ UNCHANGED <<deliveryVars, header, batch, seen, stats, exit>>

\* The end of the CSV: what is left is sent, or there is nothing left.
EndOfRows ==
  /\ phase = "rows"
  /\ IF batch = <<>> THEN End(0) /\ UNCHANGED deliveryVars
     ELSE BeginSend(batch) /\ phase' = "last" /\ UNCHANGED exit
  /\ UNCHANGED <<header, batch, seen, stats>>

Sending ==
  /\ phase \in {"sending", "last"}
  /\ Post \/ RetryLater
  /\ UNCHANGED runnerVars

Sent ==
  /\ phase \in {"sending", "last"}
  /\ Receive
  /\ stats' = [stats EXCEPT !.sent = @ + Len(batch)]
  /\ batch' = IF phase = "sending" THEN <<>> ELSE batch
  /\ IF phase = "last" THEN End(0) ELSE phase' = "rows" /\ UNCHANGED exit
  /\ UNCHANGED <<header, seen>>

\* Deviation: the error is logged and the next rows are read.
SendFailsSkipped ==
  /\ phase \in {"sending", "last"}
  /\ GiveUp
  /\ batch' = <<>>
  /\ phase' = "rows"
  /\ UNCHANGED <<header, seen, stats, exit>>

\* ApiSendError ends the run; the flows read so far are not kept anywhere.
SendFails ==
  /\ phase \in {"sending", "last"}
  /\ GiveUp
  /\ End(1)
  /\ UNCHANGED <<header, batch, seen, stats>>

\* "Capture stopped by user"
CtrlC ==
  /\ \/ phase \in {"capture", "rows", "flush?"} /\ UNCHANGED deliveryVars
     \/ phase \in {"sending", "last"} /\ InterruptSend
  /\ End(130)
  /\ UNCHANGED <<header, batch, seen, stats>>

-----------------------------------------------------------------------------
Step ==
  \/ Captured \/ ReadFails
  \/ \E row \in RowsOf(header) : RowAdapted(row) \/ RowRejected(row)
  \/ Flush \/ NoFlush \/ EndOfRows
  \/ Sending \/ Sent \/ SendFails

\* The API stores a batch only if it can classify every row of it.
Environment ==
  /\ \E k \in DOMAIN reqs :
       \/ (\A i \in DOMAIN reqs[k].flows : Servable(reqs[k].flows[i])) /\ Commit(k)
       \/ Drop(k)
  /\ UNCHANGED runnerVars

Next == Step \/ CtrlC \/ Environment

\* One thread of a running program, every call of which ends.
Spec == Init /\ [][Next]_vars /\ WF_vars(Step)
-----------------------------------------------------------------------------
DeliveredFlows ==
  UNION {{subs[s].flows[i] : i \in DOMAIN subs[s].flows} :
           s \in {t \in DOMAIN subs : subs[t].outcome = "delivered"}}

\* Exit status 0 means that every row was a duplicate, was rejected, or is in
\* the API's store (the final send after the row loop, and that an error ends
\* the run instead of skipping its batch).
SuccessIsComplete ==
  exit = 0 =>
    /\ stats.captured = stats.accepted + stats.rejected + stats.duplicates
    /\ stats.sent = stats.accepted
    /\ seen = {Fingerprint(f) : f \in DeliveredFlows}
    /\ DeliveredFlows \subseteq {FlowOf(r) : r \in rows}

\* A flow is in the store at most once per attempt of the one batch it was
\* sent in, however many rows of the CSV repeat it.
OnlyRetriesDuplicate ==
  \A x \in rows :
    Cardinality({r \in rows : Fingerprint(FlowOf(r)) = Fingerprint(FlowOf(x))}) <= MaxRetries + 1

\* A header that compatibility() lets through never fails row by row: what is
\* rejected later is a cell, not a missing or a doubled column.  (The same
\* mapping is written twice, in compatibility and in _normalized and adapt.)
HeaderVerdictHolds ==
  phase \notin {"capture", "ended"} => \A row \in RowsOf(header) : Structured(row)

\* A row that the adapter accepted does not make the API refuse its whole batch
\* for its features: only metadata that does not parse, or a number that is no
\* float32, still does (adapt's conversions against _prepare_row's checks).
AcceptedIsPrepared ==
  \A k \in DOMAIN reqs : \A i \in DOMAIN reqs[k].flows : Prepares(reqs[k].flows[i])

\* The collectors feed the model what the experiments fed it: a row that the
\* collectors' adapter accepts from a V3 table has the same features as in the
\* table CICFlowMeterV3ModelAdapter makes of it.  (V3 has no column of its own
\* for a reproduced feature.)
AdaptersAgree ==
  \A row \in RowsOf(header) :
    V3Accepts(header, {row}) /\ Adapts(row) /\ Names(row) \cap DOMAIN Artifact = {}
      => Adapt(row).features = AdaptV3(row)
=============================================================================
