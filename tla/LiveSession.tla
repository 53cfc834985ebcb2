----------------------------- MODULE LiveSession -----------------------------
(***************************************************************************)
(* run_live_capture and finalize_report (src/ingestion/live_capture.py):   *)
(* one live session captures PCAP segments, extracts flow rows, drops the  *)
(* ones whose fingerprint it remembers, submits the rest in batches over   *)
(* Delivery, and at its end compares the API's counters with those it took *)
(* before, to decide whether the session "completed".                      *)
(*                                                                         *)
(* The API's answer to GET /api/dashboard/summary holds counts; a snapshot *)
(* here keeps the set that was counted, so that properties can say what    *)
(* the count stood for.  The code below only ever takes its Cardinality.   *)
(***************************************************************************)
EXTENDS Delivery

CONSTANTS
  BatchSize,           \* --batch-size
  DedupCapacity,       \* BoundedDeduplicator.capacity
  MaxSegments,         \* --max-segments
  MaxRows,             \* bound of the model: rows read in the session
  VerifierAuthorised   \* does GET /api/dashboard/summary answer the verifier?

ASSUME SessionAssumption ==
  /\ BatchSize \in Nat \ {0} /\ DedupCapacity \in Nat \ {0}
  /\ MaxSegments \in Nat /\ MaxRows \in Nat
  /\ VerifierAuthorised \in BOOLEAN

VARIABLES
  phase,     \* where run_live_capture is
  segment,   \* segment_number
  stop,      \* stop_requested
  eof,       \* the segment's CSV has been read to its end
  batch,     \* flows adapted but not yet submitted
  seen,      \* the fingerprints BoundedDeduplicator remembers, oldest first
  n,         \* the report's flow counters, and observed_attack_prediction_count
  ids,       \* prediction_ids: the rows the API told this session of
  before,    \* the summary taken before the capture
  after,     \* the summary taken by finalize_report
  report,    \* the rest of the session report
  faults,    \* history: what cut the session short ("capture", "api", "ctrl-c")
  start      \* history: per submission, the flows submitted before it

sessionVars ==
  <<phase, segment, stop, eof, batch, seen, n, ids, before, after, report, faults, start>>
vars == <<deliveryVars, sessionVars>>

Phase == {"open", "openAlerts", "preflight", "capture", "rows", "sending",
          "finalize", "finalAlerts", "finalIds", "closed", "aborted"}
Counters == [extracted : Nat, unique : Nat, duplicates : Nat, submitted : Nat,
             successful : Nat, failed : Nat, attacks : Nat]
Report == [segments : Nat, schemaOk : BOOLEAN, failures : BOOLEAN, verified : BOOLEAN,
           alertsCreated : Nat, status : {"failed", "completed"}]
Summary == [taken : BOOLEAN, rows : SUBSET rows, alerts : Nat]
NoSummary == [taken |-> FALSE, rows |-> {}, alerts |-> 0]

Init ==
  /\ DeliveryInit
  /\ phase = "open" /\ segment = 0 /\ stop = FALSE /\ eof = FALSE
  /\ batch = <<>> /\ seen = <<>>
  /\ n = [extracted |-> 0, unique |-> 0, duplicates |-> 0, submitted |-> 0,
          successful |-> 0, failed |-> 0, attacks |-> 0]
  /\ ids = {} /\ before = NoSummary /\ after = NoSummary
  /\ report = [segments |-> 0, schemaOk |-> FALSE, failures |-> FALSE,
               verified |-> FALSE, alertsCreated |-> 0, status |-> "failed"]
  /\ faults = {} /\ start = <<>>

-----------------------------------------------------------------------------
(* Helpers.                                                                *)

\* BoundedDeduplicator.add for a new fingerprint: the oldest one makes room.
Remember(f) ==
  IF Len(seen) >= DedupCapacity THEN Append(Tail(seen), f) ELSE Append(seen, f)

\* Deviation: rows are not compared with what was seen before.
KnownNever(f) == FALSE

Known(f) == \E i \in DOMAIN seen : seen[i] = f

\* except Exception: the failure is recorded and the session finalized.
Recorded(fault) ==
  /\ phase' = "finalize"
  /\ faults' = faults \cup {fault}

Fail(fault) ==
  /\ Recorded(fault)
  /\ report' = [report EXCEPT !.failures = TRUE]

Passed(verified) ==
  /\ report.segments > 0 /\ n.extracted > 0 /\ report.schemaOk
  /\ n.successful > 0 /\ n.failed = 0
  /\ verified

\* The end of finalize_report: the gate decides the status and the report is
\* written; a session that fails the gate records at least that.
Close(verified, failures, created) ==
  /\ phase' = "closed"
  /\ report' = [report EXCEPT
                  !.verified = verified, !.alertsCreated = created,
                  !.failures = failures \/ ~Passed(verified),
                  !.status = IF Passed(verified) THEN "completed" ELSE "failed"]
  /\ UNCHANGED <<segment, stop, eof, batch, seen, n, ids, before, start>>
  /\ UNCHANGED deliveryVars

-----------------------------------------------------------------------------
(* Opening: the summary's two statements see separate snapshots (READ      *)
(* COMMITTED), the prediction count first.                                 *)

OpenSummary ==
  /\ phase = "open" /\ VerifierAuthorised
  /\ before' = [before EXCEPT !.rows = rows]
  /\ phase' = "openAlerts"
  /\ UNCHANGED <<segment, stop, eof, batch, seen, n, ids, after, report, faults, start>>
  /\ UNCHANGED deliveryVars

OpenAlerts ==
  /\ phase = "openAlerts"
  /\ before' = [before EXCEPT !.taken = TRUE, !.alerts = Cardinality(alerts)]
  /\ phase' = "preflight"
  /\ UNCHANGED <<segment, stop, eof, batch, seen, n, ids, after, report, faults, start>>
  /\ UNCHANGED deliveryVars

\* The API does not answer: before stays None.  An API that refuses the
\* verifier (401) is no disturbance from outside.
OpenFails ==
  /\ phase \in {"open", "openAlerts"}
  /\ phase' = "finalize"
  /\ report' = [report EXCEPT !.failures = TRUE]
  /\ before' = NoSummary
  /\ faults' = IF VerifierAuthorised THEN faults \cup {"api"} ELSE faults
  /\ UNCHANGED <<segment, stop, eof, batch, seen, n, ids, after, start>>
  /\ UNCHANGED deliveryVars

\* Interface, tcpdump, sudo, active model and Docker service are checked.
Preflight ==
  /\ phase = "preflight"
  /\ phase' = "capture"
  /\ UNCHANGED <<segment, stop, eof, batch, seen, n, ids, before, after, report, faults, start>>
  /\ UNCHANGED deliveryVars

PreflightFails ==
  /\ phase = "preflight"
  /\ Fail("capture")
  /\ UNCHANGED <<segment, stop, eof, batch, seen, n, ids, before, after, start>>
  /\ UNCHANGED deliveryVars

-----------------------------------------------------------------------------
(* The segment loop.                                                       *)

\* Deviation: --max-segments is not looked at.
LoopEnteredAlways == phase = "capture" /\ ~stop

LoopEntered == phase = "capture" /\ ~stop /\ segment < MaxSegments

\* tcpdump wrote a segment and the extractor its CSV, whose header matches.
\* Ctrl+C during the capture ends the segment early and the loop after it.
CaptureSegment(interrupted) ==
  /\ LoopEntered
  /\ segment' = segment + 1 /\ stop' = interrupted /\ eof' = FALSE
  /\ batch' = <<>>
  /\ report' = [report EXCEPT !.segments = @ + 1, !.schemaOk = TRUE]
  /\ phase' = "rows"
  /\ UNCHANGED <<seen, n, ids, before, after, faults, start>>
  /\ UNCHANGED deliveryVars

\* tcpdump, the PCAP check or the extractor fails: the segment is not counted
\* (done = 0); or the CSV's header cannot be read: it is.
CaptureFails(interrupted, done) ==
  /\ LoopEntered
  /\ segment' = segment + 1 /\ stop' = interrupted
  /\ Recorded("capture")
  /\ report' = [report EXCEPT !.segments = @ + done, !.failures = TRUE]
  /\ UNCHANGED <<eof, batch, seen, n, ids, before, after, start>>
  /\ UNCHANGED deliveryVars

\* The CSV lacks a feature: the segment is counted, the schema recorded.
SchemaIncompatible(interrupted) ==
  /\ LoopEntered
  /\ segment' = segment + 1 /\ stop' = interrupted
  /\ Recorded("capture")
  /\ report' = [report EXCEPT !.segments = @ + 1, !.schemaOk = FALSE,
                              !.failures = TRUE]
  /\ UNCHANGED <<eof, batch, seen, n, ids, before, after, start>>
  /\ UNCHANGED deliveryVars

\* Deviation: only Ctrl+C ends the loop, the limit just stops capturing.
LoopEndsOnCtrlC ==
  /\ phase = "capture" /\ stop
  /\ phase' = "finalize"
  /\ UNCHANGED <<segment, stop, eof, batch, seen, n, ids, before, after, report, faults, start>>
  /\ UNCHANGED deliveryVars

LoopEnds ==
  /\ phase = "capture" /\ (stop \/ segment = MaxSegments)
  /\ phase' = "finalize"
  /\ UNCHANGED <<segment, stop, eof, batch, seen, n, ids, before, after, report, faults, start>>
  /\ UNCHANGED deliveryVars

-----------------------------------------------------------------------------
(* The rows of a segment.                                                  *)

\* The row loop reads on: the batch is not full and the CSV not exhausted.
\* MaxRows bounds what the model reads in all.
Reading == phase = "rows" /\ ~eof /\ Len(batch) < BatchSize
RowsLeft == n.extracted < MaxRows

RowUnique(f) ==
  /\ Reading /\ RowsLeft /\ ~Known(f)
  /\ n' = [n EXCEPT !.extracted = @ + 1, !.unique = @ + 1]
  /\ seen' = Remember(f)
  /\ batch' = Append(batch, f)
  /\ UNCHANGED <<phase, segment, stop, eof, ids, before, after, report, faults, start>>
  /\ UNCHANGED deliveryVars

RowDuplicate(f) ==
  /\ Reading /\ RowsLeft /\ Known(f)
  /\ n' = [n EXCEPT !.extracted = @ + 1, !.duplicates = @ + 1]
  /\ UNCHANGED <<phase, segment, stop, eof, batch, seen, ids, before, after, report, faults, start>>
  /\ UNCHANGED deliveryVars

\* adapt raises FeatureCompatibilityError: counted and reported, not sent.
RowRejected ==
  /\ Reading /\ RowsLeft
  /\ n' = [n EXCEPT !.extracted = @ + 1, !.failed = @ + 1]
  /\ report' = [report EXCEPT !.failures = TRUE]
  /\ UNCHANGED <<phase, segment, stop, eof, batch, seen, ids, before, after, faults, start>>
  /\ UNCHANGED deliveryVars

\* The reader raises (the CSV is not UTF-8 further down): nothing catches it
\* in the loop, and the flows not yet submitted are dropped.
RowsFail ==
  /\ Reading
  /\ Fail("capture")
  /\ UNCHANGED <<segment, stop, eof, batch, seen, n, ids, before, after, start>>
  /\ UNCHANGED deliveryVars

EndOfRows ==
  /\ Reading
  /\ eof' = TRUE
  /\ UNCHANGED <<phase, segment, stop, batch, seen, n, ids, before, after, report, faults, start>>
  /\ UNCHANGED deliveryVars

\* Deviation: the submit_batch() after the row loop is forgotten.
SegmentDoneUnflushed ==
  /\ phase = "rows" /\ eof
  /\ phase' = "capture"
  /\ UNCHANGED <<segment, stop, eof, batch, seen, n, ids, before, after, report, faults, start>>
  /\ UNCHANGED deliveryVars

SegmentDone ==
  /\ phase = "rows" /\ eof /\ batch = <<>>
  /\ phase' = "capture"
  /\ UNCHANGED <<segment, stop, eof, batch, seen, n, ids, before, after, report, faults, start>>
  /\ UNCHANGED deliveryVars

\* submit_batch counts the flows as submitted before it sends them.
Submit ==
  /\ phase = "rows" /\ batch # <<>> /\ (eof \/ Len(batch) >= BatchSize)
  /\ BeginSend(batch)
  /\ n' = [n EXCEPT !.submitted = @ + Len(batch)]
  /\ start' = Append(start, n.submitted)
  /\ phase' = "sending"
  /\ UNCHANGED <<segment, stop, eof, batch, seen, ids, before, after, report, faults>>

Sending ==
  /\ phase = "sending"
  /\ Post \/ RetryLater
  /\ UNCHANGED sessionVars

Submitted ==
  /\ phase = "sending"
  /\ Receive
  /\ ids' = ids \cup AttemptRows(current)
  /\ n' = [n EXCEPT
             !.successful = @ + Len(batch),
             !.attacks = @ + Cardinality({i \in DOMAIN batch : IsAttack(batch[i])})]
  /\ batch' = <<>>
  /\ phase' = "rows"
  /\ UNCHANGED <<segment, stop, eof, seen, before, after, report, faults, start>>

\* ApiSendError ends the session; unlike a rejected row it is not "failed".
SubmitFails ==
  /\ phase = "sending"
  /\ GiveUp
  /\ Fail("api")
  /\ UNCHANGED <<segment, stop, eof, batch, seen, n, ids, before, after, start>>

-----------------------------------------------------------------------------
(* Finalizing.                                                             *)

\* KeyboardInterrupt outside the capture: no failure is recorded.
CtrlC ==
  /\ \/ phase \in {"open", "openAlerts", "preflight", "capture", "rows"} /\ UNCHANGED deliveryVars
     \/ phase = "sending" /\ InterruptSend
  /\ phase' = "finalize"
  /\ before' = IF before.taken THEN before ELSE NoSummary
  /\ faults' = faults \cup {"ctrl-c"}
  /\ UNCHANGED <<segment, stop, eof, batch, seen, n, ids, after, report, start>>

\* Nothing to compare: the summary is not read at all.
FinalizeUnverified ==
  /\ phase = "finalize" /\ (~before.taken \/ ids = {})
  /\ Close(FALSE, report.failures, 0)
  /\ UNCHANGED <<after, faults>>

FinalTotal ==
  /\ phase = "finalize" /\ before.taken /\ ids # {}
  /\ after' = [after EXCEPT !.rows = rows]
  /\ phase' = "finalAlerts"
  /\ UNCHANGED <<segment, stop, eof, batch, seen, n, ids, before, report, faults, start>>
  /\ UNCHANGED deliveryVars

FinalAlerts ==
  /\ phase = "finalAlerts"
  /\ after' = [after EXCEPT !.taken = TRUE, !.alerts = Cardinality(alerts)]
  /\ phase' = "finalIds"
  /\ UNCHANGED <<segment, stop, eof, batch, seen, n, ids, before, report, faults, start>>
  /\ UNCHANGED deliveryVars

Delta == Cardinality(after.rows) - Cardinality(before.rows)
Created == IF after.alerts > before.alerts THEN after.alerts - before.alerts ELSE 0

\* Deviation: "at least as many" flows satisfies the check.
FinalIdsAtLeast ==
  /\ phase = "finalIds"
  /\ Close(Delta >= n.successful /\ ids \subseteq rows, report.failures, Created)
  /\ UNCHANGED <<after, faults>>

\* Each acknowledged prediction is fetched by its id, then the gate is applied.
FinalIds ==
  /\ phase = "finalIds"
  /\ Close(Delta = n.successful /\ ids \subseteq rows, report.failures, Created)
  /\ UNCHANGED <<after, faults>>

\* A verification read fails: recorded, and nothing is verified.
FinalFails ==
  /\ phase \in {"finalize", "finalAlerts", "finalIds"} /\ before.taken /\ ids # {}
  /\ Close(FALSE, TRUE, 0)
  /\ faults' = faults \cup {"api"}
  /\ UNCHANGED after

\* Ctrl+C inside finalize_report is not caught there: no report is written.
FinalCtrlC ==
  /\ phase \in {"finalize", "finalAlerts", "finalIds"}
  /\ phase' = "aborted"
  /\ faults' = faults \cup {"ctrl-c"}
  /\ UNCHANGED <<segment, stop, eof, batch, seen, n, ids, before, after, report, start>>
  /\ UNCHANGED deliveryVars

-----------------------------------------------------------------------------
Environment ==
  /\ ApiStep \/ \E f \in Flow : OtherClient(f)
  /\ UNCHANGED sessionVars

SessionStep ==
  \/ OpenSummary \/ OpenAlerts \/ OpenFails \/ Preflight \/ PreflightFails
  \/ \E i \in BOOLEAN : CaptureSegment(i) \/ SchemaIncompatible(i)
  \/ \E i \in BOOLEAN, done \in {0, 1} : CaptureFails(i, done)
  \/ LoopEnds
  \/ \E f \in Flow : RowUnique(f) \/ RowDuplicate(f)
  \/ RowRejected \/ RowsFail \/ EndOfRows \/ SegmentDone
  \/ Submit \/ Sending \/ Submitted \/ SubmitFails
  \/ FinalizeUnverified \/ FinalTotal \/ FinalAlerts \/ FinalIds \/ FinalFails

Next == SessionStep \/ CtrlC \/ FinalCtrlC \/ Environment

\* The session waits for commands it gives no timeout: the preflight's sudo and
\* docker compose, and the extractor container of a segment.
Waiting == phase = "preflight" \/ LoopEntered

\* The session is one thread of a running program, and anything else it does
\* ends: requests have timeouts, CSV files an end.
Spec == Init /\ [][Next]_vars /\ WF_vars(SessionStep /\ ~Waiting)
-----------------------------------------------------------------------------
SessionTypeOK ==
  /\ TypeOK
  /\ phase \in Phase /\ segment \in 0 .. MaxSegments
  /\ stop \in BOOLEAN /\ eof \in BOOLEAN
  /\ batch \in Seq(Flow) /\ seen \in Seq(Flow) /\ Len(seen) <= DedupCapacity
  /\ n \in Counters /\ ids \subseteq rows
  /\ before \in Summary /\ after \in Summary
  /\ report \in Report
  /\ faults \subseteq {"capture", "api", "ctrl-c"}
  /\ start \in Seq(Nat)

\* Where a stored row's flow stands among all flows the session has submitted.
Place(r) == start[reqs[r[1]].sub] + r[2]

\* database_persistence_verified is sound: between the session's two summaries
\* the API stored exactly the predictions the session was told of, so neither
\* a duplicate from a retried timeout nor a foreign row is in the window,
\* although the code compares only two counts and looks up its own ids.
VerifiedIsExact == report.verified => after.rows \ before.rows = ids

\* A verified window holds a flow twice only if more than DedupCapacity new
\* flows lie between the two: neither a retry of an attempt that was committed
\* late nor a duplicate the deduplicator could still remember got in.
VerifiedHasNoDuplicate ==
  report.verified =>
    \A r, s \in after.rows \ before.rows :
      FlowOf(r) = FlowOf(s) /\ r # s =>
        Place(r) > Place(s) + DedupCapacity \/ Place(s) > Place(r) + DedupCapacity

\* The alerts a verified report claims are at least the attacks it reports:
\* each summary counts its alerts in a second statement, after its rows, and
\* what other clients store between the two statements, before or after the
\* capture, never hides an alert of the session.
VerifiedCountsAlerts == report.verified => report.alertsCreated >= n.attacks

\* A completed session that nothing cut short has stored every row it
\* extracted but the duplicates (the final submit_batch of each segment, the
\* dedup bookkeeping and the gate together).
CompletedIsComplete ==
  report.status = "completed" /\ faults = {} =>
    /\ n.extracted = n.duplicates + Cardinality(ids)
    /\ \A s \in DOMAIN subs : subs[s].outcome = "delivered"

\* run_live_capture ends, with a report unless Ctrl+C hits finalize_report;
\* nothing but a command without a timeout that never returns can keep it.
SessionEnds == <>(phase \in {"closed", "aborted"}) \/ <>[]Waiting

\* README.md:254 "Tanpa --max-segments, capture berjalan hingga Ctrl+C": a
\* session that nothing cut short ends only by Ctrl+C or its segment limit.
CaptureRunsUntilStopped ==
  phase = "closed" /\ faults = {} => stop \/ segment = MaxSegments
=============================================================================
