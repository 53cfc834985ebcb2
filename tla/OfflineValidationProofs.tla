----------------------- MODULE OfflineValidationProofs -----------------------
(***************************************************************************)
(* Proofs about OfflineValidation: for every batch size, retry bound and   *)
(* set of flows, a validation that reports completed has put each row of   *)
(* the CSV into the API's store exactly once between its two summaries.    *)
(*                                                                         *)
(* CompletedIsExact is not inductive.  What it rests on is said in parts:  *)
(* where the validation is (Control), what the predictions it was told of  *)
(* are (Told), and that no row is lost on the way from the file to them    *)
(* (Kept): each flow read is in the batch or among the rows told of, as    *)
(* often as it was read.                                                   *)
(***************************************************************************)
EXTENDS OfflineValidation, DeliveryProofs

Counters == [extracted : Nat, submitted : Nat, successful : Nat, failed : Nat]
Report == [status : {"failed", "completed"}, verified : BOOLEAN, failures : BOOLEAN,
           written : BOOLEAN]

OfflineTypeOK ==
  /\ TypeOK
  /\ phase \in {"open", "rows", "sending", "verify", "closed"} /\ eof \in BOOLEAN
  /\ read \in Seq(Flow) /\ batch \in Seq(Flow)
  /\ n \in Counters /\ report \in Report
  /\ ids \subseteq rows /\ before \subseteq rows /\ after \subseteq rows

\* The validation is in send exactly while it says so, with its batch the
\* flows submitted last; nothing is submitted before the first summary and
\* nothing left over after the last; only Verify sets the status.
Control ==
  /\ phase = "sending" <=> sender # "idle"
  /\ phase = "sending" => batch = subs[Len(subs)].flows
  /\ phase = "open" => subs = <<>>
  /\ phase = "verify" => batch = <<>> /\ n.failed = 0
  /\ report.status = "completed" => phase = "closed" /\ batch = <<>> /\ n.failed = 0

\* The submission a stored row belongs to, 0 for another client's.
SubOf(r) == reqs[r[1]].sub

\* The first summary counts no row of the file; the rows the validation was
\* told of are of delivered submissions; the last summary counts all of them;
\* "completed" means that it counts nothing else.
Told ==
  /\ \A r \in before : SubOf(r) = 0
  /\ \A r \in ids : SubOf(r) > 0 /\ subs[SubOf(r)].outcome = "delivered"
  /\ phase = "verify" => before \cup ids \subseteq after
  /\ report.status = "completed" => after \ before = ids

RowsWith(R, f) == {r \in R : FlowOf(r) = f}
Places(s, f) == {i \in DOMAIN s : s[i] = f}

\* Every row the reader gave is adapted or counted as failed; every adapted
\* one is stored, once, or in the batch.
Kept ==
  /\ n.failed = 0 => n.extracted = Len(read)
  /\ \A f \in Flow :
       Cardinality(RowsWith(ids, f)) + Cardinality(Places(batch, f)) = Cardinality(Places(read, f))

IInv ==
  /\ OfflineTypeOK /\ DeliveryInv
  /\ Control /\ Told /\ Kept

-----------------------------------------------------------------------------
(* Types.                                                                  *)

\* Every step of a validation is a step of the delivery, or leaves it alone.
LEMMA StepDelivers ==
  ASSUME OfflineTypeOK, [Next]_vars
  PROVE  [DeliveryNext]_deliveryVars
<1>1. CASE Step
  <2>1. CASE Submit
    BY <2>1 DEF Submit, OfflineTypeOK, DeliveryNext
  <2>2. CASE Sending \/ Submitted \/ SubmitFails \/ AnswerIncomplete
    BY <2>2 DEF Sending, Submitted, SubmitFails, AnswerIncomplete, DeliveryNext, SenderStep
  <2>3. CASE ~(Submit \/ Sending \/ Submitted \/ SubmitFails \/ AnswerIncomplete)
    BY <1>1, <2>3 DEF Step, OpenSummary, OpenFails, RowAdapted, RowRejected, EndOfRows, RowsFail,
       RowsDone, RowsRefused, Verify, VerifyFails
  <2>4. QED
    BY <2>1, <2>2, <2>3
<1>2. CASE CtrlC
  BY <1>2 DEF CtrlC, DeliveryNext
<1>3. CASE Environment
  BY <1>3 DEF Environment, DeliveryNext
<1>4. CASE UNCHANGED vars
  BY <1>4 DEF vars
<1>5. QED
  BY <1>1, <1>2, <1>3, <1>4 DEF Next

LEMMA CounterTypes ==
  ASSUME OfflineTypeOK
  PROVE  /\ n.extracted \in Nat /\ n.submitted \in Nat /\ n.successful \in Nat /\ n.failed \in Nat
         /\ batch \in Seq(Flow) /\ Len(batch) \in Nat /\ read \in Seq(Flow) /\ Len(read) \in Nat
<1>1. n \in Counters /\ batch \in Seq(Flow) /\ read \in Seq(Flow)
  BY DEF OfflineTypeOK
<1>2. QED
  BY <1>1, LenProperties DEF Counters

LEMMA OfflineTypeInit ==
  ASSUME Init PROVE OfflineTypeOK
<1>1. TypeOK /\ \A S : <<>> \in Seq(S)
  BY TracedInit, EmptySeq DEF Init
<1>2. n \in Counters /\ report \in Report
  BY DEF Init, Counters, Report
<1>3. QED
  BY <1>1, <1>2 DEF Init, OfflineTypeOK

LEMMA FailTyped ==
  ASSUME OfflineTypeOK, Fail
  PROVE  phase' = "closed" /\ report' \in Report /\ report'.status = report.status
  BY DEF Fail, OfflineTypeOK, Report

\* What the API tells of a delivered batch is stored.
LEMMA ReceivedStored ==
  ASSUME TypeOK, StoredWhole, Receive
  PROVE  UNCHANGED <<rows, reqs>> /\ current \in DOMAIN reqs /\ AttemptRows(current) \subseteq rows
<1>1. UNCHANGED <<rows, reqs>> /\ current \in DOMAIN reqs /\ reqs[current].state = "committed"
  BY LenProperties DEF Receive, TypeOK
<1>2. QED
  BY <1>1 DEF StoredWhole

LEMMA OfflineTypeStep ==
  ASSUME OfflineTypeOK, DeliveryInv, [Next]_vars
  PROVE  OfflineTypeOK'
<1>1. TypeOK /\ TypeOK' /\ rows \subseteq rows' /\ StoredWhole
  <2>1. TypeOK /\ [DeliveryNext]_deliveryVars
    BY StepDelivers DEF OfflineTypeOK
  <2>2. QED
    BY <2>1, TypeStep, StoreStep DEF DeliveryInv
<1>n. /\ n.extracted + 1 \in Nat /\ n.failed + 1 \in Nat
      /\ \A k \in Nat : n.submitted + k \in Nat /\ n.successful + k \in Nat /\ n.failed + k \in Nat
  BY CounterTypes
<1>c. n \in Counters /\ report \in Report /\ Len(batch) \in Nat /\ <<>> \in Seq(Flow)
  BY CounterTypes, EmptySeq DEF OfflineTypeOK
<1>2. CASE OpenSummary \/ EndOfRows \/ RowsDone
  BY <1>1, <1>2 DEF OpenSummary, EndOfRows, RowsDone, OfflineTypeOK
<1>3. CASE OpenFails \/ RowsFail \/ RowsRefused \/ VerifyFails
  <2>1. phase' = "closed" /\ report' \in Report
    BY <1>3, FailTyped DEF OpenFails, RowsFail, RowsRefused, VerifyFails
  <2>2. QED
    BY <1>1, <1>3, <2>1 DEF OpenFails, RowsFail, RowsRefused, VerifyFails, OfflineTypeOK
<1>4. ASSUME NEW f \in Flow, RowAdapted(f) PROVE OfflineTypeOK'
  <2>1. batch' \in Seq(Flow) /\ read' \in Seq(Flow)
    BY <1>4, AppendReq, CounterTypes DEF RowAdapted
  <2>2. n' \in Counters
    BY <1>c, <1>n, <1>4 DEF RowAdapted, Counters
  <2>3. QED
    BY <1>1, <1>4, <2>1, <2>2 DEF RowAdapted, OfflineTypeOK
<1>5. CASE RowRejected
  <2>1. n' \in Counters /\ report' \in Report
    BY <1>c, <1>n, <1>5 DEF RowRejected, Counters, Report
  <2>2. QED
    BY <1>1, <1>5, <2>1 DEF RowRejected, OfflineTypeOK
<1>6. CASE Submit
  <2>1. n' \in Counters
    BY <1>c, <1>n, <1>6 DEF Submit, Counters
  <2>2. QED
    BY <1>1, <1>6, <2>1 DEF Submit, OfflineTypeOK
<1>7. CASE Sending
  BY <1>1, <1>7 DEF Sending, offlineVars, OfflineTypeOK
<1>8. CASE Submitted
  <2>1. n' \in Counters
    BY <1>c, <1>n, <1>8 DEF Submitted, Counters
  <2>2. ids' \subseteq rows'
    BY <1>1, <1>8, ReceivedStored DEF Submitted, OfflineTypeOK
  <2>3. QED
    BY <1>1, <1>c, <1>8, <2>1, <2>2 DEF Submitted, OfflineTypeOK
<1>9. CASE SubmitFails \/ AnswerIncomplete
  <2>1. n' \in Counters
    BY <1>c, <1>n, <1>9 DEF SubmitFails, AnswerIncomplete, Counters
  <2>2. phase' = "closed" /\ report' \in Report
    BY <1>9, FailTyped DEF SubmitFails, AnswerIncomplete
  <2>3. QED
    BY <1>1, <1>9, <2>1, <2>2 DEF SubmitFails, AnswerIncomplete, OfflineTypeOK
<1>10. CASE Verify
  <2>1. report' \in Report
    BY <1>c, <1>10 DEF Verify, Report
  <2>2. QED
    BY <1>1, <1>10, <2>1 DEF Verify, OfflineTypeOK
<1>11. CASE CtrlC
  <2>1. report' \in Report
    BY <1>c, <1>11 DEF CtrlC, Report
  <2>2. QED
    BY <1>1, <1>11, <2>1 DEF CtrlC, OfflineTypeOK
<1>12. CASE Environment \/ UNCHANGED vars
  BY <1>1, <1>12 DEF Environment, vars, offlineVars, OfflineTypeOK
<1>13. QED
  BY <1>2, <1>3, <1>4, <1>5, <1>6, <1>7, <1>8, <1>9, <1>10, <1>11, <1>12 DEF Next, Step

-----------------------------------------------------------------------------
(* Where the validation is.                                                *)

LEMMA ControlInit ==
  ASSUME Init PROVE Control
  BY DEF Init, DeliveryInit, Control

LEMMA ControlStep ==
  ASSUME OfflineTypeOK, Control, [Next]_vars
  PROVE  Control'
<1>1. CASE OpenFails \/ RowsFail \/ RowsRefused \/ VerifyFails
  <2>1. /\ phase' = "closed" /\ report'.status = report.status /\ phase # "closed"
        /\ phase # "sending"
    BY <1>1, FailTyped DEF OpenFails, RowsFail, RowsRefused, VerifyFails, Reading
  <2>2. UNCHANGED <<deliveryVars, batch, n>>
    BY <1>1 DEF OpenFails, RowsFail, RowsRefused, VerifyFails
  <2>3. QED
    BY <2>1, <2>2 DEF Control, deliveryVars
<1>2. CASE OpenSummary \/ EndOfRows \/ RowsDone
  BY <1>2 DEF OpenSummary, EndOfRows, RowsDone, Reading, deliveryVars, Control
<1>3. ASSUME NEW f \in Flow, RowAdapted(f) PROVE Control'
  BY <1>3 DEF RowAdapted, Reading, deliveryVars, Control
<1>4. CASE RowRejected
  BY <1>4 DEF RowRejected, Reading, deliveryVars, Control, OfflineTypeOK, Report
<1>5. CASE Submit
  <2>1. BeginSend(batch) /\ batch \in Seq(Flow) /\ subs \in Seq(Sub)
    BY <1>5 DEF Submit, OfflineTypeOK, TypeOK, Sub
  <2>2. subs'[Len(subs')].flows = batch
    <3>1. Len(subs') = Len(subs) + 1 /\ subs'[Len(subs) + 1] = [flows |-> batch, outcome |-> "pending"]
      BY <2>1, BeginSubs
    <3>2. QED
      BY <3>1
  <2>3. sender' # "idle"
    BY <2>1 DEF BeginSend
  <2>4. QED
    BY <1>5, <2>2, <2>3 DEF Submit, Control
<1>6. CASE Sending
  BY <1>6 DEF Sending, offlineVars, Post, RetryLater, Control
<1>7. CASE Submitted
  BY <1>7 DEF Submitted, Receive, Ended, Control
<1>8. CASE SubmitFails \/ AnswerIncomplete
  <2>1. phase = "sending" /\ phase' = "closed" /\ report'.status = report.status
    BY <1>8, FailTyped DEF SubmitFails, AnswerIncomplete
  <2>2. sender' = "idle"
    BY <1>8 DEF SubmitFails, AnswerIncomplete, GiveUp, Receive, Ended
  <2>3. QED
    BY <2>1, <2>2 DEF Control
<1>9. CASE Verify
  BY <1>9 DEF Verify, deliveryVars, Control
<1>10. CASE CtrlC
  <2>1. phase' = "closed" /\ phase # "closed" /\ report'.status = report.status
    BY <1>10 DEF CtrlC, OfflineTypeOK, Report
  <2>2. sender' = "idle"
    BY <1>10 DEF CtrlC, InterruptSend, Ended, deliveryVars, Control, OfflineTypeOK, TypeOK
  <2>3. QED
    BY <2>1, <2>2 DEF Control
<1>11. CASE Environment
  BY <1>11 DEF Environment, ApiStep, Commit, Drop, OtherClient, offlineVars, Control
<1>12. CASE UNCHANGED vars
  BY <1>12 DEF vars, offlineVars, deliveryVars, Control
<1>13. QED
  BY <1>1, <1>2, <1>3, <1>4, <1>5, <1>6, <1>7, <1>8, <1>9, <1>10, <1>11, <1>12 DEF Next, Step

-----------------------------------------------------------------------------
(* What the validation was told of.                                        *)

\* What any step leaves of the delivery's past.
LEMMA Past ==
  ASSUME OfflineTypeOK, DeliveryInv, [Next]_vars
  PROVE  /\ TypeOK /\ [DeliveryNext]_deliveryVars /\ ReqsKept /\ SubsKept
         /\ reqs \in Seq(Req) /\ subs \in Seq(Sub) /\ IsFiniteSet(rows)
         /\ DOMAIN subs = 1 .. Len(subs) /\ Len(subs) \in Nat
         /\ \A r \in rows : /\ r[1] \in DOMAIN reqs /\ SubOf(r)' = SubOf(r)
                            /\ SubOf(r) \in 0 .. Len(subs) /\ FlowOf(r)' = FlowOf(r)
<1>1. TypeOK /\ [DeliveryNext]_deliveryVars /\ Traced
  BY StepDelivers DEF OfflineTypeOK, DeliveryInv
<1>2. reqs \in Seq(Req) /\ subs \in Seq(Sub)
  BY <1>1 DEF TypeOK, Req, Sub
<1>3. ReqsKept /\ SubsKept
  BY <1>1, <1>2, StepReqs, ReqsStepKeeps, SubsStep
<1>4. \A r \in rows : /\ r[1] \in DOMAIN reqs /\ SubOf(r)' = SubOf(r)
                      /\ SubOf(r) \in 0 .. Len(subs)
  BY <1>1, <1>3 DEF TypeOK, ReqsKept, SubOf, Traced, FromSubmission
<1>5. \A r \in rows : FlowOf(r)' = FlowOf(r)
  BY <1>1, <1>3, RowsKept
<1>6. QED
  BY <1>1, <1>2, <1>3, <1>4, <1>5, LenProperties DEF Traced

\* The rows of the attempt whose answer arrives: the batch's, and new.
LEMMA DeliveredRows ==
  ASSUME OfflineTypeOK, DeliveryInv, Control, Told, Submitted
  PROVE  /\ reqs \in Seq(Req) /\ current \in DOMAIN reqs /\ UNCHANGED reqs
         /\ reqs[current].flows = batch /\ reqs[current].sub = Len(subs)
         /\ Len(subs) > 0 /\ subs'[Len(subs)].outcome = "delivered"
         /\ ids \cap AttemptRows(current) = {}
<1>1. /\ TypeOK /\ Traced /\ StoredWhole /\ reqs \in Seq(Req) /\ subs \in Seq(Sub)
      /\ DOMAIN subs = 1 .. Len(subs) /\ Len(subs) \in Nat
  <2>1. TypeOK /\ Traced /\ StoredWhole
    BY DEF OfflineTypeOK, DeliveryInv
  <2>2. reqs \in Seq(Req) /\ subs \in Seq(Sub)
    BY <2>1 DEF TypeOK, Req, Sub
  <2>3. QED
    BY <2>1, <2>2, LenProperties
<1>2. sender = "wait" /\ Ended("delivered") /\ UNCHANGED reqs /\ current \in DOMAIN reqs
      /\ phase = "sending"
  BY <1>1, ReceivedStored DEF Submitted, Receive
<1>3. reqs[current].sub = Len(subs) /\ subs # <<>> /\ Len(subs) > 0 /\ Len(subs) \in DOMAIN subs
  <2>1. reqs[current].sub = Len(subs) /\ subs # <<>>
    BY <1>1, <1>2 DEF Traced, TypeOK
  <2>2. QED
    BY <1>1, <2>1, EmptySeq
<1>4. reqs[current].flows = batch
  BY <1>1, <1>2, <1>3 DEF Traced, FromSubmission, Control
<1>5. subs'[Len(subs)].outcome = "delivered"
  BY <1>1, <1>2, <1>3, EndedSubs DEF Outcome
<1>6. subs[Len(subs)].outcome = "pending"
  BY <1>1, <1>2, <1>3 DEF Traced, AtWork
<1>7. \A r \in AttemptRows(current) : SubOf(r) = Len(subs)
  BY <1>3 DEF AttemptRows, SubOf
<1>8. \A r \in ids : SubOf(r) # Len(subs)
  BY <1>6 DEF Told
<1>9. QED
  BY <1>1, <1>2, <1>3, <1>4, <1>5, <1>7, <1>8

LEMMA ToldInit ==
  ASSUME Init PROVE Told
  BY DEF Init, Told

LEMMA ToldStep ==
  ASSUME OfflineTypeOK, DeliveryInv, Control, Told, [Next]_vars
  PROVE  Told'
<1>1. /\ TypeOK /\ [DeliveryNext]_deliveryVars /\ SubsKept /\ Traced
      /\ DOMAIN subs = 1 .. Len(subs) /\ Len(subs) \in Nat /\ IsFiniteSet(rows)
      /\ \A r \in rows : SubOf(r)' = SubOf(r) /\ SubOf(r) \in 0 .. Len(subs)
  BY Past DEF DeliveryInv
<1>2. before \subseteq rows /\ ids \subseteq rows /\ after \subseteq rows
  BY DEF OfflineTypeOK
<1>3. \A r \in before' : SubOf(r)' = 0
  <2>1. CASE OpenSummary
    <3>1. before' = rows /\ Len(subs) = 0
      BY <2>1, EmptySeq DEF OpenSummary, Control
    <3>2. QED
      BY <1>1, <3>1
  <2>2. CASE ~OpenSummary
    <3>1. UNCHANGED before
      BY <2>2 DEF Next, Step, OpenFails, RowAdapted, RowRejected, EndOfRows, RowsFail, Submit,
         Sending, Submitted, SubmitFails, AnswerIncomplete, RowsDone, RowsRefused, Verify,
         VerifyFails, CtrlC, Environment, vars, offlineVars
    <3>2. QED
      BY <1>1, <1>2, <3>1 DEF Told
  <2>3. QED
    BY <2>1, <2>2
<1>4. \A r \in ids : SubOf(r)' > 0 /\ subs'[SubOf(r)'].outcome = "delivered"
  <2>1. TAKE r \in ids
  <2>2. SubOf(r) \in DOMAIN subs /\ subs[SubOf(r)].outcome = "delivered" /\ SubOf(r) > 0
    BY <1>1, <1>2 DEF Told
  <2>3. subs'[SubOf(r)] = subs[SubOf(r)]
    BY <1>1, <2>2, OutcomeStays
  <2>4. QED
    BY <1>1, <1>2, <2>2, <2>3
<1>5. \A r \in ids' : SubOf(r)' > 0 /\ subs'[SubOf(r)'].outcome = "delivered"
  <2>1. CASE Submitted
    <3>1. /\ reqs[current].sub = Len(subs) /\ UNCHANGED reqs /\ Len(subs) > 0
          /\ subs'[Len(subs)].outcome = "delivered" /\ ids' = ids \cup AttemptRows(current)
      BY <2>1, DeliveredRows DEF Submitted
    <3>2. \A r \in AttemptRows(current) : SubOf(r)' = Len(subs)
      BY <3>1 DEF AttemptRows, SubOf
    <3>3. QED
      BY <1>4, <3>1, <3>2
  <2>2. CASE ~Submitted
    <3>1. UNCHANGED ids
      BY <2>2 DEF Next, Step, OpenSummary, OpenFails, RowAdapted, RowRejected, EndOfRows, RowsFail,
         Submit, Sending, SubmitFails, AnswerIncomplete, RowsDone, RowsRefused, Verify,
         VerifyFails, CtrlC, Environment, vars, offlineVars
    <3>2. QED
      BY <1>4, <3>1
  <2>3. QED
    BY <2>1, <2>2
<1>6. phase' = "verify" => (before \cup ids \subseteq after)'
  <2>1. CASE RowsDone
    BY <1>2, <2>1 DEF RowsDone
  <2>2. CASE ~RowsDone
    <3>1. phase' = "verify" => UNCHANGED <<phase, before, after, ids>>
      BY <2>2 DEF Next, Step, OpenSummary, OpenFails, RowAdapted, RowRejected, EndOfRows, RowsFail,
         Reading, Submit, Sending, Submitted, SubmitFails, AnswerIncomplete, RowsRefused,
         Verify, VerifyFails, CtrlC, Fail, Environment, vars, offlineVars
    <3>2. QED
      BY <3>1 DEF Told
  <2>3. QED
    BY <2>1, <2>2
<1>7. report'.status = "completed" => (after \ before = ids)'
  <2>1. CASE Verify
    <3>1. UNCHANGED <<before, after, ids>> /\ phase = "verify"
      BY <2>1 DEF Verify
    <3>2. report'.status = "completed" => Delta = Cardinality(ids)
      BY <2>1 DEF Verify
    <3>3. IsFiniteSet(after)
      BY <1>1, <1>2, FS_Subset
    <3>4. before \cap ids = {}
      BY DEF Told
    <3>5. Delta = Cardinality(ids) => after \ before = ids
      BY <3>1, <3>3, <3>4, ExactByCount DEF Told, Delta
    <3>6. QED
      BY <3>1, <3>2, <3>5
  <2>2. CASE ~Verify
    <3>1. report'.status = report.status
      BY <2>2 DEF Next, Step, OpenSummary, OpenFails, RowAdapted, RowRejected, EndOfRows, RowsFail,
         Submit, Sending, Submitted, SubmitFails, AnswerIncomplete, RowsDone, RowsRefused,
         VerifyFails, CtrlC, Fail, Environment, vars, offlineVars, OfflineTypeOK, Report
    <3>2. phase = "closed" => UNCHANGED <<before, after, ids>>
      BY DEF Next, Step, OpenSummary, OpenFails, RowAdapted, RowRejected, EndOfRows, RowsFail,
         Reading, Submit, Sending, Submitted, SubmitFails, AnswerIncomplete, RowsDone,
         RowsRefused, Verify, VerifyFails, CtrlC, Environment, vars, offlineVars
    <3>3. QED
      BY <3>1, <3>2 DEF Told, Control
  <2>3. QED
    BY <2>1, <2>2
<1>8. QED
  BY <1>3, <1>5, <1>6, <1>7 DEF Told

-----------------------------------------------------------------------------
(* What became of the rows read.                                           *)

LEMMA PlacesCounted ==
  ASSUME NEW s \in Seq(Flow), NEW f
  PROVE  IsFiniteSet(Places(s, f)) /\ Cardinality(Places(s, f)) \in Nat
<1>1. DOMAIN s = 1 .. Len(s) /\ Len(s) \in Nat
  BY LenProperties
<1>2. IsFiniteSet(DOMAIN s)
  BY <1>1, FS_Interval
<1>3. IsFiniteSet(Places(s, f))
  BY <1>2, FS_Subset DEF Places
<1>4. QED
  BY <1>3, FS_CardinalityType

\* A flow appended to a sequence has one more place there, others none.
LEMMA PlacesAppend ==
  ASSUME NEW s \in Seq(Flow), NEW g \in Flow, NEW f \in Flow
  PROVE  Cardinality(Places(Append(s, g), f))
           = Cardinality(Places(s, f)) + (IF f = g THEN 1 ELSE 0)
<1>1. /\ \A i \in 1 .. Len(s) : Append(s, g)[i] = s[i]
      /\ Append(s, g)[Len(s) + 1] = g
      /\ DOMAIN Append(s, g) = 1 .. Len(s) + 1 /\ DOMAIN s = 1 .. Len(s) /\ Len(s) \in Nat
  BY AppendReq
<1>2. IsFiniteSet(Places(s, f)) /\ Cardinality(Places(s, f)) \in Nat
  BY PlacesCounted
<1>3. CASE f = g
  <2>1. Places(Append(s, g), f) = Places(s, f) \cup {Len(s) + 1} /\ Len(s) + 1 \notin Places(s, f)
    BY <1>1, <1>3 DEF Places
  <2>2. Cardinality(Places(s, f) \cup {Len(s) + 1}) = Cardinality(Places(s, f)) + 1
    BY <1>2, <2>1, FS_AddElement
  <2>3. QED
    BY <1>3, <2>1, <2>2
<1>4. CASE f # g
  <2>1. Places(Append(s, g), f) = Places(s, f)
    BY <1>1, <1>4 DEF Places
  <2>2. QED
    BY <1>2, <1>4, <2>1
<1>5. QED
  BY <1>3, <1>4

\* An attempt stores each flow as often as its batch holds it.
LEMMA RowsOfAttempt ==
  ASSUME reqs \in Seq(Req), NEW k \in DOMAIN reqs, NEW f
  PROVE  /\ IsFiniteSet(RowsWith(AttemptRows(k), f))
         /\ Cardinality(RowsWith(AttemptRows(k), f)) = Cardinality(Places(reqs[k].flows, f))
<1> DEFINE S == Places(reqs[k].flows, f)
           T == RowsWith(AttemptRows(k), f)
           h == [i \in S |-> <<k, i>>]
<1>1. reqs[k].flows \in Seq(Flow)
  <2>1. reqs[k] \in Req
    BY ElementOfSeq, LenProperties
  <2>2. QED
    BY <2>1 DEF Req
<1>2. DOMAIN reqs[k].flows = 1 .. Len(reqs[k].flows)
  BY <1>1, LenProperties
<1>3. \A i \in S : <<k, i>> \in T
  BY <1>2 DEF Places, RowsWith, AttemptRows, FlowOf
<1>4. \A r \in T : r[2] \in S /\ r = <<k, r[2]>>
  BY <1>2 DEF Places, RowsWith, AttemptRows, FlowOf
<1>5. IsFiniteSet(S)
  BY <1>1, PlacesCounted
<1>6. h \in Bijection(S, T)
  <2> HIDE DEF S, T
  <2>1. h \in [S -> T]
    BY <1>3
  <2>2. \A i, j \in S : h[i] = h[j] => i = j
    OBVIOUS
  <2>3. \A r \in T : \E i \in S : h[i] = r
    BY <1>4
  <2>4. QED
    BY <2>1, <2>2, <2>3 DEF Bijection, Injection, Surjection, IsInjective
<1>7. IsFiniteSet(T) /\ Cardinality(T) = Cardinality(S)
  <2> HIDE DEF S, T, h
  <2>1. QED
    BY <1>5, <1>6, FS_Bijection DEF ExistsBijection
<1>8. QED
  BY <1>7

LEMMA KeptInit ==
  ASSUME Init PROVE Kept
<1>1. Len(<<>>) = 0 /\ read = <<>> /\ batch = <<>> /\ ids = {} /\ n.extracted = 0
  BY EmptySeq DEF Init
<1>2. \A f : RowsWith(ids, f) = {} /\ Places(batch, f) = {} /\ Places(read, f) = {}
  BY <1>1 DEF RowsWith, Places
<1>3. \A f : /\ Cardinality(RowsWith(ids, f)) = 0
            /\ Cardinality(Places(batch, f)) = 0 /\ Cardinality(Places(read, f)) = 0
  BY <1>2, FS_EmptySet
<1>4. n.extracted = Len(read)
  BY <1>1
<1>5. QED
  BY <1>3, <1>4 DEF Kept

LEMMA KeptStep ==
  ASSUME OfflineTypeOK, DeliveryInv, Control, Told, Kept, [Next]_vars
  PROVE  Kept'
<1>t. /\ n \in Counters /\ n.extracted \in Nat /\ n.failed \in Nat /\ Len(read) \in Nat
      /\ Len(batch) \in Nat /\ batch \in Seq(Flow) /\ read \in Seq(Flow) /\ ids \subseteq rows
  BY CounterTypes DEF OfflineTypeOK
<1>p. /\ TypeOK /\ IsFiniteSet(rows) /\ \A r \in ids : FlowOf(r)' = FlowOf(r)
  BY <1>t, Past
<1>o. ASSUME UNCHANGED ids PROVE \A f \in Flow : RowsWith(ids, f)' = RowsWith(ids, f)
  BY <1>o, <1>p DEF RowsWith
<1>1. ASSUME NEW g \in Flow, RowAdapted(g) PROVE Kept'
  <2>1. /\ n'.extracted = n.extracted + 1 /\ n'.failed = n.failed /\ UNCHANGED ids
        /\ read' = Append(read, g) /\ batch' = Append(batch, g)
    BY <1>t, <1>1 DEF RowAdapted, Counters
  <2>2. Len(read') = Len(read) + 1
    BY <1>t, <2>1, AppendReq
  <2>3. ASSUME NEW f \in Flow
        PROVE  Cardinality(RowsWith(ids, f)') + Cardinality(Places(batch', f))
                 = Cardinality(Places(read', f))
    <3> DEFINE a == Cardinality(RowsWith(ids, f))
               b == Cardinality(Places(batch, f))
               c == Cardinality(Places(read, f))
               d == IF f = g THEN 1 ELSE 0
    <3>1. a + b = c
      BY DEF Kept
    <3>2. Cardinality(Places(batch', f)) = b + d /\ Cardinality(Places(read', f)) = c + d
      BY <1>t, <2>1, PlacesAppend
    <3>3. Cardinality(RowsWith(ids, f)') = a
      BY <1>o, <2>1
    <3>4. a \in Nat /\ b \in Nat /\ c \in Nat /\ d \in Nat
      <4>1. IsFiniteSet(RowsWith(ids, f))
        BY <1>t, <1>p, FS_Subset DEF RowsWith
      <4>2. QED
        BY <1>t, <4>1, PlacesCounted, FS_CardinalityType
    <3> HIDE DEF a, b, c, d
    <3>5. QED
      BY <3>1, <3>2, <3>3, <3>4
  <2>4. n'.failed = 0 => n'.extracted = Len(read')
    BY <2>1, <2>2 DEF Kept
  <2>5. QED
    BY <2>3, <2>4 DEF Kept, Places
<1>2. CASE Submitted
  <2>1. /\ n'.extracted = n.extracted /\ n'.failed = n.failed /\ UNCHANGED read
        /\ batch' = <<>> /\ ids' = ids \cup AttemptRows(current)
    BY <1>t, <1>2 DEF Submitted, Counters
  <2>2. /\ reqs \in Seq(Req) /\ current \in DOMAIN reqs /\ UNCHANGED reqs
        /\ reqs[current].flows = batch /\ ids \cap AttemptRows(current) = {}
    BY <1>2, DeliveredRows
  <2>3. ASSUME NEW f \in Flow
        PROVE  Cardinality(RowsWith(ids, f)') + Cardinality(Places(batch', f))
                 = Cardinality(Places(read', f))
    <3> DEFINE A == RowsWith(ids, f)
               B == RowsWith(AttemptRows(current), f)
    <3>1. RowsWith(ids, f)' = A \cup B /\ A \cap B = {}
      BY <2>1, <2>2 DEF RowsWith, FlowOf
    <3>2. IsFiniteSet(A) /\ IsFiniteSet(B) /\ Cardinality(B) = Cardinality(Places(batch, f))
      <4>1. IsFiniteSet(A)
        BY <1>t, <1>p, FS_Subset DEF RowsWith
      <4>2. QED
        BY <2>2, <4>1, RowsOfAttempt
    <3>3. Cardinality(Places(batch', f)) = 0
      BY <2>1, FS_EmptySet DEF Places
    <3>4. Cardinality(A) + Cardinality(Places(batch, f)) = Cardinality(Places(read, f))
      BY DEF Kept
    <3> HIDE DEF A, B
    <3>5. Cardinality(A \cup B) = Cardinality(A) + Cardinality(B)
      BY <3>1, <3>2, DisjointUnion
    <3>6. Cardinality(Places(read, f)) \in Nat
      BY <1>t, PlacesCounted
    <3>7. Cardinality(RowsWith(ids, f)') = Cardinality(Places(read, f))
      BY <3>1, <3>2, <3>4, <3>5
    <3>8. Places(read', f) = Places(read, f)
      BY <2>1
    <3>9. QED
      BY <3>3, <3>6, <3>7, <3>8
  <2>4. QED
    BY <2>1, <2>3 DEF Kept, Places
<1>3. CASE ~Submitted /\ \A g \in Flow : ~RowAdapted(g)
  <2>1. UNCHANGED <<read, batch, ids>>
    BY <1>3 DEF Next, Step, OpenSummary, OpenFails, RowRejected, EndOfRows, RowsFail,
       Submit, Sending, SubmitFails, AnswerIncomplete, RowsDone, RowsRefused, Verify,
       VerifyFails, CtrlC, Environment, vars, offlineVars
  <2>2. n'.failed = 0 => n.failed = 0 /\ n'.extracted = n.extracted
    <3>1. CASE RowRejected
      BY <1>t, <3>1 DEF RowRejected, Counters
    <3>2. CASE Submit
      BY <1>t, <3>2 DEF Submit, Counters
    <3>3. CASE SubmitFails \/ AnswerIncomplete
      BY <1>t, <3>3 DEF SubmitFails, AnswerIncomplete, Counters
    <3>4. CASE ~(RowRejected \/ Submit \/ SubmitFails \/ AnswerIncomplete)
      BY <1>3, <3>4 DEF Next, Step, OpenSummary, OpenFails, EndOfRows, RowsFail,
         Sending, RowsDone, RowsRefused, Verify, VerifyFails, CtrlC, Environment, vars, offlineVars
    <3>5. QED
      BY <3>1, <3>2, <3>3, <3>4
  <2>3. QED
    BY <1>o, <2>1, <2>2 DEF Kept, Places
<1>4. QED
  BY <1>1, <1>2, <1>3

-----------------------------------------------------------------------------
(* The theorems.                                                           *)

LEMMA InductiveInvariant == Spec => []IInv
<1>1. Init => IInv
  BY OfflineTypeInit, DeliveryInvInit, ControlInit, ToldInit, KeptInit DEF IInv, Init
<1>2. IInv /\ [Next]_vars => IInv'
  <2> SUFFICES ASSUME IInv, [Next]_vars PROVE IInv'
    OBVIOUS
  <2>1. OfflineTypeOK /\ DeliveryInv /\ Control /\ Told /\ Kept
    BY DEF IInv
  <2>2. DeliveryInv'
    BY <2>1, StepDelivers, DeliveryInvStep
  <2>3. QED
    BY <2>1, <2>2, OfflineTypeStep, ControlStep, ToldStep, KeptStep DEF IInv
<1>3. QED
  BY <1>1, <1>2, PTL DEF Spec

\* A validation is a run of the delivery: whatever the file and the API do,
\* its variables keep their types, and what it is told was delivered is stored,
\* at most once per attempt (ApiSender.send as validate_flow_csv calls it).
THEOREM ValidationDelivers ==
  Spec => []TypeOK /\ AtLeastOnce
<1>1. Init => DeliveryInit
  BY DEF Init
<1>2. IInv /\ [Next]_vars => [DeliveryNext]_deliveryVars
  BY StepDelivers DEF IInv
<1>3. Spec => DeliveryRun
  BY <1>1, <1>2, InductiveInvariant, PTL DEF Spec, DeliveryRun
<1>4. QED
  BY <1>3, DeliveryTypes, DeliveryKeepsContract, PTL

\* A validation that reports completed has put each row of the CSV into the
\* store exactly once between its two summaries and nothing else: the retries
\* that stored a batch twice and the rows of other clients, which the two
\* counts cannot tell from its own, are not in the window.
THEOREM CompletedExact == Spec => []CompletedIsExact
<1>1. IInv => CompletedIsExact
  <2> SUFFICES ASSUME IInv, report.status = "completed"
               PROVE  /\ n.extracted = Len(read)
                      /\ \A f \in Flow :
                           Cardinality({r \in after \ before : FlowOf(r) = f})
                             = Cardinality({i \in DOMAIN read : read[i] = f})
    BY DEF CompletedIsExact
  <2>1. OfflineTypeOK /\ Control /\ Told /\ Kept
    BY DEF IInv
  <2>2. batch = <<>> /\ n.failed = 0 /\ after \ before = ids
    BY <2>1 DEF Control, Told
  <2>3. n.extracted = Len(read)
    BY <2>1, <2>2 DEF Kept
  <2>4. ASSUME NEW f \in Flow
        PROVE  Cardinality(RowsWith(ids, f)) = Cardinality(Places(read, f))
    <3>1. Places(batch, f) = {}
      BY <2>2 DEF Places
    <3>2. Cardinality(Places(batch, f)) = 0
      BY <3>1, FS_EmptySet
    <3>3. IsFiniteSet(RowsWith(ids, f))
      <4>1. ids \subseteq rows /\ IsFiniteSet(rows)
        BY <2>1 DEF OfflineTypeOK, IInv, DeliveryInv, Traced
      <4>2. QED
        BY <4>1, FS_Subset DEF RowsWith
    <3>4. Cardinality(RowsWith(ids, f)) \in Nat
      BY <3>3, FS_CardinalityType
    <3>5. QED
      BY <2>1, <3>2, <3>4 DEF Kept
  <2>5. QED
    BY <2>2, <2>3, <2>4 DEF RowsWith, Places
<1>2. QED
  BY <1>1, InductiveInvariant, PTL
=============================================================================
