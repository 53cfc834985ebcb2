-------------------------- MODULE LiveSessionProofs --------------------------
(***************************************************************************)
(* Proofs about src/ingestion/live_capture.py: about LiveSession, and at   *)
(* the end about SegmentCapture, the inside of one of its segments.        *)
(*                                                                         *)
(* For every batch size, retry bound, capacity of the deduplicator and     *)
(* number of segments, a session that reports verified has stored exactly  *)
(* the predictions it was told of, none twice and none without its alert;  *)
(* and one that reports completed has lost no row.  None of these is       *)
(* inductive.  What they rest on is said in parts: where the session is    *)
(* (Control), what the predictions it was told of are (Told) and what the  *)
(* alerts are of (Alerted), how its counters hang together (Counted),      *)
(* where its submissions lie among its unique rows (Laid), how far apart   *)
(* equal flows are there (Spread) and, of the requests themselves, Traced  *)
(* of DeliveryProofs.                                                      *)
(*                                                                         *)
(* The safety of a segment holds whatever tcpdump does with its signals    *)
(* and however often Ctrl+C is pressed.                                    *)
(***************************************************************************)
EXTENDS LiveSession, SegmentCapture, DeliveryProofs

Opening == {"open", "openAlerts", "preflight"}

\* The session is in send exactly while it says so, with its batch the flows
\* submitted last; nothing is submitted before the capture; no batch is left
\* between segments; only finalize_report sets a verdict.
Control ==
  /\ phase = "sending" <=> sender # "idle"
  /\ phase = "sending" => batch = subs[Len(subs)].flows
  /\ phase \in Opening => subs = <<>>
  /\ phase \in Opening \cup {"capture"} => batch = <<>>
  /\ report.verified \/ report.status = "completed" => phase = "closed"

\* The submission a stored row belongs to, 0 for another client's.
SubOf(r) == reqs[r[1]].sub

\* The first summary counts no row of the session; the rows it was told of
\* are of one attempt for each delivered submission, and counted; the last
\* summary counts all of them; a verdict of verified was exact.
Told ==
  /\ \A r \in before.rows : SubOf(r) = 0
  /\ \A r \in ids : SubOf(r) > 0 /\ subs[SubOf(r)].outcome = "delivered"
  /\ \A r, s \in ids : SubOf(r) = SubOf(s) => r[1] = s[1]
  /\ Cardinality(ids) = n.successful
  /\ phase \in {"finalAlerts", "finalIds"} => before.rows \cup ids \subseteq after.rows
  /\ VerifiedIsExact

\* The attacks among stored rows.
AttacksOf(R) == {r \in R : IsAttack(FlowOf(r))}

\* Rows S are what the first summary's alerts were counted of, rows T those of
\* the last one: its rows, and what was stored until its second statement.
CountedBefore(S) ==
  /\ \A r \in S : SubOf(r) = 0
  /\ before.alerts = Cardinality(AttacksOf(S))
  /\ phase \in {"finalAlerts", "finalIds"} => S \subseteq after.rows
CountedAfter(T) ==
  /\ after.rows \subseteq T
  /\ after.alerts = Cardinality(AttacksOf(T))

\* The attacks counted are those of the rows told of; both summaries' alerts
\* are of rows their first statements are in, and no row told of was there yet
\* when the first alerts were counted.
Alerted ==
  /\ n.attacks = Cardinality(AttacksOf(ids))
  /\ before.taken => \E S \in SUBSET rows : CountedBefore(S)
  /\ phase = "finalIds" => \E T \in SUBSET rows : CountedAfter(T)
  /\ phase \in {"finalAlerts", "finalIds"} => before.taken
  /\ VerifiedCountsAlerts

\* Every row read is counted once; every unique one is stored or in the
\* batch, which only a fault leaves unsubmitted.
Counted ==
  /\ n.extracted = n.unique + n.duplicates + n.failed
  /\ n.unique = n.successful + Len(batch)
  /\ faults = {} /\ phase \notin {"rows", "sending"} => batch = <<>>
  /\ faults = {} => \A s \in DOMAIN subs : subs[s].outcome \in {"pending", "delivered"}
  /\ report.status = "completed" => n.failed = 0

\* The submissions follow each other without overlap among the unique rows,
\* the batch being filled is next, and nothing else is unique.
Laid ==
  /\ Len(start) = Len(subs)
  /\ \A s \in DOMAIN subs : start[s] + Len(subs[s].flows) <= n.submitted
  /\ \A s, t \in DOMAIN subs : s < t => start[s] + Len(subs[s].flows) <= start[t]
  /\ n.submitted <= n.unique
  /\ phase \in Opening \cup {"capture", "rows"} => n.unique = n.submitted + Len(batch)
  /\ phase = "sending" => n.unique = n.submitted

\* The p-th unique row of the session was flow f (of those not yet dropped).
PlacedAt(p, f) ==
  \/ \E s \in DOMAIN subs : \E i \in DOMAIN subs[s].flows :
       p = start[s] + i /\ f = subs[s].flows[i]
  \/ phase = "rows" /\ \E i \in DOMAIN batch : p = n.submitted + i /\ f = batch[i]

\* How many unique rows BoundedDeduplicator no longer remembers.
Forgotten == n.unique - Len(seen)

\* The deduplicator remembers the latest unique rows, as many as it can, and
\* so keeps equal flows apart.
Spread ==
  /\ Forgotten \in Nat /\ (Forgotten > 0 => Len(seen) = DedupCapacity)
  /\ \A p \in 1 .. n.unique, f \in Flow :
       PlacedAt(p, f) /\ p > Forgotten => seen[p - Forgotten] = f
  /\ \A p, q \in 1 .. n.unique, f \in Flow :
       PlacedAt(p, f) /\ PlacedAt(q, f) /\ p < q => q > p + DedupCapacity

IInv ==
  /\ SessionTypeOK /\ Traced /\ StoredWhole /\ AlertsWhole
  /\ Control /\ Told /\ Alerted /\ Counted /\ Laid /\ Spread

-----------------------------------------------------------------------------
(* Types.                                                                  *)

\* Every step of a session is a step of the delivery, or leaves it alone.
LEMMA StepDelivers ==
  ASSUME SessionTypeOK, [Next]_vars
  PROVE  [DeliveryNext]_deliveryVars
<1>1. CASE SessionStep
  <2>1. CASE Submit
    BY <2>1 DEF Submit, SessionTypeOK, DeliveryNext
  <2>2. CASE Sending \/ Submitted \/ SubmitFails
    BY <2>2 DEF Sending, Submitted, SubmitFails, DeliveryNext, SenderStep
  <2>3. CASE ~(Submit \/ Sending \/ Submitted \/ SubmitFails)
    BY <1>1, <2>3 DEF SessionStep, OpenSummary, OpenAlerts, OpenFails, Preflight, PreflightFails,
       CaptureSegment, SchemaIncompatible, CaptureFails, LoopEnds, RowUnique, RowDuplicate,
       RowRejected, RowsFail, EndOfRows, SegmentDone, FinalizeUnverified, FinalTotal, FinalAlerts,
       FinalIds, FinalFails, Close
  <2>4. QED
    BY <2>1, <2>2, <2>3
<1>2. CASE CtrlC \/ FinalCtrlC
  BY <1>2 DEF CtrlC, FinalCtrlC, DeliveryNext
<1>3. CASE Environment
  BY <1>3 DEF Environment, DeliveryNext
<1>4. CASE UNCHANGED vars
  BY <1>4 DEF vars
<1>5. QED
  BY <1>1, <1>2, <1>3, <1>4 DEF Next

LEMMA RowsGrow ==
  ASSUME TypeOK, [DeliveryNext]_deliveryVars
  PROVE  rows \subseteq rows' /\ Summary \subseteq Summary'
<1>1. rows \subseteq rows'
  BY StoreStep
<1>2. Summary \subseteq Summary'
  BY <1>1 DEF Summary
<1>3. QED
  BY <1>1, <1>2

\* What the API counts in a summary is finite.
LEMMA AlertsCounted ==
  ASSUME TypeOK, Traced
  PROVE  Cardinality(alerts) \in Nat
<1> DEFINE Severity == {"HIGH", "MEDIUM"}
           S == rows \X Severity
           T == [row : rows, severity : Severity]
           f == [p \in S |-> [row |-> p[1], severity |-> p[2]]]
<1>1. IsFiniteSet(Severity)
  <2>1. Severity = {"HIGH"} \cup {"MEDIUM"} /\ IsFiniteSet({"HIGH"})
    BY FS_Singleton
  <2>2. QED
    BY <2>1, FS_AddElement
<1>2. IsFiniteSet(S)
  BY <1>1, FS_Product DEF Traced
<1>3. f \in Surjection(S, T)
  <2>1. f \in [S -> T]
    OBVIOUS
  <2>2. ASSUME NEW t \in T PROVE \E p \in S : f[p] = t
    <3>1. <<t.row, t.severity>> \in S /\ f[<<t.row, t.severity>>] = t
      OBVIOUS
    <3>2. QED
      BY <3>1
  <2>3. QED
    BY <2>1, <2>2 DEF Surjection
<1>4. IsFiniteSet(T)
  <2> HIDE DEF f, S, T
  <2>1. QED
    BY <1>2, <1>3, FS_Surjection
<1>5. IsFiniteSet(alerts)
  BY <1>4, FS_Subset DEF TypeOK
<1>6. QED
  BY <1>5, FS_CardinalityType

\* The attacks of a batch are counted by a number.
LEMMA AttacksCounted ==
  ASSUME NEW b \in Seq(Flow)
  PROVE  Cardinality({i \in DOMAIN b : IsAttack(b[i])}) \in Nat
<1>1. DOMAIN b = 1 .. Len(b) /\ Len(b) \in Nat
  BY LenProperties
<1>2. IsFiniteSet(DOMAIN b)
  BY <1>1, FS_Interval
<1>3. IsFiniteSet({i \in DOMAIN b : IsAttack(b[i])})
  BY <1>2, FS_Subset
<1>4. QED
  BY <1>3, FS_CardinalityType

\* The deduplicator holds no more than its capacity.
LEMMA RememberBounded ==
  ASSUME seen \in Seq(Flow), Len(seen) <= DedupCapacity, NEW f \in Flow
  PROVE  /\ Remember(f) \in Seq(Flow) /\ Len(Remember(f)) <= DedupCapacity
         /\ Len(Remember(f)) = IF Len(seen) = DedupCapacity THEN Len(seen) ELSE Len(seen) + 1
         /\ Remember(f)[Len(Remember(f))] = f
         /\ Len(seen) = DedupCapacity =>
              \A i \in 1 .. Len(seen) - 1 : Remember(f)[i] = seen[i + 1]
         /\ Len(seen) # DedupCapacity => \A i \in 1 .. Len(seen) : Remember(f)[i] = seen[i]
<1>1. Len(seen) \in Nat /\ DedupCapacity \in Nat \ {0}
  BY SessionAssumption, LenProperties
<1>2. CASE Len(seen) = DedupCapacity
  <2> DEFINE t == Tail(seen)
  <2>1. /\ t \in Seq(Flow) /\ Len(t) = Len(seen) - 1
        /\ \A i \in 1 .. Len(t) : t[i] = seen[i + 1]
    <3>1. seen # <<>>
      BY <1>1, <1>2, EmptySeq
    <3>2. QED
      BY <3>1, HeadTailProperties
  <2>2. Remember(f) = Append(t, f)
    BY <1>1, <1>2 DEF Remember
  <2> HIDE DEF t
  <2>3. QED
    BY <1>1, <1>2, <2>1, <2>2, AppendReq
<1>3. CASE Len(seen) # DedupCapacity
  <2>1. Remember(f) = Append(seen, f)
    BY <1>1, <1>3 DEF Remember
  <2>2. QED
    BY <1>1, <1>3, <2>1, AppendReq
<1>4. QED
  BY <1>2, <1>3

LEMMA SessionTypeInit ==
  ASSUME Init PROVE SessionTypeOK
<1>1. TypeOK
  BY TracedInit DEF Init
<1>2. NoSummary \in Summary
  BY DEF NoSummary, Summary
<1>3. \A S : <<>> \in Seq(S) /\ Len(<<>>) = 0
  BY EmptySeq
<1>4. n \in Counters /\ report \in Report /\ segment \in 0 .. MaxSegments
  BY SessionAssumption DEF Init, Counters, Report
<1>5. Len(seen) <= DedupCapacity
  BY <1>3, SessionAssumption DEF Init
<1>6. QED
  BY <1>1, <1>2, <1>3, <1>4, <1>5 DEF Init, SessionTypeOK, Phase

LEMMA SessionTypeStep ==
  ASSUME SessionTypeOK, Traced, StoredWhole, [Next]_vars
  PROVE  SessionTypeOK'
<1>1. TypeOK /\ TypeOK' /\ rows \subseteq rows' /\ Summary \subseteq Summary'
  <2>1. TypeOK /\ [DeliveryNext]_deliveryVars
    BY StepDelivers DEF SessionTypeOK
  <2>2. QED
    BY <2>1, TypeStep, RowsGrow
<1>n. NoSummary \in Summary' /\ \A S : <<>> \in Seq(S) /\ Len(<<>>) = 0
  BY EmptySeq DEF NoSummary, Summary
<1>c. n \in Counters /\ report \in Report /\ batch \in Seq(Flow)
  BY DEF SessionTypeOK
<1>k. /\ n.extracted + 1 \in Nat /\ n.unique + 1 \in Nat /\ n.failed + 1 \in Nat
      /\ n.duplicates + 1 \in Nat
      /\ \A k \in Nat : n.submitted + k \in Nat
      /\ \A k \in Nat : n.successful + k \in Nat
      /\ \A k \in Nat : n.attacks + k \in Nat
  <2>1. /\ n.extracted \in Nat /\ n.unique \in Nat /\ n.duplicates \in Nat /\ n.submitted \in Nat
        /\ n.successful \in Nat /\ n.failed \in Nat /\ n.attacks \in Nat
    BY <1>c DEF Counters
  <2>2. QED
    BY <2>1
<1>s. \A k \in Nat : report.segments + k \in Nat
  BY <1>c DEF Report
<1>2. CASE OpenSummary
  <2>1. [before EXCEPT !.rows = rows] \in Summary'
    BY <1>1 DEF SessionTypeOK, Summary
  <2>2. QED
    BY <1>1, <1>2, <2>1 DEF OpenSummary, SessionTypeOK, Phase
<1>3. CASE OpenAlerts
  <2>1. [before EXCEPT !.taken = TRUE, !.alerts = Cardinality(alerts)] \in Summary'
    BY <1>1, AlertsCounted DEF SessionTypeOK, Summary
  <2>2. QED
    BY <1>1, <1>3, <2>1 DEF OpenAlerts, SessionTypeOK, Phase
<1>4. CASE FinalTotal
  <2>1. [after EXCEPT !.rows = rows] \in Summary'
    BY <1>1 DEF SessionTypeOK, Summary
  <2>2. QED
    BY <1>1, <1>4, <2>1 DEF FinalTotal, SessionTypeOK, Phase
<1>5. CASE FinalAlerts
  <2>1. [after EXCEPT !.taken = TRUE, !.alerts = Cardinality(alerts)] \in Summary'
    BY <1>1, AlertsCounted DEF SessionTypeOK, Summary
  <2>2. QED
    BY <1>1, <1>5, <2>1 DEF FinalAlerts, SessionTypeOK, Phase
<1>6. CASE OpenFails \/ Preflight \/ PreflightFails
  <2>1. report' \in Report
    BY <1>c, <1>6 DEF OpenFails, Preflight, PreflightFails, Fail, Report
  <2>2. QED
    BY <1>1, <1>n, <1>6, <2>1
       DEF OpenFails, Preflight, PreflightFails, Fail, Recorded, SessionTypeOK, Phase
<1>7. ASSUME NEW i \in BOOLEAN, CaptureSegment(i) \/ SchemaIncompatible(i) PROVE SessionTypeOK'
  <2>1. report' \in Report
    <3>1. CASE CaptureSegment(i)
      BY <1>c, <1>s, <3>1 DEF CaptureSegment, Report
    <3>2. CASE SchemaIncompatible(i)
      BY <1>c, <1>s, <3>2 DEF SchemaIncompatible, Report
    <3>3. QED
      BY <1>7, <3>1, <3>2
  <2>2. segment' \in 0 .. MaxSegments
    BY <1>7, SessionAssumption DEF CaptureSegment, SchemaIncompatible, LoopEntered, SessionTypeOK
  <2>3. QED
    BY <1>1, <1>n, <1>7, <2>1, <2>2
       DEF CaptureSegment, SchemaIncompatible, Recorded, SessionTypeOK, Phase
<1>8. ASSUME NEW i \in BOOLEAN, NEW done \in {0, 1}, CaptureFails(i, done) PROVE SessionTypeOK'
  <2>1. report' \in Report
    BY <1>c, <1>s, <1>8 DEF CaptureFails, Report
  <2>2. segment' \in 0 .. MaxSegments
    BY <1>8, SessionAssumption DEF CaptureFails, LoopEntered, SessionTypeOK
  <2>3. QED
    BY <1>1, <1>8, <2>1, <2>2 DEF CaptureFails, Recorded, SessionTypeOK, Phase
<1>9. CASE LoopEnds \/ EndOfRows \/ SegmentDone
  BY <1>1, <1>9 DEF LoopEnds, EndOfRows, SegmentDone, SessionTypeOK, Phase
<1>10. ASSUME NEW f \in Flow, RowUnique(f) PROVE SessionTypeOK'
  <2>1. batch' \in Seq(Flow)
    BY <1>10, AppendReq DEF RowUnique, SessionTypeOK
  <2>2. seen' \in Seq(Flow) /\ Len(seen') <= DedupCapacity
    BY <1>10, RememberBounded DEF RowUnique, SessionTypeOK
  <2>3. n' \in Counters
    BY <1>c, <1>k, <1>10 DEF RowUnique, Counters
  <2>4. QED
    BY <1>1, <1>10, <2>1, <2>2, <2>3 DEF RowUnique, SessionTypeOK
<1>11. ASSUME NEW f \in Flow, RowDuplicate(f) PROVE SessionTypeOK'
  <2>1. n' \in Counters
    BY <1>c, <1>k, <1>11 DEF RowDuplicate, Counters
  <2>2. QED
    BY <1>1, <1>11, <2>1 DEF RowDuplicate, SessionTypeOK
<1>12. CASE RowRejected \/ RowsFail
  <2>1. n' \in Counters
    <3>1. CASE RowRejected
      BY <1>c, <1>k, <3>1 DEF RowRejected, Counters
    <3>2. CASE RowsFail
      BY <1>c, <3>2 DEF RowsFail
    <3>3. QED
      BY <1>12, <3>1, <3>2
  <2>2. report' \in Report
    BY <1>c, <1>12 DEF RowRejected, RowsFail, Fail, Report
  <2>3. QED
    BY <1>1, <1>12, <2>1, <2>2 DEF RowRejected, RowsFail, Fail, Recorded, SessionTypeOK, Phase
<1>13. CASE Submit
  <2>1. Len(batch) \in Nat /\ n.submitted \in Nat
    BY <1>c, LenProperties DEF Counters
  <2>2. start' \in Seq(Nat)
    BY <1>13, <2>1, AppendReq DEF Submit, SessionTypeOK
  <2>3. n' \in Counters
    BY <1>c, <1>k, <1>13, <2>1 DEF Submit, Counters
  <2>4. QED
    BY <1>1, <1>13, <2>2, <2>3 DEF Submit, SessionTypeOK, Phase
<1>14. CASE Submitted
  <2> DEFINE a == Cardinality({i \in DOMAIN batch : IsAttack(batch[i])})
  <2>1. Len(batch) \in Nat /\ a \in Nat
    BY <1>c, LenProperties, AttacksCounted
  <2>2. n' = [n EXCEPT !.successful = @ + Len(batch), !.attacks = @ + a]
    BY <1>14 DEF Submitted
  <2> HIDE DEF a
  <2>3. n' \in Counters
    BY <1>c, <1>k, <2>1, <2>2 DEF Counters
  <2>4. ids' \subseteq rows'
    <3>1. UNCHANGED rows /\ current \in DOMAIN reqs /\ reqs[current].state = "committed"
      BY <1>14, LenProperties DEF Submitted, Receive, SessionTypeOK, TypeOK
    <3>2. AttemptRows(current) \subseteq rows
      BY <3>1 DEF StoredWhole
    <3>3. QED
      BY <1>14, <3>1, <3>2 DEF Submitted, SessionTypeOK
  <2>5. QED
    BY <1>1, <1>n, <1>14, <2>3, <2>4 DEF Submitted, SessionTypeOK, Phase
<1>15. CASE Sending
  BY <1>1, <1>15 DEF Sending, sessionVars, SessionTypeOK
<1>16. CASE SubmitFails
  <2>1. report' \in Report
    BY <1>c, <1>16 DEF SubmitFails, Fail, Report
  <2>2. QED
    BY <1>1, <1>16, <2>1 DEF SubmitFails, Fail, Recorded, SessionTypeOK, Phase
<1>17. CASE CtrlC \/ FinalCtrlC
  BY <1>1, <1>n, <1>17 DEF CtrlC, FinalCtrlC, SessionTypeOK, Phase
<1>18. CASE Environment \/ UNCHANGED vars
  BY <1>1, <1>18 DEF Environment, vars, sessionVars, SessionTypeOK
<1>19. CASE FinalizeUnverified \/ FinalIds \/ FinalFails
  <2>1. Created \in Nat
    BY DEF Created, SessionTypeOK, Summary
  <2>2. \E v \in BOOLEAN, w \in BOOLEAN, a \in Nat, s \in {"failed", "completed"} :
          report' = [report EXCEPT !.verified = v, !.alertsCreated = a, !.failures = w, !.status = s]
    <3>1. ASSUME NEW v \in BOOLEAN, NEW w \in BOOLEAN, NEW a \in Nat, Close(v, w, a)
          PROVE  \E x \in BOOLEAN, y \in BOOLEAN, c \in Nat, s \in {"failed", "completed"} :
            report' = [report EXCEPT !.verified = x, !.alertsCreated = c, !.failures = y, !.status = s]
      <4> DEFINE y == w \/ ~Passed(v)
                 s == IF Passed(v) THEN "completed" ELSE "failed"
      <4>1. report' = [report EXCEPT !.verified = v, !.alertsCreated = a, !.failures = y, !.status = s]
        BY <3>1 DEF Close
      <4>2. y \in BOOLEAN /\ s \in {"failed", "completed"}
        OBVIOUS
      <4> HIDE DEF y, s
      <4>3. QED
        BY <4>1, <4>2, Zenon
    <3>2. report.failures \in BOOLEAN
      BY <1>c DEF Report
    <3>3. QED
      BY <1>19, <2>1, <3>1, <3>2, Zenon DEF FinalizeUnverified, FinalIds, FinalFails
  <2>r. report' \in Report
    BY <1>c, <2>2 DEF Report
  <2>3. QED
    BY <1>1, <1>19, <2>r DEF FinalizeUnverified, FinalIds, FinalFails, Close, SessionTypeOK, Phase
<1>20. QED
  BY <1>2, <1>3, <1>4, <1>5, <1>6, <1>7, <1>8, <1>9, <1>10, <1>11, <1>12, <1>13, <1>14, <1>15,
     <1>16, <1>17, <1>18, <1>19 DEF Next, SessionStep

-----------------------------------------------------------------------------
(* Where the session is.                                                   *)

LEMMA ControlInit ==
  ASSUME Init PROVE Control
  BY DEF Init, DeliveryInit, Control, Opening

LEMMA ControlStep ==
  ASSUME SessionTypeOK, Control, [Next]_vars
  PROVE  Control'
<1> USE DEF Opening
<1>1. CASE OpenSummary \/ OpenAlerts \/ OpenFails \/ Preflight \/ PreflightFails \/ LoopEnds
  BY <1>1 DEF OpenSummary, OpenAlerts, OpenFails, Preflight, PreflightFails, LoopEnds, Fail,
     Recorded, deliveryVars, Control, SessionTypeOK, Report
<1>2. ASSUME NEW i \in BOOLEAN, NEW done \in {0, 1},
             CaptureSegment(i) \/ SchemaIncompatible(i) \/ CaptureFails(i, done)
      PROVE  Control'
  BY <1>2 DEF CaptureSegment, SchemaIncompatible, CaptureFails, LoopEntered, Recorded,
     deliveryVars, Control, SessionTypeOK, Report
<1>3. ASSUME NEW f \in Flow, RowUnique(f) \/ RowDuplicate(f) PROVE Control'
  BY <1>3 DEF RowUnique, RowDuplicate, Reading, deliveryVars, Control
<1>4. CASE RowRejected \/ RowsFail \/ EndOfRows \/ SegmentDone
  BY <1>4 DEF RowRejected, RowsFail, EndOfRows, SegmentDone, Reading, Fail, Recorded,
     deliveryVars, Control, SessionTypeOK, Report
<1>5. CASE Submit
  <2>1. BeginSend(batch) /\ batch \in Seq(Flow) /\ subs \in Seq(Sub)
    BY <1>5 DEF Submit, SessionTypeOK, TypeOK, Sub
  <2>2. subs'[Len(subs')].flows = batch
    <3>1. Len(subs') = Len(subs) + 1 /\ subs'[Len(subs) + 1] = [flows |-> batch, outcome |-> "pending"]
      BY <2>1, BeginSubs
    <3>2. QED
      BY <3>1
  <2>3. sender' # "idle"
    BY <2>1 DEF BeginSend
  <2>4. QED
    BY <1>5, <2>2, <2>3 DEF Submit, Control
<1>6. CASE Sending
  BY <1>6 DEF Sending, sessionVars, Post, RetryLater, Control
<1>7. CASE Submitted \/ SubmitFails
  BY <1>7 DEF Submitted, SubmitFails, Receive, GiveUp, Ended, Fail, Recorded, Control,
     SessionTypeOK, Report
<1>8. CASE CtrlC \/ FinalCtrlC
  BY <1>8 DEF CtrlC, FinalCtrlC, InterruptSend, Ended, deliveryVars, Control
<1>9. CASE FinalizeUnverified \/ FinalIds \/ FinalFails
  BY <1>9 DEF FinalizeUnverified, FinalIds, FinalFails, Close, deliveryVars, Control
<1>10. CASE FinalTotal \/ FinalAlerts
  BY <1>10 DEF FinalTotal, FinalAlerts, deliveryVars, Control
<1>11. CASE Environment
  BY <1>11 DEF Environment, ApiStep, Commit, Drop, OtherClient, sessionVars, Control
<1>12. CASE UNCHANGED vars
  BY <1>12 DEF vars, sessionVars, deliveryVars, Control
<1>13. QED
  BY <1>1, <1>2, <1>3, <1>4, <1>5, <1>6, <1>7, <1>8, <1>9, <1>10, <1>11, <1>12
     DEF Next, SessionStep

-----------------------------------------------------------------------------
(* What the session was told of.                                           *)

\* Only the two statements of the last summary touch what they read.
LEMMA FinalKept ==
  ASSUME [Next]_vars, ~FinalTotal, ~FinalAlerts
  PROVE  phase' \in {"finalAlerts", "finalIds"} => UNCHANGED <<phase, before, after, ids>>
  BY DEF Next, SessionStep, CtrlC, FinalCtrlC, Environment, vars, sessionVars, OpenSummary,
     OpenAlerts, OpenFails, Preflight, PreflightFails, CaptureSegment, SchemaIncompatible,
     CaptureFails, LoopEnds, RowUnique, RowDuplicate, RowRejected, RowsFail, EndOfRows,
     SegmentDone, Submit, Sending, Submitted, SubmitFails, FinalizeUnverified,
     FinalIds, FinalFails, Close, Fail, Recorded, Reading

LEMMA ToldInit ==
  ASSUME Init PROVE Told
  BY FS_EmptySet DEF Init, Told, VerifiedIsExact, NoSummary

LEMMA ToldStep ==
  ASSUME SessionTypeOK, Traced, Control, Told, [Next]_vars
  PROVE  Told'
<1>1. /\ TypeOK /\ [DeliveryNext]_deliveryVars /\ rows \subseteq rows' /\ ReqsKept /\ SubsKept
      /\ reqs \in Seq(Req) /\ subs \in Seq(Sub)
  <2>1. TypeOK /\ [DeliveryNext]_deliveryVars
    BY StepDelivers DEF SessionTypeOK
  <2>2. reqs \in Seq(Req) /\ subs \in Seq(Sub)
    BY <2>1 DEF TypeOK, Req, Sub
  <2>3. QED
    BY <2>1, <2>2, RowsGrow, StepReqs, ReqsStepKeeps, SubsStep
<1>2. \A r \in rows : r[1] \in DOMAIN reqs /\ SubOf(r)' = SubOf(r)
  BY <1>1 DEF TypeOK, ReqsKept, SubOf
<1>3. DOMAIN subs = 1 .. Len(subs) /\ Len(subs) \in Nat
  BY <1>1, LenProperties
<1>4. \A r \in rows : SubOf(r) \in 0 .. Len(subs)
  BY <1>2 DEF Traced, FromSubmission, SubOf
<1>5. before.rows \subseteq rows /\ ids \subseteq rows /\ after.rows \subseteq rows
  BY DEF SessionTypeOK, Summary
<1>6. ASSUME NEW r \in before'.rows PROVE SubOf(r)' = 0
  <2>1. before'.rows = before.rows \/ before'.rows = {} \/ OpenSummary
    <3>1. CASE OpenAlerts
      BY <3>1 DEF OpenAlerts, SessionTypeOK, Summary
    <3>2. CASE OpenFails \/ CtrlC
      BY <3>2 DEF OpenFails, CtrlC, NoSummary
    <3>3. CASE ~OpenSummary /\ ~OpenAlerts /\ ~OpenFails /\ ~CtrlC
      <4>1. UNCHANGED before
        BY <3>3 DEF Next, SessionStep, FinalCtrlC, Environment, vars, sessionVars, Preflight,
           PreflightFails, CaptureSegment, SchemaIncompatible, CaptureFails, LoopEnds, RowUnique,
           RowDuplicate, RowRejected, RowsFail, EndOfRows, SegmentDone, Submit, Sending, Submitted,
           SubmitFails, FinalizeUnverified, FinalTotal, FinalAlerts, FinalIds, FinalFails, Close
      <4>2. QED
        BY <4>1
    <3>4. QED
      BY <3>1, <3>2, <3>3
  <2>2. CASE before'.rows = before.rows
    BY <1>2, <1>5, <1>6, <2>2 DEF Told
  <2>3. CASE OpenSummary
    <3>1. before'.rows = rows /\ subs = <<>>
      BY <2>3 DEF OpenSummary, Control, Opening, SessionTypeOK, Summary
    <3>2. Len(subs) = 0
      BY <3>1, EmptySeq
    <3>3. QED
      BY <1>2, <1>4, <1>6, <3>1, <3>2
  <2>4. QED
    BY <1>6, <2>1, <2>2, <2>3
<1>7. \A r \in ids : SubOf(r)' > 0 /\ subs'[SubOf(r)'].outcome = "delivered"
  <2>1. TAKE r \in ids
  <2>2. SubOf(r) \in DOMAIN subs /\ subs[SubOf(r)].outcome = "delivered" /\ SubOf(r) > 0
    BY <1>3, <1>4, <1>5 DEF Told
  <2>3. subs'[SubOf(r)] = subs[SubOf(r)]
    BY <1>1, <2>2, OutcomeStays
  <2>4. QED
    BY <1>2, <1>5, <2>2, <2>3
<1>8. /\ \A r \in ids' : SubOf(r)' > 0 /\ subs'[SubOf(r)'].outcome = "delivered"
      /\ \A r, s \in ids' : SubOf(r)' = SubOf(s)' => r[1] = s[1]
      /\ Cardinality(ids') = n'.successful
  <2>1. CASE Submitted
    <3>1. /\ sender = "wait" /\ Ended("delivered") /\ UNCHANGED <<reqs, rows>> /\ phase = "sending"
          /\ ids' = ids \cup AttemptRows(current)
      BY <2>1 DEF Submitted, Receive
    <3>2. /\ current \in DOMAIN reqs /\ reqs[current].sub = Len(subs) /\ subs # <<>>
      BY <1>1, <3>1, LenProperties DEF Traced, TypeOK
    <3>3. Len(subs) \in DOMAIN subs /\ Len(subs) > 0
      BY <1>1, <1>3, <3>2, EmptySeq
    <3>4. subs'[Len(subs)].outcome = "delivered"
      BY <1>1, <3>1, <3>2, EndedSubs DEF Outcome
    <3>5. \A r \in AttemptRows(current) : r[1] = current /\ SubOf(r) = Len(subs) /\ SubOf(r)' = Len(subs)
      BY <3>1, <3>2 DEF AttemptRows, SubOf
    <3>6. subs[Len(subs)].outcome = "pending"
      BY <3>1, <3>3 DEF Traced, AtWork
    <3>7. \A r \in ids : SubOf(r) # Len(subs) /\ SubOf(r)' # Len(subs)
      BY <1>2, <1>5, <3>6 DEF Told
    <3>8. \A r \in ids' : SubOf(r)' > 0 /\ subs'[SubOf(r)'].outcome = "delivered"
      BY <1>7, <3>1, <3>3, <3>4, <3>5
    <3>9. \A r, s \in ids' : SubOf(r)' = SubOf(s)' => r[1] = s[1]
      BY <1>2, <1>5, <3>1, <3>5, <3>7 DEF Told
    <3>10. Cardinality(ids') = n'.successful
      <4>1. reqs[current].flows = batch
        BY <3>1, <3>2, <3>3 DEF Traced, FromSubmission, Control
      <4>2. IsFiniteSet(AttemptRows(current)) /\ Cardinality(AttemptRows(current)) = Len(batch)
        BY <1>1, <3>2, <4>1, AttemptSize
      <4>3. IsFiniteSet(ids) /\ Cardinality(ids) = n.successful
        BY <1>5, FS_Subset DEF Traced, Told
      <4>4. ids \cap AttemptRows(current) = {}
        BY <3>5, <3>7
      <4>5. Cardinality(ids') = n.successful + Len(batch)
        BY <3>1, <4>2, <4>3, <4>4, DisjointUnion
      <4>6. n'.successful = n.successful + Len(batch) /\ n.successful \in Nat /\ Len(batch) \in Nat
        BY <2>1, LenProperties DEF Submitted, SessionTypeOK, Counters
      <4>7. QED
        BY <4>5, <4>6
    <3>11. QED
      BY <3>8, <3>9, <3>10
  <2>2. CASE ~Submitted
    <3>1. UNCHANGED ids /\ n'.successful = n.successful
      BY <2>2 DEF Next, SessionStep, CtrlC, FinalCtrlC, Environment, vars, sessionVars, OpenSummary,
         OpenAlerts, OpenFails, Preflight, PreflightFails, CaptureSegment, SchemaIncompatible,
         CaptureFails, LoopEnds, RowUnique, RowDuplicate, RowRejected, RowsFail, EndOfRows,
         SegmentDone, Submit, Sending, SubmitFails, FinalizeUnverified, FinalTotal, FinalAlerts,
         FinalIds, FinalFails, Close, SessionTypeOK, Counters
    <3>2. QED
      BY <1>2, <1>5, <1>7, <3>1 DEF Told
  <2>3. QED
    BY <2>1, <2>2
<1>9. phase' \in {"finalAlerts", "finalIds"} => (before.rows \cup ids \subseteq after.rows)'
  <2>1. CASE FinalTotal
    BY <1>5, <2>1 DEF FinalTotal, SessionTypeOK, Summary
  <2>2. CASE FinalAlerts
    BY <2>2 DEF FinalAlerts, SessionTypeOK, Summary, Told
  <2>3. CASE ~FinalTotal /\ ~FinalAlerts
    BY <2>3, FinalKept DEF Told
  <2>4. QED
    BY <2>1, <2>2, <2>3
<1>10. VerifiedIsExact'
  <2>1. CASE FinalIds
    <3>1. UNCHANGED <<before, after, ids>> /\ phase = "finalIds"
      BY <2>1 DEF FinalIds, Close
    <3>2. report'.verified => Delta = n.successful
      BY <2>1 DEF FinalIds, Close, SessionTypeOK, Report
    <3>3. IsFiniteSet(after.rows)
      BY <1>5, FS_Subset DEF Traced
    <3>4. before.rows \cap ids = {}
      BY DEF Told
    <3>5. Delta = n.successful => after.rows \ before.rows = ids
      BY <3>1, <3>3, <3>4, ExactByCount DEF Told, Delta
    <3>6. QED
      BY <3>1, <3>2, <3>5 DEF VerifiedIsExact
  <2>2. CASE ~FinalIds
    <3>1. report'.verified => report.verified /\ UNCHANGED <<before, after, ids>>
      <4>1. CASE phase = "closed"
        BY <2>2, <4>1 DEF Next, SessionStep, CtrlC, FinalCtrlC, Environment, vars, sessionVars,
           OpenSummary, OpenAlerts, OpenFails, Preflight, PreflightFails, CaptureSegment,
           SchemaIncompatible, CaptureFails, LoopEntered, LoopEnds, RowUnique, RowDuplicate,
           RowRejected, RowsFail, EndOfRows, Reading, SegmentDone, Submit, Sending, Submitted,
           SubmitFails, FinalizeUnverified, FinalTotal, FinalAlerts, FinalFails
      <4>2. CASE phase # "closed"
        <5>1. ~report.verified
          BY <4>2 DEF Control
        <5>2. ~report'.verified
          BY <2>2, <5>1 DEF Next, SessionStep, CtrlC, FinalCtrlC, Environment, vars, sessionVars,
             OpenSummary, OpenAlerts, OpenFails, Preflight, PreflightFails, CaptureSegment,
             SchemaIncompatible, CaptureFails, LoopEnds, RowUnique, RowDuplicate, RowRejected,
             RowsFail, EndOfRows, SegmentDone, Submit, Sending, Submitted, SubmitFails,
             FinalizeUnverified, FinalTotal, FinalAlerts, FinalFails, Close, Fail, SessionTypeOK,
             Report
        <5>3. QED
          BY <5>2
      <4>3. QED
        BY <4>1, <4>2
    <3>2. QED
      BY <3>1 DEF Told, VerifiedIsExact
  <2>3. QED
    BY <2>1, <2>2
<1>11. QED
  BY <1>6, <1>8, <1>9, <1>10 DEF Told

-----------------------------------------------------------------------------
(* The alerts of the two summaries.                                        *)

\* One alert for each stored attack.
LEMMA AlertsNumber ==
  ASSUME TypeOK, IsFiniteSet(rows), AlertsWhole
  PROVE  Cardinality(alerts) = Cardinality(AttacksOf(rows))
<1> DEFINE S == AttacksOf(rows)
           A(r) == [row |-> r, severity |-> SEVERITY[LabelOf[FlowOf(r)]]]
           T == {A(r) : r \in S}
           f == [r \in S |-> A(r)]
<1>1. alerts = T
  BY DEF AlertsWhole, AlertsOf, AttacksOf
<1>2. IsFiniteSet(S)
  BY FS_Subset DEF AttacksOf
<1>3. f \in Bijection(S, T)
  <2>1. f \in [S -> T]
    OBVIOUS
  <2>2. \A r, s \in S : f[r] = f[s] => r = s
    <3>1. \A r \in S : f[r].row = r
      OBVIOUS
    <3>2. QED
      BY <3>1
  <2>3. \A t \in T : \E r \in S : f[r] = t
    OBVIOUS
  <2> HIDE DEF f, T, S
  <2>4. DOMAIN f = S
    BY <2>1
  <2>5. QED
    BY <2>1, <2>2, <2>3, <2>4 DEF Bijection, Injection, Surjection, IsInjective
<1> HIDE DEF f, T, S
<1>4. ExistsBijection(S, T)
  BY <1>3 DEF ExistsBijection
<1>5. Cardinality(T) = Cardinality(S)
  BY <1>2, <1>4, FS_Bijection
<1>6. QED
  BY <1>1, <1>5 DEF S

\* The attacks of an attempt are as many as those of its batch.
LEMMA AttemptAttacks ==
  ASSUME reqs \in Seq(Req), NEW k \in DOMAIN reqs, NEW b, reqs[k].flows = b, b \in Seq(Flow)
  PROVE  Cardinality(AttacksOf(AttemptRows(k))) = Cardinality({i \in DOMAIN b : IsAttack(b[i])})
<1> DEFINE S == {i \in DOMAIN b : IsAttack(b[i])}
           T == AttacksOf(AttemptRows(k))
           f == [i \in S |-> <<k, i>>]
<1>1. DOMAIN b = 1 .. Len(b) /\ Len(b) \in Nat
  BY LenProperties
<1>2. IsFiniteSet(S)
  <2>1. IsFiniteSet(DOMAIN b)
    BY <1>1, FS_Interval
  <2>2. QED
    BY <2>1, FS_Subset
<1>3. f \in Bijection(S, T)
  <2>1. ASSUME NEW i \in S PROVE f[i] \in T
    <3>1. <<k, i>> \in AttemptRows(k) /\ FlowOf(<<k, i>>) = b[i]
      BY <1>1, <2>1 DEF AttemptRows, FlowOf
    <3>2. QED
      BY <2>1, <3>1 DEF AttacksOf
  <2>2. \A i, j \in S : f[i] = f[j] => i = j
    OBVIOUS
  <2>3. ASSUME NEW t \in T PROVE \E i \in S : f[i] = t
    <3>1. t[2] \in 1 .. Len(b) /\ t = <<k, t[2]>> /\ IsAttack(b[t[2]])
      BY <2>3 DEF AttacksOf, AttemptRows, FlowOf
    <3>2. t[2] \in S
      BY <1>1, <3>1
    <3>3. QED
      BY <3>1, <3>2
  <2>4. f \in [S -> T] /\ DOMAIN f = S
    BY <2>1
  <2> HIDE DEF f, T, S
  <2>5. QED
    BY <2>2, <2>3, <2>4 DEF Bijection, Injection, Surjection, IsInjective
<1> HIDE DEF f, T, S
<1>4. ExistsBijection(S, T)
  BY <1>3 DEF ExistsBijection
<1>5. Cardinality(T) = Cardinality(S)
  BY <1>2, <1>4, FS_Bijection
<1>6. QED
  BY <1>5 DEF S, T

LEMMA AlertedInit ==
  ASSUME Init PROVE Alerted
<1>1. n.attacks = 0 /\ ids = {} /\ phase = "open" /\ ~before.taken /\ ~report.verified
  BY DEF Init, NoSummary
<1>2. AttacksOf(ids) = {} /\ Cardinality({}) = 0
  BY <1>1, FS_EmptySet DEF AttacksOf
<1>3. QED
  BY <1>1, <1>2 DEF Alerted, VerifiedCountsAlerts

LEMMA AlertedStep ==
  ASSUME SessionTypeOK, Traced, AlertsWhole, Control, Told, Alerted, [Next]_vars
  PROVE  Alerted'
<1>1. /\ TypeOK /\ rows \subseteq rows' /\ ReqsKept /\ reqs \in Seq(Req)
      /\ before.rows \subseteq rows /\ ids \subseteq rows /\ after.rows \subseteq rows
      /\ before \in Summary /\ after \in Summary /\ n \in Counters /\ report \in Report
  <2>1. TypeOK /\ [DeliveryNext]_deliveryVars
    BY StepDelivers DEF SessionTypeOK
  <2>2. reqs \in Seq(Req)
    BY <2>1 DEF TypeOK, Req
  <2>3. QED
    BY <2>1, <2>2, RowsGrow, StepReqs, ReqsStepKeeps DEF SessionTypeOK, Summary
<1>2. \A r \in rows : SubOf(r)' = SubOf(r) /\ FlowOf(r)' = FlowOf(r)
  BY <1>1, RowsKept DEF TypeOK, ReqsKept, SubOf
<1>3. \A S \in SUBSET rows : AttacksOf(S)' = AttacksOf(S)
  BY <1>2 DEF AttacksOf, IsAttack
<1>4. n'.attacks = Cardinality(AttacksOf(ids)')
  <2>1. CASE Submitted
    <3>1. /\ sender = "wait" /\ phase = "sending" /\ UNCHANGED <<reqs, rows>>
          /\ ids' = ids \cup AttemptRows(current)
          /\ n'.attacks = n.attacks + Cardinality({i \in DOMAIN batch : IsAttack(batch[i])})
      BY <1>1, <2>1 DEF Submitted, Receive, Counters
    <3>2. /\ current \in DOMAIN reqs /\ reqs[current].sub = Len(subs) /\ subs # <<>>
      BY <1>1, <3>1, LenProperties DEF Traced, TypeOK
    <3>3. subs \in Seq(Sub) /\ Len(subs) \in DOMAIN subs /\ Len(subs) > 0
      <4>1. subs \in Seq(Sub)
        BY <1>1 DEF TypeOK, Sub
      <4>2. QED
        BY <3>2, <4>1, EmptySeq, LenProperties
    <3>4. reqs[current].flows = batch /\ batch \in Seq(Flow)
      BY <3>1, <3>2, <3>3 DEF Traced, FromSubmission, Control, SessionTypeOK
    <3>5. subs[Len(subs)].outcome = "pending"
      BY <3>1, <3>3 DEF Traced, AtWork
    <3>6. \A r \in ids : SubOf(r) # Len(subs)
      BY <3>5 DEF Told
    <3>7. ids \cap AttemptRows(current) = {}
      <4>1. \A r \in AttemptRows(current) : SubOf(r) = Len(subs)
        BY <3>2 DEF AttemptRows, SubOf
      <4>2. QED
        BY <3>6, <4>1
    <3>8. AttacksOf(ids)' = AttacksOf(ids) \cup AttacksOf(AttemptRows(current))
      BY <3>1 DEF AttacksOf, FlowOf, IsAttack
    <3>9. /\ IsFiniteSet(AttacksOf(ids)) /\ IsFiniteSet(AttacksOf(AttemptRows(current)))
          /\ AttacksOf(ids) \cap AttacksOf(AttemptRows(current)) = {}
      <4>1. IsFiniteSet(ids) /\ IsFiniteSet(AttemptRows(current))
        BY <1>1, <3>2, AttemptSize, FS_Subset DEF Traced
      <4>2. \A S : AttacksOf(S) \subseteq S
        BY DEF AttacksOf
      <4>3. QED
        BY <3>7, <4>1, <4>2, FS_Subset
    <3>10. Cardinality(AttacksOf(ids)') =
             Cardinality(AttacksOf(ids)) + Cardinality(AttacksOf(AttemptRows(current)))
      BY <3>8, <3>9, DisjointUnion
    <3>11. QED
      BY <1>1, <3>1, <3>2, <3>4, <3>10, AttemptAttacks DEF Alerted
  <2>2. CASE ~Submitted
    <3>1. UNCHANGED ids /\ n'.attacks = n.attacks
      BY <1>1, <2>2 DEF Next, SessionStep, CtrlC, FinalCtrlC, Environment, vars, sessionVars,
         OpenSummary, OpenAlerts, OpenFails, Preflight, PreflightFails, CaptureSegment,
         SchemaIncompatible, CaptureFails, LoopEnds, RowUnique, RowDuplicate, RowRejected,
         RowsFail, EndOfRows, SegmentDone, Submit, Sending, SubmitFails, FinalizeUnverified,
         FinalTotal, FinalAlerts, FinalIds, FinalFails, Close, Counters
    <3>2. AttacksOf(ids)' = AttacksOf(ids)
      BY <1>1, <1>3, <3>1 DEF AttacksOf
    <3>3. QED
      BY <3>1, <3>2 DEF Alerted
  <2>3. QED
    BY <2>1, <2>2
<1>5. before'.taken => \E S \in SUBSET rows' : CountedBefore(S)'
  <2>1. CASE OpenAlerts
    <3>1. /\ before'.alerts = Cardinality(alerts) /\ phase = "openAlerts"
          /\ phase' = "preflight" /\ UNCHANGED <<reqs, rows>>
      BY <1>1, <2>1 DEF OpenAlerts, deliveryVars, Summary
    <3>2. subs = <<>> /\ Len(subs) = 0
      BY <3>1, EmptySeq DEF Control, Opening
    <3>3. \A r \in rows : SubOf(r) = 0
      BY <1>1, <3>2 DEF Traced, FromSubmission, SubOf, TypeOK
    <3>4. before'.alerts = Cardinality(AttacksOf(rows))
      BY <1>1, <3>1, AlertsNumber DEF Traced
    <3>5. PICK S \in SUBSET rows : S = rows
      OBVIOUS
    <3>6. AttacksOf(S)' = AttacksOf(rows)
      BY <1>3, <3>5
    <3>7. CountedBefore(S)'
      BY <1>2, <3>1, <3>3, <3>4, <3>5, <3>6 DEF CountedBefore
    <3>8. QED
      BY <1>1, <3>5, <3>7
  <2>2. CASE ~OpenAlerts /\ before'.taken
    <3>1. before'.taken = before.taken /\ before'.alerts = before.alerts
      <4>1. CASE OpenSummary
        BY <1>1, <4>1 DEF OpenSummary, Summary
      <4>2. CASE OpenFails \/ CtrlC
        <5>1. before' = before \/ before' = NoSummary
          BY <4>2 DEF OpenFails, CtrlC
        <5>2. NoSummary.taken = FALSE
          BY DEF NoSummary
        <5>3. QED
          BY <2>2, <5>1, <5>2
      <4>3. CASE ~OpenSummary /\ ~OpenFails /\ ~CtrlC
        <5>1. UNCHANGED before
          BY <2>2, <4>3 DEF Next, SessionStep, FinalCtrlC, Environment, vars, sessionVars, Preflight,
             PreflightFails, CaptureSegment, SchemaIncompatible, CaptureFails, LoopEnds, RowUnique,
             RowDuplicate, RowRejected, RowsFail, EndOfRows, SegmentDone, Submit, Sending, Submitted,
             SubmitFails, FinalizeUnverified, FinalTotal, FinalAlerts, FinalIds, FinalFails, Close
        <5>2. QED
          BY <5>1
      <4>4. QED
        BY <4>1, <4>2, <4>3
    <3>2. PICK S \in SUBSET rows : CountedBefore(S)
      BY <2>2, <3>1 DEF Alerted
    <3>3. phase' \in {"finalAlerts", "finalIds"} => S \subseteq after'.rows
      <4>1. CASE FinalTotal
        BY <1>1, <4>1 DEF FinalTotal, Summary
      <4>2. CASE FinalAlerts
        BY <1>1, <3>2, <4>2 DEF FinalAlerts, CountedBefore, Summary
      <4>3. CASE ~FinalTotal /\ ~FinalAlerts
        BY <3>2, <4>3, FinalKept DEF CountedBefore
      <4>4. QED
        BY <4>1, <4>2, <4>3
    <3>4. AttacksOf(S)' = AttacksOf(S) /\ \A r \in S : SubOf(r)' = SubOf(r)
      BY <1>2, <1>3
    <3>5. CountedBefore(S)'
      BY <3>1, <3>2, <3>3, <3>4 DEF CountedBefore
    <3>6. QED
      BY <1>1, <3>5
  <2>3. QED
    BY <2>1, <2>2
<1>6. phase' = "finalIds" => \E T \in SUBSET rows' : CountedAfter(T)'
  <2>1. CASE FinalAlerts
    <3>1. after'.alerts = Cardinality(alerts) /\ after'.rows = after.rows /\ UNCHANGED <<reqs, rows>>
      BY <1>1, <2>1 DEF FinalAlerts, deliveryVars, Summary
    <3>2. PICK T \in SUBSET rows : T = rows
      OBVIOUS
    <3>3. after'.alerts = Cardinality(AttacksOf(T)')
      BY <1>1, <1>3, <3>1, <3>2, AlertsNumber DEF Traced
    <3>4. CountedAfter(T)'
      BY <1>1, <3>1, <3>2, <3>3 DEF CountedAfter
    <3>5. QED
      BY <1>1, <3>4
  <2>2. CASE FinalTotal
    BY <2>2 DEF FinalTotal
  <2>3. CASE ~FinalTotal /\ ~FinalAlerts /\ phase' = "finalIds"
    <3>1. UNCHANGED <<phase, after>>
      BY <2>3, FinalKept
    <3>2. PICK T \in SUBSET rows : CountedAfter(T)
      BY <2>3, <3>1 DEF Alerted
    <3>3. AttacksOf(T)' = AttacksOf(T)
      BY <1>3
    <3>4. CountedAfter(T)'
      BY <3>1, <3>2, <3>3 DEF CountedAfter
    <3>5. QED
      BY <1>1, <3>4
  <2>4. QED
    BY <2>1, <2>2, <2>3
<1>7. phase' \in {"finalAlerts", "finalIds"} => before'.taken
  <2>1. CASE FinalTotal \/ FinalAlerts
    BY <2>1 DEF FinalTotal, FinalAlerts, Alerted
  <2>2. CASE ~FinalTotal /\ ~FinalAlerts
    BY <2>2, FinalKept DEF Alerted
  <2>3. QED
    BY <2>1, <2>2
<1>8. VerifiedCountsAlerts'
  <2>1. CASE FinalIds
    <3>1. /\ phase = "finalIds" /\ report'.alertsCreated = Created /\ UNCHANGED n
      BY <1>1, <2>1 DEF FinalIds, Close, Report
    <3>2. PICK S \in SUBSET rows : CountedBefore(S)
      BY <3>1 DEF Alerted
    <3>3. PICK T \in SUBSET rows : CountedAfter(T)
      BY <3>1 DEF Alerted
    <3>4. S \cap ids = {} /\ S \cup ids \subseteq T
      BY <3>1, <3>2, <3>3 DEF CountedBefore, CountedAfter, Told
    <3> DEFINE A == AttacksOf(S)
               B == AttacksOf(ids)
               C == AttacksOf(T)
    <3>5. A \cap B = {} /\ A \cup B \subseteq C /\ A \subseteq rows /\ B \subseteq rows /\ C \subseteq rows
      BY <1>1, <3>4 DEF AttacksOf
    <3>6. before.alerts = Cardinality(A) /\ n.attacks = Cardinality(B) /\ after.alerts = Cardinality(C)
      BY <3>2, <3>3 DEF CountedBefore, CountedAfter, Alerted
    <3> HIDE DEF A, B, C
    <3>7. IsFiniteSet(A) /\ IsFiniteSet(B) /\ IsFiniteSet(C)
      BY <3>5, FS_Subset DEF Traced
    <3>8. Cardinality(A \cup B) = Cardinality(A) + Cardinality(B) /\ Cardinality(A \cup B) <= Cardinality(C)
      BY <3>5, <3>7, DisjointUnion, FS_Subset
    <3>9. Cardinality(A) \in Nat /\ Cardinality(B) \in Nat /\ Cardinality(C) \in Nat
      BY <3>7, FS_CardinalityType
    <3>10. Created >= n.attacks
      BY <3>6, <3>8, <3>9 DEF Created
    <3>11. QED
      BY <3>1, <3>10 DEF VerifiedCountsAlerts
  <2>2. CASE ~FinalIds
    <3>1. report'.verified => report.verified /\ UNCHANGED n /\ report'.alertsCreated = report.alertsCreated
      <4>1. CASE phase = "closed"
        BY <2>2, <4>1 DEF Next, SessionStep, CtrlC, FinalCtrlC, Environment, vars, sessionVars,
           OpenSummary, OpenAlerts, OpenFails, Preflight, PreflightFails, CaptureSegment,
           SchemaIncompatible, CaptureFails, LoopEntered, LoopEnds, RowUnique, RowDuplicate,
           RowRejected, RowsFail, EndOfRows, Reading, SegmentDone, Submit, Sending, Submitted,
           SubmitFails, FinalizeUnverified, FinalTotal, FinalAlerts, FinalFails
      <4>2. CASE phase # "closed"
        <5>1. ~report.verified
          BY <4>2 DEF Control
        <5>2. ~report'.verified
          BY <2>2, <5>1 DEF Next, SessionStep, CtrlC, FinalCtrlC, Environment, vars, sessionVars,
             OpenSummary, OpenAlerts, OpenFails, Preflight, PreflightFails, CaptureSegment,
             SchemaIncompatible, CaptureFails, LoopEnds, RowUnique, RowDuplicate, RowRejected,
             RowsFail, EndOfRows, SegmentDone, Submit, Sending, Submitted, SubmitFails,
             FinalizeUnverified, FinalTotal, FinalAlerts, FinalFails, Close, Fail, SessionTypeOK,
             Report
        <5>3. QED
          BY <5>2
      <4>3. QED
        BY <4>1, <4>2
    <3>2. QED
      BY <3>1 DEF Alerted, VerifiedCountsAlerts
  <2>3. QED
    BY <2>1, <2>2
<1>9. QED
  BY <1>4, <1>5, <1>6, <1>7, <1>8 DEF Alerted

-----------------------------------------------------------------------------
(* What the counters count.                                                *)

LEMMA CounterTypes ==
  ASSUME SessionTypeOK
  PROVE  /\ n.extracted \in Nat /\ n.unique \in Nat /\ n.duplicates \in Nat /\ n.submitted \in Nat
         /\ n.successful \in Nat /\ n.failed \in Nat /\ n.attacks \in Nat
         /\ batch \in Seq(Flow) /\ Len(batch) \in Nat
<1>1. n \in Counters /\ batch \in Seq(Flow)
  BY DEF SessionTypeOK
<1>2. QED
  BY <1>1, LenProperties DEF Counters

\* What each step does to the counters, but for that of the attacks.
LEMMA CountersStep ==
  ASSUME SessionTypeOK, [Next]_vars
  PROVE  \/ \E f \in Flow : RowUnique(f) /\ n' = [n EXCEPT !.extracted = @ + 1, !.unique = @ + 1]
         \/ /\ n' = [n EXCEPT !.extracted = @ + 1, !.duplicates = @ + 1]
            /\ UNCHANGED batch /\ phase = "rows" /\ UNCHANGED phase
         \/ /\ n' = [n EXCEPT !.extracted = @ + 1, !.failed = @ + 1]
            /\ UNCHANGED batch /\ phase = "rows" /\ UNCHANGED phase
         \/ Submit \/ Submitted
         \/ UNCHANGED n /\ (UNCHANGED batch \/ (phase = "capture" /\ phase' = "rows" /\ batch' = <<>>))
  BY DEF Next, SessionStep, CtrlC, FinalCtrlC, Environment, vars, sessionVars, OpenSummary,
     OpenAlerts, OpenFails, Preflight, PreflightFails, CaptureSegment, SchemaIncompatible,
     CaptureFails, LoopEntered, LoopEnds, RowUnique, RowDuplicate, RowRejected, RowsFail, EndOfRows,
     Reading, SegmentDone, Sending, SubmitFails, FinalizeUnverified, FinalTotal, FinalAlerts,
     FinalIds, FinalFails, Close

LEMMA CountedInit ==
  ASSUME Init PROVE Counted
  BY EmptySeq DEF Init, DeliveryInit, Counted

LEMMA CountedStep ==
  ASSUME SessionTypeOK, Traced, Control, Counted, [Next]_vars
  PROVE  Counted'
<1>1. /\ TypeOK /\ [DeliveryNext]_deliveryVars /\ SubsKept /\ subs \in Seq(Sub)
      /\ DOMAIN subs = 1 .. Len(subs) /\ Len(subs) \in Nat
  <2>1. TypeOK /\ [DeliveryNext]_deliveryVars
    BY StepDelivers DEF SessionTypeOK
  <2>2. subs \in Seq(Sub)
    BY <2>1 DEF TypeOK, Sub
  <2>3. QED
    BY <2>1, <2>2, SubsStep, LenProperties
<1>2. n'.extracted = n'.unique + n'.duplicates + n'.failed /\ n'.unique = n'.successful + Len(batch')
  <2>0. n \in Counters
    BY DEF SessionTypeOK
  <2>1. ASSUME NEW f \in Flow, RowUnique(f)
        PROVE  /\ n'.extracted = n'.unique + n'.duplicates + n'.failed
               /\ n'.unique = n'.successful + Len(batch')
    <3>1. Len(batch') = Len(batch) + 1
      BY <2>1, AppendReq, CounterTypes DEF RowUnique
    <3>2. /\ n'.extracted = n.extracted + 1 /\ n'.unique = n.unique + 1
          /\ n'.duplicates = n.duplicates /\ n'.failed = n.failed /\ n'.successful = n.successful
      BY <2>0, <2>1 DEF RowUnique, Counters
    <3>3. n.extracted = n.unique + n.duplicates + n.failed /\ n.unique = n.successful + Len(batch)
      BY DEF Counted
    <3>4. /\ n.extracted \in Nat /\ n.unique \in Nat /\ n.duplicates \in Nat
          /\ n.successful \in Nat /\ n.failed \in Nat /\ Len(batch) \in Nat
      BY CounterTypes
    <3>5. n'.extracted = n'.unique + n'.duplicates + n'.failed
      BY <3>2, <3>3, <3>4, SMTT(30)
    <3>6. n'.unique = n'.successful + Len(batch')
      BY <3>1, <3>2, <3>3, <3>4, SMTT(30)
    <3>7. QED
      BY <3>5, <3>6
  <2>2. CASE n' = [n EXCEPT !.extracted = @ + 1, !.duplicates = @ + 1] /\ UNCHANGED batch
    BY <2>0, <2>2, CounterTypes, SMTT(30) DEF Counters, Counted
  <2>3. CASE n' = [n EXCEPT !.extracted = @ + 1, !.failed = @ + 1] /\ UNCHANGED batch
    BY <2>0, <2>3, CounterTypes, SMTT(30) DEF Counters, Counted
  <2>4. CASE Submit
    BY <2>0, <2>4, SMTT(30) DEF Submit, Counters, Counted
  <2>5. CASE Submitted
    <3>1. Len(batch') = 0
      BY <2>5, EmptySeq DEF Submitted
    <3>2. /\ n'.extracted = n.extracted /\ n'.unique = n.unique /\ n'.duplicates = n.duplicates
          /\ n'.failed = n.failed /\ n'.successful = n.successful + Len(batch)
      BY <2>0, <2>5 DEF Submitted, Counters
    <3>3. QED
      BY <3>1, <3>2, CounterTypes DEF Counted
  <2>6. CASE UNCHANGED n /\ (UNCHANGED batch \/ (phase = "capture" /\ batch' = <<>>))
    BY <2>6 DEF Counted, Control
  <2>7. QED
    BY <2>1, <2>2, <2>3, <2>4, <2>5, <2>6, CountersStep
<1>3. faults' = {} /\ phase' \notin {"rows", "sending"} => batch' = <<>>
  <2>1. faults' = {} /\ phase' \notin {"rows", "sending"} /\ batch # <<>> =>
          faults = {} /\ phase \notin {"rows", "sending"}
    BY DEF Next, SessionStep, CtrlC, FinalCtrlC, Environment, vars, sessionVars, OpenSummary,
       OpenAlerts, OpenFails, Preflight, PreflightFails, CaptureSegment, SchemaIncompatible,
       CaptureFails, LoopEntered, LoopEnds, RowUnique, RowDuplicate, RowRejected, RowsFail,
       EndOfRows, Reading, SegmentDone, Submit, Sending, Submitted, SubmitFails,
       FinalizeUnverified, FinalTotal, FinalAlerts, FinalIds, FinalFails, Close, Fail, Recorded
  <2>2. phase' \notin {"rows", "sending"} => UNCHANGED batch
    BY CountersStep DEF RowUnique, Reading, Submit, Submitted
  <2>3. QED
    BY <2>1, <2>2 DEF Counted
<1>4. faults' = {} => \A s \in DOMAIN subs' : subs'[s].outcome \in {"pending", "delivered"}
  <2>1. faults' = {} => faults = {}
    BY DEF Next, SessionStep, CtrlC, FinalCtrlC, Environment, vars, sessionVars, OpenSummary,
       OpenAlerts, OpenFails, Preflight, PreflightFails, CaptureSegment, SchemaIncompatible,
       CaptureFails, LoopEnds, RowUnique, RowDuplicate, RowRejected, RowsFail,
       EndOfRows, SegmentDone, Submit, Sending, Submitted, SubmitFails,
       FinalizeUnverified, FinalTotal, FinalAlerts, FinalIds, FinalFails, Close, Fail, Recorded
  <2>2. faults' = {} => UNCHANGED subs \/ BeginSend(batch) \/ (Ended("delivered") /\ sender # "idle")
    BY DEF Next, SessionStep, CtrlC, FinalCtrlC, Environment, vars, sessionVars, OpenSummary,
       OpenAlerts, OpenFails, Preflight, PreflightFails, CaptureSegment, SchemaIncompatible,
       CaptureFails, LoopEnds, RowUnique, RowDuplicate, RowRejected, RowsFail,
       EndOfRows, SegmentDone, Submit, Sending, Submitted, SubmitFails, Post, RetryLater, Receive,
       FinalizeUnverified, FinalTotal, FinalAlerts, FinalIds, FinalFails, Close, Fail, Recorded,
       ApiStep, Commit, Drop, OtherClient, deliveryVars
  <2>3. ASSUME faults' = {}, UNCHANGED subs
        PROVE  \A s \in DOMAIN subs' : subs'[s].outcome \in {"pending", "delivered"}
    BY <2>1, <2>3 DEF Counted
  <2>4. ASSUME faults' = {}, BeginSend(batch)
        PROVE  \A s \in DOMAIN subs' : subs'[s].outcome \in {"pending", "delivered"}
    <3>1. /\ DOMAIN subs' = 1 .. Len(subs) + 1
          /\ subs'[Len(subs) + 1] = [flows |-> batch, outcome |-> "pending"]
          /\ \A s \in DOMAIN subs : subs'[s] = subs[s]
      BY <1>1, <2>4, CounterTypes, BeginSubs
    <3>2. \A s \in DOMAIN subs : subs[s].outcome \in {"pending", "delivered"}
      BY <2>1, <2>4 DEF Counted
    <3>3. QED
      BY <1>1, <3>1, <3>2
  <2>5. ASSUME faults' = {}, Ended("delivered"), sender # "idle"
        PROVE  \A s \in DOMAIN subs' : subs'[s].outcome \in {"pending", "delivered"}
    <3>1. subs # <<>>
      BY <1>1, <2>5 DEF TypeOK
    <3>2. Len(subs') = Len(subs) /\ subs'[Len(subs)].outcome = "delivered" /\ subs' \in Seq(Sub)
      BY <1>1, <2>5, <3>1, EndedSubs DEF Outcome, SubsKept
    <3>3. DOMAIN subs' = DOMAIN subs
      BY <1>1, <3>2, LenProperties
    <3>4. \A s \in DOMAIN subs : s # Len(subs) => subs'[s] = subs[s]
      BY <1>1 DEF SubsKept
    <3>5. \A s \in DOMAIN subs : subs[s].outcome \in {"pending", "delivered"}
      BY <2>1, <2>5 DEF Counted
    <3>6. QED
      BY <3>2, <3>3, <3>4, <3>5
  <2>6. QED
    BY <2>2, <2>3, <2>4, <2>5
<1>5. report'.status = "completed" => n'.failed = 0
  <2>1. CASE FinalizeUnverified \/ FinalIds \/ FinalFails
    BY <2>1 DEF FinalizeUnverified, FinalIds, FinalFails, Close, Passed, SessionTypeOK, Report
  <2>2. CASE ~(FinalizeUnverified \/ FinalIds \/ FinalFails)
    <3>1. report'.status = report.status
      BY <2>2 DEF Next, SessionStep, CtrlC, FinalCtrlC, Environment, vars, sessionVars,
         OpenSummary, OpenAlerts, OpenFails, Preflight, PreflightFails, CaptureSegment,
         SchemaIncompatible, CaptureFails, LoopEnds, RowUnique, RowDuplicate, RowRejected,
         RowsFail, EndOfRows, SegmentDone, Submit, Sending, Submitted, SubmitFails,
         FinalTotal, FinalAlerts, Fail, SessionTypeOK, Report
    <3>2. phase = "closed" => UNCHANGED n
      BY CountersStep DEF Submit, Submitted, RowUnique, Reading
    <3>3. QED
      BY <3>1, <3>2 DEF Control, Counted
  <2>3. QED
    BY <2>1, <2>2
<1>6. QED
  BY <1>2, <1>3, <1>4, <1>5 DEF Counted

-----------------------------------------------------------------------------
(* Where the submissions lie.                                              *)

\* A step that submits nothing leaves every submission its flows.
LEMMA FlowsKept ==
  ASSUME SessionTypeOK, [Next]_vars, ~Submit
  PROVE  /\ UNCHANGED start /\ Len(subs') = Len(subs) /\ DOMAIN subs' = DOMAIN subs
         /\ \A s \in DOMAIN subs : subs'[s].flows = subs[s].flows
<1>1. TypeOK /\ subs \in Seq(Sub)
  BY DEF SessionTypeOK, TypeOK, Sub
<1>2. UNCHANGED start
  BY DEF Next, SessionStep, CtrlC, FinalCtrlC, Environment, vars, sessionVars, OpenSummary,
     OpenAlerts, OpenFails, Preflight, PreflightFails, CaptureSegment, SchemaIncompatible,
     CaptureFails, LoopEnds, RowUnique, RowDuplicate, RowRejected, RowsFail,
     EndOfRows, SegmentDone, Sending, Submitted, SubmitFails,
     FinalizeUnverified, FinalTotal, FinalAlerts, FinalIds, FinalFails, Close
<1>3. UNCHANGED subs \/ \E o \in Outcome : Ended(o) /\ sender # "idle"
  BY DEF Next, SessionStep, CtrlC, FinalCtrlC, Environment, vars, OpenSummary,
     OpenAlerts, OpenFails, Preflight, PreflightFails, CaptureSegment, SchemaIncompatible,
     CaptureFails, LoopEnds, RowUnique, RowDuplicate, RowRejected, RowsFail,
     EndOfRows, SegmentDone, Sending, Submitted, SubmitFails, Post, RetryLater, Receive, GiveUp,
     FinalizeUnverified, FinalTotal, FinalAlerts, FinalIds, FinalFails, Close,
     ApiStep, Commit, Drop, OtherClient, InterruptSend, Outcome, deliveryVars
<1>4. CASE UNCHANGED subs
  BY <1>2, <1>4
<1>5. ASSUME NEW o \in Outcome, Ended(o), sender # "idle"
      PROVE  /\ Len(subs') = Len(subs) /\ DOMAIN subs' = DOMAIN subs
             /\ \A s \in DOMAIN subs : subs'[s].flows = subs[s].flows
  <2>1. subs # <<>>
    BY <1>1, <1>5 DEF TypeOK
  <2>2. SubsKept /\ Len(subs') = Len(subs)
    BY <1>1, <1>5, <2>1, EndedSubs
  <2>3. subs' \in Seq(Sub)
    BY <2>2 DEF SubsKept
  <2>4. DOMAIN subs' = DOMAIN subs
    BY <1>1, <2>2, <2>3, LenProperties
  <2>5. QED
    BY <2>2, <2>4 DEF SubsKept
<1>6. QED
  BY <1>2, <1>3, <1>4, <1>5

LEMMA SubmitFacts ==
  ASSUME SessionTypeOK, Laid, Submit
  PROVE  /\ DOMAIN subs' = 1 .. Len(subs) + 1 /\ DOMAIN subs = 1 .. Len(subs)
         /\ Len(subs') = Len(subs) + 1 /\ Len(start') = Len(subs) + 1
         /\ Len(subs) \in Nat
         /\ \A s \in 1 .. Len(subs) : subs'[s] = subs[s] /\ start'[s] = start[s]
         /\ subs'[Len(subs) + 1].flows = batch /\ start'[Len(subs) + 1] = n.submitted
         /\ n'.submitted = n.submitted + Len(batch) /\ n'.unique = n.unique
         /\ phase = "rows" /\ phase' = "sending" /\ UNCHANGED <<batch, seen>>
<1>1. BeginSend(batch) /\ batch \in Seq(Flow) /\ subs \in Seq(Sub) /\ n \in Counters
  BY DEF Submit, SessionTypeOK, TypeOK, Sub
<1>2. /\ DOMAIN subs' = 1 .. Len(subs) + 1 /\ DOMAIN subs = 1 .. Len(subs)
      /\ Len(subs') = Len(subs) + 1 /\ \A s \in DOMAIN subs : subs'[s] = subs[s]
      /\ subs'[Len(subs) + 1] = [flows |-> batch, outcome |-> "pending"]
  BY <1>1, BeginSubs
<1>3. /\ Len(start') = Len(start) + 1 /\ start'[Len(start) + 1] = n.submitted
      /\ \A s \in 1 .. Len(start) : start'[s] = start[s]
  BY CounterTypes, AppendReq DEF Submit, SessionTypeOK
<1>4. Len(start) = Len(subs) /\ Len(subs) \in Nat
  BY <1>1, LenProperties DEF Laid
<1>5. n'.submitted = n.submitted + Len(batch) /\ n'.unique = n.unique
  BY <1>1 DEF Submit, Counters
<1>6. QED
  BY <1>2, <1>3, <1>4, <1>5 DEF Submit

LEMMA SubmissionTypes ==
  ASSUME SessionTypeOK, Laid, NEW s \in DOMAIN subs
  PROVE  /\ s \in 1 .. Len(subs) /\ Len(subs) \in Nat /\ start[s] \in Nat
         /\ subs[s].flows \in Seq(Flow) /\ Len(subs[s].flows) \in Nat
         /\ DOMAIN subs[s].flows = 1 .. Len(subs[s].flows)
<1>1. subs \in Seq(Sub) /\ start \in Seq(Nat) /\ Len(start) = Len(subs)
  BY DEF SessionTypeOK, TypeOK, Sub, Laid
<1>2. s \in 1 .. Len(subs) /\ Len(subs) \in Nat
  BY <1>1, LenProperties
<1>3. start[s] \in Nat
  BY <1>1, <1>2, ElementOfSeq
<1>4. subs[s] \in Sub
  BY <1>1, <1>2, ElementOfSeq
<1>5. subs[s].flows \in Seq(Flow)
  BY <1>4 DEF Sub
<1>6. QED
  BY <1>2, <1>3, <1>5, LenProperties

\* Only a new unique row is counted and remembered as one, and only Submit
\* submits.
LEMMA UniqueStep ==
  ASSUME SessionTypeOK, [Next]_vars
  PROVE  /\ ~Submit => n'.submitted = n.submitted
         /\ \/ \E f \in Flow : RowUnique(f) /\ n'.unique = n.unique + 1
            \/ n'.unique = n.unique /\ UNCHANGED seen
<1>t. n \in Counters /\ n.unique \in Nat
  BY CounterTypes DEF SessionTypeOK
<1>1. ASSUME NEW f \in Flow, RowUnique(f)
      PROVE  n'.submitted = n.submitted /\ n'.unique = n.unique + 1
  BY <1>t, <1>1 DEF RowUnique, Counters
<1>2. ASSUME Submitted \/ Submit
      PROVE  (~Submit => n'.submitted = n.submitted) /\ n'.unique = n.unique
  BY <1>t, <1>2 DEF Submitted, Submit, Counters
<1>3. ASSUME n' = [n EXCEPT !.extracted = @ + 1, !.duplicates = @ + 1]
      PROVE  n'.submitted = n.submitted /\ n'.unique = n.unique
  BY <1>t, <1>3 DEF Counters
<1>f. ASSUME n' = [n EXCEPT !.extracted = @ + 1, !.failed = @ + 1]
      PROVE  n'.submitted = n.submitted /\ n'.unique = n.unique
  BY <1>t, <1>f DEF Counters
<1>4. (\E f \in Flow : RowUnique(f)) \/ UNCHANGED seen
  BY DEF Next, SessionStep, CtrlC, FinalCtrlC, Environment, vars, sessionVars, OpenSummary,
     OpenAlerts, OpenFails, Preflight, PreflightFails, CaptureSegment, SchemaIncompatible,
     CaptureFails, LoopEnds, RowDuplicate, RowRejected, RowsFail, EndOfRows, SegmentDone, Submit,
     Sending, Submitted, SubmitFails, FinalizeUnverified, FinalTotal, FinalAlerts, FinalIds,
     FinalFails, Close
<1>5. QED
  BY <1>1, <1>2, <1>3, <1>f, <1>4, CountersStep

LEMMA LaidInit ==
  ASSUME Init PROVE Laid
  BY EmptySeq DEF Init, DeliveryInit, Laid

LEMMA LaidStep ==
  ASSUME SessionTypeOK, Control, Laid, [Next]_vars
  PROVE  Laid'
<1>t. /\ n.submitted \in Nat /\ n.unique \in Nat /\ Len(batch) \in Nat /\ n \in Counters
  BY CounterTypes DEF SessionTypeOK
<1>1. CASE Submit
  <2> DEFINE new == Len(subs) + 1
  <2>1. /\ DOMAIN subs' = 1 .. Len(subs) + 1 /\ DOMAIN subs = 1 .. Len(subs)
        /\ Len(subs') = Len(subs) + 1 /\ Len(start') = Len(subs) + 1 /\ Len(subs) \in Nat
        /\ \A s \in 1 .. Len(subs) : subs'[s] = subs[s] /\ start'[s] = start[s]
        /\ subs'[Len(subs) + 1].flows = batch /\ start'[Len(subs) + 1] = n.submitted
        /\ n'.submitted = n.submitted + Len(batch) /\ n'.unique = n.unique
        /\ phase = "rows" /\ phase' = "sending"
    BY <1>1, SubmitFacts
  <2>2. n.unique = n.submitted + Len(batch)
    BY <2>1 DEF Laid
  <2>3. \A s \in DOMAIN subs' : start'[s] + Len(subs'[s].flows) <= n'.submitted
    <3>1. TAKE s \in DOMAIN subs'
    <3>2. CASE s \in DOMAIN subs
      <4>1. start[s] + Len(subs[s].flows) <= n.submitted /\ start[s] + Len(subs[s].flows) \in Nat
        BY <3>2, SubmissionTypes DEF Laid
      <4>2. start'[s] + Len(subs'[s].flows) = start[s] + Len(subs[s].flows)
        BY <2>1, <3>2
      <4>3. QED
        BY <1>t, <2>1, <4>1, <4>2
    <3>3. CASE s = Len(subs) + 1
      BY <1>t, <2>1, <3>3
    <3>4. QED
      BY <2>1, <3>2, <3>3
  <2>4. \A s, t \in DOMAIN subs' : s < t => start'[s] + Len(subs'[s].flows) <= start'[t]
    <3>1. TAKE s, t \in DOMAIN subs'
    <3>2. HAVE s < t
    <3>3. s \in DOMAIN subs
      BY <2>1, <3>2
    <3>4. start'[s] + Len(subs'[s].flows) = start[s] + Len(subs[s].flows)
      BY <2>1, <3>3
    <3>5. CASE t \in DOMAIN subs
      <4>1. start'[t] = start[t]
        BY <2>1, <3>5
      <4>2. QED
        BY <3>2, <3>3, <3>4, <3>5, <4>1 DEF Laid
    <3>6. CASE t = Len(subs) + 1
      <4>1. start'[t] = n.submitted
        BY <2>1, <3>6
      <4>2. QED
        BY <3>3, <3>4, <4>1 DEF Laid
    <3>7. QED
      BY <2>1, <3>5, <3>6
  <2>5. Len(start') = Len(subs') /\ n'.submitted <= n'.unique /\ n'.unique = n'.submitted
    BY <1>t, <2>1, <2>2
  <2>6. QED
    BY <2>1, <2>3, <2>4, <2>5 DEF Laid, Opening
<1>2. CASE ~Submit
  <2>1. /\ UNCHANGED start /\ Len(subs') = Len(subs) /\ DOMAIN subs' = DOMAIN subs
        /\ \A s \in DOMAIN subs : subs'[s].flows = subs[s].flows
    BY <1>2, FlowsKept
  <2>2. n'.submitted = n.submitted /\ (n'.unique = n.unique \/ n'.unique = n.unique + 1)
    BY <1>2, UniqueStep
  <2>3. phase' \in Opening \cup {"capture", "rows"} => n'.unique = n'.submitted + Len(batch')
    <3>1. ASSUME NEW f \in Flow, RowUnique(f) PROVE n'.unique = n'.submitted + Len(batch')
      <4>1. Len(batch') = Len(batch) + 1
        BY <3>1, AppendReq, CounterTypes DEF RowUnique
      <4>2. n'.unique = n.unique + 1
        BY <1>t, <3>1 DEF RowUnique, Counters
      <4>3. n.unique = n.submitted + Len(batch)
        BY <3>1 DEF RowUnique, Reading, Laid
      <4>4. n'.submitted = n.submitted /\ n.submitted \in Nat /\ Len(batch) \in Nat
        BY <1>t, <2>2
      <4>5. QED
        BY <4>1, <4>2, <4>3, <4>4
    <3>2. CASE Submitted
      <4>1. Len(batch') = 0 /\ phase = "sending"
        BY <3>2, EmptySeq DEF Submitted
      <4>2. n'.unique = n.unique
        BY <1>t, <3>2 DEF Submitted, Counters
      <4>3. QED
        BY <1>t, <2>2, <4>1, <4>2 DEF Laid
    <3>3. ASSUME ~Submitted, \A f \in Flow : ~RowUnique(f),
                 phase' \in Opening \cup {"capture", "rows"}
          PROVE  n'.unique = n'.submitted + Len(batch')
      <4>1. n'.unique = n.unique /\ (UNCHANGED batch \/ (phase = "capture" /\ batch' = <<>>))
        BY <1>2, <1>t, <3>3, CountersStep DEF Counters
      <4>2. Len(batch') = Len(batch)
        BY <4>1 DEF Control
      <4>3. phase \in Opening \cup {"capture", "rows"}
        BY <1>2, <3>3 DEF Opening, Next, SessionStep, CtrlC, FinalCtrlC, Environment, vars,
           sessionVars, OpenSummary, OpenAlerts, OpenFails, Preflight, PreflightFails,
           CaptureSegment, SchemaIncompatible, CaptureFails, LoopEntered, LoopEnds, RowUnique,
           RowDuplicate, RowRejected, RowsFail, EndOfRows, Reading, SegmentDone, Sending,
           SubmitFails, FinalizeUnverified, FinalTotal, FinalAlerts, FinalIds, FinalFails, Close,
           Fail, Recorded
      <4>4. QED
        BY <2>2, <4>1, <4>2, <4>3 DEF Laid
    <3>4. QED
      BY <3>1, <3>2, <3>3
  <2>4. phase' = "sending" => n'.unique = n'.submitted
    <3>1. phase' = "sending" => phase = "sending" /\ UNCHANGED n
      BY <1>2 DEF Next, SessionStep, CtrlC, FinalCtrlC, Environment, vars,
         sessionVars, OpenSummary, OpenAlerts, OpenFails, Preflight, PreflightFails,
         CaptureSegment, SchemaIncompatible, CaptureFails, LoopEntered, LoopEnds, RowUnique,
         RowDuplicate, RowRejected, RowsFail, EndOfRows, Reading, SegmentDone, Sending, Submitted,
         SubmitFails, FinalizeUnverified, FinalTotal, FinalAlerts, FinalIds, FinalFails, Close,
         Fail, Recorded
    <3>2. QED
      BY <3>1 DEF Laid
  <2>5. n'.submitted <= n'.unique
    <3>1. n.submitted <= n.unique
      BY DEF Laid
    <3>2. QED
      BY <1>t, <2>2, <3>1
  <2>6. QED
    BY <2>1, <2>2, <2>3, <2>4, <2>5 DEF Laid
<1>3. QED
  BY <1>1, <1>2

-----------------------------------------------------------------------------
(* How far apart equal flows are.                                          *)

LEMMA PlaceRange ==
  ASSUME SessionTypeOK, Laid, NEW p, NEW f, PlacedAt(p, f)
  PROVE  p \in 1 .. n.unique /\ f \in Flow
<1>t. n.submitted \in Nat /\ n.unique \in Nat /\ n.submitted <= n.unique /\ batch \in Seq(Flow)
  BY CounterTypes DEF Laid
<1>1. ASSUME NEW s \in DOMAIN subs, NEW i \in DOMAIN subs[s].flows,
             p = start[s] + i, f = subs[s].flows[i]
      PROVE  p \in 1 .. n.unique /\ f \in Flow
  <2>1. /\ start[s] \in Nat /\ subs[s].flows \in Seq(Flow) /\ Len(subs[s].flows) \in Nat
        /\ i \in 1 .. Len(subs[s].flows)
    BY SubmissionTypes
  <2>2. start[s] + Len(subs[s].flows) <= n.submitted
    BY DEF Laid
  <2>3. subs[s].flows[i] \in Flow
    BY <2>1, ElementOfSeq
  <2>4. QED
    BY <1>t, <1>1, <2>1, <2>2, <2>3, SMTT(30)
<1>2. ASSUME phase = "rows", NEW i \in DOMAIN batch, p = n.submitted + i, f = batch[i]
      PROVE  p \in 1 .. n.unique /\ f \in Flow
  <2>1. i \in 1 .. Len(batch) /\ Len(batch) \in Nat
    BY <1>t, LenProperties
  <2>2. n.unique = n.submitted + Len(batch)
    BY <1>2 DEF Laid
  <2>3. QED
    BY <1>t, <1>2, <2>1, <2>2, ElementOfSeq
<1>3. QED
  BY <1>1, <1>2 DEF PlacedAt

\* A step places at most the row it finds unique, after all others.
LEMMA PlacesStep ==
  ASSUME SessionTypeOK, Control, Laid, [Next]_vars, NEW p, NEW f, PlacedAt(p, f)'
  PROVE  PlacedAt(p, f) \/ (RowUnique(f) /\ p = n.unique + 1)
<1>t. n.submitted \in Nat /\ n.unique \in Nat /\ batch \in Seq(Flow) /\ Len(batch) \in Nat
  BY CounterTypes
<1>1. CASE Submit
  <2>1. /\ DOMAIN subs' = 1 .. Len(subs) + 1 /\ DOMAIN subs = 1 .. Len(subs)
        /\ \A s \in 1 .. Len(subs) : subs'[s] = subs[s] /\ start'[s] = start[s]
        /\ subs'[Len(subs) + 1].flows = batch /\ start'[Len(subs) + 1] = n.submitted
        /\ phase = "rows" /\ phase' = "sending" /\ Len(subs) \in Nat
    BY <1>1, SubmitFacts
  <2>2. PICK s \in DOMAIN subs' : \E i \in DOMAIN subs'[s].flows :
          p = start'[s] + i /\ f = subs'[s].flows[i]
    BY <2>1 DEF PlacedAt
  <2>3. CASE s \in 1 .. Len(subs)
    <3>1. s \in DOMAIN subs /\ subs'[s] = subs[s] /\ start'[s] = start[s]
      BY <2>1, <2>3
    <3>2. QED
      BY <2>2, <3>1 DEF PlacedAt
  <2>4. CASE s = Len(subs) + 1
    BY <2>1, <2>2, <2>4 DEF PlacedAt
  <2>5. QED
    BY <2>1, <2>3, <2>4
<1>2. CASE ~Submit
  <2>1. CASE \E s \in DOMAIN subs' : \E i \in DOMAIN subs'[s].flows :
               p = start'[s] + i /\ f = subs'[s].flows[i]
    BY <1>2, <2>1, FlowsKept DEF PlacedAt
  <2>2. CASE phase' = "rows" /\ \E i \in DOMAIN batch' : p = n'.submitted + i /\ f = batch'[i]
    <3>1. PICK i \in DOMAIN batch' : p = n'.submitted + i /\ f = batch'[i]
      BY <2>2
    <3>2. n'.submitted = n.submitted
      BY <1>2, UniqueStep
    <3>3. ASSUME NEW g \in Flow, RowUnique(g)
          PROVE  PlacedAt(p, f) \/ (RowUnique(f) /\ p = n.unique + 1)
      <4>1. phase = "rows" /\ batch' = Append(batch, g)
        BY <3>3 DEF RowUnique, Reading
      <4>2. /\ DOMAIN batch' = 1 .. Len(batch) + 1 /\ DOMAIN batch = 1 .. Len(batch)
            /\ batch'[Len(batch) + 1] = g /\ \A k \in 1 .. Len(batch) : batch'[k] = batch[k]
        BY <1>t, <4>1, AppendReq
      <4>3. CASE i \in DOMAIN batch
        <5>1. batch'[i] = batch[i]
          BY <4>2, <4>3
        <5>2. QED
          BY <3>1, <3>2, <4>1, <4>3, <5>1 DEF PlacedAt
      <4>4. CASE i = Len(batch) + 1
        <5>1. n.unique = n.submitted + Len(batch)
          BY <4>1 DEF Laid
        <5>2. p = n.submitted + (Len(batch) + 1) /\ f = g
          BY <3>1, <3>2, <4>2, <4>4
        <5>3. p = n.unique + 1
          BY <1>t, <5>1, <5>2, SMTT(30)
        <5>4. QED
          BY <3>3, <5>2, <5>3
      <4>5. QED
        BY <1>t, <4>2, <4>3, <4>4
    <3>4. ASSUME \A g \in Flow : ~RowUnique(g) PROVE PlacedAt(p, f)
      <4>1. batch' # <<>>
        BY <3>1, EmptySeq
      <4>2. phase = "rows" /\ UNCHANGED batch
        BY <1>2, <2>2, <3>4, <4>1 DEF Next, SessionStep, CtrlC, FinalCtrlC, Environment, vars,
           sessionVars, OpenSummary, OpenAlerts, OpenFails, Preflight, PreflightFails,
           CaptureSegment, SchemaIncompatible, CaptureFails, LoopEntered, LoopEnds,
           RowDuplicate, RowRejected, RowsFail, EndOfRows, Reading, SegmentDone, Sending,
           Submitted, SubmitFails, FinalizeUnverified, FinalTotal, FinalAlerts, FinalIds,
           FinalFails, Close, Fail, Recorded
      <4>3. QED
        BY <3>1, <3>2, <4>2 DEF PlacedAt
    <3>5. QED
      BY <3>3, <3>4
  <2>3. QED
    BY <2>1, <2>2 DEF PlacedAt
<1>3. QED
  BY <1>1, <1>2

LEMMA SpreadInit ==
  ASSUME Init PROVE Spread
<1>1. n.unique = 0 /\ Len(seen) = 0
  BY EmptySeq DEF Init
<1>2. QED
  BY <1>1 DEF Spread, Forgotten

LEMMA SpreadStep ==
  ASSUME SessionTypeOK, Control, Laid, Laid', SessionTypeOK', Spread, [Next]_vars
  PROVE  Spread'
<1>t. /\ n.unique \in Nat /\ seen \in Seq(Flow) /\ Len(seen) \in Nat /\ Len(seen) <= DedupCapacity
      /\ DedupCapacity \in Nat \ {0}
  BY CounterTypes, LenProperties, SessionAssumption DEF SessionTypeOK
<1>s. /\ Forgotten \in Nat /\ (Forgotten > 0 => Len(seen) = DedupCapacity)
      /\ Forgotten = n.unique - Len(seen)
  BY DEF Spread, Forgotten
<1>1. ASSUME NEW g \in Flow, RowUnique(g), n'.unique = n.unique + 1 PROVE Spread'
  <2>1. /\ seen' \in Seq(Flow)
        /\ Len(seen') = IF Len(seen) = DedupCapacity THEN Len(seen) ELSE Len(seen) + 1
        /\ seen'[Len(seen')] = g
        /\ Len(seen) = DedupCapacity => \A i \in 1 .. Len(seen) - 1 : seen'[i] = seen[i + 1]
        /\ Len(seen) # DedupCapacity => \A i \in 1 .. Len(seen) : seen'[i] = seen[i]
    BY <1>1, <1>t, RememberBounded DEF RowUnique
  <2>2. /\ Forgotten' = IF Len(seen) = DedupCapacity THEN Forgotten + 1 ELSE Forgotten
        /\ Forgotten' \in Nat /\ (Forgotten' > 0 => Len(seen') = DedupCapacity)
        /\ n'.unique - Forgotten' = Len(seen')
    BY <1>1, <1>t, <1>s, <2>1 DEF Forgotten
  <2>3. ~PlacedAt(n.unique + 1, g)
    BY <1>t, PlaceRange
  <2>4. ASSUME NEW p \in 1 .. n'.unique, NEW f \in Flow, PlacedAt(p, f)'
        PROVE  (p \in 1 .. n.unique /\ PlacedAt(p, f)) \/ (p = n.unique + 1 /\ f = g)
    <3>1. RowUnique(f) => f = g
      <4>1. RowUnique(f) => Append(batch, f) = Append(batch, g)
        BY <1>1 DEF RowUnique
      <4>2. batch \in Seq(Flow)
        BY CounterTypes
      <4>3. Append(batch, f)[Len(batch) + 1] = f /\ Append(batch, g)[Len(batch) + 1] = g
        BY <4>2, AppendReq
      <4>4. QED
        BY <4>1, <4>3
    <3>2. QED
      BY <2>4, <3>1, PlacesStep, PlaceRange
  <2>5. ASSUME NEW p \in 1 .. n.unique, NEW f \in Flow, PlacedAt(p, f), p > Forgotten'
        PROVE  seen'[p - Forgotten'] = f
    <3>1. seen[p - Forgotten] = f /\ p > Forgotten
      BY <1>s, <2>2, <2>5 DEF Spread
    <3>2. CASE Len(seen) = DedupCapacity
      <4>1. Forgotten' = Forgotten + 1
        BY <2>2, <3>2
      <4>2. p - Forgotten' \in 1 .. Len(seen) - 1 /\ p - Forgotten' + 1 = p - Forgotten
        <5>1. p > Forgotten + 1
          BY <2>5, <4>1
        <5>2. p - (Forgotten + 1) \in 1 .. Len(seen) - 1 /\ p - (Forgotten + 1) + 1 = p - Forgotten
          BY <1>t, <1>s, <5>1, SMTT(30)
        <5>3. QED
          BY <4>1, <5>2
      <4>3. QED
        BY <2>1, <3>1, <3>2, <4>2
    <3>3. CASE Len(seen) # DedupCapacity
      <4>1. Forgotten' = Forgotten
        BY <2>2, <3>3
      <4>2. p - Forgotten \in 1 .. Len(seen)
        BY <1>t, <1>s, <3>1, SMTT(30)
      <4>3. QED
        BY <2>1, <3>1, <3>3, <4>1, <4>2
    <3>4. QED
      BY <3>2, <3>3
  <2>6. ASSUME NEW p \in 1 .. n'.unique, NEW f \in Flow, PlacedAt(p, f)', p > Forgotten'
        PROVE  seen'[p - Forgotten'] = f
    BY <1>1, <2>1, <2>2, <2>4, <2>5, <2>6
  <2>7. ASSUME NEW p \in 1 .. n.unique, PlacedAt(p, g) PROVE n.unique + 1 > p + DedupCapacity
    <3>1. ~(p > Forgotten)
      <4>1. SUFFICES ASSUME p > Forgotten PROVE FALSE
        OBVIOUS
      <4>2. seen[p - Forgotten] = g
        BY <2>7, <4>1 DEF Spread
      <4>3. p - Forgotten \in 1 .. Len(seen)
        BY <1>t, <1>s, <4>1, SMTT(30)
      <4>4. Known(g)
        BY <1>t, <4>2, <4>3, LenProperties DEF Known
      <4>5. QED
        BY <1>1, <4>4 DEF RowUnique
    <3>2. QED
      BY <1>t, <1>s, <3>1
  <2>8. ASSUME NEW p \in 1 .. n'.unique, NEW q \in 1 .. n'.unique, NEW f \in Flow,
               PlacedAt(p, f)', PlacedAt(q, f)', p < q
        PROVE  q > p + DedupCapacity
    <3>1. (p \in 1 .. n.unique /\ PlacedAt(p, f)) \/ (p = n.unique + 1 /\ f = g)
      BY <2>4, <2>8
    <3>2. (q \in 1 .. n.unique /\ PlacedAt(q, f)) \/ (q = n.unique + 1 /\ f = g)
      BY <2>4, <2>8
    <3>3. p \in 1 .. n.unique /\ PlacedAt(p, f)
      BY <1>1, <1>t, <2>8, <3>1
    <3>4. CASE q \in 1 .. n.unique /\ PlacedAt(q, f)
      BY <2>8, <3>3, <3>4 DEF Spread
    <3>5. CASE q = n.unique + 1 /\ f = g
      BY <2>7, <3>3, <3>5
    <3>6. QED
      BY <3>2, <3>4, <3>5
  <2>9. QED
    BY <2>2, <2>6, <2>8 DEF Spread
<1>2. CASE n'.unique = n.unique /\ UNCHANGED seen
  <2>1. Forgotten' = Forgotten
    BY <1>2 DEF Forgotten
  <2>2. ASSUME NEW p \in 1 .. n.unique, NEW f \in Flow, PlacedAt(p, f)' PROVE PlacedAt(p, f)
    <3>1. p # n.unique + 1
      BY <1>t
    <3>2. QED
      BY <2>2, <3>1, PlacesStep
  <2>3. QED
    BY <1>2, <1>s, <2>1, <2>2 DEF Spread
<1>3. QED
  BY <1>1, <1>2, UniqueStep

-----------------------------------------------------------------------------
(* The theorems.                                                           *)

LEMMA InductiveInvariant == Spec => []IInv
<1>1. Init => IInv
  <2>1. Init => Traced /\ StoredWhole /\ AlertsWhole
    BY DeliveryInvInit DEF Init, DeliveryInv
  <2>2. QED
    BY <2>1, SessionTypeInit, ControlInit, ToldInit, AlertedInit, CountedInit, LaidInit, SpreadInit
       DEF IInv
<1>2. IInv /\ [Next]_vars => IInv'
  <2> SUFFICES ASSUME IInv, [Next]_vars PROVE IInv'
    OBVIOUS
  <2>1. /\ SessionTypeOK /\ Traced /\ StoredWhole /\ AlertsWhole /\ Control /\ Told /\ Alerted
        /\ Counted /\ Laid /\ Spread /\ TypeOK /\ [DeliveryNext]_deliveryVars
    BY StepDelivers DEF IInv, SessionTypeOK
  <2>2. Traced' /\ StoredWhole' /\ AlertsWhole' /\ SessionTypeOK'
    BY <2>1, TracedStep, AtomicStep, AlertsStep, SessionTypeStep
  <2>3. Control' /\ Told' /\ Alerted' /\ Counted'
    BY <2>1, ControlStep, ToldStep, AlertedStep, CountedStep
  <2>4. Laid'
    BY <2>1, LaidStep
  <2>5. Spread'
    BY <2>1, <2>2, <2>4, SpreadStep
  <2>6. QED
    BY <2>2, <2>3, <2>4, <2>5 DEF IInv
<1>3. QED
  BY <1>1, <1>2, PTL DEF Spec

\* The session's variables keep their types: among them, that it is told only
\* of predictions the API has stored, that both summaries count only stored
\* rows, and that BoundedDeduplicator stays within its capacity.
THEOREM SessionTypes == Spec => []SessionTypeOK
<1>1. IInv => SessionTypeOK
  BY DEF IInv
<1>2. QED
  BY <1>1, InductiveInvariant, PTL

\* A session reports database_persistence_verified only if the API stored
\* exactly the predictions it was told of between the two summaries, whatever
\* other clients store and however often a batch was retried (finalize_report).
THEOREM VerifiedSound == Spec => []VerifiedIsExact
<1>1. IInv => VerifiedIsExact
  BY DEF IInv, Told
<1>2. QED
  BY <1>1, InductiveInvariant, PTL

\* A completed session that nothing cut short has stored every row it read
\* but the duplicates, and all its submissions were delivered.
THEOREM CompletedSound == Spec => []CompletedIsComplete
<1>1. IInv => CompletedIsComplete
  <2> SUFFICES ASSUME IInv, report.status = "completed", faults = {}
               PROVE  /\ n.extracted = n.duplicates + Cardinality(ids)
                      /\ \A s \in DOMAIN subs : subs[s].outcome = "delivered"
    BY DEF CompletedIsComplete
  <2>1. phase = "closed" /\ sender = "idle"
    BY DEF IInv, Control
  <2>2. n.unique = n.successful + Len(batch) /\ batch = <<>> /\ n.failed = 0
        /\ n.extracted = n.unique + n.duplicates + n.failed
    BY <2>1 DEF IInv, Counted
  <2>3. Len(batch) = 0 /\ Cardinality(ids) = n.successful
    BY <2>2, EmptySeq DEF IInv, Told
  <2>4. n.unique \in Nat /\ n.duplicates \in Nat /\ n.successful \in Nat
    BY CounterTypes DEF IInv
  <2>5. n.extracted = n.duplicates + Cardinality(ids)
    BY <2>2, <2>3, <2>4
  <2>6. \A s \in DOMAIN subs : subs[s].outcome = "delivered"
    BY <2>1 DEF IInv, Traced, AtWork, Counted
  <2>7. QED
    BY <2>5, <2>6
<1>2. QED
  BY <1>1, InductiveInvariant, PTL

\* Two rows of a verified session hold the same flow only if more than
\* DedupCapacity new flows came between the two: neither a retry nor a
\* duplicate that BoundedDeduplicator could remember was stored twice.
THEOREM VerifiedUnrepeated == Spec => []VerifiedHasNoDuplicate
<1>1. IInv => VerifiedHasNoDuplicate
  <2> SUFFICES ASSUME IInv, report.verified,
                      NEW r \in after.rows \ before.rows, NEW s \in after.rows \ before.rows,
                      FlowOf(r) = FlowOf(s), r # s
               PROVE  Place(r) > Place(s) + DedupCapacity \/ Place(s) > Place(r) + DedupCapacity
    BY DEF VerifiedHasNoDuplicate
  <2>1. SessionTypeOK /\ TypeOK /\ Traced /\ Told /\ Laid /\ Spread
    BY DEF IInv, SessionTypeOK
  <2>2. r \in ids /\ s \in ids
    BY <2>1 DEF Told, VerifiedIsExact
  <2>3. ASSUME NEW x \in ids
        PROVE  /\ SubOf(x) \in DOMAIN subs /\ x[2] \in DOMAIN subs[SubOf(x)].flows
               /\ x = <<x[1], x[2]>> /\ Place(x) = start[SubOf(x)] + x[2]
               /\ PlacedAt(Place(x), FlowOf(x))
    <3>1. x \in rows /\ x[1] \in DOMAIN reqs /\ x \in AttemptRows(x[1])
      BY <2>1 DEF SessionTypeOK, TypeOK
    <3>2. x = <<x[1], x[2]>> /\ x[2] \in 1 .. Len(reqs[x[1]].flows)
      BY <3>1 DEF AttemptRows
    <3>3. SubOf(x) > 0 /\ FromSubmission(x[1])
      BY <2>1, <3>1 DEF Told, Traced
    <3>4. SubOf(x) \in DOMAIN subs /\ reqs[x[1]].flows = subs[SubOf(x)].flows
      <4>1. DOMAIN subs = 1 .. Len(subs) /\ Len(subs) \in Nat
        BY <2>1, LenProperties DEF TypeOK
      <4>2. QED
        BY <3>3, <4>1 DEF FromSubmission, SubOf
    <3>5. x[2] \in DOMAIN subs[SubOf(x)].flows
      BY <2>1, <3>2, <3>4, SubmissionTypes
    <3>6. Place(x) = start[SubOf(x)] + x[2] /\ FlowOf(x) = subs[SubOf(x)].flows[x[2]]
      BY <3>4 DEF Place, SubOf, FlowOf
    <3>7. QED
      BY <3>2, <3>4, <3>5, <3>6 DEF PlacedAt
  <2>4. ASSUME NEW x \in ids, NEW y \in ids, SubOf(x) < SubOf(y) PROVE Place(x) # Place(y)
    <3>1. start[SubOf(x)] + Len(subs[SubOf(x)].flows) <= start[SubOf(y)]
      BY <2>1, <2>3, <2>4 DEF Laid
    <3>2. /\ start[SubOf(x)] \in Nat /\ start[SubOf(y)] \in Nat
          /\ x[2] \in 1 .. Len(subs[SubOf(x)].flows) /\ y[2] \in 1 .. Len(subs[SubOf(y)].flows)
          /\ Len(subs[SubOf(x)].flows) \in Nat /\ Len(subs[SubOf(y)].flows) \in Nat
      BY <2>1, <2>3, SubmissionTypes
    <3>3. Place(x) = start[SubOf(x)] + x[2] /\ Place(y) = start[SubOf(y)] + y[2]
      BY <2>3
    <3>4. QED
      BY <3>1, <3>2, <3>3, SMTT(30)
  <2>5. ASSUME SubOf(r) = SubOf(s) PROVE Place(r) # Place(s)
    <3>1. r[1] = s[1] /\ r[2] # s[2]
      BY <2>1, <2>2, <2>3, <2>5 DEF Told
    <3>2. start[SubOf(r)] \in Nat /\ r[2] \in Nat /\ s[2] \in Nat
      BY <2>1, <2>2, <2>3, <2>5, SubmissionTypes
    <3>3. Place(r) = start[SubOf(r)] + r[2] /\ Place(s) = start[SubOf(r)] + s[2]
      BY <2>2, <2>3, <2>5
    <3>4. QED
      BY <3>1, <3>2, <3>3
  <2>6. SubOf(r) \in Nat /\ SubOf(s) \in Nat
    BY <2>1, <2>2, <2>3, SubmissionTypes
  <2>7. Place(r) # Place(s)
    BY <2>2, <2>4, <2>5, <2>6
  <2>8. /\ Place(r) \in 1 .. n.unique /\ Place(s) \in 1 .. n.unique /\ n.unique \in Nat
        /\ PlacedAt(Place(r), FlowOf(r)) /\ PlacedAt(Place(s), FlowOf(r)) /\ FlowOf(r) \in Flow
    BY <2>1, <2>2, <2>3, PlaceRange, CounterTypes
  <2>9. Place(r) < Place(s) \/ Place(s) < Place(r)
    BY <2>7, <2>8
  <2>10. QED
    BY <2>1, <2>8, <2>9 DEF Spread
<1>2. QED
  BY <1>1, InductiveInvariant, PTL

\* The alerts a verified report claims are at least the attacks it reports,
\* although each summary counts its alerts after its rows (finalize_report).
THEOREM VerifiedAlerted == Spec => []VerifiedCountsAlerts
<1>1. IInv => VerifiedCountsAlerts
  BY DEF IInv, Alerted
<1>2. QED
  BY <1>1, InductiveInvariant, PTL

\* A live session is a run of the delivery and keeps its contract: what it is
\* told was delivered is stored, at most once per attempt (ApiSender.send as
\* submit_batch calls it).
THEOREM SessionDelivers == Spec => AtLeastOnce
<1>1. Init => DeliveryInit
  BY DEF Init
<1>2. IInv /\ [Next]_vars => [DeliveryNext]_deliveryVars
  BY StepDelivers DEF IInv
<1>3. Spec => DeliveryRun
  BY <1>1, <1>2, InductiveInvariant, PTL DEF Spec, DeliveryRun
<1>4. QED
  BY <1>3, DeliveryKeepsContract, PTL

-----------------------------------------------------------------------------
(* One segment: the escalation of stop_process_group.                      *)

Signals == {"SIGINT", "SIGTERM", "SIGKILL"}

LEMMA SignalType == Signal \in Seq(Signals) /\ Len(Signal) = 3
<1>1. Signal \in Seq(Signals)
  BY DEF Signal, Signals
<1>2. Len(Signal) = 3
  BY DEF Signal
<1>3. QED
  BY <1>1, <1>2

\* The first k signals are k signals.
LEMMA PrefixLength ==
  ASSUME NEW k \in 0 .. Len(Signal)
  PROVE  /\ SubSeq(Signal, 1, k) \in Seq(Signals)
         /\ Len(SubSeq(Signal, 1, k)) = k
         /\ \A i \in 1 .. k : SubSeq(Signal, 1, k)[i] = Signal[i]
<1>1. k \in Int /\ 1 \in Int /\ \A i \in 1 .. k : Signal[i] \in Signals
  BY SignalType
<1>2. /\ SubSeq(Signal, 1, k) \in Seq(Signals)
      /\ Len(SubSeq(Signal, 1, k)) = IF 1 <= k THEN k - 1 + 1 ELSE 0
      /\ \A i \in 1 .. k - 1 + 1 : SubSeq(Signal, 1, k)[i] = Signal[1 + i - 1]
  BY <1>1, SubSeqProperties
<1>3. QED
  BY <1>2, SignalType

\* All of it has been sent when as many have.
LEMMA WholeSignal == SubSeq(Signal, 1, Len(Signal)) = Signal
<1>1. Signal \in Seq(Signals) /\ Len(Signal) \in 0 .. Len(Signal)
  BY SignalType
<1> DEFINE t == SubSeq(Signal, 1, Len(Signal))
<1>2. t \in Seq(Signals) /\ Len(t) = Len(Signal) /\ \A i \in 1 .. Len(Signal) : t[i] = Signal[i]
  BY <1>1, PrefixLength
<1> HIDE DEF t
<1>3. t = Signal
  BY <1>1, <1>2, SeqEqual
<1>4. QED
  BY <1>3 DEF t

\* What is sent next prolongs the prefix that has been sent.
LEMMA NextSignal ==
  ASSUME NEW k \in 0 .. Len(Signal), k < Len(Signal)
  PROVE  Append(SubSeq(Signal, 1, k), Signal[k + 1]) = SubSeq(Signal, 1, k + 1)
<1> DEFINE s == SubSeq(Signal, 1, k)
           t == SubSeq(Signal, 1, k + 1)
<1>1. k \in Nat /\ k + 1 \in 0 .. Len(Signal) /\ Signal[k + 1] \in Signals
  BY SignalType
<1>2. s \in Seq(Signals) /\ Len(s) = k /\ \A i \in 1 .. k : s[i] = Signal[i]
  BY PrefixLength
<1>3. t \in Seq(Signals) /\ Len(t) = k + 1 /\ \A i \in 1 .. k + 1 : t[i] = Signal[i]
  BY <1>1, PrefixLength
<1> HIDE DEF s, t
<1>4. /\ Append(s, Signal[k + 1]) \in Seq(Signals)
      /\ Len(Append(s, Signal[k + 1])) = k + 1
      /\ \A i \in 1 .. k : Append(s, Signal[k + 1])[i] = s[i]
      /\ Append(s, Signal[k + 1])[k + 1] = Signal[k + 1]
  BY <1>1, <1>2, AppendProperties
<1>5. \A i \in 1 .. k + 1 : Append(s, Signal[k + 1])[i] = t[i]
  BY <1>1, <1>2, <1>3, <1>4
<1>6. Append(s, Signal[k + 1]) = t
  BY <1>3, <1>4, <1>5, SeqEqual
<1>7. QED
  BY <1>6 DEF s, t

-----------------------------------------------------------------------------
(* One segment: the inductive invariant.                                   *)

Escalation == \E k \in 0 .. Len(Signal) : signals = SubSeq(Signal, 1, k)

\* Before the first signal none has been sent, there is always a next one, and
\* "remained alive" is raised behind the last.
SignalsInOrder ==
  /\ Escalation
  /\ pc \in {"start", "poll", "stop"} => signals = <<>>
  /\ pc = "signal" \/ result = "signal error" => Len(signals) < Len(Signal)
  /\ result = "still alive" => signals = Signal

\* Only signals that were sent kill, a clean exit closes the file, and what is
\* extracted passed the checks.
ChecksHold ==
  /\ proc = "clean" => pcap \notin {"header", "packets"}
  /\ pc \in {"check", "extract"} => Exited
  /\ pc = "extract" \/ result \in {"csv", "extractor error"} => Readable
  /\ result = "capture error" => Exited

\* What is known of Ctrl+C.
PressesHeard ==
  /\ interrupted = TRUE => presses > 0
  /\ result # "ctrl-c" /\ presses > 0 => interrupted = TRUE
  /\ result = "ctrl-c" => presses > 0 /\ (interrupted = TRUE => presses > 1)

LEMMA SignalsKnown == Escalation => \A i \in DOMAIN signals : signals[i] \in Signals
<1> SUFFICES ASSUME Escalation PROVE \A i \in DOMAIN signals : signals[i] \in Signals
  OBVIOUS
<1>1. PICK k \in 0 .. Len(Signal) : signals = SubSeq(Signal, 1, k)
  BY DEF Escalation
<1>2. signals \in Seq(Signals)
  BY <1>1, PrefixLength
<1>3. QED
  BY <1>2

SegmentInv == SegmentTypeOK /\ SignalsInOrder /\ ChecksHold /\ PressesHeard

LEMMA SegmentInvInit == SegmentInit => SegmentInv
<1> SUFFICES ASSUME SegmentInit PROVE SegmentInv
  OBVIOUS
<1>1. 0 \in 0 .. Len(Signal) /\ signals = SubSeq(Signal, 1, 0)
  BY SignalType, SubSeqEmpty DEF SegmentInit
<1>2. Escalation
  BY <1>1 DEF Escalation
<1>3. presses \in 0 .. MaxInterrupts /\ interrupted \in BOOLEAN
  <2>1. presses = 0 /\ interrupted \in BOOLEAN
    BY DEF SegmentInit
  <2>2. QED
    BY <2>1, InterruptAssumption
<1>4. SegmentTypeOK
  <2>1. (pc = "ended") <=> (result # "none")
    BY DEF SegmentInit
  <2>2. /\ proc = "running" /\ pcap = "none" /\ pc = "start" /\ result = "none"
    BY DEF SegmentInit
  <2>3. QED
    BY <1>2, <1>3, <2>1, <2>2 DEF SegmentTypeOK, Escalation
<1>5. QED
  BY <1>2, <1>4 DEF SegmentInit, SegmentInv, SignalsInOrder, ChecksHold, PressesHeard, Exited

LEMMA SegmentInvStep == SegmentInv /\ [SegmentNext]_segmentVars => SegmentInv'
<1> SUFFICES ASSUME SegmentInv, [SegmentNext]_segmentVars PROVE SegmentInv'
  OBVIOUS
<1> USE InterruptAssumption
<1> DEFINE Types ==
      /\ proc \in {"running", "clean", "error", "SIGINT", "SIGTERM", "SIGKILL"}
      /\ pcap \in {"none", "header", "packets", "complete", "foreign"}
      /\ pc \in {"start", "poll", "stop", "signal", "wait", "check", "extract", "ended"}
      /\ pc = "ended" <=> result # "none"
      /\ result \in {"none", "csv", "signal error", "still alive", "capture error",
                     "extractor error", "ctrl-c"}
      /\ interrupted \in BOOLEAN /\ presses \in 0 .. MaxInterrupts
<1>0. Types /\ SignalsInOrder /\ ChecksHold /\ PressesHeard
  BY DEF SegmentInv, SegmentTypeOK
<1>1. Types' /\ SignalsInOrder' /\ ChecksHold' /\ PressesHeard'
  <2>1. CASE Writes
    BY <1>0, <2>1 DEF Writes, scriptVars,
       SignalsInOrder, ChecksHold, PressesHeard, Exited, Readable, Accepted, Escalation
  <2>2. CASE ExitsClean \/ IsKilled \/ ExitsWithError
    <3>1. proc' \in {"clean", "error", "SIGINT", "SIGTERM", "SIGKILL"}
      BY <1>0, <2>2, SignalsKnown
         DEF ExitsClean, IsKilled, ExitsWithError, SignalsInOrder, Signals
    <3>2. /\ UNCHANGED <<signals, pc, interrupted, result, presses>>
          /\ pcap' = pcap \/ pcap' = "complete"
          /\ proc = "running"
      BY <2>2 DEF ExitsClean, IsKilled, ExitsWithError, scriptVars, Exited
    <3>3. proc' = "clean" => pcap' \notin {"header", "packets"}
      BY <1>0, <2>2, SignalsKnown
         DEF ExitsClean, IsKilled, ExitsWithError, SignalsInOrder, Signals
    <3>4. Types' /\ SignalsInOrder'
      BY <1>0, <3>1, <3>2 DEF SignalsInOrder, Escalation
    <3>5. ChecksHold'
      BY <1>0, <3>1, <3>2, <3>3 DEF ChecksHold, Exited, Readable, Accepted
    <3>6. QED
      BY <1>0, <3>2, <3>4, <3>5 DEF PressesHeard
  <2>3. CASE EnterLoop \/ PollEnds \/ NothingToStop
    BY <1>0, <2>3 DEF EnterLoop, PollEnds, NothingToStop, tcpdumpVars,
       SignalsInOrder, ChecksHold, PressesHeard, Exited, Readable, Accepted, Escalation
  <2>4. CASE StopNeeded
    <3>1. Len(signals) < Len(Signal)
      BY <1>0, <2>4, SignalType DEF StopNeeded, SignalsInOrder
    <3>2. QED
      BY <1>0, <2>4, <3>1 DEF StopNeeded, tcpdumpVars,
         SignalsInOrder, ChecksHold, PressesHeard, Exited, Readable, Accepted, Escalation
  <2>5. CASE SendSignal
    <3>1. PICK k \in 0 .. Len(Signal) : signals = SubSeq(Signal, 1, k)
      BY <1>0 DEF SignalsInOrder, Escalation
    <3>2. Len(signals) = k /\ k < Len(Signal)
      BY <1>0, <2>5, <3>1, PrefixLength DEF SendSignal, SignalsInOrder
    <3>3. signals' = SubSeq(Signal, 1, k + 1)
      BY <2>5, <3>1, <3>2, NextSignal DEF SendSignal
    <3>4. Escalation'
      BY <3>2, <3>3, SignalType DEF Escalation
    <3>5. QED
      BY <1>0, <2>5, <3>4 DEF SendSignal, tcpdumpVars,
         SignalsInOrder, ChecksHold, PressesHeard, Exited, Readable, Accepted
  <2>6. CASE SignalFails \/ WaitOk
    BY <1>0, <2>6 DEF SignalFails, WaitOk, Raise, tcpdumpVars,
       SignalsInOrder, ChecksHold, PressesHeard, Exited, Readable, Accepted, Escalation
  <2>7. CASE WaitTimesOut
    <3>1. PICK k \in 0 .. Len(Signal) : signals = SubSeq(Signal, 1, k)
      BY <1>0 DEF SignalsInOrder, Escalation
    <3>2. Len(signals) = k
      BY <3>1, PrefixLength
    <3>3. ~(Len(signals) < Len(Signal)) => signals = Signal
      <4>1. ~(k < 3) => k = 3
        BY SignalType
      <4>2. QED
        BY <3>1, <3>2, <4>1, SignalType, WholeSignal
    <3>4. QED
      BY <1>0, <2>7, <3>3 DEF WaitTimesOut, Raise, tcpdumpVars,
         SignalsInOrder, ChecksHold, PressesHeard, Exited, Readable, Accepted, Escalation
  <2>8. CASE CheckOk \/ CheckFails \/ Extract
    BY <1>0, <2>8 DEF CheckOk, CheckFails, Extract, Raise, tcpdumpVars,
       SignalsInOrder, ChecksHold, PressesHeard, Exited, Readable, Accepted, Escalation
  <2>9. CASE CtrlCPolling
    BY <1>0, <2>9 DEF CtrlCPolling, tcpdumpVars,
       SignalsInOrder, ChecksHold, PressesHeard, Exited, Readable, Accepted, Escalation
  <2>10. CASE CtrlCLater
    <3>1. result = "none" /\ presses \in Nat /\ presses < MaxInterrupts
      <4>1. pc # "ended" /\ presses < MaxInterrupts
        BY <2>10 DEF CtrlCLater
      <4>2. presses \in 0 .. MaxInterrupts
        BY <1>0
      <4>3. result = "none"
        BY <1>0, <4>1
      <4>4. QED
        BY <4>1, <4>2, <4>3
    <3>2. PressesHeard'
      <4>1. presses' = presses + 1 /\ result' = "ctrl-c" /\ interrupted' = interrupted
        BY <2>10 DEF CtrlCLater, Raise
      <4>2. interrupted = TRUE => presses > 0
        BY <1>0 DEF PressesHeard
      <4>3. presses' > 0 /\ (interrupted = TRUE => presses' > 1)
        BY <3>1, <4>1, <4>2
      <4>4. QED
        BY <4>1, <4>3 DEF PressesHeard
    <3>3. Types'
      BY <1>0, <2>10, <3>1 DEF CtrlCLater, Raise, tcpdumpVars
    <3>4. QED
      BY <1>0, <2>10, <3>2, <3>3 DEF CtrlCLater, Raise, tcpdumpVars,
         SignalsInOrder, ChecksHold, Exited, Readable, Accepted, Escalation
  <2>11. CASE UNCHANGED segmentVars
    <3>1. UNCHANGED <<proc, pcap, signals, pc, interrupted, result, presses>>
      BY <2>11 DEF segmentVars
    <3>2. Types'
      BY <1>0, <3>1
    <3>3. SignalsInOrder'
      BY <1>0, <3>1 DEF SignalsInOrder, Escalation
    <3>4. ChecksHold'
      BY <1>0, <3>1 DEF ChecksHold, Exited, Readable, Accepted
    <3>5. PressesHeard'
      BY <1>0, <3>1 DEF PressesHeard
    <3>6. QED
      BY <3>2, <3>3, <3>4, <3>5
  <2>12. QED
    BY <2>1, <2>2, <2>3, <2>4, <2>5, <2>6, <2>7, <2>8, <2>9, <2>10, <2>11
       DEF SegmentNext, Tcpdump, Script
<1>2. QED
  BY <1>1 DEF SegmentInv, SegmentTypeOK, SignalsInOrder, Escalation

LEMMA SegmentInvariant == SegmentSpec => []SegmentInv
<1>1. QED
  BY SegmentInvInit, SegmentInvStep, PTL DEF SegmentSpec

-----------------------------------------------------------------------------
(* One segment: the theorems.                                              *)

\* Whatever happens, tcpdump gets its signals in the order of escalation and
\* no other ones, and a segment that has ended has a result.
THEOREM SegmentTypes == SegmentSpec => []SegmentTypeOK
<1>1. SegmentInv => SegmentTypeOK
  BY DEF SegmentInv
<1>2. QED
  BY <1>1, SegmentInvariant, PTL

\* Only a file that nobody writes any more is extracted, and it is complete
\* unless it was SIGINT itself that ended tcpdump.
THEOREM ExtractionSafety == SegmentSpec => []CutOffIsRefused
<1>1. SegmentInv => CutOffIsRefused
  BY DEF SegmentInv, SegmentTypeOK, ChecksHold, CutOffIsRefused, Readable, Accepted, Exited
<1>2. QED
  BY <1>1, SegmentInvariant, PTL

\* A segment leaves tcpdump running only behind all three signals, a failed
\* killpg, or a Ctrl+C other than the one that the polling loop caught.
THEOREM OrphanFreedom == SegmentSpec => []NoOrphan
<1>1. SegmentInv => NoOrphan
  BY DEF SegmentInv, SegmentTypeOK, SignalsInOrder, ChecksHold, PressesHeard, NoOrphan, Readable,
     Accepted, Exited
<1>2. QED
  BY <1>1, SegmentInvariant, PTL

\* A segment that is used was interrupted if and only if Ctrl+C was pressed.
THEOREM InterruptIsHeard == SegmentSpec => []InterruptHeard
<1>1. SegmentInv => InterruptHeard
  BY DEF SegmentInv, SegmentTypeOK, PressesHeard, InterruptHeard
<1>2. QED
  BY <1>1, SegmentInvariant, PTL
=============================================================================
