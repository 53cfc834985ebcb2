------------------------ MODULE IngestionRunnerProofs ------------------------
(***************************************************************************)
(* Proofs about FeatureMapping and IngestionRunner: for every model, every *)
(* mapping table, every header and row, every batch size and retry bound,  *)
(* a run that exits with 0 has lost nothing, no flow is stored more often  *)
(* than its one batch was attempted, and the adapter does what the header  *)
(* check, the API and the experiments' adapter take it to do.              *)
(*                                                                         *)
(* SuccessIsComplete and OnlyRetriesDuplicate are not inductive: they are  *)
(* about the end of a run, and rest on where a fingerprint is while the    *)
(* run goes on.  Counted says that all of those seen are of the batch at   *)
(* hand or of a delivered one, Distinct that each is in one place only.    *)
(***************************************************************************)
EXTENDS IngestionRunner, DeliveryProofs

(* The adapter.                                                            *)

\* The column a name comes from is one of the row's.
LEMMA CellTyped ==
  ASSUME NEW row \in Row, NEW name \in Names(row)
  PROVE  CellOf(row, name) \in Cell
<1>1. \E raw \in DOMAIN row : Target(raw) = name
  BY DEF Names
<1>2. (CHOOSE raw \in DOMAIN row : Target(raw) = name) \in DOMAIN row
  BY <1>1
<1>3. QED
  BY <1>2, RowAssumption DEF CellOf

LEMMA FeatureCellTyped ==
  ASSUME NEW row \in Row, Structured(row), NEW f \in Feature
  PROVE  FeatureCell(row, f) \in Cell
<1>1. f \in Names(row) \/ Artifact[f] \in Names(row)
  BY DEF Structured, Reproduced
<1>2. QED
  BY <1>1, CellTyped DEF FeatureCell

\* What adapt returns is a flow send can be called with.
LEMMA AdaptTyped ==
  ASSUME NEW row \in Row, Adapts(row)
  PROVE  Adapt(row) \in Flow
<1> DEFINE M == {n \in Names(row) \cap MetadataField : CellOf(row, n) # "blank"}
           features == [f \in Feature |-> ValueOf(FeatureCell(row, f))]
           metadata == [m \in M |-> CellOf(row, m)]
<1>1. features \in [Feature -> Value]
  <2>1. \A f \in Feature : FeatureCell(row, f) \in Cell /\ Numeric(FeatureCell(row, f))
    BY FeatureCellTyped DEF Adapts
  <2>2. \A c \in Cell : Numeric(c) => ValueOf(c) \in Value
    BY DEF Cell, Numeric, ValueOf, Value, Number
  <2>3. QED
    BY <2>1, <2>2
<1>2. metadata \in [M -> Cell] /\ M \in SUBSET MetadataField
  BY CellTyped
<1>3. Adapt(row) = [features |-> features, metadata |-> metadata]
  BY DEF Adapt
<1> HIDE DEF M, features, metadata
<1>4. metadata \in UNION {[N -> Cell] : N \in SUBSET MetadataField}
  BY <1>2
<1>5. QED
  BY <1>1, <1>3, <1>4, RowAssumption DEF AdaptedFlow

\* compatibility looks at a header, _normalized and adapt at a row: they agree.
LEMMA CompatibleStructured ==
  ASSUME NEW h, Compatible(h), NEW row \in RowsOf(h)
  PROVE  Structured(row)
<1>1. DOMAIN row = {h[i] : i \in DOMAIN h}
  BY DEF RowsOf
<1>2. Names(row) = {Target(h[i]) : i \in DOMAIN h}
  BY <1>1 DEF Names
<1>3. ~Collides(row)
  BY <1>1 DEF Compatible, Collides
<1>4. QED
  BY <1>2, <1>3 DEF Compatible, Structured

\* A feature whose column the collectors' tables and MAPPING_RULES both name.
LEMMA SameCell ==
  ASSUME NEW row, Structured(row), Names(row) \cap DOMAIN Artifact = {},
         NEW f \in Feature, V3Source[f] \in DOMAIN row
  PROVE  FeatureCell(row, f) = row[V3Source[f]]
<1> DEFINE g == IF f \in Names(row) THEN f ELSE Artifact[f]
<1>1. Target(V3Source[f]) = g
  <2>1. CASE f \in DOMAIN Artifact
    <3>1. f \notin Names(row) /\ Artifact[f] \in Feature \ DOMAIN Artifact
      BY <2>1, MappingAssumption
    <3>2. QED
      BY <2>1, <3>1, TableAssumption
  <2>2. CASE f \notin DOMAIN Artifact
    <3>1. Target(V3Source[f]) = f
      BY <2>2, TableAssumption
    <3>2. QED
      BY <3>1 DEF Names
  <2>3. QED
    BY <2>1, <2>2
<1>2. \A raw \in DOMAIN row : Target(raw) = g => raw = V3Source[f]
  BY <1>1 DEF Structured, Collides
<1>3. FeatureCell(row, f) = CellOf(row, g)
  BY DEF FeatureCell
<1> HIDE DEF g
<1>4. (CHOOSE raw \in DOMAIN row : Target(raw) = g) = V3Source[f]
  BY <1>1, <1>2
<1>5. QED
  BY <1>3, <1>4 DEF CellOf

LEMMA AdaptersGiveTheSame ==
  ASSUME NEW h, NEW row \in RowsOf(h), V3Accepts(h, {row}), Adapts(row),
         Names(row) \cap DOMAIN Artifact = {}
  PROVE  Adapt(row).features = AdaptV3(row)
<1>1. \A f \in Feature : V3Source[f] \in DOMAIN row
  BY DEF V3Accepts, RowsOf
<1>2. ASSUME NEW f \in Feature
      PROVE  ValueOf(FeatureCell(row, f)) = V3ValueOf(row[V3Source[f]])
  <2>1. FeatureCell(row, f) = row[V3Source[f]]
    BY <1>1, SameCell DEF Adapts
  <2>2. FeatureCell(row, f) # "na"
    BY DEF Adapts, Numeric
  <2>3. QED
    BY <2>1, <2>2 DEF ValueOf, V3ValueOf
<1>3. QED
  BY <1>2 DEF Adapt, AdaptV3

-----------------------------------------------------------------------------
(* Types, and where the run is.                                            *)

Counters == [captured : Nat, accepted : Nat, rejected : Nat, duplicates : Nat, sent : Nat]
Idle == {"capture", "rows", "flush?"}
Busy == {"sending", "last"}

RunnerTypeOK ==
  /\ TypeOK
  /\ header \in Headers /\ phase \in Idle \cup Busy \cup {"ended"}
  /\ batch \in Seq(Flow) /\ stats \in Counters /\ exit \in {-1, 0, 1, 130}

\* The run is in send exactly while it says so, with its batch the flows
\* submitted last; it has an exit status once it has ended; the rows it reads
\* are under a header that compatibility let through.
Control ==
  /\ phase \in Busy <=> sender # "idle"
  /\ phase \in Busy => batch = subs[Len(subs)].flows
  /\ phase = "ended" <=> exit # -1
  /\ phase \notin {"capture", "ended"} => Compatible(header)

\* Every step of a run is a step of the delivery, or leaves it alone.
LEMMA StepDelivers ==
  ASSUME RunnerTypeOK, [Next]_vars
  PROVE  [DeliveryNext]_deliveryVars
<1>1. CASE Flush \/ EndOfRows
  BY <1>1 DEF Flush, EndOfRows, RunnerTypeOK, DeliveryNext
<1>2. CASE Sending \/ Sent \/ SendFails
  BY <1>2 DEF Sending, Sent, SendFails, DeliveryNext, SenderStep
<1>3. CASE Captured \/ ReadFails \/ NoFlush
  BY <1>3 DEF Captured, ReadFails, NoFlush
<1>4. CASE \E row \in RowsOf(header) : RowAdapted(row) \/ RowRejected(row)
  BY <1>4 DEF RowAdapted, RowRejected
<1>5. CASE CtrlC
  BY <1>5 DEF CtrlC, DeliveryNext
<1>6. CASE Environment
  BY <1>6 DEF Environment, DeliveryNext, ApiStep
<1>7. CASE UNCHANGED vars
  BY <1>7 DEF vars
<1>8. QED
  BY <1>1, <1>2, <1>3, <1>4, <1>5, <1>6, <1>7 DEF Next, Step

LEMMA CounterTypes ==
  ASSUME RunnerTypeOK
  PROVE  /\ stats.captured \in Nat /\ stats.accepted \in Nat /\ stats.rejected \in Nat
         /\ stats.duplicates \in Nat /\ stats.sent \in Nat
         /\ batch \in Seq(Flow) /\ Len(batch) \in Nat /\ DOMAIN batch = 1 .. Len(batch)
<1>1. stats \in Counters /\ batch \in Seq(Flow)
  BY DEF RunnerTypeOK
<1>2. QED
  BY <1>1, LenProperties DEF Counters

\* What became of a row: its flow is new, or known, or there is none.
LEMMA RowStep ==
  ASSUME NEW row \in RowsOf(header), RowAdapted(row) \/ RowRejected(row)
  PROVE  /\ RowsLeft /\ UNCHANGED <<deliveryVars, header, exit>>
         /\ \/ \E f \in Flow : RowAccepted(f)
            \/ \E f \in Flow : RowDuplicate(f)
            \/ /\ stats' = [stats EXCEPT !.captured = @ + 1, !.rejected = @ + 1]
               /\ UNCHANGED <<phase, batch, seen>>
<1>1. CASE RowAdapted(row)
  <2>1. Adapt(row) \in Flow
    BY <1>1, AdaptTyped DEF RowAdapted, RowsOf
  <2>2. QED
    BY <1>1, <2>1 DEF RowAdapted
<1>2. CASE RowRejected(row)
  BY <1>2 DEF RowRejected
<1>3. QED
  BY <1>1, <1>2

LEMMA RunnerTypeInit ==
  ASSUME Init PROVE RunnerTypeOK /\ Control
<1>1. TypeOK /\ \A S : <<>> \in Seq(S)
  BY TracedInit, EmptySeq DEF Init
<1>2. stats \in Counters
  BY DEF Init, Counters
<1>3. sender = "idle"
  BY DEF Init, DeliveryInit
<1>4. QED
  BY <1>1, <1>2, <1>3 DEF Init, RunnerTypeOK, Control, Idle, Busy

LEMMA RunnerTypeStep ==
  ASSUME RunnerTypeOK, [Next]_vars
  PROVE  RunnerTypeOK'
<1>1. TypeOK'
  BY StepDelivers, TypeStep DEF RunnerTypeOK
<1>2. header' = header
  <2>1. CASE \E row \in RowsOf(header) : RowAdapted(row) \/ RowRejected(row)
    BY <2>1, RowStep
  <2>2. QED
    BY <2>1 DEF Next, Step, Captured, ReadFails, Flush, NoFlush, EndOfRows, Sending, Sent,
       SendFails, CtrlC, Environment, vars, runnerVars
<1>n. /\ stats.captured + 1 \in Nat /\ stats.accepted + 1 \in Nat /\ stats.rejected + 1 \in Nat
      /\ stats.duplicates + 1 \in Nat /\ stats.sent + Len(batch) \in Nat /\ stats \in Counters
  BY CounterTypes DEF RunnerTypeOK
<1>3. CASE \E row \in RowsOf(header) : RowAdapted(row) \/ RowRejected(row)
  <2>1. phase = "rows" /\ exit' = exit
    BY <1>3, RowStep DEF RowsLeft
  <2>2. ASSUME NEW f \in Flow, RowAccepted(f)
        PROVE  phase' = "flush?" /\ batch' \in Seq(Flow) /\ stats' \in Counters
    <3>1. batch' \in Seq(Flow)
      BY <2>2, CounterTypes, AppendReq DEF RowAccepted
    <3>2. stats' \in Counters
      BY <1>n, <2>2 DEF RowAccepted, Counters
    <3>3. QED
      BY <2>2, <3>1, <3>2 DEF RowAccepted
  <2>3. ASSUME NEW f \in Flow, RowDuplicate(f)
        PROVE  UNCHANGED <<phase, batch>> /\ stats' \in Counters
    <3>1. stats' \in Counters
      BY <1>n, <2>3 DEF RowDuplicate, Counters
    <3>2. QED
      BY <2>3, <3>1 DEF RowDuplicate
  <2>4. [stats EXCEPT !.captured = @ + 1, !.rejected = @ + 1] \in Counters
    BY <1>n DEF Counters
  <2>5. batch' \in Seq(Flow) /\ stats' \in Counters /\ phase' \in {"rows", "flush?"}
    BY <1>3, <2>1, <2>2, <2>3, <2>4, RowStep, CounterTypes
  <2>6. QED
    BY <1>1, <1>2, <2>1, <2>5 DEF RunnerTypeOK, Idle
<1>4. CASE Sent
  <2>1. stats' \in Counters
    BY <1>n, <1>4 DEF Sent, Counters
  <2>2. batch' \in Seq(Flow)
    BY <1>4, EmptySeq, CounterTypes DEF Sent
  <2>3. QED
    BY <1>1, <1>2, <1>4, <2>1, <2>2 DEF Sent, End, RunnerTypeOK, Idle
<1>5. CASE Captured \/ ReadFails \/ Flush \/ NoFlush \/ EndOfRows
  BY <1>1, <1>2, <1>5 DEF Captured, ReadFails, Flush, NoFlush, EndOfRows, End, RunnerTypeOK, Idle, Busy
<1>6. CASE Sending \/ SendFails \/ CtrlC \/ Environment \/ UNCHANGED vars
  BY <1>1, <1>2, <1>6 DEF Sending, SendFails, CtrlC, Environment, End, vars, runnerVars, RunnerTypeOK
<1>7. QED
  BY <1>3, <1>4, <1>5, <1>6 DEF Next, Step

LEMMA ControlStep ==
  ASSUME RunnerTypeOK, Control, [Next]_vars
  PROVE  Control'
<1> USE DEF Idle, Busy
<1>1. CASE Captured \/ ReadFails \/ NoFlush
  BY <1>1 DEF Captured, ReadFails, NoFlush, End, deliveryVars, Control
<1>2. CASE \E row \in RowsOf(header) : RowAdapted(row) \/ RowRejected(row)
  <2>1. phase = "rows" /\ phase' \in {"rows", "flush?"} /\ UNCHANGED <<deliveryVars, header, exit>>
    BY <1>2, RowStep DEF RowsLeft, RowAccepted, RowDuplicate
  <2>2. QED
    BY <2>1 DEF deliveryVars, Control
<1>3. ASSUME BeginSend(batch), UNCHANGED <<batch, exit, header>>, phase' \in Busy,
             phase \in {"rows", "flush?"}
      PROVE  Control'
  <2>1. subs \in Seq(Sub) /\ batch \in Seq(Flow)
    BY DEF RunnerTypeOK, TypeOK, Sub
  <2>2. Len(subs') = Len(subs) + 1 /\ subs'[Len(subs) + 1] = [flows |-> batch, outcome |-> "pending"]
    BY <1>3, <2>1, BeginSubs
  <2>3. subs'[Len(subs')].flows = batch' /\ sender' # "idle"
    BY <1>3, <2>2 DEF BeginSend
  <2>4. QED
    BY <1>3, <2>3 DEF Control
<1>4. CASE Flush \/ EndOfRows
  <2>1. CASE phase' = "ended"
    BY <1>4, <2>1 DEF Flush, EndOfRows, End, deliveryVars, Control
  <2>2. CASE phase' # "ended"
    BY <1>3, <1>4, <2>2 DEF Flush, EndOfRows, End
  <2>3. QED
    BY <2>1, <2>2
<1>5. CASE Sending
  BY <1>5 DEF Sending, runnerVars, Post, RetryLater, Control
<1>6. CASE Sent \/ SendFails
  BY <1>6 DEF Sent, SendFails, Receive, GiveUp, Ended, End, Control
<1>7. CASE CtrlC
  <2>1. sender' = "idle"
    BY <1>7 DEF CtrlC, InterruptSend, Ended, deliveryVars, Control
  <2>2. QED
    BY <1>7, <2>1 DEF CtrlC, End, Control
<1>8. CASE Environment
  BY <1>8 DEF Environment, Commit, Drop, runnerVars, Control
<1>9. CASE UNCHANGED vars
  BY <1>9 DEF vars, runnerVars, deliveryVars, Control
<1>10. QED
  BY <1>1, <1>2, <1>4, <1>5, <1>6, <1>7, <1>8, <1>9 DEF Next, Step

-----------------------------------------------------------------------------
(* What is delivered.                                                      *)

Told(S) == {Fingerprint(f) : f \in S}
Members(b) == {b[i] : i \in DOMAIN b}

\* No other client is modelled here: all that is stored was submitted by the run.
OwnRequests == \A k \in DOMAIN reqs : reqs[k].sub > 0
DeliveredStored == \A s \in DOMAIN subs : subs[s].outcome = "delivered" => Stored(s) # {}

LEMMA OwnStep ==
  ASSUME RunnerTypeOK, OwnRequests, [Next]_vars
  PROVE  OwnRequests'
<1>0. /\ TypeOK /\ [DeliveryNext]_deliveryVars /\ reqs \in Seq(Req) /\ subs \in Seq(Sub)
      /\ DOMAIN reqs = 1 .. Len(reqs) /\ Len(reqs) \in Nat /\ Len(subs) \in Nat
  <2>1. TypeOK /\ [DeliveryNext]_deliveryVars
    BY StepDelivers DEF RunnerTypeOK
  <2>2. reqs \in Seq(Req) /\ subs \in Seq(Sub)
    BY <2>1 DEF TypeOK, Req, Sub
  <2>3. QED
    BY <2>1, <2>2, LenProperties
<1>1. CASE Post
  <2> DEFINE q == [sub |-> Len(subs), flows |-> subs[Len(subs)].flows, state |-> "sent"]
  <2>1. subs # <<>> /\ Len(subs) > 0
    BY <1>0, <1>1, EmptySeq DEF Post, TypeOK
  <2>2. q \in Req
    BY <1>0, <2>1, SubsTyped DEF Req, ReqState, Outcome
  <2>3. reqs' = Append(reqs, q) /\ q.sub > 0
    BY <1>1, <2>1 DEF Post
  <2> HIDE DEF q
  <2>4. QED
    BY <1>0, <2>2, <2>3, AppendReq DEF OwnRequests
<1>2. ASSUME NEW k \in DOMAIN reqs, NEW z \in ReqState, SetState(k, z)
      PROVE  OwnRequests'
  BY <1>0, <1>2, SetStateReq DEF OwnRequests
<1>3. CASE UNCHANGED reqs
  BY <1>3 DEF OwnRequests
<1>4. CASE Environment
  BY <1>2, <1>4 DEF Environment, Commit, Drop, ReqState
<1>5. CASE \E row \in RowsOf(header) : RowAdapted(row) \/ RowRejected(row)
  BY <1>3, <1>5, RowStep DEF deliveryVars
<1>6. QED
  BY <1>1, <1>3, <1>4, <1>5 DEF Next, Step, Captured, ReadFails, Flush, NoFlush, EndOfRows, Sending,
     Sent, SendFails, CtrlC, BeginSend, RetryLater, Receive, GiveUp, InterruptSend, vars, deliveryVars

\* The flows of a batch are delivered when its answer is read, and at no other step.
LEMMA DeliveredStep ==
  ASSUME TypeOK, Traced, [DeliveryNext]_deliveryVars
  PROVE  /\ Receive => DeliveredFlows' = DeliveredFlows \cup Members(subs[Len(subs)].flows)
         /\ ~Receive => DeliveredFlows' = DeliveredFlows
         /\ \A s \in DOMAIN subs' :
              subs'[s].outcome = "delivered" =>
                 \/ s \in DOMAIN subs /\ subs[s].outcome = "delivered"
                 \/ s = Len(subs) /\ s \in DOMAIN subs /\ Receive
<1> DEFINE Delivered == {t \in DOMAIN subs : subs[t].outcome = "delivered"}
<1>0. /\ subs \in Seq(Sub) /\ DOMAIN subs = 1 .. Len(subs) /\ Len(subs) \in Nat /\ SubsKept
  <2>1. subs \in Seq(Sub) /\ SubsKept
    BY SubsStep DEF TypeOK, Sub
  <2>2. QED
    BY <2>1, LenProperties
<1>1. CASE UNCHANGED subs /\ ~Receive
  BY <1>1 DEF DeliveredFlows
<1>2. ASSUME NEW b \in Seq(Flow), BeginSend(b), ~Receive
      PROVE  DeliveredFlows' = DeliveredFlows /\ Delivered' = Delivered
  <2>1. /\ DOMAIN subs' = 1 .. Len(subs) + 1 /\ \A s \in DOMAIN subs : subs'[s] = subs[s]
        /\ subs'[Len(subs) + 1].outcome = "pending"
    <3>1. /\ DOMAIN subs' = 1 .. Len(subs) + 1 /\ \A s \in DOMAIN subs : subs'[s] = subs[s]
          /\ subs'[Len(subs) + 1] = [flows |-> b, outcome |-> "pending"]
      BY <1>0, <1>2, BeginSubs, Zenon
    <3>2. QED
      BY <3>1
  <2>2. Delivered' = Delivered
    BY <1>0, <2>1
  <2>3. \A s \in Delivered : subs'[s].flows = subs[s].flows
    BY <2>1
  <2>4. DeliveredFlows' = UNION {Members(subs[s].flows) : s \in Delivered}
    BY <2>2, <2>3 DEF DeliveredFlows, Members
  <2>5. QED
    BY <2>2, <2>4 DEF DeliveredFlows, Members
<1>3. ASSUME NEW o \in Outcome \ {"pending"}, Ended(o), sender # "idle",
             o = "delivered" <=> Receive
      PROVE  /\ Receive => DeliveredFlows' = DeliveredFlows \cup Members(subs[Len(subs)].flows)
             /\ ~Receive => DeliveredFlows' = DeliveredFlows
             /\ Len(subs) \in DOMAIN subs
             /\ Delivered' = IF Receive THEN Delivered \cup {Len(subs)} ELSE Delivered
  <2>1. subs # <<>> /\ o \in Outcome
    BY <1>3 DEF TypeOK
  <2>2. Len(subs') = Len(subs) /\ Len(subs) \in DOMAIN subs /\ subs'[Len(subs)].outcome = o
    BY <1>0, <1>3, <2>1, EndedSubs
  <2>3. DOMAIN subs' = DOMAIN subs
    BY <1>3 DEF Ended
  <2>4. \A s \in DOMAIN subs : subs'[s].flows = subs[s].flows /\ (s # Len(subs) => subs'[s] = subs[s])
    BY <1>0 DEF SubsKept
  <2>5. subs[Len(subs)].outcome = "pending"
    BY <1>3, <2>2 DEF Traced, AtWork
  <2>6. Delivered' = IF Receive THEN Delivered \cup {Len(subs)} ELSE Delivered
    BY <1>3, <2>2, <2>3, <2>4, <2>5
  <2>7. \A s \in Delivered' : subs'[s].flows = subs[s].flows
    BY <2>3, <2>4
  <2>8. DeliveredFlows' = UNION {Members(subs[s].flows) : s \in Delivered'}
    BY <2>7 DEF DeliveredFlows, Members
  <2>9. DeliveredFlows = UNION {Members(subs[s].flows) : s \in Delivered}
    BY DEF DeliveredFlows, Members
  <2> HIDE DEF Delivered
  <2>10. QED
    BY <2>2, <2>6, <2>8, <2>9
<1>4. \/ UNCHANGED subs /\ ~Receive
      \/ \E b \in Seq(Flow) : BeginSend(b) /\ ~Receive
      \/ \E o \in Outcome \ {"pending"} : Ended(o) /\ sender # "idle" /\ (o = "delivered" <=> Receive)
  <2>1. CASE Receive
    BY <2>1 DEF Receive, Outcome
  <2>2. CASE ~Receive /\ (GiveUp \/ InterruptSend)
    <3>1. sender # "idle" /\ (Ended("failed") \/ Ended("interrupted"))
      BY <2>2 DEF GiveUp, InterruptSend
    <3>2. {"failed", "interrupted"} \subseteq Outcome \ {"pending", "delivered"}
      BY DEF Outcome
    <3>3. QED
      BY <2>2, <3>1, <3>2
  <2>3. CASE ~Receive /\ ~(GiveUp \/ InterruptSend)
    BY <2>3 DEF DeliveryNext, SenderStep, ApiStep, Post, RetryLater, Commit, Drop, OtherClient,
       deliveryVars
  <2>4. QED
    BY <2>1, <2>2, <2>3
<1>5. QED
  BY <1>1, <1>2, <1>3, <1>4

\* What was delivered is stored, and a stored attempt stays stored.
LEMMA DeliveredStoredStep ==
  ASSUME TypeOK, Traced, DeliveredStored, [DeliveryNext]_deliveryVars
  PROVE  DeliveredStored'
<1>0. subs \in Seq(Sub) /\ DOMAIN subs = 1 .. Len(subs) /\ Len(subs) \in Nat
  <2>1. subs \in Seq(Sub)
    BY DEF TypeOK, Sub
  <2>2. QED
    BY <2>1, LenProperties
<1>1. \A s \in DOMAIN subs : Stored(s) # {} => Stored(s)' # {}
  <2> SUFFICES ASSUME NEW s \in DOMAIN subs, Stored(s) # {} PROVE Stored(s)' # {}
    OBVIOUS
  <2>1. s # 0
    BY <1>0
  <2>2. QED
    BY <2>1, StoredStep
<1>2. Receive => Stored(Len(subs)) # {}
  <2>1. HAVE Receive
  <2>2. current \in DOMAIN reqs /\ reqs[current].state = "committed" /\ reqs[current].sub = Len(subs)
    BY <2>1, LenProperties DEF Receive, TypeOK, Traced
  <2>3. QED
    BY <2>2 DEF Stored
<1>3. ASSUME NEW s \in DOMAIN subs', subs'[s].outcome = "delivered"
      PROVE  Stored(s)' # {}
  BY <1>1, <1>2, <1>3, DeliveredStep DEF DeliveredStored
<1>4. QED
  BY <1>3 DEF DeliveredStored

\* A delivered flow has a row.
LEMMA DeliveredHaveRows ==
  ASSUME TypeOK, Traced, StoredWhole, DeliveredStored
  PROVE  DeliveredFlows \subseteq {FlowOf(r) : r \in rows}
<1> SUFFICES ASSUME NEW s \in DOMAIN subs, subs[s].outcome = "delivered", NEW i \in DOMAIN subs[s].flows
             PROVE  subs[s].flows[i] \in {FlowOf(r) : r \in rows}
  BY DEF DeliveredFlows
<1>1. s > 0 /\ s \in Nat /\ DOMAIN subs[s].flows = 1 .. Len(subs[s].flows)
  <2>1. subs \in Seq(Sub)
    BY DEF TypeOK, Sub
  <2>2. subs[s] \in Sub /\ s \in 1 .. Len(subs) /\ Len(subs) \in Nat
    BY <2>1, ElementOfSeq, LenProperties
  <2>3. subs[s].flows \in Seq(Flow)
    BY <2>2 DEF Sub
  <2>4. QED
    BY <2>2, <2>3, LenProperties
<1>2. PICK k \in Stored(s) : TRUE
  BY DEF DeliveredStored
<1>3. k \in DOMAIN reqs /\ reqs[k].state = "committed" /\ reqs[k].flows = subs[s].flows
  BY <1>1, <1>2 DEF Stored, Traced, FromSubmission
<1>4. <<k, i>> \in AttemptRows(k)
  BY <1>1, <1>3 DEF AttemptRows
<1>5. <<k, i>> \in rows
  BY <1>3, <1>4 DEF StoredWhole
<1>6. FlowOf(<<k, i>>) = subs[s].flows[i]
  BY <1>3 DEF FlowOf
<1>7. QED
  BY <1>5, <1>6

-----------------------------------------------------------------------------
(* Where the rows and the fingerprints are.                                *)

\* Every row is counted once; what was accepted is in the batch or was sent,
\* and so are the fingerprints, until an error or Ctrl+C ends the run.
Counted ==
  /\ stats.captured = stats.accepted + stats.rejected + stats.duplicates
  /\ phase # "ended" =>
       /\ stats.accepted = stats.sent + Len(batch)
       /\ seen = Told(DeliveredFlows) \cup Told(Members(batch))
  /\ exit = 0 => stats.accepted = stats.sent /\ seen = Told(DeliveredFlows)

\* The fingerprint at a place of a submission is seen, and of no other place;
\* so is one of the batch that is not submitted yet.
At(s, i) == Fingerprint(subs[s].flows[i])
Submitted ==
  /\ \A s \in DOMAIN subs : \A i \in DOMAIN subs[s].flows : At(s, i) \in seen
  /\ \A s, t \in DOMAIN subs : \A i \in DOMAIN subs[s].flows, j \in DOMAIN subs[t].flows :
       At(s, i) = At(t, j) => s = t /\ i = j
Waiting ==
  \A i \in DOMAIN batch :
    /\ Fingerprint(batch[i]) \in seen
    /\ \A j \in DOMAIN batch : Fingerprint(batch[i]) = Fingerprint(batch[j]) => i = j
    /\ \A s \in DOMAIN subs : \A j \in DOMAIN subs[s].flows : At(s, j) # Fingerprint(batch[i])
Distinct == Submitted /\ (phase \in Idle => Waiting)

IInv ==
  /\ RunnerTypeOK /\ DeliveryInv /\ Control
  /\ OwnRequests /\ DeliveredStored /\ Counted /\ Distinct

LEMMA CountedInit ==
  ASSUME Init PROVE Counted /\ Distinct /\ OwnRequests /\ DeliveredStored
<1>1. /\ subs = <<>> /\ reqs = <<>> /\ batch = <<>> /\ seen = {} /\ exit = -1 /\ Len(batch) = 0
      /\ DOMAIN subs = {} /\ DOMAIN reqs = {} /\ DOMAIN batch = {}
  BY EmptySeq DEF Init, DeliveryInit
<1>2. DeliveredFlows = {} /\ Members(batch) = {}
  BY <1>1 DEF DeliveredFlows, Members
<1>3. Counted
  BY <1>1, <1>2 DEF Counted, Told, Init
<1>4. Distinct /\ OwnRequests /\ DeliveredStored
  BY <1>1 DEF Distinct, Submitted, Waiting, OwnRequests, DeliveredStored
<1>5. QED
  BY <1>3, <1>4

LEMMA EmptyBatch ==
  Len(<<>>) = 0 /\ Members(<<>>) = {} /\ Told({}) = {}
  BY EmptySeq DEF Members, Told

\* A call of send ends in one way.
LEMMA OneEnding ==
  ASSUME TypeOK, sender # "idle", NEW o \in Outcome, NEW p \in Outcome, Ended(o), Ended(p)
  PROVE  o = p
<1>1. subs \in Seq(Sub) /\ subs # <<>>
  BY DEF TypeOK, Sub
<1>2. QED
  BY <1>1, EndedSubs

LEMMA OneMore ==
  \A a, r, d \in Nat : /\ a + r + d + 1 = (a + 1) + r + d
                       /\ a + r + d + 1 = a + (r + 1) + d
                       /\ a + r + d + 1 = a + r + (d + 1)
  OBVIOUS

LEMMA CountedStep ==
  ASSUME RunnerTypeOK, DeliveryInv, Control, Counted, [Next]_vars
  PROVE  Counted'
<1>0. TypeOK /\ Traced /\ [DeliveryNext]_deliveryVars
  BY StepDelivers DEF RunnerTypeOK, DeliveryInv
<1>n. /\ stats.captured \in Nat /\ stats.accepted \in Nat /\ stats.rejected \in Nat
      /\ stats.duplicates \in Nat /\ stats.sent \in Nat /\ Len(batch) \in Nat
  BY CounterTypes
<1>s. stats \in Counters
  BY DEF RunnerTypeOK
<1>c. stats.captured = stats.accepted + stats.rejected + stats.duplicates
  BY DEF Counted
<1>b. phase # "ended" => stats.accepted = stats.sent + Len(batch)
  BY DEF Counted
<1>e. phase = "ended" <=> exit # -1
  BY DEF Control
<1>d. ~Receive => DeliveredFlows' = DeliveredFlows
  BY <1>0, DeliveredStep
<1>1. CASE \E row \in RowsOf(header) : RowAdapted(row) \/ RowRejected(row)
  <2>1. /\ phase = "rows" /\ UNCHANGED <<deliveryVars, exit>> /\ exit = -1
        /\ DeliveredFlows' = DeliveredFlows
    BY <1>1, <1>e, RowStep DEF RowsLeft, deliveryVars, DeliveredFlows
  <2>2. ASSUME NEW f \in Flow, RowAccepted(f) PROVE Counted'
    <3>1. /\ Len(batch') = Len(batch) + 1 /\ DOMAIN batch' = 1 .. Len(batch) + 1
          /\ \A i \in 1 .. Len(batch) : batch'[i] = batch[i]
          /\ batch'[Len(batch) + 1] = f /\ DOMAIN batch = 1 .. Len(batch)
      BY <2>2, AppendReq, CounterTypes DEF RowAccepted
    <3>2. Members(batch') = Members(batch) \cup {f}
      <4>1. DOMAIN batch' = DOMAIN batch \cup {Len(batch) + 1}
        BY <1>n, <3>1
      <4>2. QED
        BY <3>1, <4>1 DEF Members
    <3>3. seen' = Told(DeliveredFlows') \cup Told(Members(batch'))
      <4>1. Told(Members(batch')) = Told(Members(batch)) \cup {Fingerprint(f)}
        BY <3>2 DEF Told
      <4>2. seen' = seen \cup {Fingerprint(f)}
        BY <2>2 DEF RowAccepted
      <4>3. seen = Told(DeliveredFlows) \cup Told(Members(batch))
        BY <2>1 DEF Counted
      <4>4. QED
        BY <2>1, <4>1, <4>2, <4>3
    <3>4. /\ stats'.captured = stats.captured + 1 /\ stats'.accepted = stats.accepted + 1
          /\ stats'.rejected = stats.rejected /\ stats'.duplicates = stats.duplicates
          /\ stats'.sent = stats.sent
      BY <1>s, <2>2 DEF RowAccepted, Counters
    <3>5. /\ stats'.captured = stats'.accepted + stats'.rejected + stats'.duplicates
          /\ stats'.accepted = stats'.sent + Len(batch')
      <4>1. stats.accepted = stats.sent + Len(batch)
        BY <1>b, <2>1
      <4>2. Len(batch') = Len(batch) + 1
        BY <3>1
      <4>3. stats.captured + 1 = (stats.accepted + 1) + stats.rejected + stats.duplicates
        BY <1>n, <1>c, OneMore
      <4>4. stats.accepted + 1 = stats.sent + (Len(batch) + 1)
        BY <1>n, <4>1
      <4>5. QED
        BY <3>4, <4>2, <4>3, <4>4
    <3>6. QED
      BY <2>1, <3>3, <3>5 DEF Counted, Told
  <2>3. CASE \/ \E f \in Flow : RowDuplicate(f)
             \/ /\ stats' = [stats EXCEPT !.captured = @ + 1, !.rejected = @ + 1]
                /\ UNCHANGED <<phase, batch, seen>>
    <3>1. /\ UNCHANGED <<phase, batch, seen>> /\ stats'.captured = stats.captured + 1
          /\ stats'.accepted = stats.accepted /\ stats'.sent = stats.sent
          /\ \/ stats'.rejected = stats.rejected /\ stats'.duplicates = stats.duplicates + 1
             \/ stats'.rejected = stats.rejected + 1 /\ stats'.duplicates = stats.duplicates
      BY <1>s, <2>3 DEF RowDuplicate, Counters
    <3>2. stats'.captured = stats'.accepted + stats'.rejected + stats'.duplicates
      <4>1. /\ stats.captured + 1 = stats.accepted + (stats.rejected + 1) + stats.duplicates
            /\ stats.captured + 1 = stats.accepted + stats.rejected + (stats.duplicates + 1)
        BY <1>n, <1>c, OneMore
      <4>2. QED
        BY <3>1, <4>1
    <3>3. QED
      BY <2>1, <3>1, <3>2 DEF Counted, Told, Members
  <2>4. QED
    BY <1>1, <2>2, <2>3, RowStep
<1>2. CASE Sent
  <2>1. /\ phase \in Busy /\ exit = -1 /\ Receive /\ batch = subs[Len(subs)].flows
        /\ UNCHANGED seen /\ stats' = [stats EXCEPT !.sent = @ + Len(batch)]
    BY <1>2, <1>e DEF Sent, Control, Busy
  <2>2. DeliveredFlows' = DeliveredFlows \cup Members(batch)
    BY <1>0, <2>1, DeliveredStep
  <2>3. seen' = Told(DeliveredFlows')
    <3>1. seen = Told(DeliveredFlows) \cup Told(Members(batch))
      BY <2>1 DEF Counted, Busy
    <3>2. QED
      BY <2>1, <2>2, <3>1 DEF Told
  <2>4. /\ stats'.captured = stats'.accepted + stats'.rejected + stats'.duplicates
        /\ stats'.accepted = stats'.sent /\ stats'.sent \in Nat
    <3>1. /\ stats'.captured = stats.captured /\ stats'.accepted = stats.accepted
          /\ stats'.rejected = stats.rejected /\ stats'.duplicates = stats.duplicates
          /\ stats'.sent = stats.sent + Len(batch)
      BY <1>s, <2>1 DEF Counters
    <3>2. stats.accepted = stats.sent + Len(batch)
      BY <1>b, <2>1 DEF Busy
    <3>3. QED
      BY <1>n, <1>c, <3>1, <3>2
  <2>5. phase' = "ended" \/ batch' = <<>>
    BY <1>2, <2>1 DEF Sent, End, Busy
  <2>6. batch' = <<>> => Len(batch') = 0 /\ Told(Members(batch')) = {}
    BY EmptyBatch
  <2>7. stats'.accepted = stats'.sent + 0
    BY <2>4
  <2>8. QED
    BY <2>3, <2>4, <2>5, <2>6, <2>7 DEF Counted, Told, Members
<1>3. CASE EndOfRows
  <2>1. /\ phase = "rows" /\ exit = -1 /\ UNCHANGED <<batch, seen, stats>> /\ ~Receive
        /\ phase' = "ended" => batch = <<>>
        /\ phase' # "ended" => exit' = exit
    BY <1>3, <1>e DEF EndOfRows, End, BeginSend, Control, Busy, deliveryVars, Receive, Ended
  <2>2. DeliveredFlows' = DeliveredFlows
    BY <1>d, <2>1
  <2>3. batch = <<>> => stats.accepted = stats.sent
    BY <1>n, <1>b, <2>1, EmptyBatch
  <2>4. batch = <<>> => seen = Told(DeliveredFlows)
    BY <2>1, EmptyBatch DEF Counted
  <2>5. QED
    BY <2>1, <2>2, <2>3, <2>4 DEF Counted, Told, Members
<1>4. CASE /\ ~Sent /\ ~EndOfRows
           /\ ~\E row \in RowsOf(header) : RowAdapted(row) \/ RowRejected(row)
  <2>a. /\ UNCHANGED <<batch, seen, stats>>
        /\ \/ phase' = "ended" /\ exit' # 0
           \/ UNCHANGED exit /\ (phase' = "ended" <=> phase = "ended")
    BY <1>4 DEF Next, Step, Captured, ReadFails, Flush, NoFlush, Sending, SendFails, CtrlC,
       Environment, End, vars, runnerVars
  <2>b. ~Receive
    <3>1. \/ UNCHANGED sender \/ sender' # "idle" \/ GiveUp \/ InterruptSend
      BY <1>4 DEF Next, Step, Captured, ReadFails, Flush, NoFlush, Sending, SendFails, CtrlC,
         Environment, BeginSend, Post, RetryLater, Commit, Drop, vars, deliveryVars
    <3>2. ~(GiveUp /\ Receive) /\ ~(InterruptSend /\ Receive)
      BY <1>0, OneEnding DEF GiveUp, InterruptSend, Receive, Outcome
    <3>3. QED
      BY <3>1, <3>2 DEF Receive, Ended
  <2>1. /\ ~Receive /\ UNCHANGED <<batch, seen, stats>>
        /\ \/ phase' = "ended" /\ exit' # 0
           \/ UNCHANGED exit /\ (phase' = "ended" <=> phase = "ended")
    BY <2>a, <2>b
  <2>2. DeliveredFlows' = DeliveredFlows
    BY <1>d, <2>1
  <2>3. QED
    BY <2>1, <2>2 DEF Counted, Told, Members
<1>5. QED
  BY <1>1, <1>2, <1>3, <1>4

\* Only BeginSend gives a place to a flow; flows stay where they are.
LEMMA PlacesStay ==
  ASSUME TypeOK, [DeliveryNext]_deliveryVars, \A b \in Seq(Flow) : ~BeginSend(b)
  PROVE  DOMAIN subs' = DOMAIN subs /\ \A s \in DOMAIN subs : subs'[s].flows = subs[s].flows
<1>1. UNCHANGED subs \/ \E o \in Outcome : Ended(o)
  BY SubsStep
<1>2. QED
  BY <1>1, SubsStep DEF SubsKept, Ended

LEMMA DistinctStep ==
  ASSUME RunnerTypeOK, Control, Distinct, [Next]_vars
  PROVE  Distinct'
<1>0. TypeOK /\ [DeliveryNext]_deliveryVars /\ Submitted /\ (phase \in Idle => Waiting)
  BY StepDelivers DEF RunnerTypeOK, Distinct
<1>1. CASE \E row \in RowsOf(header) : RowAdapted(row) \/ RowRejected(row)
  <2>1. phase = "rows" /\ UNCHANGED subs /\ Waiting
    BY <1>0, <1>1, RowStep DEF RowsLeft, deliveryVars, Idle
  <2>2. ASSUME NEW f \in Flow, RowAccepted(f) PROVE Distinct'
    <3>1. Fingerprint(f) \notin seen /\ seen' = seen \cup {Fingerprint(f)}
      BY <2>2 DEF RowAccepted, Known
    <3>2. /\ DOMAIN batch' = DOMAIN batch \cup {Len(batch) + 1}
          /\ \A i \in DOMAIN batch : batch'[i] = batch[i]
          /\ batch'[Len(batch) + 1] = f
      <4>1. /\ DOMAIN batch' = 1 .. Len(batch) + 1 /\ DOMAIN batch = 1 .. Len(batch)
            /\ \A i \in 1 .. Len(batch) : batch'[i] = batch[i]
            /\ batch'[Len(batch) + 1] = f /\ Len(batch) \in Nat
        BY <2>2, AppendReq, CounterTypes DEF RowAccepted
      <4>2. QED
        BY <4>1
    <3>3. Submitted'
      BY <1>0, <2>1, <3>1 DEF Submitted, At
    <3>4. \A i \in DOMAIN batch : Fingerprint(batch[i]) \in seen
      BY <2>1 DEF Waiting
    <3>5. \A s \in DOMAIN subs : \A j \in DOMAIN subs[s].flows : At(s, j) \in seen /\ At(s, j)' = At(s, j)
      BY <1>0, <2>1 DEF Submitted, At
    <3>6. Waiting'
      <4>1. ASSUME NEW i \in DOMAIN batch' PROVE Fingerprint(batch'[i]) \in seen'
        BY <3>1, <3>2, <3>4
      <4>2. ASSUME NEW i \in DOMAIN batch', NEW j \in DOMAIN batch',
                   Fingerprint(batch'[i]) = Fingerprint(batch'[j])
            PROVE  i = j
        BY <2>1, <3>1, <3>2, <3>4, <4>2 DEF Waiting
      <4>3. ASSUME NEW i \in DOMAIN batch', NEW s \in DOMAIN subs, NEW j \in DOMAIN subs[s].flows
            PROVE  At(s, j)' # Fingerprint(batch'[i])
        BY <2>1, <3>1, <3>2, <3>5 DEF Waiting
      <4>4. QED
        BY <2>1, <4>1, <4>2, <4>3 DEF Waiting
    <3>7. QED
      BY <3>3, <3>6 DEF Distinct
  <2>3. CASE UNCHANGED <<phase, batch, seen>>
    BY <1>0, <2>1, <2>3 DEF Distinct, Submitted, Waiting, At
  <2>4. QED
    BY <1>1, <2>2, <2>3, RowStep DEF RowDuplicate
<1>2. CASE BeginSend(batch) /\ (Flush \/ EndOfRows)
  <2>1. /\ phase \in Idle /\ phase' \notin Idle /\ UNCHANGED <<batch, seen>> /\ Waiting
        /\ subs \in Seq(Sub) /\ batch \in Seq(Flow)
    BY <1>0, <1>2 DEF Flush, EndOfRows, End, Idle, RunnerTypeOK, TypeOK, Sub
  <2>n. PICK n : n = Len(subs) + 1
    OBVIOUS
  <2>2. /\ DOMAIN subs' = DOMAIN subs \cup {n} /\ n \notin DOMAIN subs
        /\ \A s \in DOMAIN subs : subs'[s] = subs[s]
        /\ subs'[n].flows = batch
    <3>1. /\ DOMAIN subs' = 1 .. Len(subs) + 1 /\ DOMAIN subs = 1 .. Len(subs)
          /\ \A s \in DOMAIN subs : subs'[s] = subs[s]
          /\ subs'[Len(subs) + 1] = [flows |-> batch, outcome |-> "pending"]
      BY <1>2, <2>1, BeginSubs
    <3>2. Len(subs) \in Nat
      BY <2>1, LenProperties
    <3>3. QED
      BY <2>n, <3>1, <3>2
  <2>3. \A i \in DOMAIN subs'[n].flows : At(n, i)' = Fingerprint(batch[i])
    BY <2>2 DEF At
  <2>4. \A s \in DOMAIN subs : \A i \in DOMAIN subs'[s].flows : At(s, i)' = At(s, i)
    BY <2>2 DEF At
  <2>5. ASSUME NEW s \in DOMAIN subs', NEW i \in DOMAIN subs'[s].flows
        PROVE  At(s, i)' \in seen'
    BY <1>0, <2>1, <2>2, <2>3, <2>4 DEF Submitted, Waiting
  <2>6. ASSUME NEW s \in DOMAIN subs', NEW t \in DOMAIN subs', NEW i \in DOMAIN subs'[s].flows,
               NEW j \in DOMAIN subs'[t].flows, At(s, i)' = At(t, j)'
        PROVE  s = t /\ i = j
    <3>1. CASE s = n /\ t = n
      BY <2>1, <2>2, <2>3, <2>6, <3>1 DEF Waiting
    <3>2. CASE s = n /\ t \in DOMAIN subs
      BY <2>1, <2>2, <2>3, <2>4, <2>6, <3>2 DEF Waiting
    <3>3. CASE s \in DOMAIN subs /\ t = n
      BY <2>1, <2>2, <2>3, <2>4, <2>6, <3>3 DEF Waiting
    <3>4. CASE s \in DOMAIN subs /\ t \in DOMAIN subs
      BY <1>0, <2>2, <2>4, <2>6, <3>4 DEF Submitted
    <3>5. QED
      BY <2>2, <3>1, <3>2, <3>3, <3>4
  <2>7. Submitted'
    BY <2>5, <2>6 DEF Submitted
  <2>8. QED
    BY <2>1, <2>7 DEF Distinct
<1>3. CASE /\ ~\E row \in RowsOf(header) : RowAdapted(row) \/ RowRejected(row)
           /\ ~(BeginSend(batch) /\ (Flush \/ EndOfRows))
  <2>1. UNCHANGED seen /\ (phase' \in Idle => batch' = <<>> \/ (phase \in Idle /\ UNCHANGED batch))
    BY <1>3 DEF Next, Step, Captured, ReadFails, Flush, NoFlush, EndOfRows, Sending, Sent, SendFails,
       CtrlC, Environment, End, vars, runnerVars, Idle
  <2>2. \A b \in Seq(Flow) : ~BeginSend(b)
    BY <1>3 DEF Next, Step, Captured, ReadFails, Flush, NoFlush, EndOfRows, Sending, Sent, SendFails,
       CtrlC, Environment, BeginSend, Post, RetryLater, Receive, GiveUp, InterruptSend, Ended, Commit,
       Drop, vars, deliveryVars
  <2>3. DOMAIN subs' = DOMAIN subs /\ \A s \in DOMAIN subs : subs'[s].flows = subs[s].flows
    BY <1>0, <2>2, PlacesStay
  <2>4. Submitted'
    BY <1>0, <2>1, <2>3 DEF Submitted, At
  <2>5. batch' = <<>> => Waiting'
    BY DEF Waiting
  <2>6. Waiting /\ UNCHANGED batch => Waiting'
    BY <2>1, <2>3 DEF Waiting, At
  <2>7. QED
    BY <1>0, <2>1, <2>4, <2>5, <2>6 DEF Distinct
<1>4. QED
  BY <1>1, <1>2, <1>3

-----------------------------------------------------------------------------
(* The theorems.                                                           *)

LEMMA InductiveInvariant == Spec => []IInv
<1>1. Init => IInv
  BY RunnerTypeInit, DeliveryInvInit, CountedInit DEF IInv, Init
<1>2. IInv /\ [Next]_vars => IInv'
  <2> SUFFICES ASSUME IInv, [Next]_vars PROVE IInv'
    OBVIOUS
  <2>1. /\ RunnerTypeOK /\ DeliveryInv /\ Control
        /\ OwnRequests /\ DeliveredStored /\ Counted /\ Distinct
    BY DEF IInv
  <2>2. TypeOK /\ Traced /\ [DeliveryNext]_deliveryVars
    BY <2>1, StepDelivers DEF DeliveryInv
  <2>3. DeliveryInv' /\ DeliveredStored'
    BY <2>1, <2>2, DeliveryInvStep, DeliveredStoredStep
  <2>4. RunnerTypeOK' /\ Control' /\ OwnRequests'
    BY <2>1, RunnerTypeStep, ControlStep, OwnStep
  <2>5. Counted' /\ Distinct'
    BY <2>1, CountedStep, DistinctStep
  <2>6. QED
    BY <2>3, <2>4, <2>5 DEF IInv
<1>3. QED
  BY <1>1, <1>2, PTL DEF Spec

\* A run is a run of the delivery: its variables keep their types, and what
\* it is told was delivered is stored, at most once per attempt (run of
\* runner.py as a caller of ApiSender.send).
THEOREM RunnerDelivers ==
  Spec => []RunnerTypeOK /\ AtLeastOnce
<1>1. Init => DeliveryInit
  BY DEF Init
<1>2. IInv /\ [Next]_vars => [DeliveryNext]_deliveryVars
  BY StepDelivers DEF IInv
<1>3. IInv => RunnerTypeOK
  BY DEF IInv
<1>4. Spec => DeliveryRun
  BY <1>1, <1>2, InductiveInvariant, PTL DEF Spec, DeliveryRun
<1>5. QED
  BY <1>3, <1>4, InductiveInvariant, DeliveryKeepsContract, PTL

\* Exit status 0 means that every row was a duplicate, was rejected, or is in
\* the API's store: run sends what is left after its row loop, and an error
\* ends it before main returns 0.
THEOREM SuccessCompletes == Spec => []SuccessIsComplete
<1>1. IInv => SuccessIsComplete
  <2> SUFFICES ASSUME IInv, exit = 0
               PROVE  /\ stats.captured = stats.accepted + stats.rejected + stats.duplicates
                      /\ stats.sent = stats.accepted
                      /\ seen = {Fingerprint(f) : f \in DeliveredFlows}
                      /\ DeliveredFlows \subseteq {FlowOf(r) : r \in rows}
    BY DEF SuccessIsComplete
  <2>1. Counted /\ TypeOK /\ Traced /\ StoredWhole /\ DeliveredStored
    BY DEF IInv, DeliveryInv
  <2>2. QED
    BY <2>1, DeliveredHaveRows DEF Counted, Told
<1>2. QED
  BY <1>1, InductiveInvariant, PTL

\* A flow is in the store at most once per attempt of the one batch it was sent
\* in, however often the CSV repeats it: run forgets no fingerprint, and
\* ApiSender.send posts a batch at most max_retries + 1 times.
THEOREM RetriesDuplicate == Spec => []OnlyRetriesDuplicate
<1>1. IInv => OnlyRetriesDuplicate
  <2> SUFFICES ASSUME IInv, NEW x \in rows
               PROVE  Cardinality({r \in rows : Fingerprint(FlowOf(r)) = Fingerprint(FlowOf(x))})
                        <= MaxRetries + 1
    BY DEF OnlyRetriesDuplicate
  <2> DEFINE Same == {r \in rows : Fingerprint(FlowOf(r)) = Fingerprint(FlowOf(x))}
             SubOf(r) == reqs[r[1]].sub
  <2>1. /\ TypeOK /\ Traced /\ Bounded /\ OwnRequests /\ Submitted
        /\ reqs \in Seq(Req) /\ subs \in Seq(Sub) /\ DOMAIN subs = 1 .. Len(subs) /\ Len(subs) \in Nat
    <3>1. TypeOK /\ Traced /\ Bounded /\ OwnRequests /\ Submitted
      BY DEF IInv, DeliveryInv, Distinct
    <3>2. reqs \in Seq(Req) /\ subs \in Seq(Sub)
      BY <3>1 DEF TypeOK, Req, Sub
    <3>3. QED
      BY <3>1, <3>2, LenProperties
  <2>2. ASSUME NEW r \in rows
        PROVE  /\ r = <<r[1], r[2]>> /\ r[1] \in Attempts(SubOf(r)) /\ SubOf(r) \in DOMAIN subs
               /\ r[2] \in DOMAIN subs[SubOf(r)].flows
               /\ Fingerprint(FlowOf(r)) = At(SubOf(r), r[2])
    <3>1. r[1] \in DOMAIN reqs /\ r \in AttemptRows(r[1])
      BY <2>1 DEF TypeOK
    <3>2. r = <<r[1], r[2]>> /\ r[2] \in 1 .. Len(reqs[r[1]].flows)
      BY <3>1 DEF AttemptRows
    <3>3. SubOf(r) \in DOMAIN subs /\ reqs[r[1]].flows = subs[SubOf(r)].flows
      BY <2>1, <3>1 DEF OwnRequests, Traced, FromSubmission
    <3>4. reqs[r[1]].flows \in Seq(Flow)
      <4>1. reqs[r[1]] \in Req
        BY <2>1, <3>1, ElementOfSeq, LenProperties
      <4>2. QED
        BY <4>1 DEF Req
    <3>5. r[2] \in DOMAIN reqs[r[1]].flows
      BY <3>2, <3>4, LenProperties
    <3>6. QED
      BY <3>1, <3>2, <3>3, <3>5 DEF Attempts, FlowOf, At
  <2>3. Same \subseteq Attempts(SubOf(x)) \X {x[2]}
    <3> SUFFICES ASSUME NEW r \in rows, Fingerprint(FlowOf(r)) = Fingerprint(FlowOf(x))
                 PROVE  r \in Attempts(SubOf(x)) \X {x[2]}
      OBVIOUS
    <3>1. At(SubOf(r), r[2]) = At(SubOf(x), x[2])
      BY <2>2
    <3>2. SubOf(r) = SubOf(x) /\ r[2] = x[2]
      BY <2>1, <2>2, <3>1 DEF Submitted
    <3>3. QED
      BY <2>2, <3>2
  <2>4. /\ IsFiniteSet(Attempts(SubOf(x))) /\ Cardinality(Attempts(SubOf(x))) \in Nat
        /\ Cardinality(Attempts(SubOf(x))) <= MaxRetries + 1
    <3>1. SubOf(x) \in DOMAIN subs
      BY <2>2
    <3> HIDE DEF SubOf
    <3>2. QED
      BY <2>1, <3>1, AttemptsFinite, FS_CardinalityType DEF Bounded
  <2> HIDE DEF Same, SubOf
  <2>5. IsFiniteSet({x[2]}) /\ Cardinality({x[2]}) = 1
    BY FS_Singleton
  <2>6. /\ IsFiniteSet(Attempts(SubOf(x)) \X {x[2]})
        /\ Cardinality(Attempts(SubOf(x)) \X {x[2]}) = Cardinality(Attempts(SubOf(x))) * 1
    BY <2>4, <2>5, FS_Product
  <2>7. Cardinality(Same) <= Cardinality(Attempts(SubOf(x)) \X {x[2]}) /\ IsFiniteSet(Same)
    BY <2>3, <2>6, FS_Subset
  <2>8. Cardinality(Same) \in Nat
    BY <2>7, FS_CardinalityType
  <2>9. Cardinality(Same) <= MaxRetries + 1
    BY <2>4, <2>6, <2>7, <2>8, RetryAssumption
  <2>10. QED
    BY <2>9 DEF Same
<1>2. QED
  BY <1>1, InductiveInvariant, PTL

\* Under a header that compatibility() let through, no row is rejected for a
\* missing or doubled column: what _normalized and adapt ask of the columns of
\* a row is what compatibility asked of the header.
THEOREM HeaderDecides == Spec => []HeaderVerdictHolds
<1>1. IInv => HeaderVerdictHolds
  BY CompatibleStructured DEF IInv, Control, HeaderVerdictHolds
<1>2. QED
  BY <1>1, InductiveInvariant, PTL

\* Every flow in a request passes InferenceEngine._prepare_row: FeatureAdapter
\* makes the features asked for and no others, and numbers or nulls of them.
THEOREM AcceptedPrepared == Spec => []AcceptedIsPrepared
<1>1. IInv => AcceptedIsPrepared
  <2> SUFFICES ASSUME IInv, NEW k \in DOMAIN reqs, NEW i \in DOMAIN reqs[k].flows
               PROVE  Prepares(reqs[k].flows[i])
    BY DEF AcceptedIsPrepared
  <2>1. reqs \in Seq(Req)
    BY DEF IInv, RunnerTypeOK, TypeOK, Req
  <2>2. reqs[k] \in Req
    BY <2>1, ElementOfSeq, LenProperties
  <2>3. reqs[k].flows \in Seq(Flow)
    BY <2>2 DEF Req
  <2>4. reqs[k].flows[i] \in AdaptedFlow
    BY <2>3, ElementOfSeq, LenProperties, RowAssumption
  <2>5. QED
    BY <2>4 DEF AdaptedFlow, Prepares
<1>2. QED
  BY <1>1, InductiveInvariant, PTL

\* The collectors' adapter and the experiments' one make the same features of a
\* row of a V3 table that both accept: the aliases and reproductions of
\* FeatureAdapter lead to the column MAPPING_RULES names, an infinite or blank
\* cell becomes a null in both, and the cells read differently ("NA") are
\* refused by one.
THEOREM AdaptersMakeTheSame == Spec => []AdaptersAgree
<1>1. AdaptersAgree
  BY AdaptersGiveTheSame DEF AdaptersAgree
<1>2. QED
  BY <1>1, PTL
=============================================================================
