--------------------------- MODULE DeliveryProofs ---------------------------
(***************************************************************************)
(* Proofs about Delivery: its types and its contract, for every set of     *)
(* flows, every classification and every bound on retries and batch sizes. *)
(***************************************************************************)
EXTENDS Delivery, SequenceTheorems, FiniteSetTheorems, TLAPS

Sub == [flows : Seq(Flow), outcome : Outcome]
Req == [sub : Nat, flows : Seq(Flow), state : ReqState]

\* Only these three things happen to the list of requests.
ReqsStep ==
  \/ UNCHANGED reqs
  \/ \E q \in Req : reqs' = Append(reqs, q)
  \/ \E k \in DOMAIN reqs, s \in ReqState : SetState(k, s)

\* What stays of the requests in a step: none is lost and none is altered
\* but in its state.
ReqsKept ==
  /\ reqs' \in Seq(Req) /\ Len(reqs) <= Len(reqs')
  /\ \A k \in DOMAIN reqs : /\ k \in DOMAIN reqs'
                            /\ reqs'[k].flows = reqs[k].flows
                            /\ reqs'[k].sub = reqs[k].sub

LEMMA AppendReq ==
  ASSUME NEW S, NEW s \in Seq(S), NEW e \in S
  PROVE  /\ Append(s, e) \in Seq(S) /\ Len(Append(s, e)) = Len(s) + 1
         /\ \A i \in 1 .. Len(s) : Append(s, e)[i] = s[i]
         /\ Append(s, e)[Len(s) + 1] = e
         /\ DOMAIN Append(s, e) = 1 .. Len(s) + 1 /\ DOMAIN s = 1 .. Len(s)
         /\ Len(s) \in Nat
  OBVIOUS

LEMMA SetStateReq ==
  ASSUME reqs \in Seq(Req), NEW k \in DOMAIN reqs, NEW s \in ReqState, SetState(k, s)
  PROVE  /\ reqs' \in Seq(Req) /\ Len(reqs') = Len(reqs)
         /\ DOMAIN reqs' = DOMAIN reqs
         /\ reqs'[k] = [reqs[k] EXCEPT !.state = s]
         /\ \A j \in DOMAIN reqs : j # k => reqs'[j] = reqs[j]
         /\ \A j \in DOMAIN reqs : reqs'[j].flows = reqs[j].flows
                                   /\ reqs'[j].sub = reqs[j].sub
<1> DEFINE e == [reqs[k] EXCEPT !.state = s]
<1>1. k \in 1 .. Len(reqs) /\ DOMAIN reqs = 1 .. Len(reqs)
  BY LenProperties
<1>2. reqs[k] \in Req
  BY <1>1, ElementOfSeq
<1>3. e \in Req /\ e.flows = reqs[k].flows /\ e.sub = reqs[k].sub
  BY <1>2 DEF Req
<1>4. reqs' = [reqs EXCEPT ![k] = e]
  BY DEF SetState
<1> HIDE DEF e
<1>5. /\ reqs' \in Seq(Req) /\ Len(reqs') = Len(reqs)
      /\ \A j \in 1 .. Len(reqs) : reqs'[j] = IF j = k THEN e ELSE reqs[j]
  BY <1>1, <1>3, <1>4, ExceptSeq
<1>6. DOMAIN reqs' = DOMAIN reqs
  BY <1>1, <1>5, LenProperties
<1>7. QED
  BY <1>1, <1>3, <1>5, <1>6 DEF e

LEMMA ReqsStepKeeps ==
  ASSUME reqs \in Seq(Req), ReqsStep
  PROVE  ReqsKept
<1>1. CASE UNCHANGED reqs
  BY <1>1, LenProperties DEF ReqsKept
<1>2. CASE \E q \in Req : reqs' = Append(reqs, q)
  BY <1>2, AppendReq, LenProperties DEF ReqsKept
<1>3. CASE \E k \in DOMAIN reqs, s \in ReqState : SetState(k, s)
  <2>1. PICK k \in DOMAIN reqs, s \in ReqState : SetState(k, s)
    BY <1>3
  <2>2. /\ reqs' \in Seq(Req) /\ Len(reqs') = Len(reqs) /\ Len(reqs) \in Nat
        /\ DOMAIN reqs' = DOMAIN reqs
        /\ \A j \in DOMAIN reqs : reqs'[j].flows = reqs[j].flows
                                  /\ reqs'[j].sub = reqs[j].sub
    BY <2>1, SetStateReq, LenProperties
  <2>3. QED
    BY <2>2 DEF ReqsKept
<1>4. QED
  BY <1>1, <1>2, <1>3 DEF ReqsStep

-----------------------------------------------------------------------------
(* Types.                                                                  *)

\* The set of submissions stays typed when one is added or its outcome set.
LEMMA SubsTyped ==
  ASSUME subs \in Seq(Sub), NEW o \in Outcome
  PROVE  /\ \A b \in Seq(Flow) :
              LET t == Append(subs, [flows |-> b, outcome |-> "pending"])
              IN  t \in Seq(Sub) /\ t # <<>>
         /\ subs # <<>> =>
              /\ subs[Len(subs)].flows \in Seq(Flow)
              /\ [subs EXCEPT ![Len(subs)].outcome = o] \in Seq(Sub)
              /\ [subs EXCEPT ![Len(subs)].outcome = o] # <<>>
<1>1. ASSUME NEW b \in Seq(Flow)
      PROVE  LET t == Append(subs, [flows |-> b, outcome |-> "pending"])
             IN  t \in Seq(Sub) /\ t # <<>>
  <2>1. [flows |-> b, outcome |-> "pending"] \in Sub
    BY DEF Sub, Outcome
  <2>2. QED
    BY <2>1, AppendReq, EmptySeq
<1>2. ASSUME subs # <<>>
      PROVE  /\ subs[Len(subs)].flows \in Seq(Flow)
             /\ [subs EXCEPT ![Len(subs)].outcome = o] \in Seq(Sub)
             /\ [subs EXCEPT ![Len(subs)].outcome = o] # <<>>
  <2> DEFINE e == [subs[Len(subs)] EXCEPT !.outcome = o]
  <2>1. Len(subs) \in 1 .. Len(subs)
    BY <1>2, EmptySeq
  <2>2. subs[Len(subs)] \in Sub
    BY <2>1, ElementOfSeq
  <2>3. e \in Sub
    BY <2>2 DEF Sub
  <2>4. [subs EXCEPT ![Len(subs)].outcome = o] = [subs EXCEPT ![Len(subs)] = e]
    OBVIOUS
  <2> HIDE DEF e
  <2>5. /\ [subs EXCEPT ![Len(subs)] = e] \in Seq(Sub)
        /\ Len([subs EXCEPT ![Len(subs)] = e]) = Len(subs)
    BY <2>1, <2>3, ExceptSeq
  <2>6. QED
    BY <2>1, <2>2, <2>4, <2>5, EmptySeq DEF Sub
<1>3. QED
  BY <1>1, <1>2

LEMMA StepReqs ==
  ASSUME TypeOK, [DeliveryNext]_deliveryVars
  PROVE  ReqsStep
<1> USE DEF ReqsStep
<1>1. ASSUME NEW b \in Seq(Flow), BeginSend(b) PROVE ReqsStep
  BY <1>1 DEF BeginSend
<1>2. CASE Post
  <2>1. /\ reqs \in Seq(Req) /\ Len(subs) \in Nat
        /\ subs[Len(subs)].flows \in Seq(Flow)
    BY <1>2, SubsTyped, LenProperties DEF TypeOK, Post, Sub, Req, Outcome
  <2>2. [sub |-> Len(subs), flows |-> subs[Len(subs)].flows, state |-> "sent"] \in Req
    BY <2>1 DEF Req, ReqState
  <2>3. QED
    BY <1>2, <2>2 DEF Post
<1>3. CASE Receive \/ RetryLater \/ GiveUp \/ InterruptSend \/ UNCHANGED deliveryVars
  BY <1>3 DEF Receive, RetryLater, GiveUp, InterruptSend, deliveryVars
<1>4. ASSUME NEW k \in DOMAIN reqs, Commit(k) \/ Drop(k) PROVE ReqsStep
  BY <1>4 DEF Commit, Drop, ReqState
<1>5. ASSUME NEW f \in Flow, OtherClient(f) PROVE ReqsStep
  <2>1. [sub |-> 0, flows |-> <<f>>, state |-> "committed"] \in Req
    BY DEF Req, ReqState
  <2>2. QED
    BY <1>5, <2>1 DEF OtherClient
<1>6. QED
  BY <1>1, <1>2, <1>3, <1>4, <1>5 DEF DeliveryNext, SenderStep, ApiStep

-----------------------------------------------------------------------------
(* The store.                                                              *)

\* A row keeps its flow, and a set of rows its alerts, whatever is requested.
LEMMA RowsKept ==
  ASSUME TypeOK, ReqsKept
  PROVE  /\ \A k \in DOMAIN reqs : AttemptRows(k)' = AttemptRows(k)
         /\ \A k \in DOMAIN reqs : \A r \in AttemptRows(k) : FlowOf(r)' = FlowOf(r)
         /\ \A r \in rows : FlowOf(r)' = FlowOf(r)
         /\ \A k \in DOMAIN reqs : AlertsOf(AttemptRows(k))' = AlertsOf(AttemptRows(k))
<1>1. \A k \in DOMAIN reqs : AttemptRows(k)' = AttemptRows(k)
  BY DEF AttemptRows, ReqsKept
<1>2. \A k \in DOMAIN reqs : \A r \in AttemptRows(k) : FlowOf(r)' = FlowOf(r)
  BY DEF AttemptRows, FlowOf, ReqsKept
<1>3. \A r \in rows : FlowOf(r)' = FlowOf(r)
  BY <1>2 DEF TypeOK
<1>4. \A k \in DOMAIN reqs : AlertsOf(AttemptRows(k))' = AlertsOf(AttemptRows(k))
  BY <1>1, <1>2 DEF AlertsOf, IsAttack
<1>5. QED
  BY <1>1, <1>2, <1>3, <1>4

Committed(j) == j \in DOMAIN reqs /\ reqs[j].state = "committed"

\* A step either leaves the store alone or commits one request, with all its
\* rows and their alerts.
LEMMA StoreStep ==
  ASSUME TypeOK, [DeliveryNext]_deliveryVars
  PROVE  \/ /\ UNCHANGED <<rows, alerts>>
            /\ \A j \in DOMAIN reqs' : Committed(j)' <=> Committed(j)
         \/ \E k \in DOMAIN reqs' :
              /\ rows' = rows \cup AttemptRows(k)'
              /\ alerts' = alerts \cup AlertsOf(AttemptRows(k))'
              /\ \A j \in DOMAIN reqs' : Committed(j)' <=> (j = k \/ Committed(j))
<1> DEFINE Goal == \/ /\ UNCHANGED <<rows, alerts>>
                      /\ \A j \in DOMAIN reqs' : Committed(j)' <=> Committed(j)
                   \/ \E k \in DOMAIN reqs' :
                        /\ rows' = rows \cup AttemptRows(k)'
                        /\ alerts' = alerts \cup AlertsOf(AttemptRows(k))'
                        /\ \A j \in DOMAIN reqs' : Committed(j)' <=> (j = k \/ Committed(j))
<1>t. reqs \in Seq(Req)
  BY DEF TypeOK, Req
<1>k. ReqsKept
  BY <1>t, StepReqs, ReqsStepKeeps
<1>1. ASSUME NEW b \in Seq(Flow), BeginSend(b) PROVE Goal
  BY <1>1 DEF BeginSend, Committed
<1>2. CASE Post
  <2> DEFINE q == [sub |-> Len(subs), flows |-> subs[Len(subs)].flows, state |-> "sent"]
  <2>1. q \in Req /\ reqs' = Append(reqs, q) /\ UNCHANGED <<rows, alerts>>
    <3>1. /\ Len(subs) \in Nat /\ subs[Len(subs)].flows \in Seq(Flow)
      BY <1>2, SubsTyped, LenProperties DEF TypeOK, Post, Sub, Outcome
    <3>2. QED
      BY <1>2, <3>1 DEF Post, Req, ReqState
  <2>2. q.state = "sent"
    OBVIOUS
  <2> HIDE DEF q
  <2>3. \A j \in DOMAIN reqs' : Committed(j)' <=> Committed(j)
    BY <1>t, <2>1, <2>2, AppendReq DEF Committed
  <2>4. QED
    BY <2>1, <2>3
<1>3. CASE Receive \/ RetryLater \/ GiveUp \/ InterruptSend \/ UNCHANGED deliveryVars
  BY <1>3 DEF Receive, RetryLater, GiveUp, InterruptSend, deliveryVars, Committed
<1>4. ASSUME NEW k \in DOMAIN reqs, Commit(k) PROVE Goal
  <2>1. SetState(k, "committed") /\ Persist(AttemptRows(k)) /\ "committed" \in ReqState
    BY <1>4 DEF Commit, ReqState
  <2>2. /\ DOMAIN reqs' = DOMAIN reqs
        /\ reqs'[k] = [reqs[k] EXCEPT !.state = "committed"]
        /\ \A j \in DOMAIN reqs : j # k => reqs'[j] = reqs[j]
    BY <1>t, <2>1, SetStateReq
  <2>3. reqs[k] \in Req
    BY <1>t, ElementOfSeq, LenProperties
  <2>4. \A j \in DOMAIN reqs' : Committed(j)' <=> (j = k \/ Committed(j))
    BY <2>2, <2>3 DEF Committed, Req
  <2>5. rows' = rows \cup AttemptRows(k)' /\ alerts' = alerts \cup AlertsOf(AttemptRows(k))'
    BY <1>k, <2>1, RowsKept DEF Persist
  <2>6. QED
    BY <2>2, <2>4, <2>5
<1>5. ASSUME NEW k \in DOMAIN reqs, Drop(k) PROVE Goal
  <2>1. SetState(k, "dropped") /\ "dropped" \in ReqState /\ reqs[k].state = "sent"
    BY <1>5 DEF Drop, ReqState
  <2>2. /\ DOMAIN reqs' = DOMAIN reqs
        /\ reqs'[k] = [reqs[k] EXCEPT !.state = "dropped"]
        /\ \A j \in DOMAIN reqs : j # k => reqs'[j] = reqs[j]
    BY <1>t, <2>1, SetStateReq
  <2>3. reqs[k] \in Req
    BY <1>t, ElementOfSeq, LenProperties
  <2>4. \A j \in DOMAIN reqs' : Committed(j)' <=> Committed(j)
    BY <2>1, <2>2, <2>3 DEF Committed, Req
  <2>5. QED
    BY <1>5, <2>4 DEF Drop
<1>6. ASSUME NEW f \in Flow, OtherClient(f) PROVE Goal
  <2> DEFINE q == [sub |-> 0, flows |-> <<f>>, state |-> "committed"]
  <2>0. PICK k : k = Len(reqs) + 1
    OBVIOUS
  <2>1. q \in Req /\ reqs' = Append(reqs, q) /\ q.state = "committed" /\ q.flows = <<f>>
    BY <1>6 DEF OtherClient, Req, ReqState
  <2> HIDE DEF q
  <2>2. /\ DOMAIN reqs' = 1 .. k /\ k \in DOMAIN reqs' /\ reqs'[k] = q
        /\ DOMAIN reqs = 1 .. Len(reqs)
        /\ \A j \in 1 .. Len(reqs) : reqs'[j] = reqs[j]
        /\ Len(reqs) \in Nat
    BY <1>t, <2>0, <2>1, AppendReq
  <2>3. k = Len(reqs')
    BY <2>0, <2>1, <2>2, <1>t, AppendReq
  <2>4. rows' = rows \cup AttemptRows(k)' /\ alerts' = alerts \cup AlertsOf(AttemptRows(k))'
    BY <1>6, <2>3 DEF OtherClient
  <2>5. \A j \in DOMAIN reqs' : Committed(j)' <=> (j = k \/ Committed(j))
    BY <2>0, <2>1, <2>2 DEF Committed
  <2>6. QED
    BY <2>2, <2>4, <2>5
<1>7. QED
  BY <1>1, <1>2, <1>3, <1>4, <1>5, <1>6 DEF DeliveryNext, SenderStep, ApiStep
-----------------------------------------------------------------------------
\* What a step leaves of the types of the sender's variables and the rows.
LEMMA TypeStep ==
  ASSUME TypeOK, [DeliveryNext]_deliveryVars
  PROVE  TypeOK'
<1>t. reqs \in Seq(Req) /\ subs \in Seq(Sub)
  BY DEF TypeOK, Req, Sub
<1>k. ReqsKept
  BY <1>t, StepReqs, ReqsStepKeeps
<1>m. MaxRetries \in Nat
  BY RetryAssumption
<1>1. subs' \in Seq(Sub) /\ (sender' # "idle" => subs' # <<>>)
  <2>1. ASSUME NEW o \in Outcome, Ended(o), sender # "idle"
        PROVE  subs' \in Seq(Sub) /\ (sender' # "idle" => subs' # <<>>)
    BY <1>t, <2>1, SubsTyped DEF Ended, TypeOK
  <2>2. ASSUME NEW b \in Seq(Flow), BeginSend(b)
        PROVE  subs' \in Seq(Sub) /\ (sender' # "idle" => subs' # <<>>)
    BY <1>t, <2>2, SubsTyped DEF BeginSend, Outcome
  <2>3. CASE UNCHANGED subs /\ (sender' # "idle" => sender # "idle")
    BY <1>t, <2>3 DEF TypeOK
  <2>4. CASE Post \/ RetryLater \/ ApiStep \/ (\E f \in Flow : OtherClient(f))
             \/ UNCHANGED deliveryVars
    BY <2>3, <2>4 DEF Post, RetryLater, ApiStep, Commit, Drop, OtherClient, deliveryVars
  <2>5. CASE Receive \/ GiveUp \/ InterruptSend
    BY <2>1, <2>5 DEF Receive, GiveUp, InterruptSend, Outcome
  <2>6. QED
    BY <2>2, <2>4, <2>5 DEF DeliveryNext, SenderStep
<1>2. /\ \A r \in rows' : r[1] \in DOMAIN reqs' /\ r \in AttemptRows(r[1])'
      /\ rows \subseteq rows'
  <2>1. \A r \in rows : r[1] \in DOMAIN reqs' /\ r \in AttemptRows(r[1])'
    BY <1>k, RowsKept DEF TypeOK, ReqsKept
  <2>2. \A k \in DOMAIN reqs' : \A r \in AttemptRows(k)' : r[1] = k
    BY DEF AttemptRows
  <2>3. QED
    BY <2>1, <2>2, StoreStep
<1>3. alerts' \subseteq [row : rows', severity : {"HIGH", "MEDIUM"}]
  <2>1. alerts \subseteq [row : rows', severity : {"HIGH", "MEDIUM"}]
    BY <1>2 DEF TypeOK
  <2>2. \A R : AlertsOf(R)' \subseteq [row : R, severity : {"HIGH", "MEDIUM"}]
    BY DEF AlertsOf, IsAttack, SEVERITY
  <2>3. QED
    BY <2>1, <2>2, StoreStep
<1>4. /\ sender' \in {"idle", "post", "wait"} /\ attempt' \in 0 .. MaxRetries
      /\ current' \in 0 .. Len(reqs') /\ (sender' = "wait" => current' > 0)
  <2>1. Len(reqs) \in Nat /\ Len(reqs') \in Nat /\ Len(reqs) <= Len(reqs')
    BY <1>k, <1>t, LenProperties DEF ReqsKept
  <2>2. CASE Post
    <3>1. reqs' \in Seq(Req) /\ Len(reqs') = Len(reqs) + 1
      BY <1>t, <1>k, <2>2, AppendReq DEF Post, ReqsKept
    <3>2. QED
      BY <2>1, <2>2, <3>1 DEF Post, TypeOK
  <2>3. CASE ~Post
    <3>1. UNCHANGED current
      BY <2>3 DEF DeliveryNext, SenderStep, ApiStep, BeginSend, Receive,
         RetryLater, GiveUp, InterruptSend, Commit, Drop, OtherClient, deliveryVars
    <3>2. /\ sender' \in {"idle", "post", "wait"} /\ (sender' = "wait" => sender = "wait")
          /\ attempt' = 0 \/ UNCHANGED attempt
             \/ (attempt < MaxRetries /\ attempt' = attempt + 1)
      BY <2>3 DEF DeliveryNext, SenderStep, ApiStep, BeginSend, Receive, RetryLater,
         GiveUp, InterruptSend, Ended, Commit, Drop, OtherClient, deliveryVars, TypeOK
    <3>3. current \in 0 .. Len(reqs) /\ (sender = "wait" => current > 0)
          /\ attempt \in 0 .. MaxRetries
      BY DEF TypeOK
    <3>4. QED
      BY <1>m, <2>1, <3>1, <3>2, <3>3
  <2>4. QED
    BY <2>2, <2>3
<1>5. QED
  BY <1>1, <1>2, <1>3, <1>4, <1>k DEF TypeOK, ReqsKept, Sub, Req

\* What stays of the submissions in a step: flows, and an outcome once told.
SubsKept ==
  /\ subs' \in Seq(Sub) /\ Len(subs) <= Len(subs')
  /\ \A s \in DOMAIN subs : /\ s \in DOMAIN subs'
                            /\ subs'[s].flows = subs[s].flows
                            /\ s # Len(subs) => subs'[s] = subs[s]

LEMMA EndedSubs ==
  ASSUME subs \in Seq(Sub), subs # <<>>, NEW o \in Outcome, Ended(o)
  PROVE  /\ SubsKept /\ Len(subs') = Len(subs) /\ Len(subs) \in DOMAIN subs
         /\ subs'[Len(subs)].outcome = o
<1> DEFINE e == [subs[Len(subs)] EXCEPT !.outcome = o]
<1>1. Len(subs) \in 1 .. Len(subs) /\ DOMAIN subs = 1 .. Len(subs) /\ Len(subs) \in Nat
  BY EmptySeq, LenProperties
<1>2. subs[Len(subs)] \in Sub
  BY <1>1, ElementOfSeq
<1>3. e \in Sub /\ e.flows = subs[Len(subs)].flows /\ e.outcome = o
  BY <1>2 DEF Sub
<1>4. subs' = [subs EXCEPT ![Len(subs)] = e]
  BY DEF Ended
<1> HIDE DEF e
<1>5. /\ subs' \in Seq(Sub) /\ Len(subs') = Len(subs)
      /\ \A j \in 1 .. Len(subs) : subs'[j] = IF j = Len(subs) THEN e ELSE subs[j]
  BY <1>1, <1>3, <1>4, ExceptSeq
<1>6. DOMAIN subs' = 1 .. Len(subs)
  BY <1>5, LenProperties
<1>7. subs'[Len(subs)] = e
  BY <1>1, <1>5, Zenon
<1>8. \A s \in DOMAIN subs : subs'[s].flows = subs[s].flows
                            /\ (s # Len(subs) => subs'[s] = subs[s])
  <2>1. TAKE s \in DOMAIN subs
  <2>2. CASE s = Len(subs)
    BY <1>3, <1>7, <2>2
  <2>3. CASE s # Len(subs)
    BY <1>1, <1>5, <2>3, Zenon
  <2>4. QED
    BY <2>2, <2>3
<1>9. SubsKept
  <2>1. Len(subs') = Len(subs) /\ Len(subs) \in Nat /\ DOMAIN subs' = DOMAIN subs
    BY <1>1, <1>5, <1>6, Zenon
  <2>2. Len(subs) <= Len(subs')
    BY <2>1
  <2>3. \A s \in DOMAIN subs : s \in DOMAIN subs'
    BY <2>1
  <2>4. QED
    BY <1>5, <1>8, <2>2, <2>3, Zenon DEF SubsKept
<1>10. QED
  BY <1>1, <1>3, <1>5, <1>7, <1>9, Zenon

LEMMA BeginSubs ==
  ASSUME subs \in Seq(Sub), NEW b \in Seq(Flow), BeginSend(b)
  PROVE  /\ SubsKept /\ Len(subs') = Len(subs) + 1 /\ \A s \in DOMAIN subs : subs'[s] = subs[s]
         /\ DOMAIN subs' = 1 .. Len(subs) + 1 /\ DOMAIN subs = 1 .. Len(subs)
         /\ subs'[Len(subs) + 1] = [flows |-> b, outcome |-> "pending"]
<1> DEFINE e == [flows |-> b, outcome |-> "pending"]
<1>1. e \in Sub
  BY DEF Sub, Outcome
<1>2. subs' = Append(subs, e)
  BY DEF BeginSend
<1> HIDE DEF e
<1>3. /\ subs' \in Seq(Sub) /\ Len(subs') = Len(subs) + 1 /\ Len(subs) \in Nat
      /\ \A s \in 1 .. Len(subs) : subs'[s] = subs[s]
      /\ subs'[Len(subs) + 1] = e
      /\ DOMAIN subs' = 1 .. Len(subs) + 1 /\ DOMAIN subs = 1 .. Len(subs)
  BY <1>1, <1>2, AppendReq
<1>4. QED
  BY <1>3 DEF SubsKept, e

\* Which of the three things a step does to the submissions.
LEMMA SubsStep ==
  ASSUME TypeOK, [DeliveryNext]_deliveryVars
  PROVE  /\ SubsKept
         /\ \/ UNCHANGED subs /\ (sender' = "idle" <=> sender = "idle")
            \/ \E b \in Seq(Flow) : BeginSend(b)
            \/ \E o \in Outcome \ {"pending"} : Ended(o) /\ sender # "idle"
<1>0. subs \in Seq(Sub) /\ (sender # "idle" => subs # <<>>)
  BY DEF TypeOK, Sub
<1>1. \/ UNCHANGED subs /\ (sender' = "idle" <=> sender = "idle")
      \/ \E b \in Seq(Flow) : BeginSend(b)
      \/ \E o \in Outcome \ {"pending"} : Ended(o) /\ sender # "idle"
  BY DEF DeliveryNext, SenderStep, ApiStep, Post, Receive, RetryLater, GiveUp, InterruptSend,
     Commit, Drop, OtherClient, Outcome, deliveryVars
<1>2. UNCHANGED subs => SubsKept
  BY <1>0, LenProperties DEF SubsKept
<1>3. QED
  BY <1>0, <1>1, <1>2, EndedSubs, BeginSubs

-----------------------------------------------------------------------------
(* Where requests and rows come from.                                      *)

\* Every request is of another client or an attempt at an earlier submission,
\* with its flows; only the submission at work has no outcome yet.
FromSubmission(k) ==
  /\ reqs[k].sub \in 0 .. Len(subs)
  /\ reqs[k].sub > 0 => reqs[k].flows = subs[reqs[k].sub].flows
AtWork(s) == s = Len(subs) /\ sender # "idle"
Traced ==
  /\ IsFiniteSet(rows)
  /\ \A k \in DOMAIN reqs : FromSubmission(k)
  /\ sender = "wait" => reqs[current].sub = Len(subs)
  /\ \A s \in DOMAIN subs : subs[s].outcome = "pending" <=> AtWork(s)

LEMMA TracedInit ==
  ASSUME DeliveryInit PROVE TypeOK /\ Traced
<1>1. TypeOK
  BY RetryAssumption, EmptySeq DEF DeliveryInit, TypeOK
<1>2. Traced
  BY FS_EmptySet DEF DeliveryInit, Traced
<1>3. QED
  BY <1>1, <1>2

LEMMA TracedStep ==
  ASSUME TypeOK, Traced, [DeliveryNext]_deliveryVars
  PROVE  Traced'
<1>t. /\ reqs \in Seq(Req) /\ subs \in Seq(Sub) /\ Len(subs) \in Nat /\ Len(subs') \in Nat
      /\ Len(reqs) \in Nat /\ DOMAIN subs = 1 .. Len(subs) /\ DOMAIN subs' = 1 .. Len(subs')
      /\ DOMAIN reqs = 1 .. Len(reqs)
  <2>1. reqs \in Seq(Req) /\ subs \in Seq(Sub) /\ subs' \in Seq(Sub)
    BY SubsStep DEF TypeOK, Req, Sub, SubsKept
  <2>2. QED
    BY <2>1, LenProperties
<1>k. ReqsKept /\ SubsKept
  BY <1>t, StepReqs, ReqsStepKeeps, SubsStep
<1>1. IsFiniteSet(rows')
  <2>1. ASSUME NEW k \in DOMAIN reqs' PROVE IsFiniteSet(AttemptRows(k)')
    <3>1. reqs'[k] \in Req
      BY <1>k, ElementOfSeq, LenProperties DEF ReqsKept
    <3>2. Len(reqs'[k].flows) \in Nat
      BY <3>1, LenProperties DEF Req
    <3>3. \A b \in Int : IsFiniteSet(1 .. b)
      BY FS_Interval
    <3>4. IsFiniteSet(1 .. Len(reqs'[k].flows))
      BY <3>2, <3>3
    <3>5. IsFiniteSet({k})
      BY FS_Singleton
    <3>6. QED
      BY <3>4, <3>5, FS_Product DEF AttemptRows
  <2>2. \A k \in DOMAIN reqs' : IsFiniteSet(rows \cup AttemptRows(k)')
    BY <2>1, FS_Union DEF Traced
  <2>3. QED
    BY <2>2, StoreStep DEF Traced
<1>2. \A k \in DOMAIN reqs : FromSubmission(k)'
  <2>1. TAKE k \in DOMAIN reqs
  <2>2. reqs'[k].sub = reqs[k].sub /\ reqs'[k].flows = reqs[k].flows
    BY <1>k DEF ReqsKept
  <2>3. FromSubmission(k)
    BY DEF Traced
  <2>4. Len(subs) <= Len(subs')
    BY <1>k DEF SubsKept
  <2>5. ASSUME reqs[k].sub > 0 PROVE subs'[reqs[k].sub].flows = subs[reqs[k].sub].flows
    <3>1. reqs[k].sub \in DOMAIN subs
      BY <1>t, <2>3, <2>5 DEF FromSubmission
    <3>2. QED
      BY <1>k, <3>1 DEF SubsKept
  <2>6. QED
    BY <1>t, <2>2, <2>3, <2>4, <2>5 DEF FromSubmission
<1>3. CASE Post
  <2> DEFINE q == [sub |-> Len(subs), flows |-> subs[Len(subs)].flows, state |-> "sent"]
  <2>1. subs # <<>> /\ Len(subs) \in DOMAIN subs /\ UNCHANGED subs /\ sender # "idle" /\ sender' # "idle"
    BY <1>3, <1>t, EmptySeq DEF Post, TypeOK
  <2>2. q \in Req /\ q.sub = Len(subs) /\ q.flows = subs[Len(subs)].flows
    <3>1. subs[Len(subs)] \in Sub
      BY <1>t, <2>1, ElementOfSeq
    <3>2. QED
      BY <1>t, <3>1 DEF Req, ReqState, Sub
  <2>3. reqs' = Append(reqs, q) /\ current' = Len(reqs) + 1
    BY <1>3 DEF Post
  <2> HIDE DEF q
  <2>4. DOMAIN reqs' = 1 .. Len(reqs) + 1 /\ reqs'[Len(reqs) + 1] = q
    BY <1>t, <2>2, <2>3, AppendReq
  <2>5. \A k \in DOMAIN reqs' : FromSubmission(k)'
    <3>1. ASSUME NEW k, k = Len(reqs) + 1 PROVE FromSubmission(k)'
      BY <1>t, <2>1, <2>2, <2>4, <3>1 DEF FromSubmission
    <3>2. QED
      BY <1>2, <1>t, <2>4, <3>1
  <2>6. sender' = "wait" => reqs'[current'].sub = Len(subs')
    BY <2>1, <2>2, <2>3, <2>4
  <2>7. \A s \in DOMAIN subs' : subs'[s].outcome = "pending" <=> AtWork(s)'
    BY <2>1 DEF Traced, AtWork
  <2>8. QED
    BY <1>1, <2>5, <2>6, <2>7, Zenon DEF Traced
<1>4. CASE \E f \in Flow : OtherClient(f)
  <2>1. PICK f \in Flow : OtherClient(f)
    BY <1>4
  <2> DEFINE q == [sub |-> 0, flows |-> <<f>>, state |-> "committed"]
  <2>2. q \in Req /\ reqs' = Append(reqs, q) /\ q.sub = 0 /\ UNCHANGED <<subs, sender, current>>
    BY <2>1 DEF OtherClient, Req, ReqState
  <2> HIDE DEF q
  <2>3. DOMAIN reqs' = 1 .. Len(reqs) + 1 /\ reqs'[Len(reqs) + 1] = q
    BY <1>t, <2>2, AppendReq
  <2>4. \A k \in DOMAIN reqs' : FromSubmission(k)'
    <3>1. ASSUME NEW k, k = Len(reqs) + 1 PROVE FromSubmission(k)'
      BY <1>t, <2>2, <2>3, <3>1 DEF FromSubmission
    <3>2. QED
      BY <1>2, <1>t, <2>3, <3>1
  <2>5. sender' = "wait" => reqs'[current'].sub = Len(subs')
    BY <1>t, <1>k, <2>2 DEF Traced, TypeOK, ReqsKept
  <2>6. \A s \in DOMAIN subs' : subs'[s].outcome = "pending" <=> AtWork(s)'
    BY <2>2 DEF Traced, AtWork
  <2>7. QED
    BY <1>1, <2>4, <2>5, <2>6, Zenon DEF Traced
<1>5. CASE ~Post /\ ~(\E f \in Flow : OtherClient(f))
  <2>1. DOMAIN reqs' = DOMAIN reqs /\ UNCHANGED current
    <3>1. CASE UNCHANGED <<reqs, current>>
      BY <3>1
    <3>2. CASE \E k \in DOMAIN reqs : Commit(k) \/ Drop(k)
      <4>1. PICK k \in DOMAIN reqs, s \in ReqState : SetState(k, s) /\ UNCHANGED current
        BY <3>2 DEF Commit, Drop, ReqState
      <4>2. QED
        BY <1>t, <4>1, SetStateReq
    <3>3. QED
      BY <1>5, <3>1, <3>2 DEF DeliveryNext, SenderStep, ApiStep, BeginSend, Receive, RetryLater,
         GiveUp, InterruptSend, deliveryVars
  <2>2. sender' = "wait" => sender = "wait" /\ UNCHANGED subs
    BY <1>5 DEF DeliveryNext, SenderStep, ApiStep, BeginSend, Receive, RetryLater,
       GiveUp, InterruptSend, Ended, Commit, Drop, deliveryVars
  <2>3. sender' = "wait" => reqs'[current'].sub = Len(subs')
    <3>1. HAVE sender' = "wait"
    <3>2. current \in DOMAIN reqs /\ reqs[current].sub = Len(subs)
      BY <1>t, <2>2, <3>1 DEF Traced, TypeOK
    <3>3. reqs'[current].sub = reqs[current].sub
      BY <1>k, <3>2 DEF ReqsKept
    <3>4. QED
      BY <2>1, <2>2, <3>1, <3>2, <3>3
  <2>4. \A s \in DOMAIN subs' : subs'[s].outcome = "pending" <=> AtWork(s)'
    <3>1. CASE UNCHANGED subs /\ (sender' = "idle" <=> sender = "idle")
      BY <3>1 DEF Traced, AtWork
    <3>2. CASE \E b \in Seq(Flow) : BeginSend(b)
      <4>1. PICK b \in Seq(Flow) : BeginSend(b)
        BY <3>2
      <4>2. sender = "idle" /\ sender' # "idle"
        BY <4>1 DEF BeginSend
      <4>3. /\ DOMAIN subs' = 1 .. Len(subs) + 1 /\ Len(subs') = Len(subs) + 1
            /\ \A s \in DOMAIN subs : subs'[s] = subs[s]
            /\ subs'[Len(subs) + 1] = [flows |-> b, outcome |-> "pending"]
        <5>1. subs \in Seq(Sub)
          BY <1>t
        <5>2. QED
          BY <4>1, <5>1, BeginSubs
      <4>4. \A s \in 1 .. Len(subs) : subs[s].outcome # "pending"
        BY <1>t, <4>2 DEF Traced, AtWork
      <4>5. QED
        BY <1>t, <4>2, <4>3, <4>4 DEF AtWork
    <3>3. CASE \E o \in Outcome \ {"pending"} : Ended(o) /\ sender # "idle"
      <4>1. PICK o \in Outcome \ {"pending"} : Ended(o) /\ sender # "idle"
        BY <3>3
      <4>2. sender' = "idle" /\ subs # <<>>
        BY <4>1 DEF Ended, TypeOK
      <4>3. /\ Len(subs') = Len(subs) /\ subs'[Len(subs)].outcome = o
            /\ \A s \in DOMAIN subs : s # Len(subs) => subs'[s] = subs[s]
        BY <1>t, <4>1, <4>2, EndedSubs, Zenon DEF SubsKept
      <4>4. QED
        BY <1>t, <4>1, <4>2, <4>3 DEF Traced, AtWork
    <3>4. QED
      BY <3>1, <3>2, <3>3, SubsStep
  <2>5. QED
    BY <1>1, <1>2, <2>1, <2>3, <2>4, Zenon DEF Traced
<1>6. QED
  BY <1>3, <1>4, <1>5

-----------------------------------------------------------------------------
(* What the rows and the alerts are of.                                    *)

\* A request's rows are stored all, once it is committed, or none of them.
StoredWhole ==
  \A k \in DOMAIN reqs :
    AttemptRows(k) \cap rows =
      IF reqs[k].state = "committed" THEN AttemptRows(k) ELSE {}

\* The alerts are those of the stored attacks.
AlertsWhole == alerts = AlertsOf(rows)

LEMMA AtomicStep ==
  ASSUME TypeOK, StoredWhole, [DeliveryNext]_deliveryVars
  PROVE  StoredWhole'
<1> SUFFICES ASSUME NEW j \in DOMAIN reqs'
             PROVE  AttemptRows(j)' \cap rows' =
                      IF Committed(j)' THEN AttemptRows(j)' ELSE {}
  BY DEF StoredWhole, Committed
<1>1. ReqsKept
  BY StepReqs, ReqsStepKeeps DEF TypeOK, Req
<1>2. AttemptRows(j)' \cap rows = IF Committed(j) THEN AttemptRows(j)' ELSE {}
  <2>1. CASE j \in DOMAIN reqs
    BY <1>1, <2>1, RowsKept DEF StoredWhole, Committed
  <2>2. CASE j \notin DOMAIN reqs
    BY <2>2 DEF TypeOK, AttemptRows, Committed
  <2>3. QED
    BY <2>1, <2>2
<1>3. \A k : k # j => AttemptRows(j)' \cap AttemptRows(k)' = {}
  BY DEF AttemptRows
<1>4. QED
  BY <1>2, <1>3, StoreStep

LEMMA AlertsStep ==
  ASSUME TypeOK, AlertsWhole, [DeliveryNext]_deliveryVars
  PROVE  AlertsWhole'
<1>1. ReqsKept
  BY StepReqs, ReqsStepKeeps DEF TypeOK, Req
<1>2. AlertsOf(rows) = {[row |-> r, severity |-> SEVERITY[LabelOf[FlowOf(r)']]] :
                          r \in {x \in rows : LabelOf[FlowOf(x)'] \in DOMAIN SEVERITY}}
  BY <1>1, RowsKept DEF AlertsOf, IsAttack
<1>3. CASE UNCHANGED <<rows, alerts>>
  BY <1>2, <1>3 DEF AlertsWhole, AlertsOf, IsAttack
<1>4. ASSUME NEW k, rows' = rows \cup AttemptRows(k)',
             alerts' = alerts \cup AlertsOf(AttemptRows(k))'
      PROVE  AlertsWhole'
  BY <1>2, <1>4 DEF AlertsWhole, AlertsOf, IsAttack
<1>5. QED
  BY <1>3, <1>4, StoreStep

\* An outcome told to the collector stays.
LEMMA OutcomeStays ==
  ASSUME TypeOK, Traced, [DeliveryNext]_deliveryVars,
         NEW s \in DOMAIN subs, subs[s].outcome # "pending"
  PROVE  subs'[s] = subs[s]
<1>1. ~AtWork(s)
  BY DEF Traced
<1>2. CASE s = Len(subs)
  <2>1. sender = "idle"
    BY <1>1, <1>2 DEF AtWork
  <2>2. CASE UNCHANGED subs
    BY <2>2
  <2>3. ASSUME NEW b \in Seq(Flow), BeginSend(b) PROVE subs'[s] = subs[s]
    BY <2>3, BeginSubs DEF TypeOK, Sub
  <2>4. QED
    BY <2>1, <2>2, <2>3, SubsStep
<1>3. CASE s # Len(subs)
  BY <1>3, SubsStep DEF SubsKept
<1>4. QED
  BY <1>2, <1>3

-----------------------------------------------------------------------------
(* Counting rows.                                                          *)

LEMMA DisjointUnion ==
  ASSUME NEW A, NEW B, IsFiniteSet(A), IsFiniteSet(B), A \cap B = {}
  PROVE  Cardinality(A \cup B) = Cardinality(A) + Cardinality(B)
<1>1. Cardinality(A) \in Nat /\ Cardinality(B) \in Nat
  BY FS_CardinalityType
<1>2. Cardinality(A \cup B) = Cardinality(A) + Cardinality(B) - Cardinality(A \cap B)
  BY FS_Union
<1>3. Cardinality(A \cap B) = 0
  BY FS_EmptySet
<1>4. QED
  BY <1>1, <1>2, <1>3

\* Two sets that do not meet and fill the window by number fill it exactly.
LEMMA ExactByCount ==
  ASSUME NEW A, NEW B, NEW C, IsFiniteSet(C), A \cup B \subseteq C, A \cap B = {},
         Cardinality(C) - Cardinality(A) = Cardinality(B)
  PROVE  C \ A = B
<1>1. IsFiniteSet(A) /\ IsFiniteSet(B)
  BY FS_Subset
<1>2. Cardinality(A) \in Nat /\ Cardinality(B) \in Nat /\ Cardinality(C) \in Nat
  BY <1>1, FS_CardinalityType
<1>3. Cardinality(A \cup B) = Cardinality(A) + Cardinality(B)
  BY <1>1, DisjointUnion
<1>4. Cardinality(A \cup B) = Cardinality(C)
  BY <1>2, <1>3
<1>5. A \cup B = C
  BY <1>4, FS_Subset
<1>6. QED
  BY <1>5

\* The rows of an attempt are as many as its flows.
LEMMA AttemptSize ==
  ASSUME reqs \in Seq(Req), NEW k \in DOMAIN reqs
  PROVE  IsFiniteSet(AttemptRows(k)) /\ Cardinality(AttemptRows(k)) = Len(reqs[k].flows)
<1>1. Len(reqs[k].flows) \in Nat
  <2>1. reqs[k] \in Req
    BY ElementOfSeq, LenProperties
  <2>2. QED
    BY <2>1, LenProperties DEF Req
<1> DEFINE m == Len(reqs[k].flows)
<1>2. IsFiniteSet(1 .. m) /\ Cardinality(1 .. m) = m
  <2>1. m \in Int /\ 1 \in Int /\ (1 > m => m = 0)
    BY <1>1
  <2> HIDE DEF m
  <2>2. IsFiniteSet(1 .. m) /\ Cardinality(1 .. m) = IF 1 > m THEN 0 ELSE m - 1 + 1
    BY <2>1, FS_Interval
  <2>3. QED
    BY <2>1, <2>2
<1>3. IsFiniteSet({k}) /\ Cardinality({k}) = 1
  BY FS_Singleton
<1> HIDE DEF m
<1>4. IsFiniteSet({k} \X (1 .. m)) /\ Cardinality({k} \X (1 .. m)) = Cardinality({k}) * m
  BY <1>2, <1>3, FS_Product
<1>5. Cardinality({k} \X (1 .. m)) = m
  BY <1>1, <1>3, <1>4 DEF m
<1>6. QED
  BY <1>4, <1>5 DEF m, AttemptRows

-----------------------------------------------------------------------------
(* How often a submission is attempted.                                    *)

Attempts(s) == {k \in DOMAIN reqs : reqs[k].sub = s}

\* No submission has more attempts than send makes, the one at work as many
\* as its counter says.
Bounded ==
  /\ \A s \in DOMAIN subs : Cardinality(Attempts(s)) <= MaxRetries + 1
  /\ sender = "post" => Cardinality(Attempts(Len(subs))) <= attempt
  /\ sender = "wait" => Cardinality(Attempts(Len(subs))) <= attempt + 1

LEMMA AttemptsFinite ==
  ASSUME reqs \in Seq(Req), NEW s
  PROVE  /\ IsFiniteSet(Attempts(s)) /\ IsFiniteSet(Stored(s)) /\ Stored(s) \subseteq Attempts(s)
         /\ Cardinality(Attempts(s)) \in Nat /\ Cardinality(Stored(s)) \in Nat
         /\ Cardinality(Stored(s)) <= Cardinality(Attempts(s))
<1>1. DOMAIN reqs = 1 .. Len(reqs) /\ Len(reqs) \in Int
  BY LenProperties
<1>2. IsFiniteSet(1 .. Len(reqs))
  BY <1>1, FS_Interval
<1>3. Attempts(s) \subseteq 1 .. Len(reqs) /\ Stored(s) \subseteq Attempts(s)
  BY <1>1 DEF Attempts, Stored
<1>4. IsFiniteSet(Attempts(s)) /\ IsFiniteSet(Stored(s))
  BY <1>2, <1>3, FS_Subset
<1>5. Cardinality(Stored(s)) <= Cardinality(Attempts(s))
  BY <1>3, <1>4, FS_Subset
<1>6. QED
  BY <1>3, <1>4, <1>5, FS_CardinalityType

\* Only a post adds an attempt, and only to the submission at work.
LEMMA AttemptsStep ==
  ASSUME TypeOK, [DeliveryNext]_deliveryVars
  PROVE  IF Post
         THEN /\ \A s : s # Len(subs) => Attempts(s)' = Attempts(s)
              /\ \A s : s = Len(subs) => Attempts(s)' = Attempts(s) \cup {Len(reqs) + 1}
              /\ Len(reqs) + 1 \notin DOMAIN reqs
         ELSE \A s : s # 0 => Attempts(s)' = Attempts(s)
<1>0. /\ reqs \in Seq(Req) /\ subs \in Seq(Sub) /\ DOMAIN reqs = 1 .. Len(reqs)
      /\ Len(reqs) \in Nat /\ Len(subs) \in Nat
  <2>1. reqs \in Seq(Req) /\ subs \in Seq(Sub)
    BY DEF TypeOK, Req, Sub
  <2>2. QED
    BY <2>1, LenProperties
<1>1. CASE Post
  <2> DEFINE q == [sub |-> Len(subs), flows |-> subs[Len(subs)].flows, state |-> "sent"]
  <2>1. q \in Req /\ q.sub = Len(subs) /\ reqs' = Append(reqs, q)
    BY <1>0, <1>1, SubsTyped DEF Post, TypeOK, Req, ReqState, Outcome
  <2> HIDE DEF q
  <2>2. /\ DOMAIN reqs' = 1 .. Len(reqs) + 1 /\ reqs'[Len(reqs) + 1].sub = Len(subs)
        /\ \A k \in 1 .. Len(reqs) : reqs'[k] = reqs[k]
    BY <1>0, <2>1, AppendReq
  <2>3. ASSUME NEW s PROVE Attempts(s)' = {k \in 1 .. Len(reqs) + 1 : reqs'[k].sub = s}
    BY <2>2 DEF Attempts
  <2>4. ASSUME NEW s PROVE Attempts(s) = {k \in 1 .. Len(reqs) : reqs'[k].sub = s}
    BY <1>0, <2>2 DEF Attempts
  <2>5. 1 .. Len(reqs) + 1 = (1 .. Len(reqs)) \cup {Len(reqs) + 1} /\ Len(reqs) + 1 \notin 1 .. Len(reqs)
    BY <1>0
  <2>6. QED
    BY <1>0, <1>1, <2>2, <2>3, <2>4, <2>5
<1>2. CASE \E f \in Flow : OtherClient(f)
  <2>1. PICK f \in Flow : OtherClient(f)
    BY <1>2
  <2> DEFINE q == [sub |-> 0, flows |-> <<f>>, state |-> "committed"]
  <2>2. q \in Req /\ q.sub = 0 /\ reqs' = Append(reqs, q) /\ sender' = sender
    BY <2>1 DEF OtherClient, Req, ReqState
  <2> HIDE DEF q
  <2>3. /\ DOMAIN reqs' = 1 .. Len(reqs) + 1 /\ reqs'[Len(reqs) + 1].sub = 0
        /\ \A k \in 1 .. Len(reqs) : reqs'[k] = reqs[k]
    BY <1>0, <2>2, AppendReq
  <2>4. ~Post
    BY <2>2 DEF Post
  <2>5. QED
    BY <1>0, <2>3, <2>4 DEF Attempts
<1>3. CASE \E k \in DOMAIN reqs : Commit(k) \/ Drop(k)
  <2>1. PICK k \in DOMAIN reqs, z \in ReqState : SetState(k, z) /\ UNCHANGED sender
    BY <1>3 DEF Commit, Drop, ReqState
  <2>2. DOMAIN reqs' = DOMAIN reqs /\ \A j \in DOMAIN reqs : reqs'[j].sub = reqs[j].sub
    BY <1>0, <2>1, SetStateReq
  <2>3. ~Post
    BY <2>1 DEF Post
  <2>4. QED
    BY <2>2, <2>3 DEF Attempts
<1>4. CASE UNCHANGED reqs /\ ~Post
  BY <1>4 DEF Attempts
<1>5. QED
  <2>1. \/ Post \/ (\E f \in Flow : OtherClient(f)) \/ (\E k \in DOMAIN reqs : Commit(k) \/ Drop(k))
        \/ UNCHANGED reqs
    BY DEF DeliveryNext, SenderStep, ApiStep, BeginSend, Receive,
       RetryLater, GiveUp, InterruptSend, deliveryVars
  <2>2. QED
    BY <1>1, <1>2, <1>3, <1>4, <2>1

LEMMA BoundedStep ==
  ASSUME TypeOK, Traced, Bounded, [DeliveryNext]_deliveryVars
  PROVE  Bounded'
<1>0. /\ reqs \in Seq(Req) /\ subs \in Seq(Sub) /\ DOMAIN subs = 1 .. Len(subs)
      /\ Len(subs) \in Nat /\ (sender # "idle" => Len(subs) \in DOMAIN subs)
      /\ MaxRetries \in Nat /\ attempt \in 0 .. MaxRetries
  <2>1. reqs \in Seq(Req) /\ subs \in Seq(Sub)
    BY DEF TypeOK, Req, Sub
  <2>2. QED
    BY <2>1, LenProperties, EmptySeq, RetryAssumption DEF TypeOK
<1>1. CASE Post
  <2>1. /\ sender = "post" /\ sender' = "wait" /\ UNCHANGED <<subs, attempt>>
    BY <1>1 DEF Post
  <2>2. ASSUME NEW s \in DOMAIN subs, s # Len(subs)
        PROVE  Cardinality(Attempts(s)') <= MaxRetries + 1
    BY <1>1, <2>2, AttemptsStep DEF Bounded
  <2>3. ASSUME NEW s, s = Len(subs)
        PROVE  Cardinality(Attempts(s)') \in Nat /\ Cardinality(Attempts(s)') <= attempt + 1
    <3>1. Attempts(s)' = Attempts(s) \cup {Len(reqs) + 1} /\ Len(reqs) + 1 \notin Attempts(s)
      BY <1>1, <2>3, AttemptsStep DEF Attempts
    <3>2. IsFiniteSet(Attempts(s)) /\ Cardinality(Attempts(s)) \in Nat
      BY <1>0, AttemptsFinite
    <3>3. Cardinality(Attempts(s)') = Cardinality(Attempts(s)) + 1
      BY <3>1, <3>2, FS_AddElement
    <3>4. Cardinality(Attempts(s)) <= attempt
      BY <2>1, <2>3 DEF Bounded
    <3>5. QED
      BY <1>0, <3>2, <3>3, <3>4
  <2>4. \A s \in DOMAIN subs : Cardinality(Attempts(s)') <= MaxRetries + 1
    BY <1>0, <2>2, <2>3
  <2>5. QED
    BY <2>1, <2>3, <2>4 DEF Bounded
<1>2. CASE ~Post
  <2>1. \A s \in Nat \ {0} : Attempts(s)' = Attempts(s)
    BY <1>2, AttemptsStep
  <2>2. CASE \E b \in Seq(Flow) : BeginSend(b)
    <3>1. PICK b \in Seq(Flow) : BeginSend(b)
      BY <2>2
    <3>2. DOMAIN subs' = 1 .. Len(subs) + 1 /\ Len(subs') = Len(subs) + 1
      BY <1>0, <3>1, BeginSubs
    <3>3. sender' = "post" /\ attempt' = 0
      BY <3>1 DEF BeginSend
    <3>4. ASSUME NEW s, s = Len(subs) + 1 PROVE Cardinality(Attempts(s)') = 0
      <4>1. Attempts(s) = {}
        BY <1>0, <3>4 DEF Traced, FromSubmission, Attempts
      <4>2. Attempts(s)' = {}
        BY <1>0, <2>1, <3>4, <4>1
      <4>3. QED
        BY <4>2, FS_EmptySet
    <3>5. \A s \in DOMAIN subs' : Cardinality(Attempts(s)') <= MaxRetries + 1
      BY <1>0, <2>1, <3>2, <3>4 DEF Bounded
    <3>6. Cardinality(Attempts(Len(subs)))' <= attempt'
      BY <3>2, <3>3, <3>4
    <3>7. QED
      BY <3>3, <3>5, <3>6 DEF Bounded
  <2>3. CASE Ended("delivered") \/ Ended("failed") \/ Ended("interrupted")
    <3>1. sender' = "idle"
      BY <2>3 DEF Ended
    <3>2. DOMAIN subs' = DOMAIN subs
      BY <2>3 DEF Ended
    <3>3. QED
      BY <1>0, <2>1, <3>1, <3>2 DEF Bounded
  <2>4. CASE RetryLater
    BY <1>0, <2>1, <2>4 DEF Bounded, RetryLater
  <2>5. CASE UNCHANGED <<subs, sender, attempt>>
    BY <1>0, <2>1, <2>5 DEF Bounded
  <2>6. QED
    BY <1>2, <2>2, <2>3, <2>4, <2>5 DEF DeliveryNext, SenderStep, ApiStep, Receive, GiveUp,
       InterruptSend, Commit, Drop, OtherClient, deliveryVars
<1>3. QED
  BY <1>1, <1>2

-----------------------------------------------------------------------------
(* The contract.                                                           *)

\* What a step does to the stored attempts of submission s.
LEMMA StoredStep ==
  ASSUME TypeOK, [DeliveryNext]_deliveryVars, NEW s, s # 0
  PROVE  \/ Stored(s)' = Stored(s)
         \/ \E k \in Attempts(s) : /\ reqs[k].state = "sent" /\ Commit(k)
                                   /\ Stored(s)' = Stored(s) \cup {k}
<1>0. reqs \in Seq(Req) /\ DOMAIN reqs = 1 .. Len(reqs) /\ Len(reqs) \in Nat
  <2>1. reqs \in Seq(Req)
    BY DEF TypeOK, Req
  <2>2. QED
    BY <2>1, LenProperties
<1>1. ASSUME NEW q \in Req, reqs' = Append(reqs, q), q.sub # s \/ q.state # "committed"
      PROVE  Stored(s)' = Stored(s)
  <2>1. /\ DOMAIN reqs' = 1 .. Len(reqs) + 1 /\ reqs'[Len(reqs) + 1] = q
        /\ \A k \in 1 .. Len(reqs) : reqs'[k] = reqs[k]
    BY <1>0, <1>1, AppendReq
  <2>2. QED
    BY <1>0, <1>1, <2>1 DEF Stored
<1>2. CASE Post
  <2>1. [sub |-> Len(subs), flows |-> subs[Len(subs)].flows, state |-> "sent"] \in Req
    BY <1>2, SubsTyped, LenProperties DEF Post, TypeOK, Sub, Req, ReqState, Outcome
  <2>2. QED
    BY <1>1, <1>2, <2>1 DEF Post
<1>3. CASE \E f \in Flow : OtherClient(f)
  <2>1. PICK f \in Flow : OtherClient(f)
    BY <1>3
  <2>2. [sub |-> 0, flows |-> <<f>>, state |-> "committed"] \in Req
    BY DEF Req, ReqState
  <2>3. QED
    BY <1>1, <2>1, <2>2 DEF OtherClient
<1>4. ASSUME NEW k \in DOMAIN reqs, NEW z \in ReqState, SetState(k, z), reqs[k].state = "sent"
      PROVE  Stored(s)' = IF z = "committed" /\ k \in Attempts(s) THEN Stored(s) \cup {k} ELSE Stored(s)
  <2>1. reqs[k] \in Req
    BY <1>0, ElementOfSeq
  <2>2. /\ DOMAIN reqs' = DOMAIN reqs /\ reqs'[k] = [reqs[k] EXCEPT !.state = z]
        /\ \A j \in DOMAIN reqs : j # k => reqs'[j] = reqs[j]
    BY <1>0, <1>4, SetStateReq, Zenon
  <2>3. reqs'[k].sub = reqs[k].sub /\ reqs'[k].state = z
    BY <2>1, <2>2 DEF Req
  <2>4. QED
    BY <1>4, <2>2, <2>3 DEF Stored, Attempts
<1>5. ASSUME NEW k \in DOMAIN reqs, Commit(k) \/ Drop(k)
      PROVE  \/ Stored(s)' = Stored(s)
             \/ /\ k \in Attempts(s) /\ reqs[k].state = "sent" /\ Commit(k)
                /\ Stored(s)' = Stored(s) \cup {k}
  BY <1>4, <1>5 DEF Commit, Drop, ReqState
<1>6. CASE UNCHANGED reqs
  BY <1>6 DEF Stored
<1>7. \/ Post \/ (\E f \in Flow : OtherClient(f)) \/ (\E k \in DOMAIN reqs : Commit(k) \/ Drop(k))
      \/ UNCHANGED reqs
  BY DEF DeliveryNext, SenderStep, ApiStep, BeginSend, Receive, RetryLater, GiveUp,
     InterruptSend, deliveryVars
<1>8. QED
  BY <1>2, <1>3, <1>5, <1>6, <1>7

OutcomeOf == [s \in DOMAIN subs |-> subs[s].outcome]
CopiesOf == [s \in DOMAIN subs |-> Cardinality(Stored(s))]

LEMMA ContractStep ==
  ASSUME TypeOK, Traced, Bounded, [DeliveryNext]_deliveryVars
  PROVE  [Contract!ContractNext]_(Contract!contractVars)
<1>0. /\ reqs \in Seq(Req) /\ subs \in Seq(Sub) /\ DOMAIN subs = 1 .. Len(subs)
      /\ Len(subs) \in Nat /\ DOMAIN reqs = 1 .. Len(reqs) /\ Len(reqs) \in Nat
      /\ MaxRetries \in Nat
  <2>1. reqs \in Seq(Req) /\ subs \in Seq(Sub)
    BY DEF TypeOK, Req, Sub
  <2>2. QED
    BY <2>1, LenProperties, RetryAssumption
<1>1. CASE UNCHANGED subs /\ \A s \in DOMAIN subs : Stored(s)' = Stored(s)
  <2>1. OutcomeOf' = OutcomeOf /\ CopiesOf' = CopiesOf
    BY <1>1 DEF OutcomeOf, CopiesOf
  <2>2. QED
    BY <2>1 DEF OutcomeOf, CopiesOf, Contract!contractVars
<1>2. ASSUME NEW s \in DOMAIN subs, NEW k \in Attempts(s), reqs[k].state = "sent", Commit(k),
             Stored(s)' = Stored(s) \cup {k}
      PROVE  Contract!Store(s)
  <2>1. UNCHANGED subs
    BY <1>2 DEF Commit
  <2>2. Cardinality(Stored(s)') = Cardinality(Stored(s)) + 1
    BY <1>0, <1>2, AttemptsFinite, FS_AddElement DEF Stored
  <2>3. Cardinality(Stored(s)) < MaxRetries + 1
    <3>1. /\ Cardinality(Attempts(s)) <= MaxRetries + 1
          /\ IsFiniteSet(Attempts(s)) /\ IsFiniteSet(Stored(s))
          /\ Cardinality(Attempts(s)) \in Nat /\ Cardinality(Stored(s)) \in Nat
      BY <1>0, AttemptsFinite DEF Bounded
    <3>2. Stored(s) \cup {k} \subseteq Attempts(s)
      BY <1>0, <1>2, AttemptsFinite
    <3>3. Cardinality(Stored(s) \cup {k}) <= Cardinality(Attempts(s))
      BY <3>1, <3>2, FS_Subset
    <3>4. QED
      BY <1>0, <1>2, <2>2, <3>1, <3>3
  <2>4. ASSUME NEW t \in DOMAIN subs, t # s PROVE Stored(t)' = Stored(t)
    <3>1. k \in DOMAIN reqs /\ reqs[k].sub # t /\ SetState(k, "committed") /\ "committed" \in ReqState
      BY <1>2, <2>4 DEF Commit, ReqState, Attempts
    <3>2. /\ DOMAIN reqs' = DOMAIN reqs /\ reqs'[k].sub = reqs[k].sub
          /\ \A j \in DOMAIN reqs : j # k => reqs'[j] = reqs[j]
      BY <1>0, <3>1, SetStateReq, Zenon
    <3>3. QED
      BY <3>1, <3>2 DEF Stored
  <2>5. CopiesOf' = [CopiesOf EXCEPT ![s] = @ + 1] /\ CopiesOf[s] = Cardinality(Stored(s))
    BY <2>1, <2>2, <2>4 DEF CopiesOf
  <2>6. OutcomeOf' = OutcomeOf
    BY <2>1 DEF OutcomeOf
  <2>7. QED
    BY <2>3, <2>5, <2>6 DEF OutcomeOf, CopiesOf, Contract!Store
<1>3. ASSUME NEW b \in Seq(Flow), BeginSend(b)
      PROVE  Contract!Accept
  <2>1. /\ DOMAIN subs' = 1 .. Len(subs) + 1 /\ Len(subs') = Len(subs) + 1
        /\ \A s \in 1 .. Len(subs) : subs'[s] = subs[s]
        /\ subs'[Len(subs) + 1].outcome = "pending"
    <3>1. /\ DOMAIN subs' = 1 .. Len(subs) + 1 /\ Len(subs') = Len(subs) + 1
          /\ \A s \in DOMAIN subs : subs'[s] = subs[s]
          /\ subs'[Len(subs) + 1] = [flows |-> b, outcome |-> "pending"]
      BY <1>0, <1>3, BeginSubs, Zenon
    <3>2. QED
      BY <1>0, <3>1
  <2>2. UNCHANGED reqs /\ sender = "idle"
    BY <1>3 DEF BeginSend
  <2>3. \A s \in DOMAIN subs : subs[s].outcome # "pending"
    BY <2>2 DEF Traced, AtWork
  <2>4. \A s : Stored(s)' = Stored(s)
    BY <2>2 DEF Stored
  <2>5. ASSUME NEW s, s = Len(subs) + 1 PROVE Cardinality(Stored(s)') = 0
    <3>1. Stored(s) = {}
      BY <1>0, <2>5 DEF Traced, FromSubmission, Stored
    <3>2. QED
      BY <2>4, <3>1, FS_EmptySet
  <2>6. OutcomeOf \in Seq(Outcome) /\ Len(OutcomeOf) = Len(subs)
    <3>1. \A s \in 1 .. Len(subs) : subs[s] \in Sub
      BY <1>0, ElementOfSeq
    <3>2. QED
      BY <1>0, <3>1 DEF OutcomeOf, Sub
  <2>7. CopiesOf \in Seq(Nat) /\ Len(CopiesOf) = Len(subs)
    BY <1>0, AttemptsFinite DEF CopiesOf
  <2>8. OutcomeOf' = Append(OutcomeOf, "pending")
    <3>1. /\ Append(OutcomeOf, "pending") \in Seq(Outcome)
          /\ DOMAIN Append(OutcomeOf, "pending") = 1 .. Len(subs) + 1
          /\ \A s \in 1 .. Len(subs) : Append(OutcomeOf, "pending")[s] = OutcomeOf[s]
          /\ Append(OutcomeOf, "pending")[Len(subs) + 1] = "pending"
      BY <2>6, AppendReq DEF Outcome
    <3>2. QED
      BY <1>0, <2>1, <3>1 DEF OutcomeOf
  <2>9. CopiesOf' = Append(CopiesOf, 0)
    BY <1>0, <2>1, <2>4, <2>5, <2>7, AppendReq DEF CopiesOf
  <2>10. QED
    BY <2>3, <2>8, <2>9 DEF OutcomeOf, CopiesOf, Contract!Accept
<1>4. ASSUME NEW o \in {"delivered", "failed", "interrupted"}, Ended(o), UNCHANGED reqs,
             sender # "idle", o = "delivered" => sender = "wait" /\ reqs[current].state = "committed"
      PROVE  Contract!Tell(Len(subs), o) /\ Len(subs) \in DOMAIN subs
  <2>1. subs # <<>> /\ o \in Outcome
    BY <1>4 DEF TypeOK, Outcome
  <2>2. /\ DOMAIN subs' = DOMAIN subs /\ Len(subs) \in DOMAIN subs /\ subs'[Len(subs)].outcome = o
        /\ \A s \in DOMAIN subs : s # Len(subs) => subs'[s] = subs[s]
    BY <1>0, <1>4, <2>1, EndedSubs, LenProperties DEF SubsKept
  <2>3. OutcomeOf' = [OutcomeOf EXCEPT ![Len(subs)] = o]
    BY <2>2 DEF OutcomeOf
  <2>4. CopiesOf' = CopiesOf
    BY <1>4, <2>2 DEF CopiesOf, Stored
  <2>5. OutcomeOf[Len(subs)] = "pending"
    BY <1>4, <2>2 DEF OutcomeOf, Traced, AtWork
  <2>6. o = "delivered" => CopiesOf[Len(subs)] > 0
    <3>1. HAVE o = "delivered"
    <3>2. current \in Stored(Len(subs))
      BY <1>0, <1>4, <3>1 DEF Stored, Traced, TypeOK
    <3>3. Cardinality(Stored(Len(subs))) # 0 /\ Cardinality(Stored(Len(subs))) \in Nat
      BY <1>0, <3>2, AttemptsFinite, FS_EmptySet
    <3>4. QED
      BY <2>2, <3>3 DEF CopiesOf
  <2>7. QED
    BY <2>2, <2>3, <2>4, <2>5, <2>6 DEF OutcomeOf, CopiesOf, Contract!Tell
<1>5. DOMAIN OutcomeOf = DOMAIN subs
  BY DEF OutcomeOf
<1>6. \A s \in DOMAIN subs : Contract!Store(s) => Contract!ContractNext
  BY <1>5 DEF Contract!ContractNext, OutcomeOf
<1>7. \A s \in DOMAIN subs, o \in {"delivered", "failed", "interrupted"} :
        Contract!Tell(s, o) => Contract!ContractNext
  BY <1>5 DEF Contract!ContractNext, OutcomeOf
<1>8. CASE \E b \in Seq(Flow) : BeginSend(b)
  BY <1>3, <1>8 DEF Contract!ContractNext
<1>9. CASE Receive \/ GiveUp \/ InterruptSend
  <2>1. \E o \in {"delivered", "failed", "interrupted"} :
          /\ Ended(o) /\ UNCHANGED reqs /\ sender # "idle"
          /\ o = "delivered" => sender = "wait" /\ reqs[current].state = "committed"
    BY <1>9 DEF Receive, GiveUp, InterruptSend
  <2>2. QED
    BY <1>4, <1>7, <2>1
<1>10. CASE UNCHANGED subs
  <2>1. CASE \A s \in DOMAIN subs : Stored(s)' = Stored(s)
    BY <1>1, <1>10, <2>1
  <2>2. CASE ~\A s \in DOMAIN subs : Stored(s)' = Stored(s)
    <3>1. PICK s \in DOMAIN subs : Stored(s)' # Stored(s)
      BY <2>2
    <3>2. s # 0
      BY <1>0
    <3>3. PICK k \in Attempts(s) : /\ reqs[k].state = "sent" /\ Commit(k)
                                   /\ Stored(s)' = Stored(s) \cup {k}
      BY <3>1, <3>2, StoredStep
    <3>4. QED
      BY <1>2, <1>6, <3>3
  <2>3. QED
    BY <2>1, <2>2
<1>11. QED
  BY <1>8, <1>9, <1>10 DEF DeliveryNext, SenderStep, ApiStep, Post, RetryLater, Commit, Drop,
     OtherClient, deliveryVars

-----------------------------------------------------------------------------
(* The theorems.  They need no fairness, so they are stated for the runs   *)
(* of the delivery as such; a collector's run is one of them.              *)

DeliveryRun == DeliveryInit /\ [][DeliveryNext]_deliveryVars

DeliveryInv == TypeOK /\ Traced /\ Bounded /\ StoredWhole /\ AlertsWhole

LEMMA DeliveryInvInit ==
  ASSUME DeliveryInit PROVE DeliveryInv /\ Contract!ContractInit
<1>1. subs = <<>> /\ sender = "idle" /\ DOMAIN subs = {}
  BY EmptySeq DEF DeliveryInit
<1>2. Bounded
  BY <1>1 DEF Bounded
<1>3. StoredWhole /\ AlertsWhole
  BY DEF DeliveryInit, StoredWhole, AlertsWhole, AlertsOf
<1>4. Contract!ContractInit
  BY <1>1 DEF Contract!ContractInit
<1>5. QED
  BY <1>2, <1>3, <1>4, TracedInit DEF DeliveryInv

LEMMA DeliveryInvStep ==
  ASSUME DeliveryInv, [DeliveryNext]_deliveryVars
  PROVE  DeliveryInv' /\ [Contract!ContractNext]_(Contract!contractVars)
<1>1. TypeOK /\ Traced /\ Bounded /\ StoredWhole /\ AlertsWhole
  BY DEF DeliveryInv
<1>2. TypeOK' /\ Traced' /\ Bounded'
  BY <1>1, TypeStep, TracedStep, BoundedStep
<1>3. StoredWhole' /\ AlertsWhole'
  BY <1>1, AtomicStep, AlertsStep
<1>4. [Contract!ContractNext]_(Contract!contractVars)
  BY <1>1, ContractStep
<1>5. QED
  BY <1>2, <1>3, <1>4 DEF DeliveryInv

LEMMA RunKeeps == DeliveryRun => []DeliveryInv
<1>1. DeliveryInit => DeliveryInv
  BY DeliveryInvInit
<1>2. DeliveryInv /\ [DeliveryNext]_deliveryVars => DeliveryInv'
  BY DeliveryInvStep
<1>3. QED
  BY <1>1, <1>2, PTL DEF DeliveryRun

\* Whatever is submitted, retried, answered late or stored for others, the
\* variables keep their types: rows name stored positions of existing requests,
\* alerts belong to rows, attempts stay within ApiSender.max_retries.
THEOREM DeliveryTypes == DeliveryRun => []TypeOK
<1>1. DeliveryInv => TypeOK
  BY DEF DeliveryInv
<1>2. QED
  BY <1>1, RunKeeps, PTL

\* Delivery keeps its contract: a batch told delivered is stored, and none is
\* stored more often than ApiSender.send attempts it, an abandoned attempt that
\* is committed late included.
THEOREM DeliveryKeepsContract == DeliveryRun => AtLeastOnce
<1>1. DeliveryInit => Contract!ContractInit
  BY DeliveryInvInit
<1>2. DeliveryInv /\ [DeliveryNext]_deliveryVars => [Contract!ContractNext]_(Contract!contractVars)
  BY DeliveryInvStep
<1>3. QED
  BY <1>1, <1>2, RunKeeps, PTL DEF DeliveryRun, AtLeastOnce, Contract!ContractSpec
=============================================================================
