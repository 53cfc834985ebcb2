------------------------------ MODULE Delivery ------------------------------
(***************************************************************************)
(* The path of a batch of flows from a collector to the detection store:   *)
(* ApiSender.send (src/ingestion/api_sender.py) posts the batch, the API's *)
(* predict_batch handler (src/api/main.py) classifies it and               *)
(* persist_predictions (src/api/service.py) stores flows, predictions and  *)
(* alerts in one transaction.  The sender retries every failed attempt,    *)
(* a timed-out one included, and the payload carries nothing by which the  *)
(* API could recognise a batch it has already stored.                      *)
(*                                                                         *)
(* A collector calls send one batch at a time; the collectors' own control *)
(* is in the modules that extend this one.  Several attempts of one batch  *)
(* may be at the API at the same time: one the sender has given up waiting *)
(* for goes on.                                                            *)
(***************************************************************************)
EXTENDS Integers, Sequences, FiniteSets

CONSTANTS
  Flow,             \* the distinct flows a collector can submit
  LabelOf,          \* the class the model gives each flow
  MaxRetries,       \* ApiSender.max_retries
  MaxServerBatch    \* Settings.max_batch_size of the API

Label == {"Normal", "DDoS", "PortScan"}

ASSUME FlowAssumption  == LabelOf \in [Flow -> Label]
ASSUME RetryAssumption == MaxRetries \in Nat /\ MaxServerBatch \in Nat

VARIABLES
  subs,      \* history: one record per call of send, in call order
  reqs,      \* every POST /api/predict/batch ever made, in the order made
  rows,      \* committed flow/prediction pairs, each named <<request, position>>
  alerts,    \* committed alerts
  sender,    \* where send is: "idle", "post" (about to post), "wait"
  attempt,   \* attempt counter of send
  current    \* the request whose answer send is waiting for

deliveryVars == <<subs, reqs, rows, alerts, sender, attempt, current>>

(***************************************************************************)
(* The API's tables.  Predictions and flows are one to one                 *)
(* (predictions.traffic_flow_id is unique and not null) and get their ids  *)
(* from the database; <<k, i>> names the pair stored for position i of     *)
(* request k, which is as unique as those ids.                             *)
(***************************************************************************)
SEVERITY == [DDoS |-> "HIGH", PortScan |-> "MEDIUM"]

AttemptRows(k) == {k} \X (1 .. Len(reqs[k].flows))
FlowOf(r)      == reqs[r[1]].flows[r[2]]
IsAttack(f)    == LabelOf[f] \in DOMAIN SEVERITY
AlertsOf(R)    == {[row |-> r, severity |-> SEVERITY[LabelOf[FlowOf(r)]]] :
                     r \in {x \in R : IsAttack(FlowOf(x))}}

Outcome  == {"pending", "delivered", "failed", "interrupted"}
ReqState == {"sent", "committed", "dropped"}

TypeOK ==
  /\ subs \in Seq([flows : Seq(Flow), outcome : Outcome])
  /\ reqs \in Seq([sub : Nat, flows : Seq(Flow), state : ReqState])
  /\ \A r \in rows : r[1] \in DOMAIN reqs /\ r \in AttemptRows(r[1])
  /\ alerts \subseteq [row : rows, severity : {"HIGH", "MEDIUM"}]
  /\ sender \in {"idle", "post", "wait"}
  /\ attempt \in 0 .. MaxRetries
  /\ current \in 0 .. Len(reqs)
  /\ sender # "idle" => subs # <<>>
  /\ sender = "wait" => current > 0

DeliveryInit ==
  /\ subs = <<>> /\ reqs = <<>> /\ rows = {} /\ alerts = {}
  /\ sender = "idle" /\ attempt = 0 /\ current = 0

-----------------------------------------------------------------------------
(* The sender.                                                             *)

Ended(outcome) ==
  /\ sender' = "idle"
  /\ subs' = [subs EXCEPT ![Len(subs)].outcome = outcome]

\* send is called: an empty batch returns at once and is no submission.
BeginSend(batch) ==
  /\ sender = "idle" /\ batch # <<>>
  /\ subs' = Append(subs, [flows |-> batch, outcome |-> "pending"])
  /\ sender' = "post" /\ attempt' = 0
  /\ UNCHANGED <<reqs, rows, alerts, current>>

\* One attempt is posted; its payload is the whole batch, the same each time.
Post ==
  /\ sender = "post"
  /\ reqs' = Append(reqs, [sub |-> Len(subs), flows |-> subs[Len(subs)].flows,
                           state |-> "sent"])
  /\ current' = Len(reqs) + 1
  /\ sender' = "wait"
  /\ UNCHANGED <<subs, rows, alerts, attempt>>

\* Deviation: the status code is not looked at (no raise_for_status).
ReceiveAnyStatus ==
  /\ sender = "wait" /\ reqs[current].state # "sent"
  /\ Ended("delivered")
  /\ UNCHANGED <<reqs, rows, alerts, attempt, current>>

\* The 201 answer arrives in time and passes the count and label checks.
Receive ==
  /\ sender = "wait" /\ reqs[current].state = "committed"
  /\ Ended("delivered")
  /\ UNCHANGED <<reqs, rows, alerts, attempt, current>>

\* Deviation: retries without the bound of range(max_retries + 1).
RetryForever ==
  /\ sender = "wait"
  /\ attempt' = attempt + 1 /\ sender' = "post"
  /\ UNCHANGED <<subs, reqs, rows, alerts, current>>

\* A timeout, a connection error, an unreadable answer or an HTTP error: all
\* of them, and a timeout can come whatever the API did with the request.
RetryLater ==
  /\ sender = "wait" /\ attempt < MaxRetries
  /\ attempt' = attempt + 1 /\ sender' = "post"
  /\ UNCHANGED <<subs, reqs, rows, alerts, current>>

\* The last attempt fails: ApiSendError.
GiveUp ==
  /\ sender = "wait" /\ attempt = MaxRetries
  /\ Ended("failed")
  /\ UNCHANGED <<reqs, rows, alerts, attempt, current>>

\* Ctrl+C while posting, waiting or sleeping: KeyboardInterrupt leaves send.
InterruptSend ==
  /\ sender # "idle"
  /\ Ended("interrupted")
  /\ UNCHANGED <<reqs, rows, alerts, attempt, current>>

-----------------------------------------------------------------------------
(* The API.                                                                *)

SetState(k, s) == reqs' = [reqs EXCEPT ![k].state = s]

\* Deviation: alerts are left to a later transaction.
PersistWithoutAlerts(R) ==
  /\ rows' = rows \cup R
  /\ UNCHANGED alerts

\* What one successful transaction of persist_predictions adds.
Persist(R) ==
  /\ rows' = rows \cup R
  /\ alerts' = alerts \cup AlertsOf(R)

\* predict_batch classifies the batch and the transaction commits.
Commit(k) ==
  /\ k \in DOMAIN reqs
  /\ reqs[k].state = "sent" /\ Len(reqs[k].flows) <= MaxServerBatch
  /\ SetState(k, "committed")
  /\ Persist(AttemptRows(k))
  /\ UNCHANGED <<subs, sender, attempt, current>>

\* Nothing is stored: 413 or 422, a database error and rollback, a stop of the
\* API before the commit, or a request that never reaches it.
Drop(k) ==
  /\ k \in DOMAIN reqs /\ reqs[k].state = "sent"
  /\ SetState(k, "dropped")
  /\ UNCHANGED <<subs, rows, alerts, sender, attempt, current>>

\* POST /api/predict of another client of the same API: one flow, one commit.
OtherClient(f) ==
  /\ reqs' = Append(reqs, [sub |-> 0, flows |-> <<f>>, state |-> "committed"])
  /\ rows' = rows \cup AttemptRows(Len(reqs))'
  /\ alerts' = alerts \cup AlertsOf(AttemptRows(Len(reqs)))'
  /\ UNCHANGED <<subs, sender, attempt, current>>

ApiStep == \E k \in DOMAIN reqs : Commit(k) \/ Drop(k)
SenderStep == Post \/ Receive \/ RetryLater \/ GiveUp
DeliveryNext ==
  \/ \E b \in Seq(Flow) : BeginSend(b)
  \/ SenderStep \/ InterruptSend \/ ApiStep
  \/ \E f \in Flow : OtherClient(f)

\* requests.post has a timeout and the loop a bound, so send always moves on.
SenderFairness ==
  /\ WF_deliveryVars(Post)
  /\ WF_deliveryVars(Receive \/ RetryLater \/ GiveUp)

DeliverySpec == DeliveryInit /\ [][DeliveryNext]_deliveryVars /\ SenderFairness

-----------------------------------------------------------------------------
(* What the store promises.                                                *)

\* The attempts of one submission that the API has stored.
Stored(s) == {k \in DOMAIN reqs : reqs[k].sub = s /\ reqs[k].state = "committed"}

Contract == INSTANCE DeliveryContract WITH
  MaxAttempts <- MaxRetries + 1,
  outcome <- [s \in DOMAIN subs |-> subs[s].outcome],
  copies <- [s \in DOMAIN subs |-> Cardinality(Stored(s))]

\* At-least-once delivery: a batch the collector is told was delivered is
\* stored, and retries store it at most MaxRetries + 1 times, late commits of
\* abandoned attempts included (ApiSender.send and persist_predictions).
AtLeastOnce == Contract!ContractSpec
=============================================================================
