-------------------------- MODULE DeliveryContract --------------------------
(***************************************************************************)
(* What delivery to the detection API promises of each submitted batch:    *)
(* at least once if it is reported delivered, and never more often than    *)
(* there are attempts.  A batch reported failed may still have been stored *)
(* and may still be stored later.                                          *)
(***************************************************************************)
EXTENDS Naturals, Sequences

CONSTANT MaxAttempts   \* attempts at each batch, a positive number

VARIABLES
  outcome,   \* what the collector was told of each batch
  copies     \* how often each batch is in the store

contractVars == <<outcome, copies>>

ContractInit == outcome = <<>> /\ copies = <<>>

Accept ==
  /\ \A s \in DOMAIN outcome : outcome[s] # "pending"
  /\ outcome' = Append(outcome, "pending")
  /\ copies' = Append(copies, 0)

Store(s) ==
  /\ copies[s] < MaxAttempts
  /\ copies' = [copies EXCEPT ![s] = @ + 1]
  /\ UNCHANGED outcome

Tell(s, o) ==
  /\ outcome[s] = "pending"
  /\ o = "delivered" => copies[s] > 0
  /\ outcome' = [outcome EXCEPT ![s] = o]
  /\ UNCHANGED copies

ContractNext ==
  \/ Accept
  \/ \E s \in DOMAIN outcome :
       Store(s) \/ \E o \in {"delivered", "failed", "interrupted"} : Tell(s, o)

ContractSpec == ContractInit /\ [][ContractNext]_contractVars
=============================================================================
