------------------------ MODULE MCOfflineValidation ------------------------
(***************************************************************************)
(* OfflineValidation on a small instance.  MaxOther bounds the calls of    *)
(* other clients.                                                          *)
(***************************************************************************)
EXTENDS OfflineValidation

CONSTANT MaxOther

MCFlow == {"normal", "ddos"}
MCLabelOf == [f \in MCFlow |-> IF f = "ddos" THEN "DDoS" ELSE "Normal"]

Others == {k \in DOMAIN reqs : reqs[k].sub = 0}
MCNext == Step \/ CtrlC \/ (Environment /\ Cardinality(Others') <= MaxOther)
MCSpec == Init /\ [][MCNext]_vars /\ WF_vars(Step)
=============================================================================
