---------------------------- MODULE MCLiveSession ----------------------------
(***************************************************************************)
(* Small instances of LiveSession: one attack flow, one benign flow, and   *)
(* at most MaxOther requests of other clients of the same API, each        *)
(* storing an attack.                                                      *)
(***************************************************************************)
EXTENDS LiveSession

CONSTANT MaxOther

ddos == "ddos flow"
benign == "benign flow"
MCFlow == {ddos, benign}
MCLabelOf == [f \in MCFlow |-> IF f = ddos THEN "DDoS" ELSE "Normal"]

Others == {k \in DOMAIN reqs : reqs[k].sub = 0}
OtherBound ==
  /\ Cardinality(Others') <= MaxOther
  /\ \A k \in Others' : reqs'[k].flows = <<ddos>>

MCNext == SessionStep \/ CtrlC \/ FinalCtrlC \/ (Environment /\ OtherBound)
MCSpec == Init /\ [][MCNext]_vars /\ WF_vars(SessionStep /\ ~Waiting)
=============================================================================
