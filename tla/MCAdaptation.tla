---------------------------- MODULE MCAdaptation ----------------------------
(***************************************************************************)
(* Adaptation with seven sessions of one or two flows over four vectors:   *)
(* per class one validation session, and two training sessions of DDoS.    *)
(***************************************************************************)
EXTENDS Adaptation

\* 1 and 2 are DDoS, 3 Normal, 4 PortScan; 5, 6 and 7 validate.
MCClassOf == <<"DDoS", "DDoS", "Normal", "PortScan", "DDoS", "Normal", "PortScan">>
MCDatasets ==
  {<<a, b, c, e, v, <<4>>, <<4>>>> :
     a \in {<<x>> : x \in 1 .. 3} \cup {<<x, y>> : x, y \in 1 .. 3}, b \in {<<1>>, <<2>>, <<1, 3>>},
     c \in {<<1>>, <<1, 2>>}, e \in {<<1>>, <<1, 2>>}, v \in {<<2>>, <<4>>}}
MCRank(id) == (5 * id[1][1] + 3 * id[2] + Len(id[1])) % 7
=============================================================================
