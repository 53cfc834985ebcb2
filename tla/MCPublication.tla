---------------------------- MODULE MCPublication ----------------------------
(***************************************************************************)
(* Publication with the bounds of its configuration.  The first and the    *)
(* second model agree on Normal and PortScan, the second and the third on  *)
(* DDoS: a table with rows of two models may count like a third's.         *)
(***************************************************************************)
EXTENDS Publication

MCCounts == <<<<1, 1>>, <<1, 2>>, <<2, 2>>>>
Symmetry == Permutations(Publisher)
=============================================================================
