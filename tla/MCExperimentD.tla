---------------------------- MODULE MCExperimentD ----------------------------
(***************************************************************************)
(* ExperimentD with interchangeable executions of the final evaluation.    *)
(***************************************************************************)
EXTENDS ExperimentD, TLC

Symmetry == Permutations(Eval)
=============================================================================
