--------------------------- MODULE MCEvidenceSync ---------------------------
(***************************************************************************)
(* EvidenceSync for two syncs of an experiment with one document, to which *)
(* the model is linked, and one with two, of which the second is where its *)
(* classes' rows come from, beside an API that restarts with two versions. *)
(***************************************************************************)
EXTENDS EvidenceSync

CONSTANTS A, C, dataset, understanding, tuned, report, classes
MCAll == <<A, C>>
MCDocsOf == [g \in {A, C, dataset} |->
  IF g = dataset THEN <<understanding>> ELSE IF g = A THEN <<tuned>> ELSE <<report, classes>>]
MCClassSource == [e \in {A, C} |-> IF e = A THEN tuned ELSE classes]
Digests == Permutations(Digest) \cup Permutations(Sync)
=============================================================================
