-------------------------- MODULE EvidenceSnapshot --------------------------
(***************************************************************************)
(* What the evidence import promises a reader of the presentation tables   *)
(* (docs/phase_2_evidence_ingestion.md): a group of canonical documents is *)
(* either absent or there as a whole, and a snapshot that is there is      *)
(* never changed.  Several groups may appear in one step; the dataset's    *)
(* group appears with the first of them.                                   *)
(***************************************************************************)
CONSTANTS
  Groups,      \* the groups of canonical evidence
  Snapshots,   \* per group: the contents it may have
  Nothing      \* no snapshot: a group that was never imported

VARIABLE stored   \* per group: the snapshot a reader finds

SnapshotInit == stored = [g \in Groups |-> Nothing]

ImportGroup(g) == stored[g] = Nothing /\ stored'[g] \in Snapshots[g]

ImportGroups ==
  /\ stored' = [g \in Groups |-> stored'[g]]
  /\ \A g \in Groups : stored'[g] = stored[g] \/ ImportGroup(g)

SnapshotSpec == SnapshotInit /\ [][ImportGroups]_stored
=============================================================================
