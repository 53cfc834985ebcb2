---------------------------- MODULE EvidenceSync ----------------------------
(***************************************************************************)
(* synchronize_evidence (src/application/evidence_sync.py): allowlisted    *)
(* documents are read and validated, and one transaction imports the       *)
(* dataset's group and the selected experiments' groups, or refuses them   *)
(* because they differ from what is stored.  Several syncs may run at the  *)
(* same time, beside API processes that sync the models table at start     *)
(* (ModelRegistry).  evidence_sources and experiments have unique keys;    *)
(* datasets has none, so that two syncs could insert a dataset each.       *)
(*                                                                         *)
(* The files may be rewritten at any time, also between two reads: a sync  *)
(* may find any digest of each.  The digest is chosen where it is first    *)
(* used, in the comparison with what is stored or in the INSERT.  Under    *)
(* READ COMMITTED a SELECT sees what is committed and what its own         *)
(* transaction inserted.                                                   *)
(***************************************************************************)
EXTENDS Naturals, Sequences, SequencesExt, ModelRegistry

CONSTANTS
  AllExperiments, \* EXPERIMENT_CODES, in their order
  DATASET,       \* the group of the dataset's and the model's documents
  DocsOf,        \* CANONICAL_EVIDENCE: per group its documents, an experiment's primary one first
  Understanding, \* the document the dataset row is made of
  ClassSource,   \* per experiment: the document its classes' rows come from
  LinksModel,    \* the experiment the model row is linked to
  Digest,        \* digests a document may have
  NoDigest

Experiment == ToSet(AllExperiments)
Group == Experiment \cup {DATASET}
GroupDocs(g) == ToSet(DocsOf[g])
Doc == UNION {GroupDocs(g) : g \in Group}
\* The selections of --experiment: one experiment, or all in their fixed order.
Selections == {<<c>> : c \in Experiment} \cup {AllExperiments}
GroupsOf(sel) == <<DATASET>> \o sel

ASSUME EvidenceDocumentsAssumption ==
  /\ AllExperiments \in Seq(Experiment) \ {<<>>} /\ DATASET \notin Experiment
  /\ \A g \in Group : DocsOf[g] \in Seq(Doc) \ {<<>>}
  /\ \A g, h \in Group : g # h => GroupDocs(g) \cap GroupDocs(h) = {}
  /\ \A g \in Group : IsInjective(DocsOf[g])
  /\ Understanding \in GroupDocs(DATASET)
  /\ \A c \in Experiment : ClassSource[c] \in GroupDocs(c)
  /\ LinksModel \in Experiment /\ NoDigest \notin Digest

VARIABLES
  sources,      \* committed evidence_sources: the digest of each document
  datasets,     \* committed datasets with the canonical path, by their digest
  experiments,  \* committed experiments with their evaluation rows
  sync          \* per evidence sync: its progress and what it has inserted

evidenceVars == <<sources, datasets, experiments, sync>>
vars == <<registryVars, evidenceVars>>

\* An evaluation row per metric, OVERALL and the classes, with the document
\* it was read from: _evaluation_rows for A and B, _import_c for C.
Primary(c) == DocsOf[c][1]
MetricSource(c) == [OVERALL |-> Primary(c), CLASS |-> ClassSource[c]]
NoExperiment == [primary |-> NoDigest, dataset |-> 0, metrics |-> <<>>]

Idle == [state |-> "idle", sel |-> <<>>, digest |-> [d \in Doc |-> NoDigest],
         group |-> 0, doc |-> 0, sources |-> {}, ownDataset |-> FALSE, experiments |-> {}]

Init ==
  /\ RegistryInit
  /\ sources = [d \in Doc |-> NoDigest]
  /\ datasets = <<>>
  /\ experiments = [c \in Experiment |-> NoExperiment]
  /\ sync = [s \in Sync |-> Idle]

Set(s, r) == sync' = [sync EXCEPT ![s] = r]
\* The group in hand, and its document in hand.
GroupOf(r) == GroupsOf(r.sel)[r.group]
Pending(s) == DocsOf[GroupOf(sync[s])][sync[s].doc]
-----------------------------------------------------------------------------
(* One step per statement that reads or writes shared tables.              *)

\* load_canonical_documents: all documents are read and validated first.
Load(s) ==
  /\ sync[s].state = "idle"
  /\ \E sel \in Selections : Set(s, [Idle EXCEPT !.state = "select", !.sel = sel, !.group = 1, !.doc = 1])
  /\ UNCHANGED <<registryVars, sources, datasets, experiments>>

\* The pending document has digest x, and the next one is taken up.
NextDocument(r) ==
  IF r.doc < Len(DocsOf[GroupOf(r)]) THEN [r EXCEPT !.state = "select", !.doc = @ + 1]
  ELSE IF r.group < Len(GroupsOf(r.sel)) THEN [r EXCEPT !.state = "select", !.group = @ + 1, !.doc = 1]
  ELSE [r EXCEPT !.state = "dataset", !.group = 1, !.doc = 0]

Sourced(r, d, x) == NextDocument([r EXCEPT !.digest[d] = x])

\* _source finds the document, with the same digest, or finds none.
SelectSource(s) ==
  LET d == Pending(s) IN
  /\ sync[s].state = "select"
  /\ IF sources[d] # NoDigest THEN Set(s, Sourced(sync[s], d, sources[d]))
     ELSE Set(s, [sync[s] EXCEPT !.state = "insert"])
  /\ UNCHANGED <<registryVars, sources, datasets, experiments>>

\* Deviation: two evidence syncs do not wait for each other, as if the key
\* of evidence_sources were not unique.
InsertSourceAnyway(s) ==
  LET d == Pending(s) IN
  /\ sync[s].state = "insert"
  /\ \E x \in Digest :
       Set(s, Sourced([sync[s] EXCEPT !.sources = @ \cup {d}], d, x))
  /\ UNCHANGED <<registryVars, sources, datasets, experiments>>

\* Deviation: each source is committed as it is inserted.
InsertSourceCommitted(s) ==
  LET d == Pending(s) IN
  /\ sync[s].state = "insert" /\ sources[d] = NoDigest
  /\ \E x \in Digest :
       Set(s, Sourced(sync[s], d, x)) /\ sources' = [sources EXCEPT ![d] = x]
  /\ UNCHANGED <<registryVars, datasets, experiments>>

\* The INSERT, at the autoflush of the next SELECT, waits for a transaction
\* that inserted the same key: if that one commits, this one fails.
InsertSource(s) ==
  LET d == Pending(s) IN
  /\ sync[s].state = "insert"
  /\ sources[d] = NoDigest
  /\ \A t \in Sync \ {s} : d \notin sync[t].sources
  /\ \E x \in Digest :
       Set(s, Sourced([sync[s] EXCEPT !.sources = @ \cup {d}], d, x))
  /\ UNCHANGED <<registryVars, sources, datasets, experiments>>

\* _ensure_dataset: a dataset of the same digest is taken, a missing one is
\* inserted; no constraint refuses a second one.
EnsureDataset(s) ==
  /\ sync[s].state = "dataset"
  /\ datasets # <<>> => datasets[1] = sync[s].digest[Understanding]
  /\ Set(s, [sync[s] EXCEPT !.state = "import", !.group = 2, !.ownDataset = datasets = <<>>])
  /\ UNCHANGED <<registryVars, sources, datasets, experiments>>

\* The rows an import of c from these documents makes, with their dataset.
Imported(r, c, id) ==
  [primary |-> r.digest[Primary(c)], dataset |-> id,
   metrics |-> [k \in {"OVERALL", "CLASS"} |-> r.digest[MetricSource(c)[k]]]]

NextImport(r) ==
  IF r.group < Len(GroupsOf(r.sel)) THEN [r EXCEPT !.group = @ + 1]
  ELSE [r EXCEPT !.state = "flushed", !.group = 0]

\* _import_a, _import_b, _import_c: a stored experiment is compared, digest by
\* digest, a missing one is inserted with its evaluation rows.
ImportRows(s, c) ==
  \/ /\ experiments[c] # NoExperiment
     /\ experiments[c] = Imported(sync[s], c, experiments[c].dataset)
     /\ Set(s, NextImport(sync[s]))
  \/ /\ experiments[c] = NoExperiment
     /\ Set(s, NextImport([sync[s] EXCEPT !.experiments = @ \cup {c}]))

Import(s) ==
  /\ sync[s].state = "import"
  /\ ImportRows(s, GroupOf(sync[s]))
  /\ IF GroupOf(sync[s]) = LinksModel THEN LinkInserts(s) \/ LinkUpdates(s)
     ELSE UNCHANGED registryVars
  /\ UNCHANGED <<sources, datasets, experiments>>

\* The transaction commits: what it inserted is there at once.
CommitSync(s) ==
  LET r == sync[s] IN
  /\ r.state = "flushed"
  /\ sources' = [d \in Doc |-> IF d \in r.sources THEN r.digest[d] ELSE sources[d]]
  /\ datasets' = IF r.ownDataset THEN Append(datasets, r.digest[Understanding]) ELSE datasets
  /\ experiments' = [c \in Experiment |->
       IF c \in r.experiments THEN Imported(r, c, IF r.ownDataset THEN Len(datasets') ELSE 1)
       ELSE experiments[c]]
  /\ Set(s, Idle)
  /\ LinkCommit(s)

\* --dry-run at the end; or, anywhere: a document that is missing, malformed
\* or inconsistent, a conflict with what is stored, a violated key, a crash.
RollbackSync(s) ==
  /\ sync[s].state # "idle"
  /\ Set(s, Idle)
  /\ LinkRollback(s)
  /\ UNCHANGED <<sources, datasets, experiments>>

-----------------------------------------------------------------------------
SyncStep(s) ==
  \/ Load(s) \/ SelectSource(s) \/ InsertSource(s) \/ EnsureDataset(s)
  \/ Import(s) \/ CommitSync(s) \/ RollbackSync(s)

RegistryStep ==
  /\ (\E p \in Api : ApiStep(p)) \/ (\E v \in Version : RegisterInactive(v))
  /\ UNCHANGED evidenceVars

Next == RegistryStep \/ \E s \in Sync : SyncStep(s)

Spec == Init /\ [][Next]_vars
-----------------------------------------------------------------------------
TypeOK ==
  /\ RegistryTypeOK
  /\ sources \in [Doc -> Digest \cup {NoDigest}]
  /\ datasets \in Seq(Digest)
  /\ \A c \in Experiment :
       \/ experiments[c] = NoExperiment
       \/ /\ experiments[c].primary \in Digest
          /\ experiments[c].dataset \in DOMAIN datasets
  /\ \A s \in Sync :
       /\ sync[s].state \in {"idle", "select", "insert", "dataset", "import", "flushed"}
       /\ sync[s].sources \subseteq Doc /\ sync[s].experiments \subseteq Experiment
       /\ sync[s].state = "idle" <=> sync[s] = Idle
       /\ link[s] # "none" => LinksModel \in ToSet(sync[s].sel)

\* What readers find of an experiment is one whole import: its sources, its
\* dataset, its row and its evaluation rows are all of one sync, or none of
\* them is there, whatever other syncs were selected, refused or killed; and
\* there is one dataset row, which no key of its table sees to, only the unique
\* key of the sources, inserted before it.
SnapshotIsWhole ==
  /\ Len(datasets) <= 1
  /\ \A c \in Experiment :
       IF experiments[c] = NoExperiment
       THEN \A d \in GroupDocs(c) : sources[d] = NoDigest
       ELSE /\ experiments[c].primary = sources[Primary(c)]
            /\ \A d \in GroupDocs(c) : sources[d] # NoDigest
            /\ \A k \in {"OVERALL", "CLASS"} :
                 experiments[c].metrics[k] = sources[MetricSource(c)[k]]
            /\ datasets[experiments[c].dataset] = sources[Understanding]

\* The abstract store: a group is whole, absent, or what no import makes.
GroupRow(g) == IF g = DATASET THEN datasets # <<>> ELSE experiments[g] # NoExperiment
StoredOf(g) ==
  IF ~GroupRow(g) /\ \A d \in GroupDocs(g) : sources[d] = NoDigest THEN NoDigest
  ELSE [d \in GroupDocs(g) |-> sources[d]]
SnapshotsOf == [g \in Group |-> [GroupDocs(g) -> Digest]]

Snapshot == INSTANCE EvidenceSnapshot WITH
  Groups <- Group, Snapshots <- SnapshotsOf, Nothing <- NoDigest,
  stored <- [g \in Group |-> StoredOf(g)]

\* Importing, refusing and rolling back only ever adds whole groups to what a
\* reader finds: no stored snapshot is changed ("historical snapshots cannot be
\* overwritten silently") and none is there in part.
ImplementsSnapshot == Snapshot!SnapshotSpec
=============================================================================
