----------------------------- MODULE ServerProofs -----------------------------
(***************************************************************************)
(* Proofs about what the API and the evidence sync keep: EvidenceSync,     *)
(* ModelRegistry and AdminSessions.                                        *)
(*                                                                         *)
(* For every catalogue of documents and any number of syncs, what a reader *)
(* finds of a group is one whole import, which later ones leave as it is.  *)
(* What makes the snapshot whole is what each sync knows of the store      *)
(* while others commit (Gathered, Imports): a document it found stays, one *)
(* it has inserted nobody else has inserted (Exclusive), and from that an  *)
(* experiment or a dataset it has inserted is its own as well, although no *)
(* lock or key says so of the dataset.                                     *)
(*                                                                         *)
(* The rows of the models table stay ordered by their ids (RInv), and with *)
(* one API process the served version stays active and is the one reported *)
(* (Registered, Quiet).                                                    *)
(*                                                                         *)
(* A refused token stays refused, and an acknowledgment is replaced only   *)
(* by a call that overlapped the first (AdminInv).                         *)
(***************************************************************************)
EXTENDS EvidenceSync, AdminSessions, SequenceTheorems, FiniteSetTheorems, TLAPS

State == {"idle", "select", "insert", "dataset", "import", "flushed"}
Session == [state : State, sel : Seq(Experiment), digest : [Doc -> Digest \cup {NoDigest}],
            group : Nat, doc : Nat, sources : SUBSET Doc, ownDataset : BOOLEAN,
            experiments : SUBSET Experiment]

Groups(r) == 1 .. Len(GroupsOf(r.sel))

\* A sync has in hand a document of a group it has selected, or an experiment.
InHand(r) ==
  /\ r.state # "idle" => r.sel # <<>>
  /\ r.state \in {"select", "insert"} =>
       r.group \in Groups(r) /\ r.doc \in 1 .. Len(DocsOf[GroupOf(r)])
  /\ r.state = "dataset" => r.group = 1
  /\ r.state = "import" => r.group \in Groups(r) \ {1}
  /\ r.state \notin {"import", "flushed"} => r.experiments = {} /\ ~r.ownDataset

Types ==
  /\ sources \in [Doc -> Digest \cup {NoDigest}]
  /\ datasets \in Seq(Digest)
  /\ DOMAIN experiments = Experiment
  /\ sync \in [Sync -> Session]

\* A sync has looked document d up.
IsRead(r, d) ==
  /\ r.state # "idle"
  /\ \E i \in Groups(r) : \E j \in 1 .. Len(DocsOf[GroupsOf(r.sel)[i]]) :
       /\ d = DocsOf[GroupsOf(r.sel)[i]][j]
       /\ r.state \in {"select", "insert"} => i < r.group \/ (i = r.group /\ j < r.doc)

\* A document a sync has inserted is not stored, one it has only found is, with
\* the digest that was found.
Gathered(r) ==
  /\ \A d \in r.sources :
       /\ sources[d] = NoDigest /\ r.digest[d] \in Digest
       /\ \E i \in Groups(r) : d \in GroupDocs(GroupsOf(r.sel)[i])
  /\ \A d \in Doc \ r.sources : IsRead(r, d) => sources[d] # NoDigest /\ r.digest[d] = sources[d]

\* An experiment a sync has passed is stored or inserted by it, not both; and
\* so is the dataset.
Imports(r) ==
  /\ \A c \in r.experiments : experiments[c] = NoExperiment /\ \E i \in Groups(r) : c = GroupsOf(r.sel)[i]
  /\ \A i \in Groups(r) \ {1} :
       r.state = "flushed" \/ (r.state = "import" /\ i < r.group) =>
         experiments[GroupsOf(r.sel)[i]] # NoExperiment \/ GroupsOf(r.sel)[i] \in r.experiments
  /\ r.ownDataset => datasets = <<>> /\ Understanding \in r.sources
  /\ r.state \in {"import", "flushed"} /\ ~r.ownDataset => datasets # <<>>

Sound(r) == InHand(r) /\ Gathered(r) /\ Imports(r)

Exclusive == \A s, t \in Sync : s # t => sync[s].sources \cap sync[t].sources = {}

\* A group's row is there with all of its documents and without it none is.
Store ==
  /\ IF datasets = <<>> THEN \A d \in GroupDocs(DATASET) : sources[d] = NoDigest
     ELSE /\ Len(datasets) = 1 /\ datasets[1] = sources[Understanding]
          /\ \A d \in GroupDocs(DATASET) : sources[d] # NoDigest
  /\ \A c \in Experiment :
       IF experiments[c] = NoExperiment THEN \A d \in GroupDocs(c) : sources[d] = NoDigest
       ELSE /\ datasets # <<>> /\ experiments[c].dataset = 1
            /\ \A d \in GroupDocs(c) : sources[d] # NoDigest
            /\ experiments[c].primary = sources[Primary(c)]
            /\ \A k \in {"OVERALL", "CLASS"} : experiments[c].metrics[k] = sources[MetricSource(c)[k]]

IInv == Types /\ (\A s \in Sync : Sound(sync[s])) /\ Exclusive /\ Store

-----------------------------------------------------------------------------
(* Groups and documents.                                                   *)

LEMMA GroupsAre ==
  ASSUME NEW sel \in Seq(Experiment)
  PROVE  /\ Len(sel) \in Nat /\ Len(GroupsOf(sel)) = Len(sel) + 1
         /\ GroupsOf(sel)[1] = DATASET /\ DATASET \in Group
         /\ \A i \in 1 .. Len(GroupsOf(sel)) : GroupsOf(sel)[i] \in Group
         /\ \A i \in 1 .. Len(GroupsOf(sel)) : i # 1 => GroupsOf(sel)[i] \in Experiment
<1>1. sel \in Seq(Group) /\ <<DATASET>> \in Seq(Group) /\ Len(<<DATASET>>) = 1 /\ Len(sel) \in Nat
  BY DEF Group
<1>2. /\ Len(GroupsOf(sel)) = Len(sel) + 1 /\ GroupsOf(sel)[1] = DATASET
      /\ \A i \in 1 .. Len(sel) + 1 : i # 1 => GroupsOf(sel)[i] = sel[i - 1]
  BY <1>1 DEF GroupsOf
<1>3. \A i \in 1 .. Len(sel) + 1 : i # 1 => sel[i - 1] \in Experiment
  BY <1>1
<1>4. QED
  BY <1>1, <1>2, <1>3 DEF Group

LEMMA SelectionsAre == \A sel \in Selections : sel \in Seq(Experiment) /\ sel # <<>>
<1>1. AllExperiments \in Seq(Experiment) /\ AllExperiments # <<>>
  BY EvidenceDocumentsAssumption
<1>2. \A c \in Experiment : <<c>> \in Seq(Experiment) /\ <<c>> # <<>>
  OBVIOUS
<1>3. QED
  BY <1>1, <1>2 DEF Selections

LEMMA DocsAre ==
  ASSUME NEW g \in Group
  PROVE  /\ Len(DocsOf[g]) \in Nat /\ Len(DocsOf[g]) >= 1
         /\ GroupDocs(g) \subseteq Doc
         /\ \A j \in 1 .. Len(DocsOf[g]) : DocsOf[g][j] \in GroupDocs(g)
         /\ \A d \in GroupDocs(g) : \E j \in 1 .. Len(DocsOf[g]) : d = DocsOf[g][j]
<1>1. DocsOf[g] \in Seq(Doc) /\ DocsOf[g] # <<>>
  BY EvidenceDocumentsAssumption
<1>2. Len(DocsOf[g]) \in Nat /\ DOMAIN DocsOf[g] = 1 .. Len(DocsOf[g])
  BY <1>1, LenProperties
<1>3. Len(DocsOf[g]) # 0
  BY <1>1, EmptySeq
<1>4. QED
  BY <1>2, <1>3 DEF GroupDocs, Doc, ToSet

LEMMA PrimaryAre ==
  ASSUME NEW c \in Experiment
  PROVE  /\ Primary(c) \in GroupDocs(c) /\ c \in Group /\ GroupDocs(c) \subseteq Doc
         /\ \A k \in {"OVERALL", "CLASS"} : MetricSource(c)[k] \in GroupDocs(c)
<1>1. c \in Group
  BY DEF Group
<1>2. Primary(c) \in GroupDocs(c) /\ GroupDocs(c) \subseteq Doc
  BY <1>1, DocsAre DEF Primary
<1>3. QED
  BY <1>1, <1>2, EvidenceDocumentsAssumption DEF MetricSource

LEMMA UnderstandingIs == DATASET \in Group /\ Understanding \in GroupDocs(DATASET) /\ Understanding \in Doc
BY EvidenceDocumentsAssumption, DocsAre DEF Group

\* Past the documents, a sync has read those of every selected group.
LEMMA ReadAll ==
  ASSUME NEW r \in Session, r.state \in {"dataset", "import", "flushed"},
         NEW i \in Groups(r), NEW d \in GroupDocs(GroupsOf(r.sel)[i])
  PROVE  IsRead(r, d)
<1>1. GroupsOf(r.sel)[i] \in Group
  BY GroupsAre DEF Session, Groups
<1>2. QED
  BY <1>1, DocsAre DEF IsRead

-----------------------------------------------------------------------------
(* A step of one sync.                                                     *)

\* From r with document d in hand, with digest x, to q: its next document, or the
\* dataset after the last; S is what it has inserted by then.
IsNext(r, q, S, d, x) ==
  /\ q \in Session /\ InHand(q)
  /\ q.state \in {"select", "dataset"} /\ q.sel = r.sel /\ q.sources = S
  /\ q.digest = [r.digest EXCEPT ![d] = x] /\ q.experiments = {} /\ q.ownDataset = FALSE
  /\ d \in Doc /\ d \in GroupDocs(GroupOf(r)) /\ r.group \in Groups(r)
  /\ \A e : IsRead(q, e) => IsRead(r, e) \/ e = d

LEMMA Advance ==
  ASSUME NEW r \in Session, InHand(r), r.state \in {"select", "insert"}, NEW x \in Digest,
         NEW S \in SUBSET Doc, NEW d, d = DocsOf[GroupOf(r)][r.doc]
  PROVE  IsNext(r, Sourced([r EXCEPT !.sources = S], d, x), S, d, x)
<1> DEFINE q == Sourced([r EXCEPT !.sources = S], d, x)
<1> DEFINE b == [r EXCEPT !.sources = S, !.digest[d] = x]
<1>1. /\ r.group \in Groups(r) /\ r.doc \in 1 .. Len(DocsOf[GroupOf(r)])
      /\ GroupOf(r) \in Group /\ Len(GroupsOf(r.sel)) \in Nat
  BY GroupsAre DEF InHand, Groups, GroupOf, Session
<1>2. d \in Doc /\ d \in GroupDocs(GroupOf(r)) /\ Len(DocsOf[GroupOf(r)]) \in Nat
  BY <1>1, DocsAre
<1>3. /\ b \in Session /\ b.state = r.state /\ b.sel = r.sel /\ b.group = r.group /\ b.doc = r.doc
      /\ b.sources = S /\ b.digest = [r.digest EXCEPT ![d] = x]
      /\ b.experiments = {} /\ b.ownDataset = FALSE
  BY <1>2 DEF Session, InHand
<1>4. q = NextDocument(b) /\ GroupOf(b) = GroupOf(r)
  BY <1>3 DEF Sourced, GroupOf
<1> HIDE DEF b, q
<1>5. r.doc \in Nat /\ r.group \in Nat /\ b.sel # <<>>
  BY <1>3 DEF Session, InHand
<1>6. CASE r.doc < Len(DocsOf[GroupOf(r)])
  <2>1. q = [b EXCEPT !.state = "select", !.group = r.group, !.doc = r.doc + 1]
    <3>1. q = [b EXCEPT !.state = "select", !.doc = r.doc + 1]
      BY <1>3, <1>4, <1>6 DEF NextDocument
    <3>2. QED
      BY <1>3, <3>1 DEF Session
  <2>2. /\ q \in Session /\ q.state = "select" /\ q.sel = r.sel /\ q.sources = S
        /\ q.digest = [r.digest EXCEPT ![d] = x] /\ q.experiments = {} /\ q.ownDataset = FALSE
        /\ q.group = r.group /\ q.doc = r.doc + 1
    <3>1. "select" \in State /\ r.group \in Nat /\ r.doc + 1 \in Nat
      BY <1>5 DEF State
    <3>2. /\ q \in Session /\ q.state = "select" /\ q.group = r.group /\ q.doc = r.doc + 1
          /\ q.sel = b.sel /\ q.sources = b.sources /\ q.digest = b.digest
          /\ q.experiments = b.experiments /\ q.ownDataset = b.ownDataset
      BY <1>3, <2>1, <3>1 DEF Session
    <3>3. QED
      BY <1>3, <3>2
  <2>3. InHand(q)
    <3>1. r.doc + 1 \in 1 .. Len(DocsOf[GroupOf(r)])
      BY <1>2, <1>5, <1>6
    <3>2. QED
      BY <1>1, <1>3, <1>5, <2>2, <3>1 DEF InHand, Groups, GroupOf
  <2>4. ASSUME NEW e, IsRead(q, e) PROVE IsRead(r, e) \/ e = d
    <3>0. PICK i \in Groups(r) : \E j \in 1 .. Len(DocsOf[GroupsOf(r.sel)[i]]) :
            e = DocsOf[GroupsOf(r.sel)[i]][j] /\ (i < r.group \/ (i = r.group /\ j < r.doc + 1))
      BY <2>2, <2>4 DEF IsRead, Groups
    <3>1. PICK j \in 1 .. Len(DocsOf[GroupsOf(r.sel)[i]]) :
            e = DocsOf[GroupsOf(r.sel)[i]][j] /\ (i < r.group \/ (i = r.group /\ j < r.doc + 1))
      BY <3>0
    <3>2. CASE i < r.group \/ (i = r.group /\ j < r.doc)
      BY <3>1, <3>2 DEF IsRead
    <3>3. CASE i = r.group /\ j = r.doc
      BY <3>1, <3>3 DEF GroupOf
    <3>4. QED
      BY <1>5, <3>1, <3>2, <3>3 DEF Groups
  <2>5. QED
    BY <1>1, <1>2, <2>2, <2>3, <2>4 DEF IsNext, q
<1>7. CASE r.doc >= Len(DocsOf[GroupOf(r)]) /\ r.group < Len(GroupsOf(r.sel))
  <2>1. q = [b EXCEPT !.state = "select", !.group = r.group + 1, !.doc = 1]
    BY <1>1, <1>2, <1>3, <1>4, <1>5, <1>7 DEF NextDocument
  <2>2. /\ q \in Session /\ q.state = "select" /\ q.sel = r.sel /\ q.sources = S
        /\ q.digest = [r.digest EXCEPT ![d] = x] /\ q.experiments = {} /\ q.ownDataset = FALSE
        /\ q.group = r.group + 1 /\ q.doc = 1
    <3>1. "select" \in State /\ r.group + 1 \in Nat /\ 1 \in Nat
      BY <1>5 DEF State
    <3>2. /\ q \in Session /\ q.state = "select" /\ q.group = r.group + 1 /\ q.doc = 1
          /\ q.sel = b.sel /\ q.sources = b.sources /\ q.digest = b.digest
          /\ q.experiments = b.experiments /\ q.ownDataset = b.ownDataset
      BY <1>3, <2>1, <3>1 DEF Session
    <3>3. QED
      BY <1>3, <3>2
  <2>3. InHand(q)
    <3>1. r.group + 1 \in Groups(r)
      BY <1>1, <1>5, <1>7 DEF Groups
    <3>2. GroupsOf(r.sel)[r.group + 1] \in Group
      BY <3>1, GroupsAre DEF Session, Groups
    <3>3. 1 \in 1 .. Len(DocsOf[GroupsOf(r.sel)[r.group + 1]])
      BY <3>2, DocsAre
    <3>4. QED
      BY <1>3, <1>5, <2>2, <3>1, <3>3 DEF InHand, Groups, GroupOf
  <2>4. ASSUME NEW e, IsRead(q, e) PROVE IsRead(r, e) \/ e = d
    <3>0. PICK i \in Groups(r) : \E j \in 1 .. Len(DocsOf[GroupsOf(r.sel)[i]]) :
            e = DocsOf[GroupsOf(r.sel)[i]][j] /\ (i < r.group + 1 \/ (i = r.group + 1 /\ j < 1))
      BY <2>2, <2>4 DEF IsRead, Groups
    <3>1. PICK j \in 1 .. Len(DocsOf[GroupsOf(r.sel)[i]]) :
            e = DocsOf[GroupsOf(r.sel)[i]][j] /\ (i < r.group + 1 \/ (i = r.group + 1 /\ j < 1))
      BY <3>0
    <3>2. CASE i < r.group
      BY <3>1, <3>2 DEF IsRead
    <3>3. CASE i = r.group
      <4>1. j = r.doc \/ j < r.doc
        BY <1>1, <1>2, <1>5, <1>7, <3>1, <3>3 DEF GroupOf
      <4>2. QED
        BY <3>1, <3>3, <4>1 DEF IsRead, GroupOf
    <3>4. i \in Int /\ ~(j < 1)
      BY <3>1 DEF Groups
    <3>5. QED
      BY <1>5, <3>1, <3>2, <3>3, <3>4
  <2>5. QED
    BY <1>1, <1>2, <2>2, <2>3, <2>4 DEF IsNext, q
<1>8. CASE r.doc >= Len(DocsOf[GroupOf(r)]) /\ r.group >= Len(GroupsOf(r.sel))
  <2>1. q = [b EXCEPT !.state = "dataset", !.group = 1, !.doc = 0]
    BY <1>1, <1>2, <1>3, <1>4, <1>5, <1>8 DEF NextDocument
  <2>2. /\ q \in Session /\ q.state = "dataset" /\ q.sel = r.sel /\ q.sources = S
        /\ q.digest = [r.digest EXCEPT ![d] = x] /\ q.experiments = {} /\ q.ownDataset = FALSE
        /\ q.group = 1 /\ q.doc = 0
    <3>1. "dataset" \in State /\ 1 \in Nat /\ 0 \in Nat
      BY <1>5 DEF State
    <3>2. /\ q \in Session /\ q.state = "dataset" /\ q.group = 1 /\ q.doc = 0
          /\ q.sel = b.sel /\ q.sources = b.sources /\ q.digest = b.digest
          /\ q.experiments = b.experiments /\ q.ownDataset = b.ownDataset
      BY <1>3, <2>1, <3>1 DEF Session
    <3>3. QED
      BY <1>3, <3>2
  <2>3. InHand(q)
    BY <1>3, <1>5, <2>2 DEF InHand
  <2>4. ASSUME NEW e, IsRead(q, e) PROVE IsRead(r, e) \/ e = d
    <3>0. PICK i \in Groups(r) : \E j \in 1 .. Len(DocsOf[GroupsOf(r.sel)[i]]) :
            e = DocsOf[GroupsOf(r.sel)[i]][j]
      BY <2>2, <2>4 DEF IsRead, Groups
    <3>1. PICK j \in 1 .. Len(DocsOf[GroupsOf(r.sel)[i]]) :
            e = DocsOf[GroupsOf(r.sel)[i]][j]
      BY <3>0
    <3>2. CASE i < r.group
      BY <3>1, <3>2 DEF IsRead
    <3>3. CASE i = r.group
      <4>1. j = r.doc \/ j < r.doc
        BY <1>1, <1>2, <1>5, <1>8, <3>1, <3>3 DEF GroupOf
      <4>2. QED
        BY <3>1, <3>3, <4>1 DEF IsRead, GroupOf
    <3>4. QED
      BY <1>1, <1>5, <1>8, <3>1, <3>2, <3>3 DEF Groups
  <2>5. QED
    BY <1>1, <1>2, <2>2, <2>3, <2>4 DEF IsNext, q
<1>9. QED
  <2>1. /\ r.doc < Len(DocsOf[GroupOf(r)]) \/ r.doc >= Len(DocsOf[GroupOf(r)])
        /\ r.group < Len(GroupsOf(r.sel)) \/ r.group >= Len(GroupsOf(r.sel))
    BY <1>1, <1>2, <1>5
  <2>2. QED
    BY <1>6, <1>7, <1>8, <2>1 DEF q

\* A step of one sync that commits nothing.
LEMMA Alone ==
  ASSUME IInv, NEW s \in Sync, NEW q \in Session, Set(s, q), Sound(q),
         UNCHANGED <<sources, datasets, experiments>>,
         \A t \in Sync : t # s => q.sources \cap sync[t].sources = {}
  PROVE  IInv'
<1>1. sync \in [Sync -> Session] /\ sync' = [sync EXCEPT ![s] = q]
  BY DEF IInv, Types, Set
<1>2. sync' \in [Sync -> Session] /\ sync'[s] = q /\ \A t \in Sync : t # s => sync'[t] = sync[t]
  BY <1>1
<1>3. Types'
  BY <1>2 DEF IInv, Types
<1>4. ASSUME NEW r PROVE Sound(r)' <=> Sound(r)
  BY DEF Sound, Gathered, Imports
<1>5. \A t \in Sync : Sound(sync'[t])
  BY <1>2 DEF IInv
<1>6. \A t \in Sync : Sound(sync[t])'
  BY <1>5 DEF Sound, Gathered, Imports
<1>7. Exclusive'
  BY <1>2 DEF IInv, Exclusive
<1>8. Store'
  BY DEF IInv, Store
<1>9. QED
  BY <1>3, <1>6, <1>7, <1>8 DEF IInv

\* A sync that has inserted and looked up no more keeps what it has gathered.
LEMMA StillGathered ==
  ASSUME NEW r, Gathered(r), NEW q, q.sel = r.sel, q.sources = r.sources, q.digest = r.digest,
         \A e : IsRead(q, e) => IsRead(r, e)
  PROVE  Gathered(q)
BY DEF Gathered, Groups

LEMMA IdleIsSound == Idle \in Session /\ Sound(Idle)
<1>1. Idle \in Session
  BY EvidenceDocumentsAssumption DEF Idle, Session, State
<1>2. Idle.state = "idle" /\ Idle.sources = {} /\ Idle.experiments = {} /\ ~Idle.ownDataset
  BY DEF Idle
<1>3. ~Idle.ownDataset /\ \A e : ~IsRead(Idle, e)
  BY <1>2 DEF IsRead
<1>4. InHand(Idle)
  BY <1>2 DEF InHand
<1>5. Gathered(Idle)
  BY <1>2, <1>3 DEF Gathered
<1>6. Imports(Idle)
  BY <1>2 DEF Imports
<1>7. QED
  BY <1>1, <1>4, <1>5, <1>6 DEF Sound

LEMMA LoadStep == ASSUME IInv, NEW s \in Sync, Load(s) PROVE IInv'
<1>1. PICK sel \in Selections : Set(s, [Idle EXCEPT !.state = "select", !.sel = sel, !.group = 1, !.doc = 1])
  BY DEF Load
<1> DEFINE q == [Idle EXCEPT !.state = "select", !.sel = sel, !.group = 1, !.doc = 1]
<1>2. sel \in Seq(Experiment) /\ sel # <<>>
  BY SelectionsAre
<1>3. /\ q \in Session /\ q.state = "select" /\ q.sel = sel /\ q.group = 1 /\ q.doc = 1
      /\ q.sources = {} /\ q.experiments = {} /\ q.ownDataset = FALSE
  BY <1>2, IdleIsSound DEF Idle, Session, State
<1> HIDE DEF q
<1>4. InHand(q)
  <2>1. 1 \in Groups(q) /\ GroupOf(q) \in Group
    BY <1>2, <1>3, GroupsAre DEF Groups, GroupOf
  <2>2. 1 \in 1 .. Len(DocsOf[GroupOf(q)])
    BY <2>1, DocsAre
  <2>3. QED
    BY <1>2, <1>3, <2>1, <2>2 DEF InHand
<1>5. \A e : ~IsRead(q, e)
  BY <1>3 DEF IsRead, Groups
<1>6. Sound(q)
  BY <1>3, <1>4, <1>5 DEF Sound, Gathered, Imports
<1>7. QED
  BY <1>1, <1>3, <1>6, Alone DEF Load, q

LEMMA SelectStep == ASSUME IInv, NEW s \in Sync, SelectSource(s) PROVE IInv'
<1> DEFINE r == sync[s]
           d == Pending(s)
<1>1. /\ r \in Session /\ r.state = "select" /\ InHand(r) /\ Gathered(r) /\ Imports(r)
      /\ d = DocsOf[GroupOf(r)][r.doc] /\ r.sources \subseteq Doc
  BY DEF IInv, Types, Sound, SelectSource, Pending, Session
<1>2. \A t \in Sync : t # s => r.sources \cap sync[t].sources = {}
  BY DEF IInv, Exclusive
<1>3. UNCHANGED <<sources, datasets, experiments>>
  BY DEF SelectSource
<1>4. CASE sources[d] # NoDigest
  <2> DEFINE q == Sourced(r, d, sources[d])
  <2>1. Set(s, q)
    BY <1>4 DEF SelectSource
  <2>2. d \in Doc
    <3>1. GroupOf(r) \in Group /\ r.doc \in 1 .. Len(DocsOf[GroupOf(r)])
      BY <1>1, GroupsAre DEF InHand, Groups, GroupOf, Session
    <3>2. QED
      BY <1>1, <3>1, DocsAre
  <2>3. sources[d] \in Digest
    BY <1>4, <2>2 DEF IInv, Types
  <2>4. q = Sourced([r EXCEPT !.sources = r.sources], d, sources[d])
    <3>1. r = [r EXCEPT !.sources = r.sources]
      BY <1>1 DEF Session
    <3>2. QED
      BY <3>1
  <2> HIDE DEF q, r, d
  <2>5. /\ q \in Session /\ InHand(q) /\ q.state \in {"select", "dataset"} /\ q.sel = r.sel
        /\ q.sources = r.sources /\ q.digest = [r.digest EXCEPT ![d] = sources[d]]
        /\ q.experiments = {} /\ q.ownDataset = FALSE
        /\ \A e : IsRead(q, e) => IsRead(r, e) \/ e = d
    <3>1. r.state \in {"select", "insert"} /\ r.sources \in SUBSET Doc
      BY <1>1
    <3>2. IsNext(r, Sourced([r EXCEPT !.sources = r.sources], d, sources[d]), r.sources, d, sources[d])
      BY <1>1, <2>3, <3>1, Advance
    <3>3. QED
      BY <2>4, <3>2 DEF IsNext
  <2>6. d \notin r.sources
    BY <1>1, <1>4 DEF Gathered
  <2>7. \A e \in Doc : q.digest[e] = IF e = d THEN sources[d] ELSE r.digest[e]
    BY <1>1, <2>5 DEF Session
  <2>8. Gathered(q)
    BY <1>1, <1>4, <2>5, <2>6, <2>7 DEF Gathered, Groups
  <2>9. Imports(q)
    BY <2>5 DEF Imports
  <2>10. QED
    BY <1>2, <1>3, <2>1, <2>5, <2>8, <2>9, Alone DEF Sound
<1>5. CASE sources[d] = NoDigest
  <2> DEFINE q == [r EXCEPT !.state = "insert"]
  <2>1. Set(s, q)
    BY <1>5 DEF SelectSource
  <2>2. /\ q \in Session /\ q.state = "insert" /\ q.sel = r.sel /\ q.sources = r.sources
        /\ q.digest = r.digest /\ q.group = r.group /\ q.doc = r.doc
        /\ q.experiments = r.experiments /\ q.ownDataset = r.ownDataset
    BY <1>1 DEF Session, State
  <2> HIDE DEF q, r, d
  <2>3. InHand(q)
    BY <1>1, <2>2 DEF InHand, Groups, GroupOf
  <2>4. \A e : IsRead(q, e) => IsRead(r, e)
    BY <1>1, <2>2 DEF IsRead, Groups
  <2>5. Gathered(q)
    BY <1>1, <2>2, <2>4, StillGathered
  <2>6. Imports(q)
    BY <1>1, <2>2, <2>3 DEF Imports, InHand
  <2>7. QED
    BY <1>2, <1>3, <2>1, <2>2, <2>3, <2>5, <2>6, Alone DEF Sound
<1>6. QED
  BY <1>4, <1>5

LEMMA InsertStep == ASSUME IInv, NEW s \in Sync, InsertSource(s) PROVE IInv'
<1> DEFINE r == sync[s]
           d == Pending(s)
           S == r.sources \cup {d}
<1>1. /\ r \in Session /\ r.state = "insert" /\ InHand(r) /\ Gathered(r) /\ Imports(r)
      /\ d = DocsOf[GroupOf(r)][r.doc] /\ r.sources \subseteq Doc
  BY DEF IInv, Types, Sound, InsertSource, Pending, Session
<1>2. \A t \in Sync : t # s => S \cap sync[t].sources = {}
  BY DEF IInv, Exclusive, InsertSource
<1>3. UNCHANGED <<sources, datasets, experiments>> /\ sources[d] = NoDigest
  BY DEF InsertSource
<1>4. PICK x \in Digest : Set(s, Sourced([r EXCEPT !.sources = S], d, x))
  BY DEF InsertSource
<1> DEFINE q == Sourced([r EXCEPT !.sources = S], d, x)
<1>5. d \in Doc
  <2>1. GroupOf(r) \in Group /\ r.doc \in 1 .. Len(DocsOf[GroupOf(r)])
    BY <1>1, GroupsAre DEF InHand, Groups, GroupOf, Session
  <2>2. QED
    BY <1>1, <2>1, DocsAre
<1>6. S \subseteq Doc /\ d \in S /\ r.sources \subseteq S /\ q = Sourced([r EXCEPT !.sources = S], d, x)
  BY <1>1, <1>5
<1>7. \A e \in S : e \in r.sources \/ e = d
  OBVIOUS
<1>8. Set(s, q)
  BY <1>4
<1> HIDE DEF q, r, d, S
<1>9. /\ q \in Session /\ InHand(q) /\ q.state \in {"select", "dataset"} /\ q.sel = r.sel
      /\ q.sources = S /\ q.digest = [r.digest EXCEPT ![d] = x]
      /\ q.experiments = {} /\ q.ownDataset = FALSE
      /\ d \in GroupDocs(GroupOf(r)) /\ r.group \in Groups(r)
      /\ \A e : IsRead(q, e) => IsRead(r, e) \/ e = d
  <2>1. r.state \in {"select", "insert"} /\ S \in SUBSET Doc
    BY <1>1, <1>6
  <2>2. IsNext(r, Sourced([r EXCEPT !.sources = S], d, x), S, d, x)
    BY <1>1, <2>1, Advance
  <2>3. QED
    BY <1>6, <2>2 DEF IsNext
<1>10. \A e \in Doc : q.digest[e] = IF e = d THEN x ELSE r.digest[e]
  BY <1>1, <1>9 DEF Session
<1>11. Gathered(q)
  <2>1. \A e \in q.sources : /\ sources[e] = NoDigest /\ q.digest[e] \in Digest
                             /\ \E i \in Groups(q) : e \in GroupDocs(GroupsOf(q.sel)[i])
    <3>1. TAKE e \in q.sources
    <3>2. CASE e = d
      BY <1>3, <1>5, <1>9, <1>10, <3>2 DEF Groups, GroupOf
    <3>3. CASE e # d
      <4>1. e \in r.sources /\ e \in Doc
        BY <1>1, <1>7, <1>9, <3>3
      <4>2. QED
        BY <1>1, <1>9, <1>10, <3>3, <4>1 DEF Gathered, Groups
    <3>4. QED
      BY <3>2, <3>3
  <2>2. \A e \in Doc \ q.sources : IsRead(q, e) => sources[e] # NoDigest /\ q.digest[e] = sources[e]
    BY <1>1, <1>6, <1>9, <1>10 DEF Gathered
  <2>3. QED
    BY <2>1, <2>2 DEF Gathered
<1>12. Imports(q)
  BY <1>9 DEF Imports
<1>13. QED
  BY <1>2, <1>3, <1>8, <1>9, <1>11, <1>12, Alone DEF Sound
\* The documents of a group a sync has passed are stored, or inserted by it;
\* those of a group that is not stored it has inserted all.
LEMMA Passed ==
  ASSUME IInv, NEW s \in Sync, sync[s].state \in {"dataset", "import", "flushed"},
         NEW i \in Groups(sync[s]), NEW d \in GroupDocs(GroupsOf(sync[s].sel)[i])
  PROVE  /\ d \in Doc /\ GroupsOf(sync[s].sel)[i] \in Group
         /\ d \in sync[s].sources => sync[s].digest[d] \in Digest
         /\ d \notin sync[s].sources => sources[d] # NoDigest /\ sync[s].digest[d] = sources[d]
<1>1. sync[s] \in Session /\ Gathered(sync[s])
  BY DEF IInv, Types, Sound
<1>2. IsRead(sync[s], d)
  BY <1>1, ReadAll
<1>3. GroupsOf(sync[s].sel)[i] \in Group
  BY <1>1, GroupsAre DEF Session, Groups
<1>4. d \in Doc
  BY <1>3, DocsAre
<1>5. QED
  BY <1>1, <1>2, <1>3, <1>4 DEF Gathered

LEMMA EnsureStep == ASSUME IInv, NEW s \in Sync, EnsureDataset(s) PROVE IInv'
<1> DEFINE r == sync[s]
           q == [r EXCEPT !.state = "import", !.group = 2, !.ownDataset = datasets = <<>>]
<1>1. r \in Session /\ r.state = "dataset" /\ InHand(r) /\ Gathered(r)
  BY DEF IInv, Types, Sound, EnsureDataset
<1>2. /\ q \in Session /\ q.state = "import" /\ q.group = 2 /\ q.sel = r.sel /\ q.sources = r.sources
      /\ q.digest = r.digest /\ q.experiments = r.experiments /\ q.ownDataset = (datasets = <<>>)
  BY <1>1 DEF Session, State
<1>3. Set(s, q) /\ UNCHANGED <<sources, datasets, experiments>>
  BY DEF EnsureDataset
<1>4. 1 \in Groups(r) /\ 2 \in Groups(r) /\ GroupsOf(r.sel)[1] = DATASET
  <2>1. r.sel \in Seq(Experiment) /\ r.sel # <<>>
    BY <1>1 DEF Session, InHand
  <2>2. QED
    BY <2>1, GroupsAre, EmptySeq DEF Groups
<1>5. datasets = <<>> => Understanding \in r.sources
  <2>1. Understanding \notin r.sources => sources[Understanding] # NoDigest
    BY <1>1, <1>4, UnderstandingIs, Passed
  <2>2. QED
    BY <2>1, UnderstandingIs DEF IInv, Store
<1>6. \A t \in Sync : t # s => r.sources \cap sync[t].sources = {}
  BY DEF IInv, Exclusive
<1> HIDE DEF q, r
<1>7. InHand(q)
  BY <1>1, <1>2, <1>4 DEF InHand, Groups
<1>8. \A e : IsRead(q, e) => IsRead(r, e)
  BY <1>1, <1>2 DEF IsRead, Groups
<1>9. Gathered(q)
  BY <1>1, <1>2, <1>8, StillGathered
<1>10. Imports(q)
  <2>1. q.experiments = {}
    BY <1>1, <1>2 DEF InHand
  <2>2. \A i \in Groups(q) \ {1} : ~(i < q.group)
    BY <1>2 DEF Groups
  <2>3. QED
    BY <1>2, <1>5, <2>1, <2>2 DEF Imports
<1>11. QED
  BY <1>2, <1>3, <1>6, <1>7, <1>9, <1>10, Alone DEF Sound

LEMMA ImportStep == ASSUME IInv, NEW s \in Sync, Import(s) PROVE IInv'
<1> DEFINE r == sync[s]
           c == GroupOf(sync[s])
<1>1. r \in Session /\ r.state = "import" /\ InHand(r) /\ Gathered(r) /\ Imports(r)
  BY DEF IInv, Types, Sound, Import
<1>2. UNCHANGED <<sources, datasets, experiments>> /\ ImportRows(s, c)
  BY DEF Import
<1>3. /\ r.group \in Groups(r) \ {1} /\ c = GroupsOf(r.sel)[r.group] /\ c \in Experiment
      /\ Len(GroupsOf(r.sel)) \in Nat
  BY <1>1, GroupsAre DEF InHand, Groups, GroupOf, Session
<1>4. PICK X \in SUBSET Experiment :
        /\ Set(s, NextImport([r EXCEPT !.experiments = X]))
        /\ r.experiments \subseteq X /\ X \subseteq r.experiments \cup {c}
        /\ \/ X = r.experiments /\ experiments[c] # NoExperiment
           \/ c \in X /\ experiments[c] = NoExperiment
  <2>1. CASE experiments[c] # NoExperiment /\ Set(s, NextImport(r))
    <3>1. r = [r EXCEPT !.experiments = r.experiments] /\ r.experiments \in SUBSET Experiment
      BY <1>1 DEF Session
    <3>2. QED
      BY <2>1, <3>1
  <2>2. CASE experiments[c] = NoExperiment /\ Set(s, NextImport([r EXCEPT !.experiments = @ \cup {c}]))
    <3>1. r.experiments \cup {c} \in SUBSET Experiment
      BY <1>1, <1>3 DEF Session
    <3>2. QED
      BY <2>2, <3>1
  <2>3. QED
    BY <1>2, <2>1, <2>2 DEF ImportRows
<1> DEFINE q == NextImport([r EXCEPT !.experiments = X])
<1>5. Set(s, q)
  BY <1>4
<1>6. /\ q \in Session /\ q.sel = r.sel /\ q.sources = r.sources /\ q.digest = r.digest
      /\ q.experiments = X /\ q.ownDataset = r.ownDataset
      /\ \/ q.state = "import" /\ q.group = r.group + 1 /\ r.group < Len(GroupsOf(r.sel))
         \/ q.state = "flushed" /\ r.group = Len(GroupsOf(r.sel))
  <2> DEFINE b == [r EXCEPT !.experiments = X]
  <2>1. /\ b \in Session /\ b.state = "import" /\ b.sel = r.sel /\ b.group = r.group
        /\ b.sources = r.sources /\ b.digest = r.digest /\ b.experiments = X
        /\ b.ownDataset = r.ownDataset
    BY <1>1 DEF Session
  <2> HIDE DEF b
  <2>2. r.group \in Nat /\ (r.group < Len(GroupsOf(r.sel)) \/ r.group = Len(GroupsOf(r.sel)))
    BY <1>3 DEF Groups
  <2>3. CASE r.group < Len(GroupsOf(r.sel))
    <3>1. q = [b EXCEPT !.group = r.group + 1] /\ r.group + 1 \in Nat
      BY <2>1, <2>2, <2>3 DEF NextImport, b
    <3>2. /\ q \in Session /\ q.group = r.group + 1 /\ q.state = b.state /\ q.sel = b.sel
          /\ q.sources = b.sources /\ q.digest = b.digest /\ q.experiments = b.experiments
          /\ q.ownDataset = b.ownDataset
      BY <2>1, <3>1 DEF Session
    <3>3. QED
      BY <2>1, <2>3, <3>2
  <2>4. CASE r.group = Len(GroupsOf(r.sel))
    <3>1. q = [b EXCEPT !.state = "flushed", !.group = 0] /\ ~(r.group < Len(GroupsOf(r.sel)))
      BY <2>1, <2>2, <2>4 DEF NextImport, b
    <3>2. /\ q \in Session /\ q.state = "flushed" /\ q.sel = b.sel
          /\ q.sources = b.sources /\ q.digest = b.digest /\ q.experiments = b.experiments
          /\ q.ownDataset = b.ownDataset
      <4>1. "flushed" \in State /\ 0 \in Nat
        BY DEF State
      <4>2. QED
        BY <2>1, <3>1, <4>1 DEF Session
    <3>3. QED
      BY <2>1, <2>4, <3>2
  <2>5. QED
    BY <2>2, <2>3, <2>4
<1>7. \A t \in Sync : t # s => r.sources \cap sync[t].sources = {}
  BY DEF IInv, Exclusive
<1> HIDE DEF q, r, c
<1>8. InHand(q)
  BY <1>1, <1>3, <1>6 DEF InHand, Groups
<1>9. \A e : IsRead(q, e) => IsRead(r, e)
  BY <1>1, <1>6 DEF IsRead, Groups
<1>10. Gathered(q)
  BY <1>1, <1>6, <1>9, StillGathered
<1>11. Imports(q)
  <2>1. \A e \in q.experiments : experiments[e] = NoExperiment /\ \E i \in Groups(q) : e = GroupsOf(q.sel)[i]
    BY <1>1, <1>3, <1>4, <1>6 DEF Imports, Groups
  <2>2. ASSUME NEW i \in Groups(q) \ {1}, q.state = "flushed" \/ (q.state = "import" /\ i < q.group)
        PROVE experiments[GroupsOf(q.sel)[i]] # NoExperiment \/ GroupsOf(q.sel)[i] \in q.experiments
    <3>1. i \in Groups(r) \ {1} /\ (i < r.group \/ i = r.group)
      BY <1>3, <1>6, <2>2 DEF Groups
    <3>2. CASE i < r.group
      BY <1>1, <1>4, <1>6, <3>1, <3>2 DEF Imports
    <3>3. CASE i = r.group
      BY <1>3, <1>4, <1>6, <3>3
    <3>4. QED
      BY <3>1, <3>2, <3>3
  <2>3. QED
    BY <1>1, <1>6, <2>1, <2>2 DEF Imports
<1>12. QED
  BY <1>2, <1>5, <1>6, <1>7, <1>8, <1>10, <1>11, Alone DEF Sound

LEMMA RollbackStep == ASSUME IInv, NEW s \in Sync, RollbackSync(s) PROVE IInv'
<1>1. Set(s, Idle) /\ UNCHANGED <<sources, datasets, experiments>>
  BY DEF RollbackSync
<1>2. Idle.sources = {}
  BY DEF Idle
<1>3. \A t \in Sync : t # s => Idle.sources \cap sync[t].sources = {}
  BY <1>2
<1>4. QED
  BY <1>1, <1>3, IdleIsSound, Alone
-----------------------------------------------------------------------------
(* The commit of a sync.                                                   *)

\* What a commit makes of the store: stored documents stay, those of every
\* selected group are stored with the digests the sync has, and so are the
\* rows it made from them.
LEMMA Committed ==
  ASSUME IInv, NEW s \in Sync, CommitSync(s)
  PROVE  /\ sources' \in [Doc -> Digest \cup {NoDigest}]
         /\ \A d \in Doc \ sync[s].sources : sources'[d] = sources[d]
         /\ \A d \in sync[s].sources : d \in Doc /\ sources[d] = NoDigest /\ sources'[d] # NoDigest
         /\ \A i \in Groups(sync[s]) : \A d \in GroupDocs(GroupsOf(sync[s].sel)[i]) :
              sources'[d] = sync[s].digest[d] /\ sources'[d] \in Digest
         /\ IF sync[s].ownDataset
            THEN datasets = <<>> /\ datasets' = <<sync[s].digest[Understanding]>>
            ELSE datasets # <<>> /\ datasets' = datasets
         /\ \A c \in Experiment \ sync[s].experiments : experiments'[c] = experiments[c]
         /\ \A c \in sync[s].experiments : experiments[c] = NoExperiment /\ experiments'[c] = Imported(sync[s], c, 1)
         /\ DOMAIN experiments' = Experiment
<1> DEFINE r == sync[s]
<1>1. r \in Session /\ r.state = "flushed" /\ Gathered(r) /\ Imports(r) /\ r.sources \subseteq Doc /\ r.experiments \subseteq Experiment
  BY DEF IInv, Types, Sound, CommitSync, Session
<1>2. /\ sources' = [d \in Doc |-> IF d \in r.sources THEN r.digest[d] ELSE sources[d]]
      /\ datasets' = IF r.ownDataset THEN Append(datasets, r.digest[Understanding]) ELSE datasets
      /\ experiments' = [c \in Experiment |->
           IF c \in r.experiments THEN Imported(r, c, IF r.ownDataset THEN Len(datasets') ELSE 1)
           ELSE experiments[c]]
  BY DEF CommitSync
<1>3. sources \in [Doc -> Digest \cup {NoDigest}] /\ \A d \in Doc : d \in r.sources => sources[d] = NoDigest /\ r.digest[d] \in Digest
  BY <1>1 DEF Gathered, IInv, Types
<1>4. \A d \in Doc : sources'[d] = IF d \in r.sources THEN r.digest[d] ELSE sources[d]
  BY <1>2
<1>5. NoDigest \notin Digest
  BY EvidenceDocumentsAssumption
<1>6. sources' \in [Doc -> Digest \cup {NoDigest}]
  BY <1>2, <1>3
<1>7. ASSUME NEW i \in Groups(r), NEW d \in GroupDocs(GroupsOf(r.sel)[i])
      PROVE sources'[d] = r.digest[d] /\ sources'[d] \in Digest
  <2>1. /\ d \in Doc /\ (d \in r.sources => r.digest[d] \in Digest)
        /\ d \notin r.sources => sources[d] # NoDigest /\ r.digest[d] = sources[d]
    BY <1>1, Passed
  <2>2. QED
    BY <1>3, <1>4, <2>1
<1>8. IF r.ownDataset
      THEN datasets = <<>> /\ datasets' = <<r.digest[Understanding]>>
      ELSE datasets # <<>> /\ datasets' = datasets
  <2>1. CASE r.ownDataset
    <3>1. datasets = <<>>
      BY <1>1, <2>1 DEF Imports
    <3>2. QED
      BY <1>2, <2>1, <3>1
  <2>2. CASE ~r.ownDataset
    BY <1>1, <1>2, <2>2 DEF Imports
  <2>3. QED
    BY <2>1, <2>2
<1>9. r.ownDataset => Len(datasets') = 1
  BY <1>8
<1>10. \A c \in r.experiments : experiments[c] = NoExperiment /\ experiments'[c] = Imported(r, c, 1)
  BY <1>1, <1>2, <1>9 DEF Imports
<1>11. DOMAIN experiments' = Experiment /\ \A c \in Experiment \ r.experiments : experiments'[c] = experiments[c]
  BY <1>2
<1>12. QED
  BY <1>1, <1>3, <1>4, <1>5, <1>6, <1>7, <1>8, <1>10, <1>11

\* A sync that has inserted an experiment, or the dataset, has inserted all the
\* documents of that group.
LEMMA Owns ==
  ASSUME IInv, NEW s \in Sync
  PROVE  /\ \A c \in sync[s].experiments : Primary(c) \in sync[s].sources
         /\ sync[s].ownDataset => Understanding \in sync[s].sources
<1>1. sync[s] \in Session /\ InHand(sync[s]) /\ Imports(sync[s])
  BY DEF IInv, Types, Sound
<1>2. ASSUME NEW c \in sync[s].experiments PROVE Primary(c) \in sync[s].sources
  <2>1. sync[s].state \in {"dataset", "import", "flushed"} /\ c \in Experiment /\ experiments[c] = NoExperiment
    BY <1>1 DEF InHand, Session, Imports
  <2>2. PICK i \in Groups(sync[s]) : c = GroupsOf(sync[s].sel)[i]
    BY <1>1 DEF Imports
  <2>3. Primary(c) \in GroupDocs(c) /\ sources[Primary(c)] = NoDigest
    BY <2>1, PrimaryAre DEF IInv, Store
  <2>4. QED
    BY <2>1, <2>2, <2>3, Passed
<1>3. QED
  BY <1>1, <1>2 DEF Imports

LEMMA CommitStep == ASSUME IInv, NEW s \in Sync, CommitSync(s) PROVE IInv'
<1> DEFINE r == sync[s]
<1>1. /\ r \in Session /\ r.state = "flushed" /\ Gathered(r) /\ Imports(r) /\ InHand(r)
      /\ r.sources \subseteq Doc /\ r.experiments \subseteq Experiment
  BY DEF IInv, Types, Sound, CommitSync, Session
<1>2. /\ sources' \in [Doc -> Digest \cup {NoDigest}]
      /\ \A d \in Doc \ r.sources : sources'[d] = sources[d]
      /\ \A d \in r.sources : d \in Doc /\ sources[d] = NoDigest /\ sources'[d] # NoDigest
      /\ \A i \in Groups(r) : \A d \in GroupDocs(GroupsOf(r.sel)[i]) :
           sources'[d] = r.digest[d] /\ sources'[d] \in Digest
  BY Committed
<1>3. IF r.ownDataset
      THEN datasets = <<>> /\ datasets' = <<r.digest[Understanding]>>
      ELSE datasets # <<>> /\ datasets' = datasets
  BY Committed
<1>4. /\ \A c \in Experiment \ r.experiments : experiments'[c] = experiments[c]
      /\ \A c \in r.experiments : experiments[c] = NoExperiment /\ experiments'[c] = Imported(r, c, 1)
      /\ DOMAIN experiments' = Experiment
  BY Committed
<1>5. sync' \in [Sync -> Session] /\ sync'[s] = Idle /\ \A t \in Sync : t # s => sync'[t] = sync[t]
  BY IdleIsSound DEF CommitSync, Set, IInv, Types
<1>6. NoDigest \notin Digest
  BY EvidenceDocumentsAssumption
<1>7. 1 \in Groups(r) /\ GroupsOf(r.sel)[1] = DATASET /\ Understanding \in GroupDocs(DATASET) /\ DATASET \in Group
  BY <1>1, GroupsAre, UnderstandingIs DEF Groups, Session
<1>8. Types'
  <2>1. datasets \in Seq(Digest) /\ r.digest[Understanding] \in Digest
    BY <1>2, <1>7 DEF IInv, Types
  <2>2. <<r.digest[Understanding]>> \in Seq(Digest)
    BY <2>1
  <2>3. datasets' \in Seq(Digest)
    BY <1>3, <2>1, <2>2
  <2>4. QED
    BY <1>2, <1>4, <1>5, <2>3 DEF Types
<1> HIDE DEF r
<1>9. Exclusive'
  <2>1. Idle.sources = {}
    BY DEF Idle
  <2>2. QED
    BY <1>5, <2>1 DEF IInv, Exclusive
<1>10. ASSUME NEW t \in Sync PROVE Sound(sync[t])'
  <2>1. CASE t = s
    <3>1. sync'[t] = Idle
      BY <1>5, <2>1
    <3>2. /\ Idle.state = "idle" /\ Idle.sources = {} /\ Idle.experiments = {} /\ ~Idle.ownDataset
      BY DEF Idle
    <3>3. \A e : ~IsRead(Idle, e)
      BY <3>2 DEF IsRead
    <3>4. InHand(Idle)
      BY <3>2 DEF InHand
    <3>5. QED
      BY <3>1, <3>2, <3>3, <3>4 DEF Sound, Gathered, Imports
  <2>2. CASE t # s
    <3> DEFINE q == sync[t]
    <3>1. q' = q /\ q \in Session /\ InHand(q) /\ Gathered(q) /\ Imports(q)
      BY <1>5, <2>2 DEF IInv, Types, Sound
    <3>2. r.sources \cap q.sources = {} /\ q.sources \subseteq Doc /\ q.experiments \subseteq Experiment
      BY <2>2, <3>1 DEF IInv, Exclusive, r, Session
    <3>3. \A c \in q.experiments : c \notin r.experiments
      <4>1. \A c \in q.experiments : Primary(c) \in q.sources
        BY Owns
      <4>2. \A c \in r.experiments : Primary(c) \in r.sources
        BY Owns DEF r
      <4>3. QED
        BY <3>2, <4>1, <4>2
    <3>4. q.ownDataset => datasets' = datasets
      <4>1. (q.ownDataset => Understanding \in q.sources) /\ (r.ownDataset => Understanding \in r.sources)
        BY Owns DEF r
      <4>2. QED
        BY <1>3, <3>2, <4>1
    <3> HIDE DEF q
    <3>5. Gathered(q)'
      <4>1. \A d \in q.sources : /\ sources'[d] = NoDigest /\ q.digest[d] \in Digest
                                 /\ \E i \in Groups(q) : d \in GroupDocs(GroupsOf(q.sel)[i])
        BY <1>2, <3>1, <3>2 DEF Gathered
      <4>2. \A d \in Doc \ q.sources : IsRead(q, d) => sources'[d] # NoDigest /\ q.digest[d] = sources'[d]
        BY <1>2, <3>1 DEF Gathered
      <4>3. QED
        BY <3>1, <4>1, <4>2 DEF Gathered
    <3>6. Imports(q)'
      <4>1. \A c \in q.experiments : experiments'[c] = NoExperiment /\ \E i \in Groups(q) : c = GroupsOf(q.sel)[i]
        BY <1>4, <3>1, <3>2, <3>3 DEF Imports
      <4>2. \A i \in Groups(q) \ {1} : GroupsOf(q.sel)[i] \in Experiment
        BY <3>1, GroupsAre DEF Session, Groups
      <4>3. \A i \in Groups(q) \ {1} :
              q.state = "flushed" \/ (q.state = "import" /\ i < q.group) =>
                experiments'[GroupsOf(q.sel)[i]] # NoExperiment \/ GroupsOf(q.sel)[i] \in q.experiments
        BY <1>4, <3>1, <4>2 DEF Imports
      <4>4. q.ownDataset => datasets' = <<>> /\ Understanding \in q.sources
        BY <3>1, <3>4 DEF Imports
      <4>5. q.state \in {"import", "flushed"} /\ ~q.ownDataset => datasets' # <<>>
        BY <1>3, <3>1 DEF Imports
      <4>6. QED
        BY <3>1, <4>1, <4>3, <4>4, <4>5 DEF Imports
    <3>7. QED
      BY <3>1, <3>5, <3>6 DEF Sound, q
  <2>3. QED
    BY <2>1, <2>2
<1>11. Store'
  <2>1. /\ datasets' # <<>> /\ Len(datasets') = 1 /\ datasets'[1] = sources'[Understanding]
        /\ \A d \in GroupDocs(DATASET) : sources'[d] # NoDigest
    <3>1. \A d \in GroupDocs(DATASET) : sources'[d] = r.digest[d] /\ sources'[d] # NoDigest
      BY <1>2, <1>6, <1>7
    <3>2. CASE r.ownDataset
      <4>1. sources'[Understanding] = r.digest[Understanding]
        BY <1>7, <3>1
      <4>2. datasets' = <<r.digest[Understanding]>>
        BY <1>3, <3>2
      <4>3. QED
        BY <3>1, <4>1, <4>2
    <3>3. CASE ~r.ownDataset
      <4>1. datasets' = datasets /\ Len(datasets) = 1 /\ datasets[1] = sources[Understanding] /\ datasets # <<>>
            /\ sources[Understanding] # NoDigest /\ Understanding \in Doc
        BY <1>3, <1>7, <3>3, UnderstandingIs DEF IInv, Store
      <4>2. sources'[Understanding] = sources[Understanding]
        BY <1>2, <4>1
      <4>3. QED
        BY <3>1, <4>1, <4>2
    <3>4. QED
      BY <3>2, <3>3
  <2>2. ASSUME NEW c \in Experiment
        PROVE  IF experiments'[c] = NoExperiment THEN \A d \in GroupDocs(c) : sources'[d] = NoDigest
               ELSE /\ datasets' # <<>> /\ experiments'[c].dataset = 1
                    /\ \A d \in GroupDocs(c) : sources'[d] # NoDigest
                    /\ experiments'[c].primary = sources'[Primary(c)]
                    /\ \A k \in {"OVERALL", "CLASS"} : experiments'[c].metrics[k] = sources'[MetricSource(c)[k]]
    <3>0. /\ Primary(c) \in GroupDocs(c) /\ c \in Group /\ GroupDocs(c) \subseteq Doc
          /\ \A k \in {"OVERALL", "CLASS"} : MetricSource(c)[k] \in GroupDocs(c)
      BY PrimaryAre
    <3>1. CASE c \in r.experiments
      <4>1. PICK i \in Groups(r) : c = GroupsOf(r.sel)[i]
        BY <1>1, <3>1 DEF Imports, r
      <4>2. \A d \in GroupDocs(c) : sources'[d] = r.digest[d] /\ sources'[d] \in Digest
        BY <1>2, <4>1
      <4>3. experiments'[c] = Imported(r, c, 1)
        BY <1>4, <3>1
      <4>4. /\ experiments'[c].primary = r.digest[Primary(c)] /\ experiments'[c].dataset = 1
            /\ \A k \in {"OVERALL", "CLASS"} : experiments'[c].metrics[k] = r.digest[MetricSource(c)[k]]
        BY <4>3 DEF Imported
      <4>5. experiments'[c] # NoExperiment
        BY <1>6, <3>0, <4>2, <4>4 DEF NoExperiment
      <4>6. QED
        BY <1>6, <2>1, <3>0, <4>2, <4>4, <4>5
    <3>2. CASE c \notin r.experiments /\ experiments[c] = NoExperiment
      <4>1. ASSUME NEW d \in GroupDocs(c), d \in r.sources PROVE FALSE
        <5>1. PICK i \in Groups(r) : d \in GroupDocs(GroupsOf(r.sel)[i])
          BY <1>1, <4>1 DEF Gathered, r
        <5>2. GroupsOf(r.sel)[i] \in Group
          BY <1>1, GroupsAre DEF Session, Groups, r
        <5>3. GroupsOf(r.sel)[i] = c
          BY <3>0, <5>1, <5>2, EvidenceDocumentsAssumption
        <5>4. i # 1
          BY <1>7, <5>3, EvidenceDocumentsAssumption
        <5>5. QED
          BY <1>1, <3>2, <5>3, <5>4 DEF Imports, r
      <4>2. \A d \in GroupDocs(c) : sources'[d] = NoDigest
        BY <1>2, <3>0, <3>2, <4>1 DEF IInv, Store
      <4>3. QED
        BY <1>4, <3>2, <4>2
    <3>3. CASE c \notin r.experiments /\ experiments[c] # NoExperiment
      <4>1. experiments'[c] = experiments[c]
        BY <1>4, <3>3
      <4>2. \A d \in GroupDocs(c) : sources[d] # NoDigest /\ sources'[d] = sources[d]
        BY <1>2, <3>0, <3>3 DEF IInv, Store
      <4>3. /\ experiments[c].dataset = 1 /\ experiments[c].primary = sources[Primary(c)]
            /\ \A k \in {"OVERALL", "CLASS"} : experiments[c].metrics[k] = sources[MetricSource(c)[k]]
        BY <3>3 DEF IInv, Store
      <4>4. QED
        BY <2>1, <3>0, <3>3, <4>1, <4>2, <4>3
    <3>4. QED
      BY <3>1, <3>2, <3>3
  <2>3. QED
    BY <2>1, <2>2 DEF Store
<1>12. QED
  BY <1>8, <1>9, <1>10, <1>11 DEF IInv
-----------------------------------------------------------------------------
LEMMA Stutter == ASSUME IInv, UNCHANGED evidenceVars PROVE IInv'
<1>1. sources' = sources /\ datasets' = datasets /\ experiments' = experiments /\ sync' = sync
  BY DEF evidenceVars
<1>2. Types' /\ Exclusive' /\ Store'
  BY <1>1 DEF IInv, Types, Exclusive, Store
<1>3. \A t \in Sync : Sound(sync[t])'
  BY <1>1 DEF IInv, Sound, InHand, Gathered, Imports
<1>4. QED
  BY <1>2, <1>3 DEF IInv

LEMMA InvInit == Init => IInv
<1> SUFFICES ASSUME Init PROVE IInv
  OBVIOUS
<1>1. /\ sources = [d \in Doc |-> NoDigest] /\ datasets = <<>>
      /\ experiments = [c \in Experiment |-> NoExperiment] /\ sync = [s \in Sync |-> Idle]
  BY DEF Init
<1>2. Types
  BY <1>1, IdleIsSound DEF Types
<1>3. \A s \in Sync : Sound(sync[s])
  BY <1>1, IdleIsSound
<1>4. Exclusive
  BY <1>1 DEF Exclusive, Idle
<1>5. Store
  <2>1. \A g \in Group : GroupDocs(g) \subseteq Doc
    BY DocsAre
  <2>2. \A c \in Experiment : GroupDocs(c) \subseteq Doc
    BY PrimaryAre
  <2>3. QED
    BY <1>1, <2>1, <2>2, UnderstandingIs DEF Store
<1>6. QED
  BY <1>2, <1>3, <1>4, <1>5 DEF IInv

LEMMA InvStep == IInv /\ [Next]_vars => IInv'
<1> SUFFICES ASSUME IInv, [Next]_vars PROVE IInv'
  OBVIOUS
<1>1. CASE RegistryStep
  BY <1>1, Stutter DEF RegistryStep
<1>2. ASSUME NEW s \in Sync, SyncStep(s) PROVE IInv'
  <2>1. CASE Load(s)
    BY <2>1, LoadStep
  <2>2. CASE SelectSource(s)
    BY <2>2, SelectStep
  <2>3. CASE InsertSource(s)
    BY <2>3, InsertStep
  <2>4. CASE EnsureDataset(s)
    BY <2>4, EnsureStep
  <2>5. CASE Import(s)
    BY <2>5, ImportStep
  <2>6. CASE CommitSync(s)
    BY <2>6, CommitStep
  <2>7. CASE RollbackSync(s)
    BY <2>7, RollbackStep
  <2>8. QED
    BY <1>2, <2>1, <2>2, <2>3, <2>4, <2>5, <2>6, <2>7 DEF SyncStep
<1>3. CASE UNCHANGED vars
  BY <1>3, Stutter DEF vars
<1>4. QED
  BY <1>1, <1>2, <1>3 DEF Next

\* What readers find of an experiment is one whole import, and there is at most
\* one dataset row, for any number of syncs that run, fail and restart together
\* (synchronize_evidence's one transaction).
THEOREM SnapshotWhole == Spec => []SnapshotIsWhole
<1>1. IInv => SnapshotIsWhole
  <2> SUFFICES ASSUME IInv PROVE SnapshotIsWhole
    OBVIOUS
  <2>1. Store
    BY DEF IInv
  <2>2. Len(datasets) <= 1
    BY <2>1, EmptySeq DEF Store
  <2>3. ASSUME NEW c \in Experiment, experiments[c] # NoExperiment
        PROVE datasets[experiments[c].dataset] = sources[Understanding]
    BY <2>1, <2>3 DEF Store
  <2>4. QED
    BY <2>1, <2>2, <2>3 DEF Store, SnapshotIsWhole
<1>2. QED
  BY <1>1, InvInit, InvStep, PTL DEF Spec

-----------------------------------------------------------------------------
(* The abstract store.                                                     *)

\* Without its row a group is absent, with it its documents are there.
LEMMA StoredIs ==
  ASSUME Store, NEW g \in Group
  PROVE  StoredOf(g) = IF GroupRow(g) THEN [d \in GroupDocs(g) |-> sources[d]] ELSE NoDigest
<1>1. g = DATASET \/ (g \in Experiment /\ g # DATASET)
  BY EvidenceDocumentsAssumption DEF Group
<1>2. ~GroupRow(g) => \A d \in GroupDocs(g) : sources[d] = NoDigest
  BY <1>1 DEF Store, GroupRow
<1>3. QED
  BY <1>2 DEF StoredOf

\* A commit leaves each group as it is, or stores it whole.
LEMMA CommitImports ==
  ASSUME IInv, NEW s \in Sync, CommitSync(s), NEW g \in Group
  PROVE  \/ StoredOf(g)' = StoredOf(g)
         \/ StoredOf(g) = NoDigest /\ StoredOf(g)' \in [GroupDocs(g) -> Digest]
<1>1. IInv' /\ Store /\ Store'
  BY CommitStep DEF IInv
<1>2. StoredOf(g) = IF GroupRow(g) THEN [d \in GroupDocs(g) |-> sources[d]] ELSE NoDigest
  BY <1>1, StoredIs
<1>3. g = DATASET \/ (g \in Experiment /\ g # DATASET)
  BY EvidenceDocumentsAssumption DEF Group
<1>4. StoredOf(g)' = IF GroupRow(g)' THEN [d \in GroupDocs(g) |-> sources'[d]] ELSE NoDigest
  <2>1. ~GroupRow(g)' => \A d \in GroupDocs(g) : sources'[d] = NoDigest
    BY <1>1, <1>3 DEF Store, GroupRow
  <2>2. QED
    BY <2>1 DEF StoredOf
<1>5. GroupDocs(g) \subseteq Doc
  BY DocsAre
<1>6. CASE ~GroupRow(g)
  <2>1. ASSUME GroupRow(g)' PROVE \A d \in GroupDocs(g) : sources'[d] \in Digest
    <3>1. \A d \in GroupDocs(g) : sources'[d] # NoDigest
      BY <1>1, <1>3, <2>1 DEF Store, GroupRow
    <3>2. sources' \in [Doc -> Digest \cup {NoDigest}]
      BY <1>1 DEF IInv, Types
    <3>3. QED
      BY <1>5, <3>1, <3>2
  <2>2. QED
    BY <1>2, <1>4, <1>6, <2>1
<1>7. CASE GroupRow(g)
  <2>1. \A d \in GroupDocs(g) : sources[d] # NoDigest
    BY <1>1, <1>3, <1>7 DEF Store, GroupRow
  <2>2. \A d \in GroupDocs(g) : sources'[d] = sources[d] /\ sources'[d] # NoDigest
    BY <1>5, <2>1, Committed
  <2>3. GroupRow(g)'
    <3>1. \E d \in GroupDocs(g) : TRUE
      BY DocsAre
    <3>2. QED
      BY <1>1, <1>3, <2>2, <3>1 DEF Store, GroupRow
  <2>4. QED
    BY <1>2, <1>4, <1>7, <2>2, <2>3
<1>8. QED
  BY <1>6, <1>7

\* The import implements the abstract store: a group is imported whole, and no
\* later sync changes it ("historical snapshots cannot be overwritten silently").
THEOREM SyncImplementsSnapshot == Spec => ImplementsSnapshot
<1> DEFINE abstract == [g \in Group |-> StoredOf(g)]
<1>1. Init => Snapshot!SnapshotInit
  <2> SUFFICES ASSUME Init PROVE Snapshot!SnapshotInit
    OBVIOUS
  <2>1. Store
    BY InvInit DEF IInv
  <2>2. datasets = <<>> /\ experiments = [c \in Experiment |-> NoExperiment]
    BY DEF Init
  <2>3. \A g \in Group : StoredOf(g) = NoDigest
    BY <2>1, <2>2, StoredIs DEF GroupRow, Group
  <2>4. QED
    BY <2>3 DEF Snapshot!SnapshotInit
<1>2. IInv /\ [Next]_vars => [Snapshot!ImportGroups]_abstract
  <2> SUFFICES ASSUME IInv, [Next]_vars PROVE Snapshot!ImportGroups \/ abstract' = abstract
    OBVIOUS
  <2>1. CASE UNCHANGED <<sources, datasets, experiments>>
    BY <2>1 DEF StoredOf, GroupRow
  <2>2. ASSUME NEW s \in Sync, CommitSync(s) PROVE Snapshot!ImportGroups
    <3>1. \A g \in Group : \/ StoredOf(g)' = StoredOf(g)
                           \/ StoredOf(g) = NoDigest /\ StoredOf(g)' \in SnapshotsOf[g]
      BY <2>2, CommitImports DEF SnapshotsOf
    <3>2. abstract' = [g \in Group |-> StoredOf(g)']
      OBVIOUS
    <3>3. \A g \in Group : abstract[g] = StoredOf(g) /\ abstract'[g] = StoredOf(g)'
      BY <3>2
    <3>4. QED
      BY <3>1, <3>2, <3>3 DEF Snapshot!ImportGroups, Snapshot!ImportGroup
  <2>3. QED
    BY <2>1, <2>2 DEF Next, vars, evidenceVars, RegistryStep, SyncStep, Load, SelectSource,
       InsertSource, EnsureDataset, Import, RollbackSync
<1>3. QED
  BY <1>1, <1>2, InvInit, InvStep, PTL DEF Spec, ImplementsSnapshot, Snapshot!SnapshotSpec

-----------------------------------------------------------------------------
(* The models table.                                                       *)

\* With one API process, what its start has read of its version's row stays
\* true until it commits: the row stays, and stays active.
Kept(p) ==
  /\ api[p].version \in Version /\ api[p].version \notin api[p].touched
  /\ api[p].state \in {"read", "deactivated"} /\ api[p].found => Present(api[p].version)
  /\ api[p].state \in {"read", "deactivated"} /\ api[p].active => table[api[p].version].active
  /\ api[p].state = "up" => api[p].version \in ActiveVersions

Registered ==
  /\ table \in [Version -> [present : BOOLEAN, active : BOOLEAN]]
  /\ DOMAIN api = Api
  /\ \A p \in Api : Kept(p)

\* Rows that are there and active stay so: no other step but a start's takes
\* the activity of a row away.
LEMMA KeptStays ==
  ASSUME Registered, table' \in [Version -> [present : BOOLEAN, active : BOOLEAN]], api' = api,
         \A p \in Api : /\ Present(api[p].version) => table'[api[p].version].present
                        /\ table[api[p].version].active => table'[api[p].version].active
  PROVE  Registered'
<1>1. \A p \in Api : Kept(p)'
  BY DEF Registered, Kept, ActiveVersions, Present
<1>2. QED
  BY <1>1 DEF Registered

\* A step of the API process: only its own entry changes.
LEMMA ApiKept ==
  ASSUME Registered, NEW p \in Api, \A q \in Api : q = p,
         table' \in [Version -> [present : BOOLEAN, active : BOOLEAN]],
         DOMAIN api' = Api, Kept(p)'
  PROVE  Registered'
BY DEF Registered

LEMMA CommitKeeps ==
  ASSUME Registered, NEW p \in Api, \A q \in Api : q = p, Commit(p)
  PROVE  Registered'
<1> DEFINE v == api[p].version
<1>1. /\ v \in Version /\ v \notin api[p].touched /\ api[p].state = "deactivated"
      /\ api[p].found => Present(v)
      /\ api[p].active => table[v].active
  BY DEF Registered, Kept, Commit
<1>2. /\ table' = [w \in Version |->
           IF w \in api[p].touched THEN [table[w] EXCEPT !.active = FALSE]
           ELSE IF w # v THEN table[w]
           ELSE IF ~api[p].found THEN Inserted
           ELSE [table[w] EXCEPT !.active = @ \/ ~api[p].active]]
      /\ api' = [api EXCEPT ![p].state = "up", ![p].touched = {}]
  BY DEF Commit
<1>3. /\ table \in [Version -> [present : BOOLEAN, active : BOOLEAN]] /\ DOMAIN api = Api
  BY DEF Registered
<1>4. api'[p].state = "up" /\ api'[p].version = v /\ api'[p].touched = {} /\ DOMAIN api' = Api
  BY <1>2, <1>3
<1> HIDE DEF v
<1>5. table' \in [Version -> [present : BOOLEAN, active : BOOLEAN]]
  <2>1. \A w \in Version : table'[w] \in [present : BOOLEAN, active : BOOLEAN]
    BY <1>2, <1>3 DEF Inserted
  <2>2. QED
    BY <1>2, <2>1
<1>6. table'[v].present /\ table'[v].active
  <2>1. CASE ~api[p].found
    BY <1>1, <1>2, <2>1 DEF Inserted
  <2>2. CASE api[p].found
    <3>1. table'[v] = [table[v] EXCEPT !.active = @ \/ ~api[p].active]
      BY <1>1, <1>2, <2>2
    <3>2. table[v] \in [present : BOOLEAN, active : BOOLEAN] /\ table[v].present
      BY <1>1, <1>3, <2>2 DEF Present
    <3>3. QED
      BY <1>1, <3>1, <3>2
  <2>3. QED
    BY <2>1, <2>2
<1>7. Kept(p)'
  BY <1>1, <1>4, <1>6 DEF Kept, ActiveVersions, Present
<1>8. QED
  BY <1>4, <1>5, <1>7, ApiKept

LEMMA RegisteredStep ==
  ASSUME Registered, \A p, q \in Api : p = q, [Next]_vars
  PROVE  Registered'
<1>1. /\ table \in [Version -> [present : BOOLEAN, active : BOOLEAN]] /\ DOMAIN api = Api
      /\ \A p \in Api : Kept(p)
  BY DEF Registered
<1>2. ASSUME NEW p \in Api, ApiStep(p) PROVE Registered'
  <2>1. ASSUME NEW v \in Version, StartRead(p, v) PROVE Registered'
    <3>1. table' = table /\ DOMAIN api' = Api
          /\ api'[p] = [state |-> "read", version |-> v, found |-> Present(v),
                        active |-> table[v].active, touched |-> {}]
      BY <1>1, <2>1 DEF StartRead
    <3>2. Kept(p)'
      BY <3>1 DEF Kept, Present
    <3>3. QED
      BY <1>1, <3>1, <3>2, ApiKept
  <2>2. CASE Deactivate(p)
    <3>1. /\ table' = table /\ DOMAIN api' = Api /\ api'[p].state = "deactivated"
          /\ api'[p].version = api[p].version /\ api[p].version \notin api'[p].touched
          /\ api'[p].found = api[p].found /\ api'[p].active = api[p].active /\ api[p].state = "read"
      BY <1>1, <2>2 DEF Deactivate
    <3>2. Kept(p)'
      BY <1>1, <3>1 DEF Kept, Present
    <3>3. QED
      BY <1>1, <3>1, <3>2, ApiKept
  <2>3. CASE Commit(p)
    BY <2>3, CommitKeeps
  <2>4. CASE StartFails(p) \/ Stop(p)
    <3>1. table' = table /\ DOMAIN api' = Api /\ api'[p] = NoApi
      BY <1>1, <2>4 DEF StartFails, Stop
    <3>2. Kept(p)'
      BY <3>1, EvidenceAssumption DEF Kept, NoApi
    <3>3. QED
      BY <1>1, <3>1, <3>2, ApiKept
  <2>5. QED
    BY <1>2, <2>1, <2>2, <2>3, <2>4 DEF ApiStep
<1>3. ASSUME NEW v \in Version, RegisterInactive(v) PROVE Registered'
  <2>1. /\ table' = [table EXCEPT ![v] = [present |-> TRUE, active |-> FALSE]] /\ api' = api
        /\ \A p \in Api : api[p].version # v /\ api[p].version \in Version
    BY <1>1, <1>3 DEF RegisterInactive, Kept
  <2>2. QED
    BY <1>1, <2>1, KeptStays DEF Present
<1>4. ASSUME NEW s \in Sync, SyncStep(s) PROVE Registered'
  <2>1. /\ api' = api
        /\ table' = table \/ table' = [table EXCEPT ![EvidenceVersion] = Inserted]
    BY <1>4 DEF SyncStep, Load, SelectSource, InsertSource, EnsureDataset, Import, CommitSync,
       RollbackSync, LinkInserts, LinkUpdates, LinkCommit, LinkRollback, registryVars
  <2>2. \A p \in Api : api[p].version \in Version
    BY <1>1 DEF Kept
  <2>3. CASE table' = table
    BY <1>1, <2>1, <2>3, KeptStays DEF Present
  <2>4. CASE table' = [table EXCEPT ![EvidenceVersion] = Inserted]
    BY <1>1, <2>1, <2>2, <2>4, KeptStays, EvidenceAssumption DEF Present, Inserted
  <2>5. QED
    BY <2>1, <2>3, <2>4
<1>5. CASE UNCHANGED vars
  BY <1>1, <1>5, KeptStays DEF vars, registryVars, Present
<1>6. QED
  BY <1>2, <1>3, <1>4, <1>5 DEF Next, RegistryStep

\* With one API process on the database, the version it serves is active for as
\* long as it serves it, whatever any number of evidence syncs and inactive
\* registrations do meanwhile (sync_active_model).
THEOREM ServedStaysActive ==
  ASSUME \A p, q \in Api : p = q
  PROVE  Spec => []ServedIsActive
<1>1. Init => Registered
  BY EvidenceAssumption DEF Init, RegistryInit, Registered, Kept, NoApi
<1>2. Registered /\ [Next]_vars => Registered'
  BY RegisteredStep
<1>3. Registered => ServedIsActive
  BY DEF Registered, Kept, ServedIsActive
<1>4. QED
  BY <1>1, <1>2, <1>3, PTL DEF Spec

-----------------------------------------------------------------------------
(* Rows and their order.                                                   *)

\* o orders the rows R strictly, each two of them one way.
IsOrder(R, o) ==
  /\ o \subseteq R \X R
  /\ \A v, w \in R : <<v, w>> \in o <=> v # w /\ <<w, v>> \notin o

LEMMA AddLast ==
  ASSUME NEW R, NEW o, IsOrder(R, o), NEW x, x \notin R
  PROVE  IsOrder(R \cup {x}, o \cup {<<w, x>> : w \in R})
<1> DEFINE n == o \cup {<<w, x>> : w \in R}
<1>1. n \subseteq (R \cup {x}) \X (R \cup {x})
  BY DEF IsOrder
<1>2. \A v, w : <<v, w>> \in n <=> <<v, w>> \in o \/ (w = x /\ v \in R)
  OBVIOUS
<1>3. \A v, w : <<v, w>> \in o => v \in R /\ w \in R
  BY DEF IsOrder
<1> HIDE DEF n
<1>4. \A v, w \in R \cup {x} : <<v, w>> \in n <=> v # w /\ <<w, v>> \notin n
  <2> SUFFICES ASSUME NEW v \in R \cup {x}, NEW w \in R \cup {x}
               PROVE  <<v, w>> \in n <=> v # w /\ <<w, v>> \notin n
    OBVIOUS
  <2>1. CASE v = x /\ w = x
    BY <1>2, <1>3, <2>1
  <2>2. CASE v = x /\ w # x
    BY <1>2, <1>3, <2>2
  <2>3. CASE v # x /\ w = x
    BY <1>2, <1>3, <2>3
  <2>4. CASE v # x /\ w # x
    BY <1>2, <2>4 DEF IsOrder
  <2>5. QED
    BY <2>1, <2>2, <2>3, <2>4
<1>5. QED
  BY <1>1, <1>4 DEF IsOrder, n

Without(o, x) == {e \in o : x \notin {e[1], e[2]}}

LEMMA DropRow ==
  ASSUME NEW R, NEW o, IsOrder(R, o), NEW x
  PROVE  IsOrder(R \ {x}, Without(o, x))
<1> DEFINE n == Without(o, x)
<1>1. \A v, w : <<v, w>> \in n <=> <<v, w>> \in o /\ v # x /\ w # x
  BY DEF Without
<1>2. n \subseteq (R \ {x}) \X (R \ {x})
  <2>1. \A e \in n : e \in R \X R /\ e[1] # x /\ e[2] # x
    BY DEF IsOrder, Without
  <2>2. QED
    BY <2>1
<1>3. QED
  BY <1>1, <1>2 DEF IsOrder

\* One sync at a time has inserted the evidence model's row, before the row is
\* there; and a start deactivates other rows than its version's.
InsertedOnce ==
  \A s \in Sync : link[s] = "inserted" =>
    ~Present(EvidenceVersion) /\ \A t \in Sync : link[t] = "inserted" => t = s

TouchesOthers == \A p \in Api : api[p].version \notin api[p].touched

RInv == RegistryTypeOK /\ InsertedOnce /\ TouchesOthers

ApiRecord == [state : {"down", "read", "deactivated", "up"}, version : Version,
              found : BOOLEAN, active : BOOLEAN, touched : SUBSET Version]

RowTypes ==
  /\ table \in [Version -> [present : BOOLEAN, active : BOOLEAN]]
  /\ api \in [Api -> ApiRecord]
  /\ link \in [Sync -> {"none", "unchanged", "updated", "inserted"}]

LEMMA RegistryTypesAre == RegistryTypeOK <=> RowTypes /\ IsOrder(Rows, order)
BY DEF RegistryTypeOK, RowTypes, IsOrder, ApiRecord

\* Rows are those of the table and, while a sync has inserted it, the evidence
\* version's.
LEMMA RowsAre ==
  ASSUME NEW v \in Version
  PROVE  /\ v \in Rows <=> Present(v) \/ (v = EvidenceVersion /\ \E s \in Sync : link[s] = "inserted")
         /\ Rows \subseteq Version
BY DEF Rows, Inserting

\* A row inserted anew is the last one.
LEMMA RowInserted ==
  ASSUME RInv, NEW v \in Version, v \notin Rows, Rows' = Rows \cup {v}, order' = OrderWith(v)
  PROVE  IsOrder(Rows', order')
<1>1. IsOrder(Rows, order)
  BY RegistryTypesAre DEF RInv
<1>2. order' = order \cup {<<w, v>> : w \in Rows}
  BY DEF OrderWith
<1>3. IsOrder(Rows \cup {v}, order \cup {<<w, v>> : w \in Rows})
  BY <1>1, AddLast
<1>4. QED
  BY <1>2, <1>3

LEMMA RInvInit == Init => RInv
<1> SUFFICES ASSUME Init PROVE RInv
  OBVIOUS
<1>1. /\ table = [v \in Version |-> [present |-> FALSE, active |-> FALSE]] /\ order = {}
      /\ api = [p \in Api |-> NoApi] /\ link = [s \in Sync |-> "none"]
  BY DEF Init, RegistryInit
<1>2. Rows = {}
  BY <1>1 DEF Rows, Present, Inserting
<1>3. RowTypes
  BY <1>1, EvidenceAssumption DEF RowTypes, ApiRecord, NoApi
<1>4. RegistryTypeOK
  BY <1>1, <1>2, <1>3, RegistryTypesAre DEF IsOrder
<1>5. QED
  BY <1>1, <1>4 DEF RInv, InsertedOnce, TouchesOthers, NoApi

\* A step that leaves the rows, and what syncs have inserted, as they are.
LEMMA RowsStay ==
  ASSUME RInv, RowTypes', order' = order, TouchesOthers',
         \A v \in Version : Present(v)' <=> Present(v),
         \A s \in Sync : link'[s] = "inserted" <=> link[s] = "inserted"
  PROVE  RInv'
<1>1. Rows' = Rows
  BY DEF Rows, Inserting
<1>2. RegistryTypeOK'
  <2>1. IsOrder(Rows', order')
    BY <1>1, RegistryTypesAre DEF RInv
  <2>2. QED
    BY <2>1 DEF RegistryTypeOK, RowTypes, IsOrder, ApiRecord
<1>3. InsertedOnce'
  BY EvidenceAssumption DEF RInv, InsertedOnce
<1>4. QED
  BY <1>2, <1>3 DEF RInv

\* A step of an API process other than a start's commit.
LEMMA ApiAlone ==
  ASSUME RInv, NEW p \in Api, NEW r \in ApiRecord, api' = [api EXCEPT ![p] = r],
         r.version \notin r.touched, UNCHANGED <<table, order, link>>
  PROVE  RInv'
<1>1. RowTypes' /\ TouchesOthers'
  BY RegistryTypesAre DEF RInv, RowTypes, TouchesOthers
<1>2. QED
  BY <1>1, RowsStay DEF Present

LEMMA StartReadStep == ASSUME RInv, NEW p \in Api, NEW v \in Version, StartRead(p, v) PROVE RInv'
<1> DEFINE r == [state |-> "read", version |-> v, found |-> Present(v),
                 active |-> table[v].active, touched |-> {}]
<1>1. table[v] \in [present : BOOLEAN, active : BOOLEAN]
  BY RegistryTypesAre DEF RInv, RowTypes
<1>2. r \in ApiRecord /\ r.version \notin r.touched
  BY <1>1 DEF ApiRecord, Present
<1>3. QED
  BY <1>2, ApiAlone DEF StartRead

LEMMA DeactivateStep == ASSUME RInv, NEW p \in Api, Deactivate(p) PROVE RInv'
<1>1. PICK others : /\ others = {v \in Version \ {api[p].version} : Present(v)}
                    /\ api' = [api EXCEPT ![p].state = "deactivated", ![p].touched = others]
                    /\ UNCHANGED <<table, order, link>>
  BY DEF Deactivate
<1>2. api \in [Api -> ApiRecord]
  BY RegistryTypesAre DEF RInv, RowTypes
<1> DEFINE r == [api[p] EXCEPT !.state = "deactivated", !.touched = others]
<1>3. api' = [api EXCEPT ![p] = r]
  BY <1>1, <1>2
<1>4. r \in ApiRecord /\ r.version = api[p].version /\ r.touched = others
  BY <1>1, <1>2 DEF ApiRecord
<1> HIDE DEF r
<1>5. QED
  BY <1>1, <1>3, <1>4, ApiAlone

LEMMA EndStep == ASSUME RInv, NEW p \in Api, StartFails(p) \/ Stop(p) PROVE RInv'
<1>1. NoApi \in ApiRecord /\ NoApi.version \notin NoApi.touched
  BY EvidenceAssumption DEF NoApi, ApiRecord
<1>2. QED
  BY <1>1, ApiAlone DEF StartFails, Stop

LEMMA StartCommitStep == ASSUME RInv, NEW p \in Api, Commit(p) PROVE RInv'
<1>1. RowTypes /\ IsOrder(Rows, order) /\ TouchesOthers /\ InsertedOnce
  BY RegistryTypesAre DEF RInv
<1>2. PICK v \in Version :
        /\ v = api[p].version /\ v \notin api[p].touched
        /\ ~api[p].found => ~Present(v) /\ ~Inserting(v)
        /\ table' = [w \in Version |->
             IF w \in api[p].touched THEN [table[w] EXCEPT !.active = FALSE]
             ELSE IF w # v THEN table[w]
             ELSE IF ~api[p].found THEN Inserted
             ELSE [table[w] EXCEPT !.active = @ \/ ~api[p].active]]
        /\ order' = IF api[p].found THEN order ELSE OrderWith(v)
        /\ api' = [api EXCEPT ![p].state = "up", ![p].touched = {}]
        /\ link' = link
  BY <1>1 DEF Commit, RowTypes, ApiRecord, TouchesOthers
<1>3. \A w \in Version : table[w] \in [present : BOOLEAN, active : BOOLEAN]
  BY <1>1 DEF RowTypes
<1>4. \A w \in Version : /\ table'[w] \in [present : BOOLEAN, active : BOOLEAN]
                         /\ table'[w].present = IF w = v /\ ~api[p].found THEN TRUE ELSE table[w].present
  <2>1. ASSUME NEW w \in Version, NEW f
        PROVE [table[w] EXCEPT !.active = f].present = table[w].present
    BY <1>3
  <2>2. QED
    BY <1>2, <1>3, <2>1 DEF Inserted
<1>5. RowTypes' /\ TouchesOthers'
  <2>1. table' \in [Version -> [present : BOOLEAN, active : BOOLEAN]]
    BY <1>2, <1>4
  <2>2. [api[p] EXCEPT !.state = "up", !.touched = {}] \in ApiRecord
    BY <1>1 DEF RowTypes, ApiRecord
  <2>3. api' = [api EXCEPT ![p] = [api[p] EXCEPT !.state = "up", !.touched = {}]]
    BY <1>1, <1>2 DEF RowTypes
  <2>4. api' \in [Api -> ApiRecord] /\ TouchesOthers'
    BY <1>1, <2>2, <2>3 DEF RowTypes, TouchesOthers
  <2>5. QED
    BY <1>1, <1>2, <2>1, <2>4 DEF RowTypes
<1>6. CASE api[p].found
  BY <1>2, <1>4, <1>5, <1>6, RowsStay DEF Present
<1>7. CASE ~api[p].found
  <2>1. v \notin Rows
    BY <1>2, <1>7 DEF Rows
  <2>2. \A w \in Version : Inserting(w)' <=> Inserting(w)
    BY <1>2 DEF Inserting
  <2>3. \A w \in Version : Present(w)' <=> Present(w) \/ w = v
    BY <1>4, <1>7 DEF Present
  <2>4. Rows' = Rows \cup {v}
    BY <2>2, <2>3 DEF Rows
  <2>5. IsOrder(Rows', order')
    BY <1>2, <1>7, <2>1, <2>4, RowInserted
  <2>6. RegistryTypeOK'
    BY <1>5, <2>5 DEF RegistryTypeOK, RowTypes, IsOrder, ApiRecord
  <2>7. InsertedOnce'
    BY <1>1, <1>2, <1>4, <1>7, EvidenceAssumption DEF InsertedOnce, Inserting, Present
  <2>8. QED
    BY <1>5, <2>6, <2>7 DEF RInv
<1>8. QED
  BY <1>6, <1>7

LEMMA RegisterInactiveStep ==
  ASSUME RInv, NEW v \in Version, RegisterInactive(v)
  PROVE  RInv'
<1>1. RowTypes /\ IsOrder(Rows, order) /\ TouchesOthers /\ InsertedOnce
  BY RegistryTypesAre DEF RInv
<1>2. /\ ~Inserting(v) /\ api' = api /\ link' = link
      /\ table' = [table EXCEPT ![v] = [present |-> TRUE, active |-> FALSE]]
      /\ order' = IF Present(v) THEN order ELSE OrderWith(v)
  BY DEF RegisterInactive
<1>3. RowTypes' /\ TouchesOthers'
  BY <1>1, <1>2 DEF RowTypes, TouchesOthers
<1>4. \A w \in Version : (Present(w)' <=> Present(w) \/ w = v) /\ (Inserting(w)' <=> Inserting(w))
  BY <1>1, <1>2 DEF RowTypes, Present, Inserting
<1>5. CASE Present(v)
  <2>1. \A w \in Version : Present(w)' <=> Present(w)
    BY <1>4, <1>5
  <2>2. QED
    BY <1>2, <1>3, <1>5, <2>1, RowsStay
<1>6. CASE ~Present(v)
  <2>1. v \notin Rows /\ Rows' = Rows \cup {v}
    BY <1>2, <1>4, <1>6 DEF Rows
  <2>2. RegistryTypeOK'
    <3>1. IsOrder(Rows', order')
      BY <1>2, <1>6, <2>1, RowInserted
    <3>2. QED
      BY <1>3, <3>1 DEF RegistryTypeOK, RowTypes, IsOrder, ApiRecord
  <2>3. InsertedOnce'
    BY <1>1, <1>2, <1>4, EvidenceAssumption DEF InsertedOnce, Inserting
  <2>4. QED
    BY <1>3, <2>2, <2>3 DEF RInv
<1>7. QED
  BY <1>5, <1>6

\* A step of a sync changes its own entry of link.
LEMMA LinkTypes ==
  ASSUME RInv, NEW s \in Sync, NEW x \in {"none", "unchanged", "updated", "inserted"},
         link' = [link EXCEPT ![s] = x], api' = api,
         table' \in [Version -> [present : BOOLEAN, active : BOOLEAN]]
  PROVE  /\ RowTypes' /\ TouchesOthers' /\ link'[s] = x
         /\ \A t \in Sync : t # s => link'[t] = link[t]
BY RegistryTypesAre DEF RInv, RowTypes, TouchesOthers

LEMMA LinkInsertsStep == ASSUME RInv, NEW s \in Sync, LinkInserts(s) PROVE RInv'
<1>1. RowTypes /\ InsertedOnce
  BY RegistryTypesAre DEF RInv
<1>2. /\ ~Present(EvidenceVersion) /\ ~Inserting(EvidenceVersion) /\ table' = table /\ api' = api
      /\ link' = [link EXCEPT ![s] = "inserted"] /\ order' = OrderWith(EvidenceVersion)
  BY DEF LinkInserts
<1>3. /\ RowTypes' /\ TouchesOthers' /\ link'[s] = "inserted"
      /\ \A t \in Sync : t # s => link'[t] = link[t]
  BY <1>1, <1>2, LinkTypes DEF RowTypes
<1>4. \A t \in Sync : link'[t] = "inserted" <=> t = s
  BY <1>2, <1>3 DEF Inserting
<1>5. EvidenceVersion \notin Rows /\ Rows' = Rows \cup {EvidenceVersion}
  BY <1>2, <1>4, EvidenceAssumption DEF Rows, Inserting, Present
<1>6. IsOrder(Rows', order')
  BY <1>2, <1>5, EvidenceAssumption, RowInserted
<1>7. RegistryTypeOK'
  BY <1>3, <1>6 DEF RegistryTypeOK, RowTypes, IsOrder, ApiRecord
<1>8. InsertedOnce'
  BY <1>2, <1>4 DEF InsertedOnce, Present
<1>9. QED
  BY <1>3, <1>7, <1>8 DEF RInv

LEMMA LinkUpdatesStep == ASSUME RInv, NEW s \in Sync, LinkUpdates(s) PROVE RInv'
<1>1. RowTypes /\ InsertedOnce
  BY RegistryTypesAre DEF RInv
<1>2. PICK x \in {"unchanged", "updated"} :
        /\ Present(EvidenceVersion) /\ link' = [link EXCEPT ![s] = x]
        /\ UNCHANGED <<table, order, api>>
  BY DEF LinkUpdates
<1>3. /\ RowTypes' /\ TouchesOthers' /\ link'[s] = x
      /\ \A t \in Sync : t # s => link'[t] = link[t]
  BY <1>1, <1>2, LinkTypes DEF RowTypes
<1>4. \A t \in Sync : link[t] # "inserted" /\ link'[t] # "inserted"
  BY <1>1, <1>2, <1>3 DEF InsertedOnce
<1>5. QED
  BY <1>2, <1>3, <1>4, RowsStay DEF Present

LEMMA LinkCommitStep == ASSUME RInv, NEW s \in Sync, LinkCommit(s) PROVE RInv'
<1>1. RowTypes /\ InsertedOnce
  BY RegistryTypesAre DEF RInv
<1>2. /\ table' = IF link[s] = "inserted" THEN [table EXCEPT ![EvidenceVersion] = Inserted] ELSE table
      /\ link' = [link EXCEPT ![s] = "none"] /\ UNCHANGED <<order, api>>
  BY DEF LinkCommit
<1>3. table' \in [Version -> [present : BOOLEAN, active : BOOLEAN]]
  BY <1>1, <1>2, EvidenceAssumption DEF RowTypes, Inserted
<1>4. /\ RowTypes' /\ TouchesOthers' /\ link'[s] = "none"
      /\ \A t \in Sync : t # s => link'[t] = link[t]
  BY <1>2, <1>3, LinkTypes
<1>5. CASE link[s] # "inserted"
  BY <1>2, <1>4, <1>5, RowsStay DEF Present
<1>6. CASE link[s] = "inserted"
  <2>1. \A t \in Sync : link'[t] # "inserted"
    BY <1>1, <1>4, <1>6 DEF InsertedOnce
  <2>2. \A v \in Version : Present(v)' <=> Present(v) \/ v = EvidenceVersion
    BY <1>1, <1>2, <1>6 DEF RowTypes, Present, Inserted
  <2>3. Rows' = Rows
    BY <1>6, <2>1, <2>2 DEF Rows, Inserting
  <2>4. RegistryTypeOK'
    <3>1. IsOrder(Rows', order')
      BY <1>2, <2>3, RegistryTypesAre DEF RInv
    <3>2. QED
      BY <1>4, <3>1 DEF RegistryTypeOK, RowTypes, IsOrder, ApiRecord
  <2>5. QED
    BY <1>4, <2>1, <2>4 DEF RInv, InsertedOnce
<1>7. QED
  BY <1>5, <1>6

LEMMA LinkRollbackStep == ASSUME RInv, NEW s \in Sync, LinkRollback(s) PROVE RInv'
<1>1. RowTypes /\ InsertedOnce /\ IsOrder(Rows, order)
  BY RegistryTypesAre DEF RInv
<1>2. /\ order' = IF link[s] = "inserted" THEN {e \in order : EvidenceVersion \notin {e[1], e[2]}}
                  ELSE order
      /\ link' = [link EXCEPT ![s] = "none"] /\ UNCHANGED <<table, api>>
  BY DEF LinkRollback
<1>3. /\ RowTypes' /\ TouchesOthers' /\ link'[s] = "none"
      /\ \A t \in Sync : t # s => link'[t] = link[t]
  BY <1>1, <1>2, LinkTypes DEF RowTypes
<1>4. CASE link[s] # "inserted"
  BY <1>2, <1>3, <1>4, RowsStay DEF Present
<1>5. CASE link[s] = "inserted"
  <2>1. ~Present(EvidenceVersion) /\ \A t \in Sync : link'[t] # "inserted"
    BY <1>1, <1>3, <1>5 DEF InsertedOnce
  <2>2. Rows' = Rows \ {EvidenceVersion}
    BY <1>2, <2>1 DEF Rows, Present, Inserting
  <2>3. IsOrder(Rows', order')
    <3>1. order' = Without(order, EvidenceVersion)
      BY <1>2, <1>5 DEF Without
    <3>2. QED
      BY <1>1, <2>2, <3>1, DropRow
  <2>4. RegistryTypeOK'
    BY <1>3, <2>3 DEF RegistryTypeOK, RowTypes, IsOrder, ApiRecord
  <2>5. QED
    BY <1>3, <2>1, <2>4 DEF RInv, InsertedOnce
<1>6. QED
  BY <1>4, <1>5

LEMMA RegistryUnchanged == ASSUME RInv, UNCHANGED registryVars PROVE RInv'
<1>1. RowTypes' /\ TouchesOthers'
  BY RegistryTypesAre DEF RInv, RowTypes, TouchesOthers, registryVars
<1>2. QED
  BY <1>1, RowsStay DEF registryVars, Present

LEMMA RInvStep == RInv /\ [Next]_vars => RInv'
<1> SUFFICES ASSUME RInv, [Next]_vars PROVE RInv'
  OBVIOUS
<1>1. ASSUME NEW p \in Api, ApiStep(p) PROVE RInv'
  BY <1>1, StartReadStep, DeactivateStep, StartCommitStep, EndStep DEF ApiStep
<1>2. ASSUME NEW v \in Version, RegisterInactive(v) PROVE RInv'
  BY <1>2, RegisterInactiveStep
<1>3. ASSUME NEW s \in Sync, SyncStep(s) PROVE RInv'
  <2>1. UNCHANGED registryVars \/ LinkInserts(s) \/ LinkUpdates(s) \/ LinkCommit(s) \/ LinkRollback(s)
    BY <1>3 DEF SyncStep, Load, SelectSource, InsertSource, EnsureDataset, Import, CommitSync, RollbackSync
  <2>2. QED
    BY <2>1, RegistryUnchanged, LinkInsertsStep, LinkUpdatesStep, LinkCommitStep, LinkRollbackStep
<1>4. CASE UNCHANGED vars
  BY <1>4, RegistryUnchanged DEF vars
<1>5. QED
  BY <1>1, <1>2, <1>3, <1>4 DEF Next, RegistryStep

-----------------------------------------------------------------------------
(* The types of the whole.                                                 *)

\* An idle sync holds nothing, and one that has linked the model has selected
\* the experiment the model is linked to.
Linked ==
  \A s \in Sync : /\ sync[s].state = "idle" <=> sync[s] = Idle
                  /\ link[s] # "none" => LinksModel \in ToSet(sync[s].sel)

\* A step of a sync between its load and its end keeps the selection.
LEMMA SelectionStays ==
  ASSUME IInv, NEW s \in Sync,
         SelectSource(s) \/ InsertSource(s) \/ EnsureDataset(s) \/ Import(s)
  PROVE  /\ sync'[s].state # "idle" /\ sync'[s].sel = sync[s].sel
         /\ sync' = [sync EXCEPT ![s] = sync'[s]]
<1>1. sync \in [Sync -> Session] /\ sync[s] \in Session /\ InHand(sync[s])
  BY DEF IInv, Types, Sound
<1>2. \A q : Set(s, q) => sync' = [sync EXCEPT ![s] = q] /\ sync'[s] = q
  BY <1>1 DEF Set
<1>3. ASSUME NEW q, Set(s, q), q.state # "idle", q.sel = sync[s].sel
      PROVE  /\ sync'[s].state # "idle" /\ sync'[s].sel = sync[s].sel
             /\ sync' = [sync EXCEPT ![s] = sync'[s]]
  BY <1>2, <1>3
<1>4. ASSUME NEW x \in Digest, NEW S \in SUBSET Doc, sync[s].state \in {"select", "insert"},
             Set(s, Sourced([sync[s] EXCEPT !.sources = S], Pending(s), x))
      PROVE  /\ sync'[s].state # "idle" /\ sync'[s].sel = sync[s].sel
             /\ sync' = [sync EXCEPT ![s] = sync'[s]]
  <2>1. IsNext(sync[s], Sourced([sync[s] EXCEPT !.sources = S], Pending(s), x), S, Pending(s), x)
    BY <1>1, <1>4, Advance DEF Pending
  <2>2. QED
    BY <1>3, <1>4, <2>1 DEF IsNext
<1>5. CASE SelectSource(s)
  <2>1. CASE sources[Pending(s)] = NoDigest
    <3>1. Set(s, [sync[s] EXCEPT !.state = "insert"])
      BY <1>5, <2>1 DEF SelectSource
    <3>2. [sync[s] EXCEPT !.state = "insert"].state = "insert"
          /\ [sync[s] EXCEPT !.state = "insert"].sel = sync[s].sel
      BY <1>1 DEF Session
    <3>3. QED
      BY <1>3, <3>1, <3>2
  <2>2. CASE sources[Pending(s)] # NoDigest
    <3>1. sync[s].state = "select" /\ Set(s, Sourced(sync[s], Pending(s), sources[Pending(s)]))
      BY <1>5, <2>2 DEF SelectSource
    <3>2. Pending(s) \in Doc
      BY <1>1, <3>1, DocsAre, GroupsAre DEF InHand, Groups, GroupOf, Session, Pending
    <3>3. sources[Pending(s)] \in Digest
      BY <2>2, <3>2 DEF IInv, Types
    <3>4. sync[s] = [sync[s] EXCEPT !.sources = sync[s].sources] /\ sync[s].sources \in SUBSET Doc
      BY <1>1 DEF Session
    <3>5. Set(s, Sourced([sync[s] EXCEPT !.sources = sync[s].sources], Pending(s), sources[Pending(s)]))
      BY <3>1, <3>4
    <3>6. QED
      BY <1>4, <3>1, <3>3, <3>4, <3>5
  <2>3. QED
    BY <2>1, <2>2
<1>6. CASE InsertSource(s)
  <2>1. PICK x \in Digest :
          Set(s, Sourced([sync[s] EXCEPT !.sources = sync[s].sources \cup {Pending(s)}], Pending(s), x))
    BY <1>6 DEF InsertSource
  <2>2. sync[s].state = "insert"
    BY <1>6 DEF InsertSource
  <2>3. Pending(s) \in Doc
    BY <1>1, <2>2, DocsAre, GroupsAre DEF InHand, Groups, GroupOf, Session, Pending
  <2>4. sync[s].sources \cup {Pending(s)} \in SUBSET Doc
    BY <1>1, <2>3 DEF Session
  <2>5. QED
    BY <1>4, <2>1, <2>2, <2>4
<1>7. CASE EnsureDataset(s)
  <2>1. Set(s, [sync[s] EXCEPT !.state = "import", !.group = 2, !.ownDataset = datasets = <<>>])
    BY <1>7 DEF EnsureDataset
  <2>2. /\ [sync[s] EXCEPT !.state = "import", !.group = 2, !.ownDataset = datasets = <<>>].state = "import"
        /\ [sync[s] EXCEPT !.state = "import", !.group = 2, !.ownDataset = datasets = <<>>].sel = sync[s].sel
    BY <1>1 DEF Session
  <2>3. QED
    BY <1>3, <2>1, <2>2
<1>8. CASE Import(s)
  <2>1. PICK X \in {sync[s].experiments, sync[s].experiments \cup {GroupOf(sync[s])}} :
          Set(s, NextImport([sync[s] EXCEPT !.experiments = X]))
    <3>1. sync[s] = [sync[s] EXCEPT !.experiments = sync[s].experiments]
      BY <1>1 DEF Session
    <3>2. QED
      BY <1>8, <3>1 DEF Import, ImportRows
  <2>2. sync[s].state = "import"
    BY <1>8 DEF Import
  <2>3. PICK b \in Session : /\ b = [sync[s] EXCEPT !.experiments = X]
                            /\ b.state = "import" /\ b.sel = sync[s].sel
    <3>1. GroupOf(sync[s]) \in Experiment
      BY <1>1, <2>2, GroupsAre DEF InHand, Groups, GroupOf, Session
    <3>2. X \in SUBSET Experiment
      BY <1>1, <3>1 DEF Session
    <3>3. /\ [sync[s] EXCEPT !.experiments = X] \in Session
          /\ [sync[s] EXCEPT !.experiments = X].state = "import"
          /\ [sync[s] EXCEPT !.experiments = X].sel = sync[s].sel
      BY <1>1, <2>2, <3>2 DEF Session
    <3>4. QED
      BY <3>3
  <2>4. NextImport(b).state # "idle" /\ NextImport(b).sel = sync[s].sel
    <3>1. /\ [b EXCEPT !.group = @ + 1].state = "import" /\ [b EXCEPT !.group = @ + 1].sel = b.sel
          /\ [b EXCEPT !.state = "flushed", !.group = 0].state = "flushed"
          /\ [b EXCEPT !.state = "flushed", !.group = 0].sel = b.sel
      BY <2>3 DEF Session
    <3>2. QED
      BY <2>3, <3>1 DEF NextImport
  <2>5. QED
    BY <1>3, <2>1, <2>3, <2>4
<1>9. QED
  BY <1>5, <1>6, <1>7, <1>8

LEMMA SelectionHas ==
  ASSUME NEW sel \in Seq(Experiment), NEW i \in 1 .. Len(GroupsOf(sel)), i # 1
  PROVE  GroupsOf(sel)[i] \in ToSet(sel)
<1>1. sel \in Seq(Group) /\ <<DATASET>> \in Seq(Group) /\ Len(<<DATASET>>) = 1 /\ Len(sel) \in Nat
  BY DEF Group
<1>2. /\ Len(GroupsOf(sel)) = Len(sel) + 1
      /\ \A j \in 1 .. Len(sel) + 1 : j # 1 => GroupsOf(sel)[j] = sel[j - 1]
  BY <1>1 DEF GroupsOf
<1>3. i - 1 \in 1 .. Len(sel) /\ DOMAIN sel = 1 .. Len(sel)
  BY <1>1, <1>2
<1>4. QED
  BY <1>2, <1>3 DEF ToSet

LEMMA LinkedStep == ASSUME IInv, RInv, Linked, [Next]_vars PROVE Linked'
<1>1. sync \in [Sync -> Session] /\ DOMAIN link = Sync
  BY DEF IInv, Types, RInv, RegistryTypeOK
<1>2. Idle.state = "idle" /\ Idle.sel = <<>> /\ ToSet(Idle.sel) = {}
  BY DEF Idle, ToSet
<1>3. ASSUME NEW s \in Sync, SyncStep(s) PROVE Linked'
  <2>1. SUFFICES /\ sync'[s].state = "idle" <=> sync'[s] = Idle
                 /\ link'[s] # "none" => LinksModel \in ToSet(sync'[s].sel)
                 /\ \A t \in Sync : t # s => sync'[t] = sync[t] /\ link'[t] = link[t]
    BY DEF Linked
  <2>2. \A t \in Sync : t # s => link'[t] = link[t]
    <3>1. link' = link \/ \E x : link' = [link EXCEPT ![s] = x]
      BY <1>3 DEF SyncStep, Load, SelectSource, InsertSource, EnsureDataset, Import, CommitSync,
         RollbackSync, registryVars, LinkInserts, LinkUpdates, LinkCommit, LinkRollback
    <3>2. QED
      BY <1>1, <3>1
  <2>3. CASE Load(s)
    <3>1. PICK sel : Set(s, [Idle EXCEPT !.state = "select", !.sel = sel, !.group = 1, !.doc = 1])
      BY <2>3 DEF Load
    <3>2. sync'[s].state = "select" /\ \A t \in Sync : t # s => sync'[t] = sync[t]
      BY <1>1, <3>1 DEF Set, Idle
    <3>3. sync[s] = Idle /\ link' = link
      BY <2>3 DEF Load, Linked, registryVars
    <3>4. link'[s] = "none"
      BY <1>2, <3>3 DEF Linked
    <3>5. QED
      BY <1>2, <3>2, <3>3, <3>4
  <2>4. CASE SelectSource(s) \/ InsertSource(s) \/ EnsureDataset(s) \/ Import(s)
    <3>1. /\ sync'[s].state # "idle" /\ sync'[s].sel = sync[s].sel
          /\ sync' = [sync EXCEPT ![s] = sync'[s]]
      BY <2>4, SelectionStays
    <3>2. link'[s] # "none" => LinksModel \in ToSet(sync[s].sel)
      <4>1. CASE link' = link
        BY <4>1 DEF Linked
      <4>2. CASE Import(s) /\ GroupOf(sync[s]) = LinksModel
        <5>1. sync[s] \in Session /\ InHand(sync[s]) /\ sync[s].state = "import"
          BY <4>2 DEF IInv, Types, Sound, Import
        <5>2. QED
          BY <4>2, <5>1, SelectionHas DEF InHand, Groups, GroupOf, Session
      <4>3. QED
        BY <2>4, <4>1, <4>2 DEF SelectSource, InsertSource, EnsureDataset, Import, registryVars
    <3>3. QED
      BY <1>1, <1>2, <2>2, <3>1, <3>2
  <2>5. CASE CommitSync(s) \/ RollbackSync(s)
    <3>1. Set(s, Idle) /\ link' = [link EXCEPT ![s] = "none"]
      BY <2>5 DEF CommitSync, RollbackSync, LinkCommit, LinkRollback
    <3>2. QED
      BY <1>1, <1>2, <3>1 DEF Set
  <2>6. QED
    BY <1>3, <2>3, <2>4, <2>5 DEF SyncStep
<1>4. CASE UNCHANGED <<sync, link>>
  BY <1>4 DEF Linked
<1>5. CASE RegistryStep
  <2>1. UNCHANGED <<sync, link>>
    BY <1>5 DEF RegistryStep, evidenceVars, ApiStep, StartRead, Deactivate, Commit, StartFails, Stop,
       RegisterInactive
  <2>2. QED
    BY <1>4, <2>1
<1>6. QED
  BY <1>3, <1>4, <1>5 DEF Next, vars, registryVars, evidenceVars

\* Types, of the rows and of their order as well: ids are drawn in an order
\* that stays one through inserts, rollbacks and restarts (models.id), and a
\* sync's model link never outlives its transaction (synchronize_evidence).
THEOREM EvidenceTypes == Spec => []TypeOK
<1>1. Init => Linked
  BY DEF Init, RegistryInit, Linked, Idle
<1>2. IInv /\ RInv /\ Linked => TypeOK
  <2> SUFFICES ASSUME IInv, RInv, Linked PROVE TypeOK
    OBVIOUS
  <2>1. Types /\ Store /\ RegistryTypeOK
    BY DEF IInv, RInv
  <2>2. ASSUME NEW c \in Experiment, experiments[c] # NoExperiment
        PROVE  experiments[c].primary \in Digest /\ experiments[c].dataset \in DOMAIN datasets
    <3>1. Primary(c) \in GroupDocs(c) /\ GroupDocs(c) \subseteq Doc
      BY PrimaryAre
    <3>2. experiments[c].primary = sources[Primary(c)] /\ sources[Primary(c)] # NoDigest
      BY <2>1, <2>2, <3>1 DEF Store
    <3>3. experiments[c].primary \in Digest
      BY <2>1, <3>1, <3>2 DEF Types
    <3>4. experiments[c].dataset = 1 /\ Len(datasets) = 1
      BY <2>1, <2>2 DEF Store
    <3>5. DOMAIN datasets = 1 .. Len(datasets)
      BY <2>1 DEF Types
    <3>6. QED
      BY <3>3, <3>4, <3>5
  <2>3. ASSUME NEW s \in Sync
        PROVE  /\ sync[s].state \in {"idle", "select", "insert", "dataset", "import", "flushed"}
               /\ sync[s].sources \subseteq Doc /\ sync[s].experiments \subseteq Experiment
    BY <2>1 DEF Types, Session, State
  <2>4. QED
    BY <2>1, <2>2, <2>3 DEF TypeOK, Types, Linked
<1>3. QED
  BY <1>1, <1>2, InvInit, InvStep, RInvInit, RInvStep, LinkedStep, PTL DEF Spec

-----------------------------------------------------------------------------
(* The version reported.                                                   *)

\* A start that has deactivated the other rows keeps them from being active,
\* and so does the API it becomes, but for the evidence version's row.
Quiet ==
  \A p \in Api :
    /\ api[p].state = "deactivated" =>
         \A w \in Version : Present(w) => w \in {api[p].version, EvidenceVersion} \cup api[p].touched
    /\ api[p].state = "up" => ActiveVersions \subseteq {api[p].version, EvidenceVersion}

LEMMA QuietStep ==
  ASSUME Quiet, RInv, Registered, \A p, q \in Api : p = q, [Next]_vars
  PROVE  Quiet'
<1>1. RowTypes /\ TouchesOthers
  BY RegistryTypesAre DEF RInv
<1>2. ASSUME NEW p \in Api, ApiStep(p) PROVE Quiet'
  <2>1. SUFFICES
          /\ api'[p].state = "deactivated" => \A w \in Version : table'[w].present =>
               w \in {api'[p].version, EvidenceVersion} \cup api'[p].touched
          /\ api'[p].state = "up" => \A w \in Version : table'[w].present /\ table'[w].active =>
               w \in {api'[p].version, EvidenceVersion}
    BY DEF Quiet, Present, ActiveVersions
  <2>2. ASSUME NEW v \in Version, StartRead(p, v) PROVE api'[p].state = "read"
    BY <1>1, <2>2 DEF StartRead, RowTypes
  <2>3. CASE Deactivate(p)
    <3>1. /\ api'[p].state = "deactivated" /\ api'[p].version = api[p].version /\ table' = table
          /\ api'[p].touched = {w \in Version \ {api[p].version} : Present(w)}
      BY <1>1, <2>3 DEF Deactivate, RowTypes, ApiRecord
    <3>2. QED
      BY <3>1 DEF Present
  <2>4. CASE Commit(p)
    <3>1. PICK v \in Version :
            /\ v = api[p].version /\ api[p].state = "deactivated"
            /\ \A w \in Version : /\ w \in api[p].touched => table'[w] = [table[w] EXCEPT !.active = FALSE]
                                  /\ w \notin api[p].touched /\ w # v => table'[w] = table[w]
            /\ api' = [api EXCEPT ![p].state = "up", ![p].touched = {}]
      BY <1>1, <2>4 DEF Commit, RowTypes, ApiRecord
    <3>2. api'[p].state = "up" /\ api'[p].version = v
      BY <1>1, <3>1 DEF RowTypes, ApiRecord
    <3>3. ASSUME NEW w \in Version, w # v, w # EvidenceVersion, table'[w].present
          PROVE  ~table'[w].active
      <4>1. table[w] \in [present : BOOLEAN, active : BOOLEAN]
        BY <1>1 DEF RowTypes
      <4>2. CASE w \in api[p].touched
        BY <3>1, <4>1, <4>2
      <4>3. CASE w \notin api[p].touched
        BY <3>1, <3>3, <4>3 DEF Quiet, Present
      <4>4. QED
        BY <4>2, <4>3
    <3>4. QED
      BY <3>2, <3>3
  <2>5. ASSUME StartFails(p) \/ Stop(p) PROVE api'[p].state = "down"
    BY <1>1, <2>5 DEF StartFails, Stop, RowTypes, NoApi
  <2>6. QED
    BY <1>2, <2>2, <2>3, <2>4, <2>5 DEF ApiStep
<1>3. ASSUME api' = api, \A w \in Version \ {EvidenceVersion} :
               \/ table'[w] = table[w]
               \/ ~table'[w].active /\ \A p \in Api : api[p].state = "up"
      PROVE  Quiet'
  BY <1>3 DEF Quiet, Present, ActiveVersions
<1>4. ASSUME NEW v \in Version, RegisterInactive(v) PROVE Quiet'
  <2>1. /\ api' = api /\ table' = [table EXCEPT ![v] = [present |-> TRUE, active |-> FALSE]]
        /\ \A p \in Api : api[p].state = "up"
    BY <1>4 DEF RegisterInactive
  <2>2. QED
    BY <1>1, <1>3, <2>1 DEF RowTypes
<1>5. ASSUME NEW s \in Sync, SyncStep(s) PROVE Quiet'
  <2>1. /\ api' = api
        /\ table' = table \/ table' = [table EXCEPT ![EvidenceVersion] = Inserted]
    BY <1>5 DEF SyncStep, Load, SelectSource, InsertSource, EnsureDataset, Import, CommitSync,
       RollbackSync, LinkInserts, LinkUpdates, LinkCommit, LinkRollback, registryVars
  <2>2. QED
    BY <1>1, <1>3, <2>1 DEF RowTypes
<1>6. CASE UNCHANGED vars
  BY <1>3, <1>6 DEF vars, registryVars
<1>7. QED
  BY <1>2, <1>4, <1>5, <1>6 DEF Next, RegistryStep

\* With one API process on the database, GET /api/models/active answers with
\* the version it serves, or with the evidence version if its row was inserted
\* after that one's, whatever was served, synced and registered before.
THEOREM ReportedServed ==
  ASSUME \A p, q \in Api : p = q
  PROVE  Spec => []ReportedIsServedOrNewer
<1>1. Init => Registered /\ Quiet
  BY EvidenceAssumption DEF Init, RegistryInit, Registered, Kept, NoApi, Quiet
<1>2. Registered /\ [Next]_vars => Registered'
  BY RegisteredStep
<1>3. Quiet /\ RInv /\ Registered /\ [Next]_vars => Quiet'
  BY QuietStep
<1>4. RInv /\ Registered /\ Quiet => ReportedIsServedOrNewer
  <2> SUFFICES ASSUME RInv, Registered, Quiet, NEW p \in Api, api[p].state = "up"
               PROVE  \/ Reported = api[p].version
                      \/ Reported = EvidenceVersion /\ <<api[p].version, EvidenceVersion>> \in order
    BY DEF ReportedIsServedOrNewer
  <2>1. PICK v : v = api[p].version
    OBVIOUS
  <2>2. v \in ActiveVersions /\ ActiveVersions \subseteq {v, EvidenceVersion}
    BY <2>1 DEF Registered, Kept, Quiet
  <2>3. \A w \in ActiveVersions : w \in Rows
    BY DEF ActiveVersions, Rows
  <2>4. \A w, u \in Rows : <<w, u>> \in order <=> w # u /\ <<u, w>> \notin order
    BY DEF RInv, RegistryTypeOK
  <2>5. CASE ActiveVersions = {v}
    <3>1. \A u : (u \in ActiveVersions /\ \A w \in ActiveVersions \ {u} : <<w, u>> \in order) <=> u = v
      BY <2>5
    <3>2. Reported = v
      BY <3>1 DEF Reported
    <3>3. QED
      BY <2>1, <3>2
  <2>6. CASE ActiveVersions = {v, EvidenceVersion} /\ v # EvidenceVersion
    <3>1. <<v, EvidenceVersion>> \in order <=> <<EvidenceVersion, v>> \notin order
      BY <2>3, <2>4, <2>6
    <3>2. Reported \in ActiveVersions /\ \A w \in ActiveVersions \ {Reported} : <<w, Reported>> \in order
      <4>1. \E u \in ActiveVersions : \A w \in ActiveVersions \ {u} : <<w, u>> \in order
        BY <2>6, <3>1
      <4>2. QED
        BY <4>1 DEF Reported
    <3>3. QED
      BY <2>1, <2>6, <3>1, <3>2
  <2>7. QED
    BY <2>2, <2>5, <2>6
<1>5. QED
  BY <1>1, <1>2, <1>3, <1>4, RInvInit, RInvStep, PTL DEF Spec

-----------------------------------------------------------------------------
(* Administrator sessions.                                                 *)

Stage == Called \cup {"idle", "health", "acked?"}
Shows == {"login", "offline", "unverified", "page"}
Status == {"ACTIVE", "ACKNOWLEDGED"}
Call == [n : 1 .. MaxAcks, browser : Browser, alert : Alert, user : User, seen : Status \cup {"unread"}]

ServerTypes ==
  /\ up \in BOOLEAN /\ expired \subseteq Token /\ enabled \subseteq User /\ dropped \subseteq Token
  /\ DOMAIN sessions \subseteq Token /\ \A t \in DOMAIN sessions : sessions[t] \in User

\* What the API has refused or revoked, it has forgotten.
Forgotten == dropped \cap DOMAIN sessions = {}

\* A browser without a token shows the login form, and one that acknowledges
\* an alert was made to by a click.
BrowserOK(b) ==
  /\ shown[b] = "login" /\ run[b] = "idle" <=> token[b] = None
  /\ run[b] = "ack" => click[b] \in Alert
  /\ click[b] \in Alert => acks >= 1

BrowserTypes ==
  /\ token \in [Browser -> Token \cup {None}] /\ run \in [Browser -> Stage]
  /\ click \in [Browser -> Alert \cup {"logout", None}] /\ shown \in [Browser -> Shows]
  /\ sidebar \in [Browser -> Sidebar]
  /\ timeouts \in 0 .. MaxTimeouts /\ acks \in 0 .. MaxAcks
  /\ \A b \in Browser : BrowserOK(b)

AlertTypes ==
  /\ alert \in [Alert -> [status : Status, by : User \cup {None}, at : Nat]]
  /\ handlers \subseteq Call

\* The clicks of which no call has been made yet.
Underway == {b \in Browser : click[b] \in Alert /\ run[b] \in {"health", "verify", "model", "page", "ack"}}

\* No alert's time is past the clicks that have been made, less those that wait
\* for their commit; and there is a latest time.
TimesCounted ==
  /\ IsFiniteSet(Underway) /\ IsFiniteSet(handlers)
  /\ \A a \in Alert : alert[a].at + Cardinality(handlers) + Cardinality(Underway) <= acks
LatestIs == Alert # {} => \E a \in Alert : \A c \in Alert : alert[c].at <= alert[a].at

AdminInv == ServerTypes /\ Forgotten /\ BrowserTypes /\ AlertTypes /\ TimesCounted /\ LatestIs

LEMMA AdminInvInit == AdminInit => AdminInv
<1> SUFFICES ASSUME AdminInit PROVE AdminInv
  OBVIOUS
<1>1. ServerTypes /\ Forgotten
  BY DEF AdminInit, ServerTypes, Forgotten
<1>2. BrowserTypes
  BY BoundAssumption, NoneAssumption DEF AdminInit, BrowserTypes, BrowserOK, Stage, Shows, Sidebar, Defaults
<1>3. AlertTypes
  BY DEF AdminInit, AlertTypes, Active, Status
<1>4. Underway = {} /\ handlers = {} /\ \A a \in Alert : alert[a].at = 0
  BY DEF AdminInit, Underway, Active
<1>5. TimesCounted
  BY <1>4, FS_EmptySet DEF TimesCounted, AdminInit
<1>6. QED
  BY <1>1, <1>2, <1>3, <1>4, <1>5 DEF AdminInv, LatestIs

LEMMA HasToken ==
  ASSUME BrowserTypes, NEW b \in Browser, run[b] \in Called
  PROVE  token[b] \in Token
BY DEF BrowserTypes, BrowserOK, Called

\* A restriction of the sessions forgets tokens and changes none.
LEMMA ForgetIs ==
  ASSUME ServerTypes, NEW t, Forget(t)
  PROVE  /\ DOMAIN sessions' = DOMAIN sessions \ {t}
         /\ \A s \in DOMAIN sessions' : sessions'[s] = sessions[s]
BY DEF Forget, Restrict

LEMMA ServerStep ==
  ASSUME ServerTypes, Forgotten, BrowserTypes, AdminNext
  PROVE  ServerTypes' /\ Forgotten'
<1>1. ASSUME NEW b \in Browser, NEW u \in User, NEW t \in Token, Login(b, u, t)
      PROVE  ServerTypes' /\ Forgotten'
  <2>1. /\ sessions' = [s \in DOMAIN sessions \cup {t} |-> IF s = t THEN u ELSE sessions[s]]
        /\ t \notin dropped /\ UNCHANGED <<up, expired, enabled, dropped>>
    BY <1>1 DEF Login
  <2>2. QED
    BY <2>1 DEF ServerTypes, Forgotten
<1>2. ASSUME NEW b \in Browser, Refused(b) \/ LogoutOk(b) PROVE ServerTypes' /\ Forgotten'
  <2>1. /\ Forget(token[b]) /\ dropped' = dropped \cup {token[b]} /\ token[b] \in Token
        /\ UNCHANGED <<up, expired, enabled>>
    BY <1>2, HasToken DEF Refused, LogoutOk, Called
  <2>2. QED
    BY <2>1, ForgetIs DEF ServerTypes, Forgotten
<1>3. ASSUME NEW b \in Browser, LogoutLost(b) PROVE ServerTypes' /\ Forgotten'
  <2>1. /\ UNCHANGED sessions \/ Forget(token[b])
        /\ UNCHANGED <<up, expired, enabled, dropped>>
    BY <1>3 DEF LogoutLost
  <2>2. QED
    BY <2>1, ForgetIs DEF ServerTypes, Forgotten
<1>4. ASSUME NEW t \in Token, Expire(t) PROVE ServerTypes' /\ Forgotten'
  BY <1>4 DEF Expire, ServerTypes, Forgotten
<1>5. ASSUME NEW u \in User, ToggleUser(u) PROVE ServerTypes' /\ Forgotten'
  BY <1>5 DEF ToggleUser, ServerTypes, Forgotten
<1>6. CASE Crash \/ Start
  <2>1. /\ up' \in BOOLEAN
        /\ sessions' = <<>> \/ sessions' = sessions
        /\ UNCHANGED <<expired, enabled, dropped>>
    BY <1>6 DEF Crash, Start
  <2>2. CASE sessions' = sessions
    BY <2>1, <2>2 DEF ServerTypes, Forgotten
  <2>3. CASE sessions' = <<>>
    <3>1. DOMAIN sessions' = {}
      BY <2>3
    <3>2. QED
      BY <2>1, <3>1 DEF ServerTypes, Forgotten
  <2>4. QED
    BY <2>1, <2>2, <2>3
<1>7. CASE UNCHANGED <<up, sessions, expired, enabled, dropped>>
  BY <1>7 DEF ServerTypes, Forgotten
<1>8. QED
  BY <1>1, <1>2, <1>3, <1>4, <1>5, <1>6, <1>7 DEF AdminNext, Script, Handler, Rerun, ClickLogout,
     ClickAcknowledge, Refresh, HealthOk, HealthFails, CallOk, CallRefused, RefusalSwallowed, CallLost, AckStart, AckLost, AckReset, AckRead, AckKnown, AckCommit, Answer,
     AckFails, apiVars

-----------------------------------------------------------------------------
(* The browsers.                                                           *)

LEMMA OneBrowser ==
  ASSUME BrowserTypes, NEW b \in Browser,
         token' \in [Browser -> Token \cup {None}], run' \in [Browser -> Stage],
         click' \in [Browser -> Alert \cup {"logout", None}], shown' \in [Browser -> Shows],
         sidebar' \in [Browser -> Sidebar],
         \A c \in Browser \ {b} : /\ token'[c] = token[c] /\ run'[c] = run[c]
                                  /\ click'[c] = click[c] /\ shown'[c] = shown[c],
         BrowserOK(b)', acks' \in 0 .. MaxAcks, acks <= acks', timeouts' \in 0 .. MaxTimeouts
  PROVE  BrowserTypes'
<1>1. \A c \in Browser \ {b} : BrowserOK(c)'
  BY BoundAssumption DEF BrowserTypes, BrowserOK
<1>2. QED
  BY <1>1 DEF BrowserTypes

LEMMA AfterIs ==
  ASSUME BrowserTypes, NEW b \in Browser, run[b] \in {"verify", "model"} \cup Draws,
         NEW stage \in After(b)
  PROVE  /\ stage \in {"model", "logout", "page", "rest", "ack", "idle"}
         /\ stage = "ack" => click[b] \in Alert
         /\ stage = "idle" => run[b] \in Draws
         /\ stage = "rest" => run[b] = "page"
         /\ run[b] = "model" => stage \in {"page", "logout"}
BY DEF After, Draws

LEMMA LostIs ==
  ASSUME BrowserTypes, Lost
  PROVE  timeouts' \in 0 .. MaxTimeouts
BY BoundAssumption DEF BrowserTypes, Lost

LEMMA BrowserUnchanged ==
  ASSUME BrowserTypes, UNCHANGED <<browserVars, timeouts, acks>>
  PROVE  BrowserTypes'
BY DEF BrowserTypes, BrowserOK, browserVars

LEMMA BrowserStep ==
  ASSUME BrowserTypes, AlertTypes, AdminNext
  PROVE  BrowserTypes'
<1>1. /\ token \in [Browser -> Token \cup {None}] /\ run \in [Browser -> Stage]
      /\ click \in [Browser -> Alert \cup {"logout", None}] /\ shown \in [Browser -> Shows]
      /\ sidebar \in [Browser -> Sidebar] /\ Defaults \in Sidebar
      /\ timeouts \in 0 .. MaxTimeouts /\ acks \in 0 .. MaxAcks
      /\ \A b \in Browser : BrowserOK(b)
  BY DEF BrowserTypes, Sidebar, Defaults
<1>2. MaxAcks \in Nat /\ MaxTimeouts \in Nat /\ None \notin Token /\ None \notin Alert /\ "logout" \notin Alert
  BY BoundAssumption, NoneAssumption
<1>3. ASSUME NEW b \in Browser, NEW u \in User, NEW t \in Token, Login(b, u, t) PROVE BrowserTypes'
  BY <1>1, <1>2, <1>3, OneBrowser DEF Login, Goto, BrowserOK, Stage, Shows
<1>4. ASSUME NEW b \in Browser, \E choice \in Sidebar : Rerun(b, choice) PROVE BrowserTypes'
  BY <1>1, <1>2, <1>4, OneBrowser DEF Rerun, Goto, BrowserOK, Stage, Shows
<1>c. ASSUME NEW b \in Browser, ClickLogout(b) PROVE BrowserTypes'
  BY <1>1, <1>2, <1>c, OneBrowser DEF ClickLogout, Goto, BrowserOK, Stage, Shows
<1>a. ASSUME NEW b \in Browser, NEW a \in Alert, ClickAcknowledge(b, a) PROVE BrowserTypes'
  BY <1>1, <1>2, <1>a, OneBrowser DEF ClickAcknowledge, Goto, BrowserOK, Stage, Shows, Called
<1>5. ASSUME NEW b \in Browser, Refresh(b) PROVE BrowserTypes'
  BY <1>1, <1>2, <1>5, OneBrowser DEF Refresh, Goto, BrowserOK, Stage, Shows, Called
<1>6. ASSUME NEW b \in Browser, HealthOk(b) PROVE BrowserTypes'
  BY <1>1, <1>2, <1>6, OneBrowser DEF HealthOk, Goto, BrowserOK, Stage, Shows, Called
<1>7. ASSUME NEW b \in Browser, HealthFails(b) PROVE BrowserTypes'
  BY <1>1, <1>2, <1>7, LostIs, OneBrowser DEF HealthFails, Show, Goto, BrowserOK, Stage, Shows
<1>8. ASSUME NEW b \in Browser, CallOk(b) PROVE BrowserTypes'
  <2>1. PICK stage \in After(b) : Goto(b, stage)
    BY <1>8 DEF CallOk
  <2>2. /\ run[b] \in {"verify", "model"} \cup Draws /\ UNCHANGED <<token, click, sidebar, timeouts, acks>>
        /\ shown' = IF run[b] \in Draws THEN [shown EXCEPT ![b] = "page"] ELSE shown
    BY <1>8 DEF CallOk
  <2>3. token[b] # None
    BY <1>1, <2>2 DEF BrowserOK, Draws
  <2>4. stage \in Stage /\ (stage = "ack" => click[b] \in Alert) /\ (stage = "idle" => run[b] \in Draws)
    BY <2>2, AfterIs DEF Stage, Called
  <2>5. QED
    BY <1>1, <1>2, <2>1, <2>2, <2>3, <2>4, OneBrowser DEF Goto, BrowserOK, Shows
<1>9. ASSUME NEW b \in Browser, CallRefused(b) \/ LogoutOk(b) PROVE BrowserTypes'
  BY <1>1, <1>2, <1>9, OneBrowser DEF CallRefused, Refused, LogoutOk, ClearAuth, Show, Goto, BrowserOK, Stage, Shows
<1>s. ASSUME NEW b \in Browser, RefusalSwallowed(b) PROVE BrowserTypes'
  BY <1>1, <1>2, <1>s, OneBrowser DEF RefusalSwallowed, Refused, Show, Goto, BrowserOK, Stage, Shows, Called
<1>10. ASSUME NEW b \in Browser, LogoutLost(b) PROVE BrowserTypes'
  BY <1>1, <1>2, <1>10, LostIs, OneBrowser DEF LogoutLost, ClearAuth, Show, Goto, BrowserOK, Stage, Shows
<1>11. ASSUME NEW b \in Browser, CallLost(b) PROVE BrowserTypes'
  <2>1. /\ run[b] \in Called \ {"logout"} /\ timeouts' \in 0 .. MaxTimeouts
        /\ UNCHANGED <<token, click, sidebar, acks>>
    BY <1>11, LostIs DEF CallLost
  <2>2. token[b] # None
    BY <1>1, <2>1 DEF BrowserOK, Called
  <2>3. CASE run[b] = "model" /\ (\E stage \in After(b) : Goto(b, stage)) /\ UNCHANGED shown
    <3>1. PICK stage \in {"page", "logout"} : Goto(b, stage)
      BY <2>3, AfterIs
    <3>2. QED
      BY <1>1, <1>2, <2>1, <2>2, <2>3, <3>1, OneBrowser DEF Goto, BrowserOK, Stage, Called
  <2>4. ASSUME NEW x \in {"unverified", "page"}, Show(b, x) PROVE BrowserTypes'
    BY <1>1, <1>2, <2>1, <2>2, <2>4, OneBrowser DEF Show, Goto, BrowserOK, Stage, Shows
  <2>5. QED
    BY <1>11, <2>1, <2>3, <2>4 DEF CallLost, Called, Draws
<1>12. ASSUME NEW b \in Browser, AckStart(b) PROVE BrowserTypes'
  BY <1>1, <1>2, <1>12, OneBrowser DEF AckStart, Goto, BrowserOK, Stage, Shows
<1>13. ASSUME NEW b \in Browser, AckLost(b) \/ AckReset(b) PROVE BrowserTypes'
  BY <1>1, <1>2, <1>13, LostIs, OneBrowser DEF AckLost, AckReset, Show, Goto, BrowserOK, Stage, Shows
<1>14. ASSUME NEW h \in handlers, Answer(h) PROVE BrowserTypes'
  <2>1. h.browser \in Browser
    BY DEF AlertTypes, Call
  <2>2. CASE UNCHANGED <<run, click>>
    BY <1>14, <2>2, BrowserUnchanged DEF Answer, browserVars
  <2>3. CASE run[h.browser] = "acked?" /\ Goto(h.browser, "health") /\ click' = [click EXCEPT ![h.browser] = None]
    BY <1>1, <1>2, <1>14, <2>1, <2>3, OneBrowser DEF Answer, Goto, BrowserOK, Stage, Shows
  <2>4. QED
    BY <1>14, <2>2, <2>3 DEF Answer
<1>15. CASE UNCHANGED <<browserVars, timeouts, acks>>
  BY <1>15, BrowserUnchanged
<1>16. QED
  BY <1>3, <1>4, <1>c, <1>a, <1>5, <1>6, <1>7, <1>8, <1>9, <1>s, <1>10, <1>11, <1>12, <1>13, <1>14, <1>15
     DEF AdminNext, Script, Handler, Expire, ToggleUser, Crash, Start, AckRead, AckKnown, AckCommit, AckFails

-----------------------------------------------------------------------------
(* The alerts.                                                             *)

\* A greatest time is what CHOOSE takes it for.
LEMMA LatestTime ==
  ASSUME AlertTypes, LatestIs, Alert # {}
  PROVE  \E m \in Commits : /\ m = CHOOSE k \in Commits : \A j \in Commits : j <= k
                            /\ m \in Nat /\ \A a \in Alert : alert[a].at <= m
<1> DEFINE m == CHOOSE k \in Commits : \A j \in Commits : j <= k
<1>1. PICK a \in Alert : \A c \in Alert : alert[c].at <= alert[a].at
  BY DEF LatestIs
<1>2. alert[a].at \in Commits /\ \A j \in Commits : j <= alert[a].at
  BY <1>1 DEF Commits
<1>3. m \in Commits /\ \A j \in Commits : j <= m
  BY <1>2
<1>4. Commits \subseteq Nat /\ \A c \in Alert : alert[c].at \in Commits
  BY DEF Commits, AlertTypes
<1>5. QED
  BY <1>3, <1>4

LEMMA AckCommitIs ==
  ASSUME AlertTypes, LatestIs, NEW h \in handlers, AckCommit(h)
  PROVE  \E m \in Commits :
           /\ m \in Nat /\ \A a \in Alert : alert[a].at <= m
           /\ h \in Call /\ Answer(h)
           /\ alert' = [alert EXCEPT ![h.alert] = [status |-> "ACKNOWLEDGED", by |-> h.user, at |-> 1 + m]]
<1>1. h \in Call /\ h.alert \in Alert
  BY DEF AlertTypes, Call
<1>2. PICK m \in Commits : /\ m = CHOOSE k \in Commits : \A j \in Commits : j <= k
                           /\ m \in Nat /\ \A a \in Alert : alert[a].at <= m
  BY <1>1, LatestTime
<1>3. QED
  BY <1>1, <1>2 DEF AckCommit

LEMMA AlertStep ==
  ASSUME AlertTypes, BrowserTypes, ServerTypes, LatestIs, AdminNext
  PROVE  AlertTypes'
<1>1. /\ alert \in [Alert -> [status : Status, by : User \cup {None}, at : Nat]]
      /\ handlers \subseteq Call
  BY DEF AlertTypes
<1>2. ASSUME alert' = alert, handlers' \subseteq handlers PROVE AlertTypes'
  BY <1>1, <1>2 DEF AlertTypes
<1>3. ASSUME NEW b \in Browser, AckStart(b) PROVE AlertTypes'
  <2>1. acks \in 1 .. MaxAcks /\ click[b] \in Alert
    BY <1>3, BoundAssumption DEF AckStart, BrowserTypes, BrowserOK
  <2>2. sessions[token[b]] \in User
    BY <1>3 DEF AckStart, Valid, ServerTypes
  <2>3. [n |-> acks, browser |-> b, alert |-> click[b], user |-> sessions[token[b]], seen |-> "unread"] \in Call
    BY <2>1, <2>2 DEF Call
  <2>4. alert' = alert /\ handlers' \subseteq Call
    BY <1>1, <1>3, <2>3 DEF AckStart
  <2>5. QED
    BY <1>1, <2>4 DEF AlertTypes
<1>4. ASSUME NEW h \in handlers, AckRead(h) PROVE AlertTypes'
  <2>1. h \in Call /\ alert[h.alert].status \in Status
    BY <1>1 DEF Call
  <2>2. [h EXCEPT !.seen = alert[h.alert].status] \in Call
    BY <2>1 DEF Call
  <2>3. alert' = alert /\ handlers' \subseteq Call
    BY <1>1, <1>4, <2>2 DEF AckRead
  <2>4. QED
    BY <1>1, <2>3 DEF AlertTypes
<1>5. ASSUME NEW h \in handlers, AckCommit(h) PROVE AlertTypes'
  <2>1. PICK m \in Nat :
           /\ h \in Call /\ Answer(h)
           /\ alert' = [alert EXCEPT ![h.alert] = [status |-> "ACKNOWLEDGED", by |-> h.user, at |-> 1 + m]]
    BY <1>5, AckCommitIs
  <2>2. [status |-> "ACKNOWLEDGED", by |-> h.user, at |-> 1 + m]
          \in [status : Status, by : User \cup {None}, at : Nat]
    BY <2>1 DEF Call, Status
  <2>3. QED
    BY <1>1, <2>1, <2>2 DEF AlertTypes, Answer
<1>6. CASE alert' = alert /\ handlers' \subseteq handlers
  BY <1>2, <1>6
<1>7. QED
  BY <1>3, <1>4, <1>5, <1>6 DEF AdminNext, Script, Handler, Login, Expire, ToggleUser, Crash, Start, Rerun,
     ClickLogout, ClickAcknowledge, Refresh, HealthOk, HealthFails, CallOk, CallRefused, RefusalSwallowed,
     Refused, CallLost, LogoutOk, LogoutLost, AckLost,
     AckReset, AckKnown, Answer, AckFails, apiVars

LEMMA TimesStay ==
  ASSUME TimesCounted, LatestIs, AlertTypes, BrowserTypes, alert' = alert, handlers' \subseteq handlers,
         Underway' \subseteq Underway, acks' = acks
  PROVE  TimesCounted' /\ LatestIs'
<1>1. /\ IsFiniteSet(Underway') /\ Cardinality(Underway') <= Cardinality(Underway)
      /\ IsFiniteSet(handlers') /\ Cardinality(handlers') <= Cardinality(handlers)
  BY FS_Subset DEF TimesCounted
<1>2. /\ Cardinality(Underway) \in Nat /\ Cardinality(handlers) \in Nat
      /\ Cardinality(Underway') \in Nat /\ Cardinality(handlers') \in Nat /\ acks \in Nat
  BY <1>1, FS_CardinalityType DEF TimesCounted, BrowserTypes
<1>3. \A a \in Alert : alert[a].at \in Nat
  BY DEF AlertTypes
<1>4. \A a \in Alert : alert'[a].at + Cardinality(handlers') + Cardinality(Underway') <= acks'
  BY <1>1, <1>2, <1>3 DEF TimesCounted
<1>5. QED
  BY <1>1, <1>4 DEF TimesCounted, LatestIs

LEMMA OneMore ==
  ASSUME NEW S, IsFiniteSet(S), NEW x
  PROVE  /\ IsFiniteSet(S \cup {x}) /\ Cardinality(S \cup {x}) \in Nat
         /\ Cardinality(S \cup {x}) <= Cardinality(S) + 1
<1>1. IsFiniteSet(S \cup {x}) /\ Cardinality(S \cup {x}) \in {Cardinality(S), Cardinality(S) + 1}
  BY FS_AddElement
<1>2. Cardinality(S) \in Nat
  BY FS_CardinalityType
<1>3. QED
  BY <1>1, <1>2

\* A call that ends makes room for one time more.
LEMMA Ended ==
  ASSUME TimesCounted, NEW h \in handlers
  PROVE  /\ IsFiniteSet(handlers \ {h}) /\ Cardinality(handlers) \in Nat
         /\ Cardinality(handlers \ {h}) \in Nat
         /\ Cardinality(handlers) = Cardinality(handlers \ {h}) + 1
<1>1. IsFiniteSet(handlers)
  BY DEF TimesCounted
<1>2. /\ IsFiniteSet(handlers \ {h}) /\ Cardinality(handlers \ {h}) = Cardinality(handlers) - 1
  BY <1>1, FS_RemoveElement
<1>3. QED
  BY <1>1, <1>2, FS_CardinalityType

\* A browser that goes no further than it was leaves the others underway.
LEMMA NoMoreUnderway ==
  ASSUME BrowserTypes, NEW b \in Browser,
         \A c \in Browser \ {b} : run'[c] = run[c] /\ click'[c] = click[c],
         b \in Underway' => b \in Underway
  PROVE  Underway' \subseteq Underway
BY DEF Underway

LEMMA AnswerUnderway ==
  ASSUME BrowserTypes, NEW h \in handlers, Answer(h)
  PROVE  Underway' \subseteq Underway
<1>1. CASE UNCHANGED <<run, click>>
  BY <1>1 DEF Underway
<1>2. CASE Goto(h.browser, "health") /\ click' = [click EXCEPT ![h.browser] = None]
  <2>1. \A c \in Browser : IF c = h.browser THEN click'[c] = None
                           ELSE click'[c] = click[c] /\ run'[c] = run[c]
    BY <1>2 DEF Goto, BrowserTypes
  <2>2. QED
    BY <2>1, NoneAssumption DEF Underway
<1>3. QED
  BY <1>1, <1>2 DEF Answer

LEMMA TimesStep ==
  ASSUME AdminInv, AdminNext
  PROVE  TimesCounted' /\ LatestIs'
<1>1. /\ run \in [Browser -> Stage] /\ click \in [Browser -> Alert \cup {"logout", None}]
      /\ acks \in Nat /\ BrowserTypes /\ AlertTypes /\ TimesCounted /\ LatestIs
      /\ IsFiniteSet(Underway) /\ IsFiniteSet(handlers)
      /\ Cardinality(Underway) \in Nat /\ Cardinality(handlers) \in Nat
      /\ \A a \in Alert : alert[a].at \in Nat
                          /\ alert[a].at + Cardinality(handlers) + Cardinality(Underway) <= acks
  BY BoundAssumption, FS_CardinalityType DEF AdminInv, BrowserTypes, AlertTypes, TimesCounted
<1>2. ASSUME alert' = alert, handlers' \subseteq handlers, Underway' \subseteq Underway, acks' = acks
      PROVE  TimesCounted' /\ LatestIs'
  BY <1>1, <1>2, TimesStay
<1>3. ASSUME NEW b \in Browser, UNCHANGED <<alert, handlers, acks>>,
             \A c \in Browser \ {b} : run'[c] = run[c] /\ click'[c] = click[c],
             b \in Underway' => b \in Underway
      PROVE  TimesCounted' /\ LatestIs'
  BY <1>1, <1>2, <1>3, NoMoreUnderway
<1>4. ASSUME NEW b \in Browser, NEW u \in User, NEW t \in Token, Login(b, u, t)
      PROVE  TimesCounted' /\ LatestIs'
  <2>1. /\ UNCHANGED <<alert, handlers, acks>> /\ click'[b] = None
        /\ \A c \in Browser \ {b} : run'[c] = run[c] /\ click'[c] = click[c]
    BY <1>1, <1>4 DEF Login, Goto
  <2>2. QED
    BY <1>3, <2>1, NoneAssumption DEF Underway
<1>5. ASSUME NEW b \in Browser, NEW a \in Alert, ClickAcknowledge(b, a)
      PROVE  TimesCounted' /\ LatestIs'
  <2>1. /\ UNCHANGED <<alert, handlers>> /\ run[b] = "idle" /\ acks' = acks + 1
        /\ \A d \in Browser \ {b} : run'[d] = run[d] /\ click'[d] = click[d]
    BY <1>1, <1>5 DEF ClickAcknowledge, Goto, apiVars
  <2>2. Underway' \subseteq Underway \cup {b} /\ b \notin Underway
    BY <2>1 DEF Underway
  <2>3. IsFiniteSet(Underway \cup {b}) /\ Cardinality(Underway \cup {b}) = Cardinality(Underway) + 1
    BY <1>1, <2>2, FS_AddElement
  <2>4. /\ IsFiniteSet(Underway') /\ Cardinality(Underway') \in Nat
        /\ Cardinality(Underway') <= Cardinality(Underway) + 1
    BY <2>2, <2>3, FS_Subset, FS_CardinalityType
  <2>5. \A c \in Alert : alert'[c].at + Cardinality(handlers') + Cardinality(Underway') <= acks'
    BY <1>1, <2>1, <2>4
  <2>6. QED
    BY <1>1, <2>1, <2>4, <2>5 DEF TimesCounted, LatestIs
<1>c. ASSUME NEW b \in Browser, (\E choice \in Sidebar : Rerun(b, choice)) \/ ClickLogout(b)
      PROVE  TimesCounted' /\ LatestIs'
  <2>1. /\ UNCHANGED <<alert, handlers, acks>> /\ click'[b] \in {None, "logout"}
        /\ \A d \in Browser \ {b} : run'[d] = run[d] /\ click'[d] = click[d]
    BY <1>1, <1>c DEF Rerun, ClickLogout, Goto, apiVars
  <2>2. b \notin Underway'
    BY <2>1, NoneAssumption DEF Underway
  <2>3. QED
    BY <1>3, <2>1, <2>2
<1>6. ASSUME NEW b \in Browser, Refresh(b) PROVE TimesCounted' /\ LatestIs'
  <2>1. /\ UNCHANGED <<alert, handlers, acks>> /\ click'[b] = None
        /\ \A c \in Browser \ {b} : run'[c] = run[c] /\ click'[c] = click[c]
    BY <1>1, <1>6 DEF Refresh, Goto, apiVars
  <2>2. QED
    BY <1>3, <2>1, NoneAssumption DEF Underway
<1>7. ASSUME NEW b \in Browser, NEW stage \in Stage, Goto(b, stage), UNCHANGED <<alert, handlers, click, acks>>,
             stage \in {"idle", "logout"} \/ run[b] \in {"health", "verify", "model", "page", "ack"}
      PROVE  TimesCounted' /\ LatestIs'
  <2>1. run'[b] = stage /\ \A c \in Browser \ {b} : run'[c] = run[c] /\ click'[c] = click[c]
    BY <1>1, <1>7 DEF Goto
  <2>2. b \in Underway' => b \in Underway
    BY <1>7, <2>1 DEF Underway
  <2>3. QED
    BY <1>3, <1>7, <2>1, <2>2
<1>8. ASSUME NEW b \in Browser, HealthOk(b) PROVE TimesCounted' /\ LatestIs'
  BY <1>7, <1>8 DEF HealthOk, apiVars, Stage, Called
<1>9. ASSUME NEW b \in Browser, CallOk(b) PROVE TimesCounted' /\ LatestIs'
  <2>1. PICK stage \in After(b) : Goto(b, stage)
    BY <1>9 DEF CallOk
  <2>2. /\ run[b] \in {"verify", "model"} \cup Draws /\ UNCHANGED <<alert, handlers, click, acks>>
    BY <1>9 DEF CallOk, apiVars
  <2>3. /\ stage \in Stage
        /\ stage \in {"idle", "logout"} \/ run[b] \in {"health", "verify", "model", "page", "ack"}
    BY <1>1, <2>2, AfterIs DEF Stage, Called, Draws, After
  <2>4. QED
    BY <1>7, <2>1, <2>2, <2>3
<1>10. ASSUME NEW b \in Browser, CallLost(b) PROVE TimesCounted' /\ LatestIs'
  <2>1. run[b] \in Called \ {"logout"} /\ UNCHANGED <<alert, handlers, click, acks>>
    BY <1>10 DEF CallLost, apiVars
  <2>2. Goto(b, "idle") \/ (run[b] = "model" /\ \E stage \in After(b) : Goto(b, stage))
    BY <1>10, <2>1 DEF CallLost, Show, Called, Draws
  <2>3. run[b] = "model" => After(b) \subseteq Stage
    BY <1>1, AfterIs DEF Stage, Called
  <2>4. QED
    BY <1>7, <2>1, <2>2, <2>3 DEF Stage
<1>11. ASSUME NEW b \in Browser, \E what : Show(b, what), UNCHANGED <<alert, handlers, click, acks>>
       PROVE  TimesCounted' /\ LatestIs'
  BY <1>7, <1>11 DEF Show, Stage
<1>12. ASSUME NEW b \in Browser, AckStart(b) PROVE TimesCounted' /\ LatestIs'
  <2>1. PICK h : handlers' = handlers \cup {h}
    BY <1>12 DEF AckStart
  <2>2. /\ alert' = alert /\ acks' = acks /\ click' = click /\ run[b] = "ack" /\ run'[b] = "acked?"
        /\ \A c \in Browser \ {b} : run'[c] = run[c]
    BY <1>1, <1>12 DEF AckStart, Goto
  <2>3. click[b] \in Alert
    BY <1>1, <2>2 DEF BrowserTypes, BrowserOK
  <2>4. b \in Underway /\ Underway' = Underway \ {b}
    BY <2>2, <2>3 DEF Underway
  <2>5. IsFiniteSet(Underway') /\ Cardinality(Underway') = Cardinality(Underway) - 1
    BY <1>1, <2>4, FS_RemoveElement
  <2>6. /\ IsFiniteSet(handlers') /\ Cardinality(handlers') \in Nat
        /\ Cardinality(handlers') <= Cardinality(handlers) + 1
    BY <1>1, <2>1, OneMore
  <2>7. Cardinality(Underway') \in Nat
    BY <2>5, FS_CardinalityType
  <2>8. \A a \in Alert : alert'[a].at + Cardinality(handlers') + Cardinality(Underway') <= acks'
    BY <1>1, <2>2, <2>5, <2>6, <2>7
  <2>9. QED
    BY <1>1, <2>2, <2>5, <2>6, <2>8 DEF TimesCounted, LatestIs
<1>13. ASSUME NEW h \in handlers, AckRead(h) PROVE TimesCounted' /\ LatestIs'
  <2>1. PICK g : handlers' = (handlers \ {h}) \cup {g}
    BY <1>13 DEF AckRead
  <2>2. alert' = alert /\ acks' = acks /\ Underway' = Underway
    BY <1>13 DEF AckRead, browserVars, Underway
  <2>3. /\ IsFiniteSet(handlers \ {h}) /\ Cardinality(handlers \ {h}) \in Nat
        /\ Cardinality(handlers) = Cardinality(handlers \ {h}) + 1
    BY <1>1, Ended
  <2>4. /\ IsFiniteSet(handlers') /\ Cardinality(handlers') \in Nat
        /\ Cardinality(handlers') <= Cardinality(handlers)
    BY <2>1, <2>3, OneMore
  <2>5. \A a \in Alert : alert'[a].at + Cardinality(handlers') + Cardinality(Underway') <= acks'
    BY <1>1, <2>2, <2>4
  <2>6. QED
    BY <1>1, <2>2, <2>4, <2>5 DEF TimesCounted, LatestIs
<1>14. ASSUME NEW h \in handlers, AckKnown(h) PROVE TimesCounted' /\ LatestIs'
  <2>1. alert' = alert /\ acks' = acks /\ handlers' \subseteq handlers /\ Answer(h)
    BY <1>14 DEF AckKnown, Answer
  <2>2. QED
    BY <1>1, <1>2, <2>1, AnswerUnderway
<1>15. ASSUME NEW h \in handlers, AckCommit(h) PROVE TimesCounted' /\ LatestIs'
  <2>1. PICK m \in Commits :
           /\ m \in Nat /\ \A a \in Alert : alert[a].at <= m
           /\ h \in Call /\ Answer(h)
           /\ alert' = [alert EXCEPT ![h.alert] = [status |-> "ACKNOWLEDGED", by |-> h.user, at |-> 1 + m]]
    BY <1>1, <1>15, AckCommitIs
  <2>2. acks' = acks /\ handlers' = handlers \ {h} /\ Underway' \subseteq Underway
    BY <1>1, <2>1, AnswerUnderway DEF Answer
  <2>3. h.alert \in Alert /\ \A a \in Alert : alert'[a].at = IF a = h.alert THEN 1 + m ELSE alert[a].at
    BY <1>1, <2>1 DEF Call, AlertTypes
  <2>4. /\ IsFiniteSet(handlers') /\ Cardinality(handlers') \in Nat
        /\ Cardinality(handlers) = Cardinality(handlers') + 1
    BY <1>1, <2>2, Ended
  <2>5. /\ IsFiniteSet(Underway') /\ Cardinality(Underway') \in Nat
        /\ Cardinality(Underway') <= Cardinality(Underway)
    BY <1>1, <2>2, FS_Subset, FS_CardinalityType
  <2>6. m + Cardinality(handlers) + Cardinality(Underway) <= acks
    BY <1>1 DEF Commits
  <2>7. \A a \in Alert : alert'[a].at <= 1 + m /\ alert'[a].at \in Nat
    BY <1>1, <2>1, <2>3
  <2>8. 1 + m + Cardinality(handlers') + Cardinality(Underway') <= acks'
    BY <1>1, <2>1, <2>2, <2>4, <2>5, <2>6
  <2>9. \A a \in Alert : alert'[a].at + Cardinality(handlers') + Cardinality(Underway') <= acks'
    BY <1>1, <2>1, <2>2, <2>4, <2>5, <2>7, <2>8
  <2>10. QED
    BY <2>3, <2>4, <2>5, <2>7, <2>9 DEF TimesCounted, LatestIs
<1>16. ASSUME NEW h \in handlers, AckFails(h) PROVE TimesCounted' /\ LatestIs'
  BY <1>2, <1>16 DEF AckFails, browserVars, Underway
<1>17. CASE UNCHANGED <<alert, browserVars, acks>> /\ handlers' \subseteq handlers
  BY <1>2, <1>17 DEF browserVars, Underway
<1>18. ASSUME NEW b \in Browser, Script(b) PROVE TimesCounted' /\ LatestIs'
  <2>1. CASE HealthOk(b) \/ CallOk(b) \/ CallLost(b) \/ AckStart(b)
    BY <1>8, <1>9, <1>10, <1>12, <2>1
  <2>2. CASE \/ HealthFails(b) \/ CallRefused(b) \/ RefusalSwallowed(b) \/ LogoutOk(b)
             \/ LogoutLost(b) \/ AckLost(b) \/ AckReset(b)
    BY <1>11, <2>2 DEF HealthFails, CallRefused, RefusalSwallowed, Refused, LogoutOk, LogoutLost, AckLost, AckReset, apiVars
  <2>3. QED
    BY <1>18, <2>1, <2>2 DEF Script
<1>19. QED
  BY <1>4, <1>5, <1>c, <1>6, <1>13, <1>14, <1>15, <1>16, <1>17, <1>18 DEF AdminNext, Handler, Expire, ToggleUser,
     Crash, Start

LEMMA AdminInvStep == AdminInv /\ [AdminNext]_adminVars => AdminInv'
<1>1. ASSUME AdminInv, AdminNext PROVE AdminInv'
  BY <1>1, ServerStep, BrowserStep, AlertStep, TimesStep DEF AdminInv
<1>2. ASSUME AdminInv, UNCHANGED adminVars PROVE AdminInv'
  <2>1. ServerTypes' /\ Forgotten' /\ AlertTypes'
    BY <1>2 DEF AdminInv, adminVars, apiVars, ServerTypes, Forgotten, AlertTypes
  <2>2. BrowserTypes'
    BY <1>2, BrowserUnchanged DEF AdminInv, adminVars
  <2>3. TimesCounted' /\ LatestIs'
    BY <1>2, TimesStay DEF AdminInv, adminVars, apiVars, browserVars, Underway
  <2>4. QED
    BY <2>1, <2>2, <2>3 DEF AdminInv
<1>3. QED
  BY <1>1, <1>2

\* The times of acknowledgments never run ahead of the clicks that asked for
\* them, whatever calls overlap, are lost, or end with the process; and the
\* pages, tokens and calls keep to their types (acknowledge_alert, require_login).
THEOREM AdminTypes == AdminSpec => []AdminTypeOK
<1>1. AdminInv => AdminTypeOK
  <2> SUFFICES ASSUME AdminInv PROVE AdminTypeOK
    OBVIOUS
  <2>1. ServerTypes /\ BrowserTypes /\ AlertTypes /\ TimesCounted
    BY DEF AdminInv
  <2>2. \A a \in Alert : alert[a].at \in 0 .. MaxAcks
    <3>1. /\ Cardinality(handlers) \in Nat /\ Cardinality(Underway) \in Nat
          /\ acks \in Nat /\ MaxAcks \in Nat /\ acks <= MaxAcks
      BY <2>1, FS_CardinalityType, BoundAssumption DEF TimesCounted, BrowserTypes
    <3>2. \A a \in Alert : /\ alert[a].at \in Nat
                           /\ alert[a].at + Cardinality(handlers) + Cardinality(Underway) <= acks
      BY <2>1 DEF TimesCounted, AlertTypes
    <3>3. QED
      BY <3>1, <3>2
  <2>3. alert \in [Alert -> [status : {"ACTIVE", "ACKNOWLEDGED"}, by : User \cup {None}, at : 0 .. MaxAcks]]
    <3>1. \A a \in Alert : alert[a] \in [status : {"ACTIVE", "ACKNOWLEDGED"}, by : User \cup {None}, at : 0 .. MaxAcks]
      BY <2>1, <2>2 DEF AlertTypes, Status
    <3>2. QED
      BY <2>1, <3>1 DEF AlertTypes
  <2>4. QED
    BY <2>1, <2>3 DEF AdminTypeOK, ServerTypes, BrowserTypes, BrowserOK, AlertTypes, Stage, Shows, Call, Status
<1>2. QED
  BY <1>1, AdminInvInit, AdminInvStep, PTL DEF AdminSpec

\* A token the API has refused, or whose logout it has answered, is never again
\* accepted, whatever happens to its user (get_current_user, revoke_session).
THEOREM DroppedDead == AdminSpec => []DroppedStaysDead
<1>1. AdminInv => DroppedStaysDead
  BY DEF AdminInv, Forgotten, DroppedStaysDead, Valid
<1>2. QED
  BY <1>1, AdminInvInit, AdminInvStep, PTL DEF AdminSpec

\* An acknowledgment whose last overlapping call has ended is final: a call
\* that reads the row later finds it acknowledged and leaves it alone, and none
\* reads it as active again (acknowledge_alert).
THEOREM SettledStays == AdminSpec => SettledIsFinal
<1> DEFINE Final == \A a \in Alert : Settled(a) => alert'[a] = alert[a] /\ Settled(a)'
<1>1. AdminInv /\ AdminNext => Final
  <2> SUFFICES ASSUME AdminInv, AdminNext, NEW a \in Alert, Settled(a)
               PROVE  alert'[a] = alert[a] /\ Settled(a)'
    OBVIOUS
  <2>1. CASE alert'[a] = alert[a] /\ handlers' \subseteq handlers
    BY <2>1 DEF Settled
  <2>2. ASSUME NEW b \in Browser, AckStart(b) PROVE alert'[a] = alert[a] /\ Settled(a)'
    <3>1. /\ alert' = alert
          /\ \A h \in handlers' \ handlers : h.seen = "unread"
      BY <2>2 DEF AckStart
    <3>2. QED
      BY <3>1 DEF Settled
  <2>3. ASSUME NEW h \in handlers, AckRead(h) PROVE alert'[a] = alert[a] /\ Settled(a)'
    <3>1. PICK g : g = [h EXCEPT !.seen = alert[h.alert].status]
      OBVIOUS
    <3>2. g.alert = h.alert /\ g.seen = alert[h.alert].status
      BY <3>1 DEF AdminInv, AlertTypes, Call
    <3>3. alert' = alert /\ handlers' = (handlers \ {h}) \cup {g}
      BY <2>3, <3>1 DEF AckRead
    <3>4. QED
      BY <3>2, <3>3 DEF Settled
  <2>4. ASSUME NEW h \in handlers, AckCommit(h) PROVE alert'[a] = alert[a] /\ Settled(a)'
    <3>1. h.seen = "ACTIVE" /\ h.alert # a
      BY <2>4 DEF AckCommit, Settled
    <3>2. PICK m : alert' = [alert EXCEPT ![h.alert] =
                               [status |-> "ACKNOWLEDGED", by |-> h.user, at |-> m]]
      BY <2>4 DEF AckCommit
    <3>3. handlers' \subseteq handlers
      BY <2>4 DEF AckCommit, Answer
    <3>4. alert'[a] = alert[a]
      BY <3>1, <3>2 DEF AdminInv, AlertTypes
    <3>5. QED
      BY <3>3, <3>4 DEF Settled
  <2>5. CASE \E h \in handlers : AckKnown(h) \/ AckFails(h)
    <3>1. alert' = alert /\ handlers' \subseteq handlers
      BY <2>5 DEF AckKnown, AckFails, Answer
    <3>2. QED
      BY <2>1, <3>1
  <2>6. CASE Crash
    <3>1. alert' = alert /\ handlers' \subseteq handlers
      BY <2>6 DEF Crash
    <3>2. QED
      BY <2>1, <3>1
  <2>7. CASE UNCHANGED <<alert, handlers>>
    BY <2>1, <2>7
  <2>8. QED
    BY <2>2, <2>3, <2>4, <2>5, <2>6, <2>7 DEF AdminNext, Script, Handler, Login, Expire, ToggleUser, Start,
       Rerun, ClickLogout, ClickAcknowledge, Refresh, HealthOk, HealthFails, CallOk, CallRefused,
       RefusalSwallowed, Refused, CallLost, LogoutOk, LogoutLost, AckLost, AckReset, apiVars
<1>2. AdminInv /\ [AdminNext]_adminVars => [Final]_adminVars
  BY <1>1
<1>3. QED
  BY <1>2, AdminInvInit, AdminInvStep, PTL DEF AdminSpec, SettledIsFinal
=============================================================================
