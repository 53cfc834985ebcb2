----------------------------- MODULE Publication -----------------------------
(***************************************************************************)
(* From training to the model that is served and the evidence that is      *)
(* kept: train_baseline and train_tuned (src/training), the publication of *)
(* one of the two (src/evaluation/compare_models.py), InferenceEngine      *)
(* (src/inference/predictor.py) in the API and in the three scripts of     *)
(* Experiment C, and the evidence sync that reads what they left           *)
(* (_cross_validate, src/application/evidence_sync.py).  All are processes *)
(* an operator starts, also beside each other, that meet in files only.    *)
(*                                                                         *)
(* Any number of publications may overlap; of every other script one       *)
(* process runs at a time.                                                 *)
(*                                                                         *)
(* A file holds two fits: what tells its content apart.  For a model it is *)
(* the fit twice; the metadata hold the declared hash and the fit whose    *)
(* metrics they copy; the report of Experiment C the hash it names and the *)
(* model that predicted; its table the model that predicted Normal and     *)
(* PortScan and the one that predicted DDoS, of which the code sees only   *)
(* the counts, and different models may have equal ones.  Files are        *)
(* written in place: between the opening and the end of a write, or after  *)
(* a kill, a file is torn.                                                 *)
(***************************************************************************)
EXTENDS Integers, Sequences, SequencesExt, FiniteSets

CONSTANTS
  Publisher, \* processes of compare_models
  Counts,    \* per model what it predicts of Normal and PortScan, and of DDoS
  MaxFits,   \* bound of the model: models ever fitted
  MaxRuns,   \* bound of the model: processes ever started
  MaxBusy    \* bound of the model: processes running at the same time

ASSUME PublicationBounds == MaxFits \in Nat /\ MaxRuns \in Nat /\ MaxBusy \in Nat \ {0}

\* What each script writes, in its order; files of one process that nobody
\* reads, or that are read with their neighbour, are one file here.
Script == [
  baseline     |-> <<"baseline model", "baseline metrics">>,
  tuned        |-> <<"tuned model", "tuned metrics">>,
  v3_inference |-> <<"prior">>,
  v3_final     |-> <<"ddos", "report">>,
  c_final      |-> <<"ddos", "matrix">>,
  api          |-> <<>>,
  sync         |-> <<>>]

Process == Publisher \cup DOMAIN Script
Outputs == [p \in Process |-> IF p \in Publisher THEN <<"active", "metadata">> ELSE Script[p]]

ASSUME PublisherAssumption == Publisher # {} /\ Publisher \cap DOMAIN Script = {}
ASSUME CountsAssumption == Counts \in [1 .. MaxFits -> Nat \X Nat]

Trainer == {"baseline", "tuned"}
Loader  == {"api", "v3_inference", "v3_final", "c_final"}
File    == UNION {ToSet(Outputs[p]) : p \in Process}
ModelOf   == [baseline |-> "baseline model", tuned |-> "tuned model"]
MetricsOf == [baseline |-> "baseline metrics", tuned |-> "tuned metrics"]

Absent == <<0, -1>>
Torn   == <<-1, -1>>
Of(n)  == <<n, n>>
Written == Of(0)   \* of this file only its presence matters

VARIABLES
  file,      \* what each file holds
  pc,        \* where each process is
  todo,      \* the outputs it has still to write
  open,      \* processes whose next output is opened and not yet written
  mem,       \* two fits: the declared and the loaded one of a loader, the
             \* hash and the metrics of a publication, a trainer's own
  selected,  \* the model each compare_models publishes
  read,      \* results of Experiment C that c_final and the sync have read
  fits,      \* number of models fitted
  runs,      \* number of processes started
  calm,      \* history: loaders whose model was not replaced between hash and
             \* load; publishers, if their metrics are the model's and no
             \* training has been at work beside them
  alone      \* history: the last publication, unless it was killed or another
             \* one was at work beside it

vars == <<file, pc, todo, open, mem, selected, read, fits, runs, calm, alone>>

Unread == [prior |-> 0, report |-> Absent, matrix |-> Absent]

\* Both trainings have been run once; nothing is published, or the baseline is
\* and has been through the first script of Experiment C.
Init ==
  /\ \E c \in {Absent, Of(1)} :
       file = [f \in File |-> CASE f \in {"baseline model", "baseline metrics"} -> Of(1)
                                 [] f \in {"tuned model", "tuned metrics"} -> Of(2)
                                 [] f \in {"active", "metadata", "prior"} -> c
                                 [] OTHER -> Absent]
  /\ pc = [p \in Process |-> "idle"] /\ todo = [p \in Process |-> <<>>] /\ open = {}
  /\ mem = [p \in Process |-> Of(0)] /\ read = Unread
  /\ selected = [p \in Publisher |-> "baseline"]
  /\ fits = 2 /\ runs = 0 /\ calm = Process /\ alone = {}

Readable(f) == file[f] \notin {Absent, Torn}
\* A torn file's hash is no fit's.
Hash(f) == IF file[f] = Torn THEN -2 ELSE file[f][1]
AtWork(p) == pc[p] # "idle"
Goto(p, where) == pc' = [pc EXCEPT ![p] = where]
Keep(p, a, b) == mem' = [mem EXCEPT ![p] = <<a, b>>]

\* The operator starts p, which is then at the given place.
Start(p, where) ==
  /\ pc[p] = "idle" /\ runs < MaxRuns /\ Cardinality({q \in Process : AtWork(q)}) < MaxBusy
  /\ Goto(p, where)
  /\ todo' = [todo EXCEPT ![p] = Outputs[p]]
  /\ runs' = runs + 1

-----------------------------------------------------------------------------
(* Writing.                                                                *)

\* run_experiment_c_v3_inference: one model predicts Normal and PortScan.
PriorResult == Of(mem["v3_inference"][2])

\* run_experiment_c_v3_final: one model predicts all three scenarios; the
\* hash that the report names is the metadata's.
FinalReport == mem["v3_final"]

\* run_experiment_c_final: its model predicts DDoS only, the counts of the
\* other two scenarios are the prior result's.
FinalMatrix == <<read.prior, mem["c_final"][2]>>

\* What p writes into f: compare copies the model as it is at that moment.
Content(p, f) ==
  CASE p \in Trainer -> mem[p]
    [] f = "active"   -> file[ModelOf[selected[p]]]
    [] f = "metadata" -> mem[p]
    [] f = "ddos"     -> Written
    [] f = "prior"    -> PriorResult
    [] f = "report"   -> FinalReport
    [] f = "matrix"   -> FinalMatrix

\* A loader between the hash and the load of the model that f replaces.
Disturbs(f) == IF f = "active" THEN {p \in Loader : pc[p] = "load"} ELSE {}

Open(p) ==
  /\ pc[p] = "write" /\ p \notin open /\ todo[p] # <<>>
  /\ file' = [file EXCEPT ![Head(todo[p])] = Torn]
  /\ open' = open \cup {p}
  /\ calm' = calm \ Disturbs(Head(todo[p]))
  /\ UNCHANGED <<pc, todo, mem, selected, read, fits, runs, alone>>

\* Another process is at work that writes f too: the two may have it open at
\* once, and what is left of it may be a mixture.
Contended(p, f) == \E q \in Process \ {p} : AtWork(q) /\ f \in ToSet(Outputs[q])

Close(p) ==
  /\ p \in open
  /\ \/ file' = [file EXCEPT ![Head(todo[p])] = Content(p, Head(todo[p]))]
     \/ Contended(p, Head(todo[p])) /\ file' = [file EXCEPT ![Head(todo[p])] = Torn]
  /\ open' = open \ {p}
  /\ todo' = [todo EXCEPT ![p] = Tail(@)]
  /\ calm' = calm \ Disturbs(Head(todo[p]))
  /\ IF Head(todo[p]) = "active" THEN Goto(p, "hash") ELSE UNCHANGED pc
  /\ UNCHANGED <<mem, selected, read, fits, runs, alone>>

Forget(p) ==
  /\ Goto(p, "idle") /\ Keep(p, 0, 0)
  /\ todo' = [todo EXCEPT ![p] = <<>>]
  /\ selected' = IF p \in Publisher THEN [selected EXCEPT ![p] = "baseline"] ELSE selected
  /\ read' = CASE p = "c_final" -> [read EXCEPT !.prior = 0]
               [] p = "sync" -> [Unread EXCEPT !.prior = read.prior]
               [] OTHER -> read

Finish(p) ==
  /\ pc[p] = "write" /\ todo[p] = <<>>
  /\ Forget(p)
  /\ UNCHANGED <<file, open, fits, runs, calm, alone>>

\* A failed check, an unreadable file, a kill, or the API's end: what is
\* written stays, an output in the middle of its write stays torn.
Abort(p) ==
  /\ pc[p] # "idle"
  /\ Forget(p)
  /\ open' = open \ {p} /\ alone' = alone \ {p}
  /\ UNCHANGED <<file, fits, runs, calm, alone>>

-----------------------------------------------------------------------------
(* train_baseline and train_tuned: the model is written first, the metrics *)
(* that speak of it last.                                                  *)

Fit(k) ==
  /\ fits < MaxFits /\ Start(k, "write")
  /\ fits' = fits + 1 /\ Keep(k, fits', fits')
  /\ calm' = calm \ {p \in Publisher : AtWork(p)}
  /\ UNCHANGED <<file, open, selected, read, alone>>

\* compare_models: both metrics are read and one model chosen, whose file is
\* there; then it is copied, and the copy hashed.
Compare(p, k) ==
  /\ Readable(MetricsOf.baseline) /\ Readable(MetricsOf.tuned)
  /\ file[ModelOf[k]] # Absent
  /\ Start(p, "write")
  /\ selected' = [selected EXCEPT ![p] = k] /\ Keep(p, 0, file[MetricsOf[k]][1])
  /\ calm' = IF file[ModelOf[k]] = file[MetricsOf[k]] /\ \A t \in Trainer : ~AtWork(t)
              THEN calm \cup {p} ELSE calm \ {p}
  /\ alone' = IF \E q \in Publisher : AtWork(q) THEN {} ELSE {p}
  /\ UNCHANGED <<file, open, read, fits>>

\* Deviation: the hash is taken of the trained model, not of its copy.
HashSource(p) ==
  /\ pc[p] = "hash"
  /\ Keep(p, Hash(ModelOf[selected[p]]), mem[p][2])
  /\ Goto(p, "write")
  /\ UNCHANGED <<file, todo, open, selected, read, fits, runs, calm, alone>>

HashActive(p) ==
  /\ pc[p] = "hash"
  /\ Keep(p, Hash("active"), mem[p][2])
  /\ Goto(p, "write")
  /\ UNCHANGED <<file, todo, open, selected, read, fits, runs, calm, alone>>

-----------------------------------------------------------------------------
(* InferenceEngine: metadata, hash, model, each read by name.              *)

\* run_experiment_c_v3_final refuses to start if one of its outputs exists.
ReadMetadata(p) ==
  /\ Readable("metadata")
  /\ p = "v3_final" => \A f \in ToSet(Outputs[p]) : file[f] = Absent
  /\ Start(p, "verify")
  /\ Keep(p, file["metadata"][1], 0)
  /\ calm' = calm \cup {p}
  /\ UNCHANGED <<file, open, selected, read, fits, alone>>

\* Deviation: the hash in the metadata is not compared.
VerifyNothing(p) ==
  /\ pc[p] = "verify"
  /\ Goto(p, "load")
  /\ UNCHANGED <<file, todo, open, mem, selected, read, fits, runs, calm, alone>>

Verify(p) ==
  /\ pc[p] = "verify" /\ Hash("active") = mem[p][1]
  /\ Goto(p, "load")
  /\ UNCHANGED <<file, todo, open, mem, selected, read, fits, runs, calm, alone>>

LoadModel(p) ==
  /\ pc[p] = "load" /\ Readable("active")
  /\ Keep(p, mem[p][1], file["active"][2])
  /\ Goto(p, IF p = "api" THEN "up" ELSE IF p = "c_final" THEN "prior" ELSE "write")
  /\ UNCHANGED <<file, todo, open, selected, read, fits, runs, calm, alone>>

\* run_experiment_c_final takes the counts of Normal and PortScan from an
\* earlier v3_inference; the model these name is not looked at.
ReadPrior ==
  /\ pc["c_final"] = "prior" /\ Readable("prior")
  /\ read' = [read EXCEPT !.prior = file["prior"][2]]
  /\ Goto("c_final", "write")
  /\ UNCHANGED <<file, todo, open, mem, selected, fits, runs, calm, alone>>

-----------------------------------------------------------------------------
(* The evidence sync loads its documents in order, then cross-validates:   *)
(* the counts in the report and in the table are compared, not the hashes. *)

\* The counts in a table of Experiment C.
Tally(c) == <<Counts[c[1]][1], Counts[c[2]][2]>>

SyncStart ==
  /\ Readable("metadata") /\ Start("sync", "experiment a")
  /\ Keep("sync", file["metadata"][1], 0)
  /\ UNCHANGED <<file, open, selected, read, fits, calm, alone>>

ReadExperimentA ==
  /\ pc["sync"] = "experiment a"
  /\ \A f \in {MetricsOf.tuned, MetricsOf.baseline} : Readable(f)
  /\ Goto("sync", "report")
  /\ UNCHANGED <<file, todo, open, mem, selected, read, fits, runs, calm, alone>>

ReadReport ==
  /\ pc["sync"] = "report" /\ Readable("report")
  /\ read' = [read EXCEPT !.report = file["report"]]
  /\ Goto("sync", "matrix")
  /\ UNCHANGED <<file, todo, open, mem, selected, fits, runs, calm, alone>>

ReadMatrix ==
  /\ pc["sync"] = "matrix" /\ Readable("matrix")
  /\ read' = [read EXCEPT !.matrix = file["matrix"]]
  /\ Goto("sync", "validate")
  /\ UNCHANGED <<file, todo, open, mem, selected, fits, runs, calm, alone>>

Validated == pc["sync"] = "validate" /\ (file["active"] = Absent \/ Hash("active") = mem["sync"][1])

\* Deviation: the matrices in the report and in the table are not compared.
AcceptAnyMatrix ==
  /\ Validated
  /\ Goto("sync", "write")
  /\ UNCHANGED <<file, todo, open, mem, selected, read, fits, runs, calm, alone>>

Accept ==
  /\ Validated /\ Tally(read.matrix) = Tally(Of(read.report[2]))
  /\ Goto("sync", "write")
  /\ UNCHANGED <<file, todo, open, mem, selected, read, fits, runs, calm, alone>>

-----------------------------------------------------------------------------
Next ==
  \/ \E k \in Trainer : Fit(k)
  \/ \E p \in Publisher : HashActive(p) \/ \E k \in Trainer : Compare(p, k)
  \/ \E p \in Loader : ReadMetadata(p) \/ Verify(p) \/ LoadModel(p)
  \/ ReadPrior
  \/ SyncStart \/ ReadExperimentA \/ ReadReport \/ ReadMatrix \/ Accept
  \/ \E p \in Process : Open(p) \/ Close(p) \/ Finish(p) \/ Abort(p)

Spec == Init /\ [][Next]_vars
-----------------------------------------------------------------------------
\* What a process has loaded is the model its metadata declare, through every
\* crash between the copy of a model and its metadata and every overlap of two
\* publications, unless the file is replaced between its hash and its load.
LoadedIsDeclared ==
  \A p \in Loader \cap calm :
    pc[p] \in {"up", "prior", "write"} => mem[p][1] = mem[p][2]

\* A publication that came to its end, with no other beside it, leaves a model
\* and metadata that belong together, whatever was published, torn or trained
\* before or meanwhile, until the next one starts; and metrics of that very
\* model, if no training was at work or had been cut short (a model is written
\* before its metrics, and nothing ties the two).  Two at once may leave the
\* model of one beside the metadata of the other.
PublishedIsWhole ==
  \A p \in alone :
    todo[p] = <<>> =>
      /\ file["metadata"][1] = Hash("active")
      /\ p \in calm => file["metadata"][2] = file["metadata"][1]

\* Experiment C evidence that a sync takes are the counts of the very model
\* whose hash its report names, although two rows of the table are of an older
\* run by whatever model was active then, models are published meanwhile and
\* only counts are compared; unless the model was replaced between hash and
\* load in the run that wrote the report.
AcceptedIsNamed ==
  pc["sync"] = "write" /\ "v3_final" \in calm =>
    Tally(read.matrix) = Tally(Of(read.report[1]))
=============================================================================
