----------------------------- MODULE ExperimentD -----------------------------
(***************************************************************************)
(* Phases D4 to D6 of Experiment D (scripts/*_experiment_d_*.py,           *)
(* train_rf_v2_d4.py, src/experiment_d): scripts that an operator starts   *)
(* by hand, hand results on through files alone, and refuse to overwrite   *)
(* one.  RF-v2 is trained, frozen by its hash, a final test set is         *)
(* captured, extracted, labelled, audited and sealed, and evaluated once   *)
(* by both models.  Scripts may run beside each other and be killed; the   *)
(* operator may delete what a phase has written and start it again.        *)
(*                                                                         *)
(* A file holds what tells its bytes apart: "pinned" are the model and the *)
(* captures whose hashes the sources name, "other" are any others; an      *)
(* output of the evaluation holds the execution that wrote it.  Files that *)
(* one script writes in a row and nobody reads singly are one file here.   *)
(* RF-v1 is no file of these phases: compare_models.py publishes over it,  *)
(* in place, whenever it is run.                                           *)
(***************************************************************************)
EXTENDS Naturals, Sequences, SequencesExt, FiniteSets

CONSTANTS
  Eval,        \* executions of evaluate_experiment_d_final.py --execute-one-shot
  MaxCleans    \* bound of the model: phases whose files the operator deletes

ASSUME CleansAssumption == MaxCleans \in Nat
ASSUME EvalAssumption == "absent" \notin Eval

\* What each script writes, in its order.
Outputs == [
  d4      |-> <<"model", "metrics", "metadata", "training", "d4audit", "comparison">>,
  freeze  |-> <<"freeze">>,
  capture |-> <<"pcap", "capture">>,
  extract |-> <<"flows", "extraction">>,
  prepare |-> <<"labeled", "dataset", "distribution">>,
  audit   |-> <<"leakage">>,
  seal    |-> <<"sealed">>,
  d6      |-> <<"rows", "rf1_pred", "rf2_pred", "reports", "docs", "manifest">>]

Phase     == DOMAIN Outputs
File      == UNION {ToSet(Outputs[p]) : p \in Phase}
Out       == ToSet(Outputs.d6)
Evidence  == File \ Out
FinalTest == ToSet(Outputs.capture) \cup ToSet(Outputs.extract) \cup {"labeled", "sealed"}
Timed     == {"model", "metadata", "training"}
Script    == {"d4", "capture", "extract", "prepare"}

VARIABLES
  file,       \* what each file holds, or "absent"
  at,         \* per script at work, the next of its outputs; 0 if it is not
  work,       \* what the script makes its outputs of
  freezes,    \* freeze manifests ever written: the last one's identity
  frozenIn,   \* the freeze identity in the labeled and the sealed manifest
  late,       \* Timed files written since the last freeze
  eval,       \* per execution of D6: its stage and what it has read
  rf1,        \* the RF-v1 artifacts have the hashes the sources name, or not
  loaded,     \* per execution of D6, the RF-v1 that it has predicted with
  swaps,      \* history: how often RF-v1 was replaced since its gate; 2 is more
  inferred,   \* history: how often each model has predicted the final test
  cleans, reopened   \* bound; history: the operator deleted outputs of D6

rfVars == <<rf1, loaded, swaps>>
vars == <<file, at, work, freezes, frozenIn, late, eval, rfVars, inferred, cleans, reopened>>

NotStarted == [stage |-> "ready", before |-> <<>>, data |-> "absent", rf2 |-> "absent"]

Init ==
  /\ file = [f \in File |-> "absent"]
  /\ at = [s \in Script |-> 0] /\ work = [s \in Script |-> "other"]
  /\ freezes = 0 /\ frozenIn = [labeled |-> 0, sealed |-> 0] /\ late = {}
  /\ eval = [e \in Eval |-> NotStarted]
  /\ rf1 = "pinned" /\ loaded = [e \in Eval |-> "absent"] /\ swaps = [e \in Eval |-> 0]
  /\ inferred = [rf1 |-> 0, rf2 |-> 0] /\ cleans = 0 /\ reopened = FALSE

Exists(F) == \A f \in F : file[f] # "absent"
Absent(F) == \A f \in F : file[f] = "absent"

-----------------------------------------------------------------------------
(* The scripts with several outputs.  Each checks once, then writes.       *)

Begin(s, content) ==
  /\ at[s] = 0
  /\ at' = [at EXCEPT ![s] = 1]
  /\ work' = [work EXCEPT ![s] = content]
  /\ UNCHANGED <<file, freezes, frozenIn, late, eval, rfVars, inferred, cleans, reopened>>

\* train_rf_v2_d4.py: no output and no final-test artifact may exist; both
\* are looked at, and RF-v1 is verified, before the data is loaded and the
\* forest fitted.
TrainStart ==
  /\ rf1 = "pinned"
  /\ Absent(ToSet(Outputs.d4) \cup FinalTest)
  /\ \E c \in {"pinned", "other"} : Begin("d4", c)

\* capture_experiment_d_final_test.py; "invalid": some session is not valid.
CaptureStart ==
  /\ Absent({"capture"})
  /\ \E c \in {"pinned", "other", "invalid"} : Begin("capture", c)

\* run_experiment_d_cicflowmeter_v3.py
ExtractStart ==
  /\ Absent(ToSet(Outputs.extract)) /\ Exists({"pcap"})
  /\ Begin("extract", file["pcap"])

\* verify_frozen_manifest: the pinned hash, of the manifest and of the model.
FrozenVerified == Exists({"freeze"}) /\ file["model"] = "pinned"

\* prepare_experiment_d_d5.py: nine valid captures, extracted from what lies
\* there, and a model that is the frozen one.
PrepareStart ==
  /\ Absent(ToSet(Outputs.prepare) \cup {"leakage"})
  /\ Exists({"capture", "extraction", "metadata"}) /\ file["capture"] # "invalid"
  /\ file["extraction"] = file["pcap"] /\ file["flows"] = file["pcap"]
  /\ FrozenVerified
  /\ Begin("prepare", file["pcap"])

Leave(s) == at' = [at EXCEPT ![s] = 0] /\ work' = [work EXCEPT ![s] = "other"]

\* The next output; the script ends after the last one.  D4 verifies RF-v1
\* again before its audit.
Write(s) ==
  LET f == Outputs[s][at[s]] IN
  /\ at[s] > 0 /\ file[f] = "absent"
  /\ f = "d4audit" => rf1 = "pinned"
  /\ file' = [file EXCEPT ![f] = work[s]]
  /\ IF at[s] < Len(Outputs[s]) THEN at' = [at EXCEPT ![s] = @ + 1] /\ UNCHANGED work
     ELSE Leave(s)
  /\ late' = late \cup ({f} \cap Timed)
  /\ frozenIn' = IF f = "labeled" THEN [frozenIn EXCEPT !.labeled = freezes] ELSE frozenIn
  /\ UNCHANGED <<freezes, eval, rfVars, inferred, cleans, reopened>>

\* The script is killed, fails, or meets a file that appeared meanwhile: what
\* it wrote stays.  prepare's own leakage audit always ends this way, since it
\* loads the adaptation manifest under a schema that manifest does not have.
Abort(s) ==
  /\ at[s] > 0
  /\ Leave(s)
  /\ UNCHANGED <<file, freezes, frozenIn, late, eval, rfVars, inferred, cleans, reopened>>

-----------------------------------------------------------------------------
(* The scripts with one output.                                            *)

\* freeze_rf_v2: neither D4's audit nor its selection is read, only hashed.
Freeze ==
  /\ Absent({"freeze"}) /\ Exists(ToSet(Outputs.d4) \ {"metrics"})
  /\ file["model"] = "pinned" /\ file["metadata"] = file["model"]
  /\ file' = [file EXCEPT !["freeze"] = file["model"]]
  /\ freezes' = freezes + 1 /\ late' = {}
  /\ UNCHANGED <<at, work, frozenIn, eval, rfVars, inferred, cleans, reopened>>

Audited ==
  /\ Absent({"leakage"}) /\ Exists({"labeled", "capture", "training"}) /\ FrozenVerified
  /\ rf1 = "pinned"
  /\ file' = [file EXCEPT !["leakage"] = file["labeled"]]
  /\ UNCHANGED <<at, work, freezes, frozenIn, late, eval, rfVars, inferred, cleans, reopened>>

\* Deviation: model_artifacts_predate_freeze is left out.
AuditWithoutDates == Audited /\ Absent({"rf1_pred", "rf2_pred", "reports"})

\* audit_experiment_d_final_test.py: written only if every check passes; the
\* captures are taken to share nothing with adaptation and Experiment C.
Audit ==
  /\ Audited /\ Absent({"rf1_pred", "rf2_pred", "reports"})
  /\ late = {}

\* seal_experiment_d_final_test.py: the files are verified, the audit is not
\* looked at.
Seal ==
  /\ Absent({"sealed"}) /\ Exists({"labeled"})
  /\ file["pcap"] = file["labeled"] /\ file["flows"] = file["labeled"]
  /\ file' = [file EXCEPT !["sealed"] = file["labeled"]]
  /\ frozenIn' = [frozenIn EXCEPT !.sealed = frozenIn.labeled]
  /\ UNCHANGED <<at, work, freezes, late, eval, rfVars, inferred, cleans, reopened>>

-----------------------------------------------------------------------------
(* evaluate_experiment_d_final.py.                                         *)

Snapshot == [f \in Evidence |-> file[f]]

Goto(e, stage) == eval' = [eval EXCEPT ![e].stage = stage]

\* Deviation: the sealed manifest is verified, but compared with no identity.
DataAny ==
  /\ Exists({"sealed"})
  /\ \A f \in {"pcap", "flows", "leakage", "dataset"} : file[f] = file["sealed"]

\* The sealed set and its audits, each compared with the pinned identity.
DataPinned ==
  \A f \in {"sealed", "pcap", "flows", "leakage", "dataset"} : file[f] = "pinned"

\* Past the gate, and not past post_integrity.
Judging(e) ==
  eval[e].stage \in {"rows", "rf1", "rf1_pred", "rf2", "rf2_pred", "reports", "docs"}

\* RF-v1 is replaced by another training, or the pinned one is put back.
ReplaceRf1 ==
  /\ rf1' = IF rf1 = "pinned" THEN "other" ELSE "pinned"
  /\ swaps' = [e \in Eval |-> IF Judging(e) /\ swaps[e] < 2 THEN swaps[e] + 1 ELSE swaps[e]]
  /\ UNCHANGED <<file, at, work, freezes, frozenIn, late, eval, loaded, inferred, cleans, reopened>>

\* The evidence is hashed and integrity_gate passes, before any model is loaded.
\* (Evidence that changes between the two only makes the evaluation fail later;
\* an execution that the gate refuses has done nothing.)
Gate(e) ==
  /\ eval[e].stage = "ready"
  /\ Absent(Out)
  /\ rf1 = "pinned" /\ FrozenVerified /\ file["metadata"] = "pinned"
  /\ DataPinned /\ frozenIn.sealed = freezes
  /\ eval' = [eval EXCEPT ![e].stage = "rows", ![e].before = Snapshot]
  /\ UNCHANGED <<file, at, work, freezes, frozenIn, late, rfVars, inferred, cleans, reopened>>

\* Deviation: the output is opened with "w".
WriteOver(e, f, next) ==
  /\ file' = [file EXCEPT ![f] = e]
  /\ eval' = [eval EXCEPT ![e].stage = next,
                          ![e].data = IF f = "rows" THEN file["flows"] ELSE @]
  /\ UNCHANGED <<at, work, freezes, frozenIn, late, rfVars, inferred, cleans, reopened>>

\* write_csv and write_json open with "x".  The rows, read from the flows, are
\* the first output: no model predicts before they are written.
WriteNew(e, f, next) ==
  /\ file[f] = "absent"
  /\ file' = [file EXCEPT ![f] = e]
  /\ eval' = [eval EXCEPT ![e].stage = next,
                          ![e].data = IF f = "rows" THEN file["flows"] ELSE @]
  /\ UNCHANGED <<at, work, freezes, frozenIn, late, rfVars, inferred, cleans, reopened>>

\* Deviation: the row order is kept back for the reports.
BuildMatrixUnwritten(e) ==
  /\ eval[e].stage = "rows" /\ Exists({"flows"})
  /\ eval' = [eval EXCEPT ![e].stage = "rf1", ![e].data = file["flows"]]
  /\ UNCHANGED <<file, at, work, freezes, frozenIn, late, rfVars, inferred, cleans, reopened>>

BuildMatrix(e) == eval[e].stage = "rows" /\ Exists({"flows"}) /\ WriteNew(e, "rows", "rf1")

\* RF-v1 is what lies there now.
Infer1(e) ==
  /\ eval[e].stage = "rf1"
  /\ inferred' = [inferred EXCEPT !.rf1 = @ + 1]
  /\ loaded' = [loaded EXCEPT ![e] = rf1]
  /\ Goto(e, "rf1_pred")
  /\ UNCHANGED <<file, at, work, freezes, frozenIn, late, rf1, swaps, cleans, reopened>>

Infer2(e) ==
  /\ eval[e].stage = "rf2" /\ Exists({"model"})
  /\ inferred' = [inferred EXCEPT !.rf2 = @ + 1]
  /\ eval' = [eval EXCEPT ![e].stage = "rf2_pred", ![e].rf2 = file["model"]]
  /\ UNCHANGED <<file, at, work, freezes, frozenIn, late, rfVars, cleans, reopened>>

Report(e) ==
  \/ eval[e].stage = "rf1_pred" /\ WriteNew(e, "rf1_pred", "rf2")
  \/ eval[e].stage = "rf2_pred" /\ WriteNew(e, "rf2_pred", "reports")
  \/ eval[e].stage = "reports" /\ WriteNew(e, "reports", "docs")
  \/ eval[e].stage = "manifest" /\ WriteNew(e, "manifest", "passed")

\* Deviation: the evidence is compared, but RF-v1 is not looked at again.
ConcludeOnEvidence(e) ==
  /\ eval[e].stage = "docs"
  /\ Snapshot = eval[e].before
  /\ file["model"] = "pinned" /\ file["sealed"] = "pinned"
  /\ WriteNew(e, "docs", "manifest")

\* The evidence is as before and post_integrity passes, which verifies RF-v1
\* once more: docs, then manifest.
Conclude(e) ==
  /\ eval[e].stage = "docs"
  /\ Snapshot = eval[e].before
  /\ rf1 = "pinned" /\ file["model"] = "pinned" /\ file["sealed"] = "pinned"
  /\ WriteNew(e, "docs", "manifest")

\* A check fails, a file exists, or the execution is killed.
EvalEnds(e) ==
  /\ eval[e].stage \notin {"ready", "passed", "ended"}
  /\ eval' = [eval EXCEPT ![e] = [NotStarted EXCEPT !.stage = "ended"]]
  /\ loaded' = [loaded EXCEPT ![e] = "absent"] /\ swaps' = [swaps EXCEPT ![e] = 0]
  /\ UNCHANGED <<file, at, work, freezes, frozenIn, late, rf1, inferred, cleans, reopened>>

-----------------------------------------------------------------------------
(* The operator deletes the outputs of a phase that is not at work; an     *)
(* execution of D6 is left alone, and its files while it runs.             *)

Running(e) == eval[e].stage \notin {"ready", "passed", "ended"}
Clean(p) ==
  /\ cleans < MaxCleans /\ ~Absent(ToSet(Outputs[p]))
  /\ \A s \in Script : at[s] = 0
  /\ \A e \in Eval : ~Running(e)
  /\ cleans' = cleans + 1
  /\ file' = [f \in File |-> IF f \in ToSet(Outputs[p]) THEN "absent" ELSE file[f]]
  /\ reopened' = (reopened \/ p = "d6")
  /\ UNCHANGED <<at, work, freezes, frozenIn, late, eval, rfVars, inferred>>

Next ==
  \/ TrainStart \/ CaptureStart \/ ExtractStart \/ PrepareStart
  \/ \E s \in Script : Write(s) \/ Abort(s)
  \/ Freeze \/ Audit \/ Seal \/ ReplaceRf1
  \/ \E e \in Eval : \/ Gate(e) \/ BuildMatrix(e) \/ Infer1(e)
                     \/ Infer2(e) \/ Report(e) \/ Conclude(e) \/ EvalEnds(e)
  \/ \E p \in Phase : Clean(p)

Spec == Init /\ [][Next]_vars
-----------------------------------------------------------------------------
Stage == {"ready", "rows", "rf1", "rf1_pred", "rf2", "rf2_pred", "reports",
          "docs", "manifest", "passed", "ended"}
Content == {"pinned", "other", "invalid", "absent"}

\* The files of a phase that exist are the first ones it writes.
LeavesPrefix(p) ==
  \A i, j \in DOMAIN Outputs[p] : i < j /\ Exists({Outputs[p][j]}) => Exists({Outputs[p][i]})

TypeOK ==
  /\ DOMAIN file = File /\ \A p \in Phase : LeavesPrefix(p)
  /\ \A f \in Evidence : file[f] \in Content
  /\ \A f \in Out : file[f] \in Eval \cup {"absent"}
  /\ \A s \in Script : at[s] \in 0 .. Len(Outputs[s]) /\ work[s] \in Content
  /\ freezes \in Nat /\ frozenIn \in [{"labeled", "sealed"} -> 0 .. freezes]
  /\ late \subseteq Timed
  /\ \A e \in Eval : eval[e].stage \in Stage /\ eval[e].data \in Content
                       /\ eval[e].rf2 \in {"pinned", "other", "absent"}
  /\ rf1 \in {"pinned", "other"}
  /\ loaded \in [Eval -> {"pinned", "other", "absent"}] /\ swaps \in [Eval -> 0 .. 2]
  /\ inferred \in [{"rf1", "rf2"} -> Nat]
  /\ cleans \in 0 .. MaxCleans /\ reopened \in BOOLEAN

\* The final test is one-shot: however many executions are started, together
\* or after a crash, each model predicts it at most once, unless the operator
\* deletes outputs of an earlier execution.
OneShot == ~reopened => inferred["rf1"] <= 1 /\ inferred["rf2"] <= 1

\* An evaluation manifest (status PASS) vouches for a whole: all outputs
\* beside it are of the execution that wrote it, none of one that died or
\* ran at the same time.
PassIsWhole ==
  file["manifest"] # "absent" => \A f \in Out : file[f] = file["manifest"]

\* The evaluation fails closed: nothing but the pinned captures is ever
\* predicted, and by no RF-v2 but the pinned one, although flows and model are
\* read after the gate, by name, beside scripts that still write.
PredictsPinned ==
  \A e \in Eval :
    eval[e].data \in {"absent", "pinned"} /\ eval[e].rf2 \in {"absent", "pinned"}

\* RF-v1 is compared under its pinned hash, although it is loaded after the
\* gate by a name that compare_models.py writes over: an execution that reaches
\* its conclusion has predicted with the pinned RF-v1, unless RF-v1 was replaced
\* and put back within that very run.
OneSwapIsNoticed ==
  \A e \in Eval :
    eval[e].stage \in {"manifest", "passed"} /\ swaps[e] < 2 => loaded[e] = "pinned"

\* When PASS is declared, the model and its records on disk are older than the
\* freeze: a model fitted again after it passes no evaluation, not even one
\* with the very same bytes (the audit's dates, which the gate relies on).
PassIsFrozenFirst ==
  [][file'["manifest"] # file["manifest"] /\ file'["manifest"] # "absent" => late = {}]_vars
=============================================================================
