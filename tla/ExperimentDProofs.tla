------------------------- MODULE ExperimentDProofs -------------------------
(***************************************************************************)
(* Proofs about ExperimentD: for any number of executions of the final     *)
(* evaluation, started together, killed or run after one another, and any  *)
(* number of phases cleaned, each model predicts the final test once, with *)
(* the bytes the sources pin (RF-v1 unless it is replaced and put back     *)
(* meanwhile), and a PASS vouches for the outputs of one execution and for *)
(* a model that was frozen before.                                         *)
(***************************************************************************)
EXTENDS ExperimentD, TLAPS

-----------------------------------------------------------------------------
(* The files.                                                              *)

OutNames == {"rows", "rf1_pred", "rf2_pred", "reports", "docs", "manifest"}

LEMMA OutFiles == Out = OutNames
<1>1. DOMAIN Outputs.d6 = 1 .. 6
  BY DEF Outputs
<1>2. /\ Outputs.d6[1] = "rows" /\ Outputs.d6[2] = "rf1_pred" /\ Outputs.d6[3] = "rf2_pred"
      /\ Outputs.d6[4] = "reports" /\ Outputs.d6[5] = "docs" /\ Outputs.d6[6] = "manifest"
  BY DEF Outputs
<1>3. ToSet(Outputs.d6) = {Outputs.d6[i] : i \in 1 .. 6}
  BY <1>1 DEF ToSet
<1>4. ToSet(Outputs.d6) = OutNames
  <2> DEFINE o == Outputs.d6
  <2>1. ToSet(o) = {o[i] : i \in 1 .. 6}
    BY <1>3
  <2> HIDE DEF o
  <2>2. QED
    BY <2>1, <1>2 DEF OutNames, o
<1>5. QED
  BY <1>4 DEF Out

LEMMA PhaseNames ==
  Phase = {"d4", "freeze", "capture", "extract", "prepare", "audit", "seal", "d6"}
BY DEF Phase, Outputs

LEMMA OutInFile == Out \subseteq File
<1>1. "d6" \in Phase
  BY PhaseNames
<1>2. ToSet(Outputs["d6"]) = Out
  BY DEF Out
<1>3. QED
  BY <1>1, <1>2 DEF File

\* What the other scripts write is no output of the evaluation.
LEMMA OthersKeepOut ==
  ASSUME NEW p \in Phase, p # "d6", NEW i \in 1 .. Len(Outputs[p])
  PROVE  Outputs[p][i] \notin Out
<1> USE OutFiles DEF OutNames
<1>1. CASE p = "d4"
  <2>1. Outputs["d4"] = <<"model", "metrics", "metadata", "training", "d4audit", "comparison">>
    BY DEF Outputs
  <2>2. i \in 1 .. 6
    BY <1>1, <2>1
  <2>3. QED
    BY <1>1, <2>1, <2>2
<1>2. CASE p = "freeze"
  <2>1. Outputs["freeze"] = <<"freeze">>
    BY DEF Outputs
  <2>2. QED
    BY <1>2, <2>1
<1>3. CASE p = "capture"
  <2>1. Outputs["capture"] = <<"pcap", "capture">>
    BY DEF Outputs
  <2>2. QED
    BY <1>3, <2>1
<1>4. CASE p = "extract"
  <2>1. Outputs["extract"] = <<"flows", "extraction">>
    BY DEF Outputs
  <2>2. QED
    BY <1>4, <2>1
<1>5. CASE p = "prepare"
  <2>1. Outputs["prepare"] = <<"labeled", "dataset", "distribution">>
    BY DEF Outputs
  <2>2. QED
    BY <1>5, <2>1
<1>6. CASE p = "audit"
  <2>1. Outputs["audit"] = <<"leakage">>
    BY DEF Outputs
  <2>2. QED
    BY <1>6, <2>1
<1>7. CASE p = "seal"
  <2>1. Outputs["seal"] = <<"sealed">>
    BY DEF Outputs
  <2>2. QED
    BY <1>7, <2>1
<1>8. QED
  BY <1>1, <1>2, <1>3, <1>4, <1>5, <1>6, <1>7, PhaseNames

LEMMA OthersClean ==
  ASSUME NEW p \in Phase, p # "d6"
  PROVE  ToSet(Outputs[p]) \cap Out = {}
<1>1. DOMAIN Outputs[p] = 1 .. Len(Outputs[p])
  BY PhaseNames DEF Outputs
<1>2. QED
  BY <1>1, OthersKeepOut DEF ToSet

-----------------------------------------------------------------------------
(* The inductive invariant.                                                *)

Types ==
  /\ file = [f \in File |-> file[f]]
  /\ at \in [Script -> Nat] /\ \A s \in Script : at[s] <= Len(Outputs[s])
  /\ eval = [e \in Eval |-> eval[e]]
  /\ \A e \in Eval : eval[e] = [stage |-> eval[e].stage, before |-> eval[e].before,
                                data |-> eval[e].data, rf2 |-> eval[e].rf2]
  /\ inferred \in [{"rf1", "rf2"} -> Nat]

\* An execution at work owns all outputs it is past.
Owns(e) ==
  /\ eval[e].stage \in {"rf1", "rf1_pred", "rf2", "rf2_pred", "reports", "docs", "manifest"}
       => file["rows"] = e
  /\ eval[e].stage \in {"rf2", "rf2_pred", "reports", "docs", "manifest"}
       => file["rf1_pred"] = e
  /\ eval[e].stage \in {"reports", "docs", "manifest"} => file["rf2_pred"] = e
  /\ eval[e].stage \in {"docs", "manifest"} => file["reports"] = e
  /\ eval[e].stage = "manifest" => file["docs"] = e

\* Who owns the rows is the only one that has predicted or will.
Once ==
  ~reopened =>
    /\ inferred["rf1"] <= 1 /\ inferred["rf2"] <= 1
    /\ file["rows"] = "absent" => inferred["rf1"] = 0 /\ inferred["rf2"] = 0
    /\ \A e \in Eval :
         /\ eval[e].stage = "rf1" => inferred["rf1"] = 0
         /\ eval[e].stage \in {"rf1", "rf1_pred", "rf2"} => inferred["rf2"] = 0

Inv == Types /\ (\A e \in Eval : Owns(e)) /\ PassIsWhole /\ Once

LEMMA InvInit == Init => Inv
<1> SUFFICES ASSUME Init
             PROVE  Inv
  OBVIOUS
<1>1. Types
  <2>1. \A s \in Script : Len(Outputs[s]) \in Nat
    BY DEF Script, Outputs
  <2>2. QED
    BY <2>1 DEF Init, Types, NotStarted
<1>2. \A e \in Eval : Owns(e)
  BY DEF Init, Owns, NotStarted
<1>3. PassIsWhole /\ Once
  BY OutInFile, OutFiles DEF Init, PassIsWhole, Once, NotStarted, OutNames
<1>4. QED
  BY <1>1, <1>2, <1>3 DEF Inv

-----------------------------------------------------------------------------
(* Steps that leave the evaluation alone.                                  *)

LEMMA Elsewhere ==
  ASSUME Inv, Types', \A f \in Out : file'[f] = file[f],
         UNCHANGED <<eval, inferred>>, reopened => reopened'
  PROVE  Inv'
BY OutFiles DEF Inv, Owns, PassIsWhole, Once, OutNames

LEMMA NoOutput ==
  ASSUME Types, NEW f \in File \ Out, NEW c, file' = [file EXCEPT ![f] = c]
  PROVE  /\ file' = [g \in File |-> file'[g]]
         /\ \A g \in Out : file'[g] = file[g]
BY OutInFile DEF Types

LEMMA ScriptStep ==
  ASSUME Inv, NEW s \in Script, Write(s) \/ Abort(s)
  PROVE  Inv'
<1>1. Script \subseteq Phase /\ "d6" \notin Script
  BY PhaseNames DEF Script
<1>2. CASE Abort(s)
  BY <1>2, Elsewhere DEF Abort, Leave, Inv, Types
<1>3. CASE Write(s)
  <2> DEFINE f == Outputs[s][at[s]]
  <2>1. at[s] \in 1 .. Len(Outputs[s])
    BY <1>3 DEF Write, Inv, Types
  <2>2. f \notin Out
    BY <1>1, <2>1, OthersKeepOut
  <2>3. f \in File
    <3>1. DOMAIN Outputs[s] = 1 .. Len(Outputs[s])
      BY <1>1, PhaseNames DEF Outputs
    <3>2. f \in ToSet(Outputs[s])
      BY <2>1, <3>1 DEF ToSet
    <3>3. QED
      BY <1>1, <3>2 DEF File
  <2>4. file' = [file EXCEPT ![f] = work[s]]
    BY <1>3 DEF Write
  <2>5. /\ file' = [g \in File |-> file'[g]]
        /\ \A g \in Out : file'[g] = file[g]
    <3> HIDE DEF f
    <3>1. QED
      BY <2>2, <2>3, <2>4, NoOutput DEF Inv
  <2>6. at' \in [Script -> Nat] /\ \A t \in Script : at'[t] <= Len(Outputs[t])
    <3>1. \A t \in Script : Len(Outputs[t]) \in Nat
      BY DEF Script, Outputs
    <3>2. \/ at' = [at EXCEPT ![s] = @ + 1] /\ at[s] < Len(Outputs[s])
          \/ at' = [at EXCEPT ![s] = 0]
      BY <1>3 DEF Write, Leave
    <3>3. at \in [Script -> Nat] /\ \A t \in Script : at[t] <= Len(Outputs[t])
      BY DEF Inv, Types
    <3>4. CASE at' = [at EXCEPT ![s] = @ + 1] /\ at[s] < Len(Outputs[s])
      <4>1. at'[s] = at[s] + 1 /\ \A t \in Script : t # s => at'[t] = at[t]
        BY <3>3, <3>4
      <4>2. at[s] + 1 <= Len(Outputs[s]) /\ at[s] + 1 \in Nat
        BY <3>1, <3>3, <3>4
      <4>3. at' \in [Script -> Nat]
        BY <3>3, <3>4, <4>2
      <4>4. QED
        BY <3>3, <4>1, <4>2, <4>3
    <3>5. CASE at' = [at EXCEPT ![s] = 0]
      BY <3>1, <3>3, <3>5
    <3>6. QED
      BY <3>2, <3>4, <3>5
  <2>7. UNCHANGED <<eval, inferred, reopened>>
    BY <1>3 DEF Write
  <2> HIDE DEF f
  <2>8. QED
    BY <2>5, <2>6, <2>7, Elsewhere DEF Inv, Types
<1>4. QED
  BY <1>2, <1>3

LEMMA OtherStep ==
  ASSUME Inv,
         \/ TrainStart \/ CaptureStart \/ ExtractStart \/ PrepareStart
         \/ Freeze \/ Audit \/ Seal \/ ReplaceRf1 \/ UNCHANGED vars
  PROVE  Inv'
<1>0. \A s \in Script : Len(Outputs[s]) \in Nat /\ 1 <= Len(Outputs[s])
  BY DEF Script, Outputs
<1>1. ASSUME NEW s \in Script, NEW c, Begin(s, c)
      PROVE  Inv'
  BY <1>0, <1>1, Elsewhere DEF Begin, Inv, Types
<1>2. CASE TrainStart \/ CaptureStart \/ ExtractStart \/ PrepareStart
  BY <1>1, <1>2 DEF TrainStart, CaptureStart, ExtractStart, PrepareStart, Script
<1>3. {"freeze", "leakage", "sealed"} \subseteq File \ Out
  <2>1. /\ Outputs["freeze"] = <<"freeze">> /\ Outputs["audit"] = <<"leakage">>
        /\ Outputs["seal"] = <<"sealed">>
    BY DEF Outputs
  <2>2. /\ ToSet(<<"freeze">>) = {"freeze"} /\ ToSet(<<"leakage">>) = {"leakage"}
        /\ ToSet(<<"sealed">>) = {"sealed"}
    BY DEF ToSet
  <2>3. {"freeze", "leakage", "sealed"} \subseteq File
    BY <2>1, <2>2, PhaseNames DEF File
  <2>4. QED
    BY <2>3, OutFiles DEF OutNames
<1>4. ASSUME NEW f \in {"freeze", "leakage", "sealed"}, NEW c,
             file' = [file EXCEPT ![f] = c], UNCHANGED <<at, eval, inferred, reopened>>
      PROVE  Inv'
  <2>1. /\ file' = [g \in File |-> file'[g]]
        /\ \A g \in Out : file'[g] = file[g]
    BY <1>3, <1>4, NoOutput DEF Inv
  <2>2. QED
    BY <1>4, <2>1, Elsewhere DEF Inv, Types
<1>5. CASE Freeze
  BY <1>4, <1>5 DEF Freeze
<1>6. CASE Audit
  BY <1>4, <1>6 DEF Audit, Audited
<1>7. CASE Seal
  BY <1>4, <1>7 DEF Seal
<1>8. CASE ReplaceRf1 \/ UNCHANGED vars
  BY <1>8, Elsewhere DEF ReplaceRf1, vars, Inv, Types
<1>9. QED
  BY <1>2, <1>5, <1>6, <1>7, <1>8

\* Deleting outputs of D6 finds no execution at work and reopens the test.
LEMMA CleanStep ==
  ASSUME Inv, NEW p \in Phase, Clean(p)
  PROVE  Inv'
<1>1. CASE p # "d6"
  <2>1. \A f \in Out : file'[f] = file[f]
    BY <1>1, OthersClean, OutInFile DEF Clean
  <2>2. Types'
    BY DEF Clean, Inv, Types
  <2>3. UNCHANGED <<eval, inferred>> /\ (reopened => reopened')
    BY DEF Clean
  <2>4. QED
    BY <2>1, <2>2, <2>3, Elsewhere
<1>2. CASE p = "d6"
  <2>1. Types'
    BY DEF Clean, Inv, Types
  <2>2. \A e \in Eval : Owns(e)'
    BY DEF Clean, Running, Owns
  <2>3. file'["manifest"] = "absent"
    BY <1>2, OutFiles, OutInFile DEF Clean, Out, OutNames
  <2>4. reopened'
    BY <1>2 DEF Clean
  <2>5. QED
    BY <2>1, <2>2, <2>3, <2>4 DEF Inv, PassIsWhole, Once
<1>3. QED
  BY <1>1, <1>2

-----------------------------------------------------------------------------
(* Steps of an execution of the evaluation.                                *)

\* One that writes nothing and makes no stage's claim for itself.
LEMMA QuietStep ==
  ASSUME Inv, NEW e \in Eval, Gate(e) \/ EvalEnds(e)
  PROVE  Inv'
<1>1. /\ Types' /\ UNCHANGED <<file, inferred, reopened>>
      /\ \A o \in Eval : o # e => eval'[o] = eval[o]
      /\ eval'[e].stage \in {"rows", "ended"}
  <2>1. CASE Gate(e)
    <3>1. PICK b : eval' = [eval EXCEPT ![e] = [[@ EXCEPT !.stage = "rows"] EXCEPT !.before = b]]
      <4>1. eval' = [eval EXCEPT ![e].stage = "rows", ![e].before = Snapshot]
        BY <2>1 DEF Gate
      <4>2. eval' = [eval EXCEPT ![e] = [[@ EXCEPT !.stage = "rows"] EXCEPT !.before = Snapshot]]
        BY <4>1 DEF Inv, Types
      <4>3. QED
        BY <4>2
    <3>2. /\ eval' = [o \in Eval |-> eval'[o]]
          /\ \A o \in Eval : o # e => eval'[o] = eval[o]
          /\ eval'[e] = [stage |-> "rows", before |-> b, data |-> eval[e].data,
                         rf2 |-> eval[e].rf2]
      <4>1. eval = [o \in Eval |-> eval[o]]
        BY DEF Inv, Types
      <4>2. /\ eval' = [o \in Eval |-> eval'[o]]
            /\ \A o \in Eval : o # e => eval'[o] = eval[o]
            /\ eval'[e] = [[eval[e] EXCEPT !.stage = "rows"] EXCEPT !.before = b]
        BY <3>1, <4>1
      <4>3. eval[e] = [stage |-> eval[e].stage, before |-> eval[e].before,
                       data |-> eval[e].data, rf2 |-> eval[e].rf2]
        BY DEF Inv, Types
      <4>4. QED
        BY <4>2, <4>3
    <3>3. UNCHANGED <<file, at, inferred, reopened>>
      BY <2>1 DEF Gate
    <3>4. QED
      BY <3>2, <3>3 DEF Inv, Types
  <2>2. CASE EvalEnds(e)
    <3>1. eval' = [eval EXCEPT ![e] = [stage |-> "ended", before |-> <<>>, data |-> "absent",
                                       rf2 |-> "absent"]]
      <4>1. eval' = [eval EXCEPT ![e] = [NotStarted EXCEPT !.stage = "ended"]]
        BY <2>2 DEF EvalEnds
      <4>2. [NotStarted EXCEPT !.stage = "ended"] =
              [stage |-> "ended", before |-> <<>>, data |-> "absent", rf2 |-> "absent"]
        BY DEF NotStarted
      <4>3. QED
        BY <4>1, <4>2
    <3>2. UNCHANGED <<file, at, inferred, reopened>>
      BY <2>2 DEF EvalEnds
    <3>3. QED
      BY <3>1, <3>2 DEF Inv, Types
  <2>3. QED
    BY <2>1, <2>2
<1>2. \A o \in Eval : Owns(o)'
  BY <1>1 DEF Inv, Owns
<1>3. Once'
  BY <1>1 DEF Inv, Once
<1>4. QED
  BY <1>1, <1>2, <1>3 DEF Inv, PassIsWhole

LEMMA InferStep ==
  ASSUME Inv, NEW e \in Eval, Infer1(e) \/ Infer2(e)
  PROVE  Inv'
<1>1. /\ Types' /\ UNCHANGED <<file, reopened>>
      /\ \A o \in Eval : o # e => eval'[o] = eval[o]
  <2>1. inferred' \in [{"rf1", "rf2"} -> Nat]
    BY DEF Infer1, Infer2, Inv, Types
  <2>2. /\ eval' = [o \in Eval |-> eval'[o]]
        /\ \A o \in Eval : o # e => eval'[o] = eval[o]
    BY DEF Infer1, Infer2, Goto, Inv, Types
  <2>3. eval'[e] = [stage |-> eval'[e].stage, before |-> eval'[e].before,
                    data |-> eval'[e].data, rf2 |-> eval'[e].rf2]
    <3>1. CASE Infer1(e)
      <4>1. eval'[e] = [eval[e] EXCEPT !.stage = "rf1_pred"]
        BY <3>1 DEF Infer1, Goto, Inv, Types
      <4>2. QED
        BY <4>1 DEF Inv, Types
    <3>2. CASE Infer2(e)
      <4>1. eval'[e] = [[eval[e] EXCEPT !.stage = "rf2_pred"] EXCEPT !.rf2 = file["model"]]
        BY <3>2 DEF Infer2, Inv, Types
      <4>2. QED
        BY <4>1 DEF Inv, Types
    <3>3. QED
      BY <3>1, <3>2
  <2>4. UNCHANGED <<file, at, reopened>>
    BY DEF Infer1, Infer2
  <2>5. QED
    BY <2>1, <2>2, <2>3, <2>4 DEF Inv, Types
<1>2. \/ /\ eval[e].stage = "rf1" /\ eval'[e].stage = "rf1_pred"
         /\ inferred' = [inferred EXCEPT !.rf1 = @ + 1]
      \/ /\ eval[e].stage = "rf2" /\ eval'[e].stage = "rf2_pred"
         /\ inferred' = [inferred EXCEPT !.rf2 = @ + 1]
  BY DEF Infer1, Infer2, Goto, Inv, Types
<1>3. \A o \in Eval : Owns(o)'
  BY <1>1, <1>2 DEF Inv, Owns
<1>4. ASSUME NEW o \in Eval, o # e
      PROVE  eval'[o].stage \notin {"rf1", "rf1_pred", "rf2"}
  BY <1>1, <1>2, <1>4 DEF Inv, Owns
<1>5. file["rows"] # "absent"
  BY <1>2, EvalAssumption DEF Inv, Owns
<1>6. Once'
  BY <1>1, <1>2, <1>4, <1>5 DEF Inv, Once, Types
<1>7. QED
  BY <1>1, <1>3, <1>6 DEF Inv, PassIsWhole

\* A file that no execution has written is written by one: nobody owns it yet,
\* so nobody's claim and no earlier PASS is disturbed.
LEMMA NewOutput ==
  ASSUME Inv, NEW e \in Eval, NEW f \in Out, NEW next, WriteNew(e, f, next)
  PROVE  /\ Types' /\ UNCHANGED <<inferred, reopened>>
         /\ file[f] = "absent" /\ file'[f] = e
         /\ \A g \in File : g # f => file'[g] = file[g]
         /\ eval'[e].stage = next
         /\ \A o \in Eval : o # e => eval'[o] = eval[o] /\ Owns(o)'
         /\ f # "manifest" => PassIsWhole'
<1>1. f \in File
  BY OutInFile
<1>2. /\ file[f] = "absent" /\ file' = [file EXCEPT ![f] = e]
      /\ UNCHANGED <<at, inferred, reopened>>
  BY DEF WriteNew
<1>3. file'[f] = e /\ \A g \in File : g # f => file'[g] = file[g]
  BY <1>1, <1>2 DEF Inv, Types
<1>4. PICK d : eval'[e] = [stage |-> next, before |-> eval[e].before,
                           data |-> d, rf2 |-> eval[e].rf2]
  <2>1. PICK d : eval'[e] = [[eval[e] EXCEPT !.stage = next] EXCEPT !.data = d]
    BY DEF WriteNew, Inv, Types
  <2>2. QED
    BY <2>1 DEF Inv, Types
<1>5. /\ Types' /\ eval'[e].stage = next
      /\ \A o \in Eval : o # e => eval'[o] = eval[o]
  <2>1. file' = [g \in File |-> file'[g]]
    BY <1>1, <1>2 DEF Inv, Types
  <2>2. /\ eval' = [o \in Eval |-> eval'[o]]
        /\ \A o \in Eval : o # e => eval'[o] = eval[o]
    BY DEF WriteNew, Inv, Types
  <2>3. QED
    BY <1>2, <1>4, <2>1, <2>2 DEF Inv, Types
<1>6. \A o \in Eval : o # e => Owns(o)'
  <2>1. \A g \in OutNames : g # f => file'[g] = file[g]
    BY <1>3, OutFiles, OutInFile
  <2>2. QED
    BY <1>2, <1>5, <2>1, EvalAssumption DEF Inv, Owns, OutNames
<1>7. f # "manifest" => PassIsWhole'
  BY <1>2, <1>3, OutFiles, OutInFile DEF Inv, PassIsWhole, OutNames
<1>8. QED
  BY <1>2, <1>3, <1>5, <1>6, <1>7

LEMMA WriteStep ==
  ASSUME Inv, NEW e \in Eval, BuildMatrix(e) \/ Report(e) \/ Conclude(e)
  PROVE  Inv'
<1> USE OutFiles, OutInFile DEF OutNames
<1>1. CASE BuildMatrix(e)
  <2>1. eval[e].stage = "rows" /\ WriteNew(e, "rows", "rf1")
    BY <1>1 DEF BuildMatrix
  <2>2. Owns(e)'
    BY <2>1, NewOutput DEF Owns
  <2>3. Once'
    <3>1. ASSUME NEW o \in Eval, o # e
          PROVE  eval'[o].stage \notin {"rf1", "rf1_pred", "rf2"}
      BY <2>1, <3>1, NewOutput, EvalAssumption DEF Inv, Owns
    <3>2. QED
      BY <2>1, <3>1, NewOutput, EvalAssumption DEF Inv, Once
  <2>4. QED
    BY <2>1, <2>2, <2>3, NewOutput DEF Inv
<1>2. CASE eval[e].stage = "rf1_pred" /\ WriteNew(e, "rf1_pred", "rf2")
  <2>1. Owns(e)'
    BY <1>2, NewOutput DEF Inv, Owns
  <2>2. Once'
    BY <1>2, NewOutput DEF Inv, Once
  <2>3. QED
    BY <1>2, <2>1, <2>2, NewOutput DEF Inv
<1>3. CASE eval[e].stage = "rf2_pred" /\ WriteNew(e, "rf2_pred", "reports")
  <2>1. Owns(e)'
    BY <1>3, NewOutput DEF Inv, Owns
  <2>2. Once'
    BY <1>3, NewOutput DEF Inv, Once
  <2>3. QED
    BY <1>3, <2>1, <2>2, NewOutput DEF Inv
<1>4. CASE eval[e].stage = "reports" /\ WriteNew(e, "reports", "docs")
  <2>1. Owns(e)'
    BY <1>4, NewOutput DEF Inv, Owns
  <2>2. Once'
    BY <1>4, NewOutput DEF Inv, Once
  <2>3. QED
    BY <1>4, <2>1, <2>2, NewOutput DEF Inv
<1>5. CASE Conclude(e)
  <2>1. eval[e].stage = "docs" /\ WriteNew(e, "docs", "manifest")
    BY <1>5 DEF Conclude
  <2>2. Owns(e)'
    BY <2>1, NewOutput DEF Inv, Owns
  <2>3. Once'
    BY <2>1, NewOutput DEF Inv, Once
  <2>4. QED
    BY <2>1, <2>2, <2>3, NewOutput DEF Inv
<1>6. CASE eval[e].stage = "manifest" /\ WriteNew(e, "manifest", "passed")
  <2>1. Owns(e)'
    BY <1>6, NewOutput DEF Owns
  <2>2. Once'
    BY <1>6, NewOutput DEF Inv, Once
  <2>3. PassIsWhole'
    BY <1>6, NewOutput DEF Inv, Owns, PassIsWhole
  <2>4. QED
    BY <1>6, <2>1, <2>2, <2>3, NewOutput DEF Inv
<1>7. QED
  BY <1>1, <1>2, <1>3, <1>4, <1>5, <1>6 DEF Report

LEMMA InvNext == Inv /\ [Next]_vars => Inv'
BY ScriptStep, OtherStep, CleanStep, QuietStep, InferStep, WriteStep DEF Next

LEMMA InvAlways == Spec => []Inv
BY InvInit, InvNext, PTL DEF Spec

\* The final test is one-shot (evaluate_experiment_d_final.py): any number of
\* executions, killed and started again or racing each other, and any number
\* of phases cleaned, give each model one prediction of it.
THEOREM OnePrediction == Spec => []OneShot
<1>1. Inv => OneShot
  BY DEF Inv, Once, OneShot
<1>2. QED
  BY <1>1, InvAlways, PTL

\* The evaluation manifest, once there, stands beside outputs of the execution
\* that wrote it and of no other.
THEOREM PassVouches == Spec => []PassIsWhole
<1>1. Inv => PassIsWhole
  BY DEF Inv
<1>2. QED
  BY <1>1, InvAlways, PTL

-----------------------------------------------------------------------------
(* Every file is written in one place.                                     *)

\* The phase that writes a file, and when.
Home == [
  model |-> <<"d4", 1>>, metrics |-> <<"d4", 2>>, metadata |-> <<"d4", 3>>,
  training |-> <<"d4", 4>>, d4audit |-> <<"d4", 5>>, comparison |-> <<"d4", 6>>,
  freeze |-> <<"freeze", 1>>, pcap |-> <<"capture", 1>>, capture |-> <<"capture", 2>>,
  flows |-> <<"extract", 1>>, extraction |-> <<"extract", 2>>,
  labeled |-> <<"prepare", 1>>, dataset |-> <<"prepare", 2>>, distribution |-> <<"prepare", 3>>,
  leakage |-> <<"audit", 1>>, sealed |-> <<"seal", 1>>,
  rows |-> <<"d6", 1>>, rf1_pred |-> <<"d6", 2>>, rf2_pred |-> <<"d6", 3>>,
  reports |-> <<"d6", 4>>, docs |-> <<"d6", 5>>, manifest |-> <<"d6", 6>>]

LEMMA Contents ==
  /\ Outputs["d4"] = <<"model", "metrics", "metadata", "training", "d4audit", "comparison">>
  /\ Outputs["freeze"] = <<"freeze">>
  /\ Outputs["capture"] = <<"pcap", "capture">>
  /\ Outputs["extract"] = <<"flows", "extraction">>
  /\ Outputs["prepare"] = <<"labeled", "dataset", "distribution">>
  /\ Outputs["audit"] = <<"leakage">>
  /\ Outputs["seal"] = <<"sealed">>
  /\ Outputs["d6"] = <<"rows", "rf1_pred", "rf2_pred", "reports", "docs", "manifest">>
BY DEF Outputs

LEMMA Lengths ==
  /\ Len(Outputs["d4"]) = 6 /\ Len(Outputs["freeze"]) = 1 /\ Len(Outputs["capture"]) = 2
  /\ Len(Outputs["extract"]) = 2 /\ Len(Outputs["prepare"]) = 3 /\ Len(Outputs["audit"]) = 1
  /\ Len(Outputs["seal"]) = 1 /\ Len(Outputs["d6"]) = 6
  /\ \A p \in Phase : Len(Outputs[p]) \in Nat /\ DOMAIN Outputs[p] = 1 .. Len(Outputs[p])
BY Contents, PhaseNames

LEMMA AtHome ==
  ASSUME NEW p \in Phase, NEW i \in 1 .. Len(Outputs[p])
  PROVE  Outputs[p][i] \in File /\ Home[Outputs[p][i]] = <<p, i>>
<1>1. Outputs[p][i] \in File
  BY Lengths DEF File, ToSet
<1>2. CASE p = "d4"
  <2>1. i \in 1 .. 6 /\ p = "d4"
    BY <1>2, Lengths
  <2>2. QED
    BY <1>1, <2>1, Contents DEF Home
<1>3. CASE p = "capture"
  <2>1. i \in 1 .. 2 /\ p = "capture"
    BY <1>3, Lengths
  <2>2. QED
    BY <1>1, <2>1, Contents DEF Home
<1>4. CASE p = "extract"
  <2>1. i \in 1 .. 2 /\ p = "extract"
    BY <1>4, Lengths
  <2>2. QED
    BY <1>1, <2>1, Contents DEF Home
<1>5. CASE p = "prepare"
  <2>1. i \in 1 .. 3 /\ p = "prepare"
    BY <1>5, Lengths
  <2>2. QED
    BY <1>1, <2>1, Contents DEF Home
<1>6. CASE p = "freeze"
  <2>1. i \in 1 .. 1 /\ p = "freeze"
    BY <1>6, Lengths
  <2>2. QED
    BY <1>1, <2>1, Contents DEF Home
<1>7. CASE p = "audit"
  <2>1. i \in 1 .. 1 /\ p = "audit"
    BY <1>7, Lengths
  <2>2. QED
    BY <1>1, <2>1, Contents DEF Home
<1>8. CASE p = "seal"
  <2>1. i \in 1 .. 1 /\ p = "seal"
    BY <1>8, Lengths
  <2>2. QED
    BY <1>1, <2>1, Contents DEF Home
<1>9. CASE p = "d6"
  <2>1. i \in 1 .. 6 /\ p = "d6"
    BY <1>9, Lengths
  <2>2. QED
    BY <1>1, <2>1, Contents DEF Home
<1>10. QED
  BY <1>2, <1>3, <1>4, <1>5, <1>6, <1>7, <1>8, <1>9, PhaseNames

\* A phase's files are its own.
LEMMA OwnFiles ==
  ASSUME NEW p \in Phase, NEW q \in Phase,
         NEW i \in 1 .. Len(Outputs[p]), NEW j \in 1 .. Len(Outputs[q]),
         Outputs[p][i] = Outputs[q][j]
  PROVE  p = q /\ i = j
<1>1. Home[Outputs[p][i]] = <<p, i>> /\ Home[Outputs[q][j]] = <<q, j>>
  BY AtHome
<1>2. <<p, i>> = <<q, j>> => p = q /\ i = j
  OBVIOUS
<1>3. QED
  BY <1>1, <1>2

LEMMA OwnSet ==
  ASSUME NEW p \in Phase, NEW q \in Phase, NEW i \in 1 .. Len(Outputs[p])
  PROVE  Outputs[p][i] \in ToSet(Outputs[q]) <=> p = q
<1>1. ASSUME NEW k \in 1 .. Len(Outputs[q]), Outputs[p][i] = Outputs[q][k]
      PROVE  p = q
  BY <1>1, OwnFiles
<1>2. QED
  BY <1>1, Lengths DEF ToSet

-----------------------------------------------------------------------------
(* What a step does to the files.                                          *)

LeftInOrder == \A p \in Phase : LeavesPrefix(p)

\* What a script has written lies there as long as it is at work.
Begun == \A s \in Script : \A j \in 1 .. Len(Outputs[s]) : j < at[s] => file[Outputs[s][j]] # "absent"

Writes(p, i) ==
  /\ file[Outputs[p][i]] = "absent" /\ file'[Outputs[p][i]] # "absent"
  /\ \A g \in File : g # Outputs[p][i] => file'[g] = file[g]
  /\ \A j \in 1 .. Len(Outputs[p]) : j < i => file[Outputs[p][j]] # "absent"

Deletes(p) == \A f \in File : file'[f] = IF f \in ToSet(Outputs[p]) THEN "absent" ELSE file[f]

\* No script and no execution is at work.
Resting == (\A s \in Script : at[s] = 0) /\ \A e \in Eval : ~Running(e)

FileStep ==
  \/ file' = file
  \/ \E p \in Phase : \E i \in 1 .. Len(Outputs[p]) : Writes(p, i)
  \/ \E p \in Phase : Deletes(p) /\ Resting

Kinds ==
  /\ \A f \in Evidence : file[f] \in Content
  /\ \A f \in Out : file[f] \in Eval \cup {"absent"}
  /\ work \in [Script -> Content \ {"absent"}]
  /\ freezes \in Nat /\ frozenIn \in [{"labeled", "sealed"} -> 0 .. freezes]
  /\ late \subseteq Timed
  /\ \A e \in Eval : eval[e].stage \in Stage
  /\ cleans \in 0 .. MaxCleans /\ reopened \in BOOLEAN

LEMMA NewFile ==
  ASSUME Types, NEW p \in Phase, NEW i \in 1 .. Len(Outputs[p]), NEW c, c # "absent",
         file[Outputs[p][i]] = "absent", file' = [file EXCEPT ![Outputs[p][i]] = c],
         \A j \in 1 .. Len(Outputs[p]) : j < i => file[Outputs[p][j]] # "absent"
  PROVE  Writes(p, i)
<1> DEFINE f == Outputs[p][i]
<1>1. f \in File
  BY AtHome
<1>2. file[f] = "absent" /\ file' = [file EXCEPT ![f] = c]
  OBVIOUS
<1> HIDE DEF f
<1>3. file'[f] = c /\ \A g \in File : g # f => file'[g] = file[g]
  BY <1>1, <1>2 DEF Types
<1>4. QED
  BY <1>2, <1>3 DEF Writes, f

EvidenceNames ==
  {"model", "metrics", "metadata", "training", "d4audit", "comparison", "freeze", "pcap",
   "capture", "flows", "extraction", "labeled", "dataset", "distribution", "leakage", "sealed"}

LEMMA EvidenceFiles == EvidenceNames \subseteq Evidence
<1>1. /\ Outputs["d4"][1] = "model" /\ Outputs["d4"][2] = "metrics" /\ Outputs["d4"][3] = "metadata"
      /\ Outputs["d4"][4] = "training" /\ Outputs["d4"][5] = "d4audit"
      /\ Outputs["d4"][6] = "comparison"
      /\ Outputs["freeze"][1] = "freeze"
      /\ Outputs["capture"][1] = "pcap" /\ Outputs["capture"][2] = "capture"
      /\ Outputs["extract"][1] = "flows" /\ Outputs["extract"][2] = "extraction"
      /\ Outputs["prepare"][1] = "labeled" /\ Outputs["prepare"][2] = "dataset"
      /\ Outputs["prepare"][3] = "distribution"
      /\ Outputs["audit"][1] = "leakage" /\ Outputs["seal"][1] = "sealed"
  BY Contents
<1>2. ASSUME NEW p \in Phase, NEW n \in Nat, Len(Outputs[p]) = n
      PROVE  \A i \in 1 .. n : Outputs[p][i] \in File
  BY <1>2, AtHome
<1>3. /\ \A i \in 1 .. 6 : Outputs["d4"][i] \in File
      /\ \A i \in 1 .. 3 : Outputs["prepare"][i] \in File
  BY <1>2, Lengths, PhaseNames
<1>4. /\ \A i \in 1 .. 2 : Outputs["capture"][i] \in File
      /\ \A i \in 1 .. 2 : Outputs["extract"][i] \in File
  BY <1>2, Lengths, PhaseNames
<1>5. /\ \A i \in 1 .. 1 : Outputs["freeze"][i] \in File
      /\ \A i \in 1 .. 1 : Outputs["audit"][i] \in File
      /\ \A i \in 1 .. 1 : Outputs["seal"][i] \in File
  BY <1>2, Lengths, PhaseNames
<1>6. {"model", "metrics", "metadata", "training", "d4audit", "comparison", "labeled",
       "dataset", "distribution"} \subseteq File
  BY <1>1, <1>3
<1>7. {"pcap", "capture", "flows", "extraction", "freeze", "leakage", "sealed"} \subseteq File
  BY <1>1, <1>4, <1>5
<1>8. EvidenceNames \cap Out = {}
  BY OutFiles DEF OutNames, EvidenceNames
<1>9. QED
  BY <1>6, <1>7, <1>8 DEF EvidenceNames, Evidence

LEMMA KindsInit == Init => Kinds
<1> SUFFICES ASSUME Init
             PROVE  Kinds
  OBVIOUS
<1>1. \A f \in File : file[f] = "absent"
  BY DEF Init
<1>2. Evidence \subseteq File /\ Out \subseteq File
  BY OutInFile DEF Evidence
<1>3. work \in [Script -> Content \ {"absent"}]
  BY DEF Init, Content
<1>4. freezes \in Nat /\ frozenIn \in [{"labeled", "sealed"} -> 0 .. freezes]
  BY DEF Init
<1>5. \A e \in Eval : eval[e].stage \in Stage
  BY DEF Init, NotStarted, Stage
<1>6. cleans \in 0 .. MaxCleans /\ reopened \in BOOLEAN /\ late \subseteq Timed
  <2>1. cleans = 0 /\ reopened = FALSE /\ late = {}
    BY DEF Init
  <2>2. 0 \in 0 .. MaxCleans
    BY CleansAssumption
  <2>3. QED
    BY <2>1, <2>2, Zenon
<1>7. QED
  BY <1>1, <1>2, <1>3, <1>4, <1>5, <1>6 DEF Kinds, Content

LEMMA BeginKinds ==
  ASSUME Kinds, NEW s \in Script, NEW c \in Content \ {"absent"}, Begin(s, c)
  PROVE  Kinds'
<1>1. work' \in [Script -> Content \ {"absent"}]
  BY DEF Begin, Kinds
<1>2. QED
  BY <1>1 DEF Begin, Kinds

LEMMA StartKinds ==
  ASSUME Kinds, TrainStart \/ CaptureStart \/ ExtractStart \/ PrepareStart
  PROVE  Kinds'
<1>1. file["pcap"] \in Content /\ file["extraction"] \in Content
  BY EvidenceFiles DEF Kinds, EvidenceNames
<1>2. \E s \in Script : \E c \in Content \ {"absent"} : Begin(s, c)
  <2>1. CASE TrainStart
    BY <2>1 DEF TrainStart, Script, Content
  <2>2. CASE CaptureStart
    BY <2>2 DEF CaptureStart, Script, Content
  <2>3. CASE ExtractStart
    BY <2>3, <1>1 DEF ExtractStart, Exists, Script
  <2>4. CASE PrepareStart
    BY <2>4, <1>1 DEF PrepareStart, Exists, Script
  <2>5. QED
    BY <2>1, <2>2, <2>3, <2>4
<1>3. QED
  BY <1>2, BeginKinds

LEMMA ScriptFile ==
  ASSUME Types, NEW s \in Script, Write(s)
  PROVE  /\ s \in Phase /\ at[s] \in 1 .. Len(Outputs[s])
         /\ Outputs[s][at[s]] \in Evidence
<1>1. s \in Phase /\ s # "d6"
  BY PhaseNames DEF Script
<1>2. at[s] \in 1 .. Len(Outputs[s])
  BY DEF Write, Types
<1>3. QED
  BY <1>1, <1>2, AtHome, OthersKeepOut DEF Evidence

\* A file of evidence gets a content.
LEMMA EvidenceKinds ==
  ASSUME Types, Kinds, NEW f \in Evidence, NEW c \in Content, file' = [file EXCEPT ![f] = c]
  PROVE  /\ \A g \in Evidence : file'[g] \in Content
         /\ \A g \in Out : file'[g] \in Eval \cup {"absent"}
<1>1. f \in File \ Out /\ Evidence \subseteq File
  BY DEF Evidence
<1>2. QED
  BY <1>1, OutInFile DEF Types, Kinds

LEMMA WriteKinds ==
  ASSUME Types, Kinds, NEW s \in Script, Write(s)
  PROVE  Kinds'
<1> DEFINE f == Outputs[s][at[s]]
<1>1. f \in Evidence /\ file' = [file EXCEPT ![f] = work[s]] /\ work[s] \in Content
  BY ScriptFile DEF Write, Kinds
<1>2. /\ work' = work \/ work' = [work EXCEPT ![s] = "other"]
      /\ late' = late \cup ({f} \cap Timed)
      /\ frozenIn' = frozenIn \/ frozenIn' = [frozenIn EXCEPT !.labeled = freezes]
      /\ UNCHANGED <<freezes, eval, inferred, cleans, reopened>>
  BY DEF Write, Leave
<1> HIDE DEF f
<1>3. /\ \A g \in Evidence : file'[g] \in Content
      /\ \A g \in Out : file'[g] \in Eval \cup {"absent"}
  BY <1>1, EvidenceKinds
<1>4. work' \in [Script -> Content \ {"absent"}]
  BY <1>2 DEF Kinds, Content
<1>5. frozenIn' \in [{"labeled", "sealed"} -> 0 .. freezes']
  <2>1. freezes \in 0 .. freezes /\ frozenIn \in [{"labeled", "sealed"} -> 0 .. freezes]
    BY DEF Kinds
  <2>2. QED
    BY <1>2, <2>1
<1>6. late' \subseteq Timed
  BY <1>2 DEF Kinds
<1>7. QED
  BY <1>2, <1>3, <1>4, <1>5, <1>6 DEF Kinds

LEMMA OneFileKinds ==
  ASSUME Types, Kinds, Freeze \/ Audit \/ Seal
  PROVE  Kinds'
<1>0. {"freeze", "leakage", "sealed", "model", "labeled"} \subseteq Evidence
  BY EvidenceFiles DEF EvidenceNames
<1>1. CASE Freeze
  <2>1. file' = [file EXCEPT !["freeze"] = file["model"]] /\ file["model"] \in Content
    BY <1>0, <1>1 DEF Freeze, Kinds
  <2>2. /\ \A g \in Evidence : file'[g] \in Content
        /\ \A g \in Out : file'[g] \in Eval \cup {"absent"}
    BY <1>0, <2>1, EvidenceKinds
  <2>3. freezes' \in Nat /\ frozenIn' \in [{"labeled", "sealed"} -> 0 .. freezes']
    <3>1. frozenIn' = frozenIn /\ freezes' = freezes + 1
      BY <1>1 DEF Freeze
    <3>2. freezes \in Nat /\ 0 .. freezes \subseteq 0 .. freezes'
      BY <3>1 DEF Kinds
    <3>3. QED
      BY <3>1, <3>2 DEF Kinds
  <2>4. QED
    BY <1>1, <2>2, <2>3 DEF Freeze, Kinds
<1>2. CASE Audit
  <2>1. file' = [file EXCEPT !["leakage"] = file["labeled"]] /\ file["labeled"] \in Content
    BY <1>0, <1>2 DEF Audit, Audited, Kinds
  <2>2. /\ \A g \in Evidence : file'[g] \in Content
        /\ \A g \in Out : file'[g] \in Eval \cup {"absent"}
    BY <1>0, <2>1, EvidenceKinds
  <2>3. QED
    BY <1>2, <2>2 DEF Audit, Audited, Kinds
<1>3. CASE Seal
  <2>1. file' = [file EXCEPT !["sealed"] = file["labeled"]] /\ file["labeled"] \in Content
    BY <1>0, <1>3 DEF Seal, Kinds
  <2>2. /\ \A g \in Evidence : file'[g] \in Content
        /\ \A g \in Out : file'[g] \in Eval \cup {"absent"}
    BY <1>0, <2>1, EvidenceKinds
  <2>3. frozenIn' \in [{"labeled", "sealed"} -> 0 .. freezes]
    <3>1. frozenIn' = [frozenIn EXCEPT !.sealed = frozenIn.labeled]
      BY <1>3 DEF Seal
    <3>2. frozenIn.labeled \in 0 .. freezes
      BY DEF Kinds
    <3>3. QED
      BY <3>1, <3>2 DEF Kinds
  <2>4. QED
    BY <1>3, <2>2, <2>3 DEF Seal, Kinds
<1>4. QED
  BY <1>1, <1>2, <1>3

LEMMA NewStage ==
  ASSUME Types, NEW e \in Eval, NEW f, NEW next, WriteNew(e, f, next)
  PROVE  /\ \A o \in Eval : o # e => eval'[o] = eval[o]
         /\ eval'[e].stage = next /\ eval'[e].rf2 = eval[e].rf2
         /\ eval'[e].data \in {eval[e].data, file["flows"]}
<1>1. PICK d \in {eval[e].data, file["flows"]} :
        eval' = [eval EXCEPT ![e] = [[eval[e] EXCEPT !.stage = next] EXCEPT !.data = d]]
  <2>1. eval' = [eval EXCEPT ![e].stage = next,
                             ![e].data = IF f = "rows" THEN file["flows"] ELSE @]
    BY DEF WriteNew
  <2>2. CASE f = "rows"
    BY <2>1, <2>2 DEF Types
  <2>3. CASE f # "rows"
    BY <2>1, <2>3 DEF Types
  <2>4. QED
    BY <2>2, <2>3
<1>2. /\ \A o \in Eval : o # e => eval'[o] = eval[o]
      /\ eval'[e] = [[eval[e] EXCEPT !.stage = next] EXCEPT !.data = d]
  BY <1>1 DEF Types
<1>3. eval'[e] = [stage |-> next, before |-> eval[e].before, data |-> d, rf2 |-> eval[e].rf2]
  BY <1>2 DEF Types
<1>4. QED
  BY <1>2, <1>3

\* The stage an execution goes to is a stage, and its file one of its own.
LEMMA EvalKinds ==
  ASSUME Types, Kinds, NEW e \in Eval,
         \/ Gate(e) \/ Infer1(e) \/ Infer2(e) \/ EvalEnds(e)
         \/ BuildMatrix(e) \/ Report(e) \/ Conclude(e)
  PROVE  Kinds'
<1>1. CASE Gate(e) \/ Infer1(e) \/ Infer2(e) \/ EvalEnds(e)
  <2>1. /\ \A o \in Eval : o # e => eval'[o] = eval[o]
        /\ eval'[e].stage \in {"rows", "rf1_pred", "rf2_pred", "ended"}
    BY <1>1 DEF Gate, Infer1, Infer2, EvalEnds, Goto, NotStarted, Types
  <2>2. \A o \in Eval : eval'[o].stage \in Stage
    BY <2>1 DEF Kinds, Stage
  <2>3. UNCHANGED <<file, work, freezes, frozenIn, late, cleans, reopened>>
    BY <1>1 DEF Gate, Infer1, Infer2, EvalEnds
  <2>4. QED
    BY <2>2, <2>3 DEF Kinds
<1>2. ASSUME NEW f \in Out, NEW next \in Stage, WriteNew(e, f, next)
      PROVE  Kinds'
  <2>1. /\ \A o \in Eval : o # e => eval'[o] = eval[o]
        /\ eval'[e].stage = next
    BY <1>2, NewStage
  <2>2. \A o \in Eval : eval'[o].stage \in Stage
    BY <2>1 DEF Kinds
  <2>3. /\ \A g \in Evidence : file'[g] \in Content
        /\ \A g \in Out : file'[g] \in Eval \cup {"absent"}
    <3>1. file' = [file EXCEPT ![f] = e] /\ f \in File /\ f \notin Evidence
      BY <1>2, OutInFile DEF WriteNew, Evidence
    <3>2. Evidence \subseteq File /\ Out \subseteq File
      BY OutInFile DEF Evidence
    <3>3. QED
      BY <3>1, <3>2 DEF Types, Kinds
  <2>4. UNCHANGED <<work, freezes, frozenIn, late, cleans, reopened>>
    BY <1>2 DEF WriteNew
  <2>5. QED
    BY <2>2, <2>3, <2>4 DEF Kinds
<1>3. CASE BuildMatrix(e) \/ Report(e) \/ Conclude(e)
  <2>1. \E f \in Out : \E next \in Stage : WriteNew(e, f, next)
    BY <1>3, OutFiles DEF BuildMatrix, Report, Conclude, OutNames, Stage
  <2>2. QED
    BY <1>2, <2>1
<1>4. QED
  BY <1>1, <1>3

LEMMA KindsStep ==
  ASSUME Types, Kinds, [Next]_vars
  PROVE  Kinds'
<1>1. ASSUME NEW s \in Script, Abort(s)
      PROVE  Kinds'
  <2>1. work' = [work EXCEPT ![s] = "other"]
    BY <1>1 DEF Abort, Leave
  <2>2. work' \in [Script -> Content \ {"absent"}]
    BY <2>1 DEF Kinds, Content
  <2>3. QED
    BY <1>1, <2>2 DEF Abort, Kinds
<1>2. ASSUME NEW p \in Phase, Clean(p)
      PROVE  Kinds'
  <2>1. \A f \in File : file'[f] \in {file[f], "absent"}
    BY <1>2 DEF Clean
  <2>2. Evidence \subseteq File /\ Out \subseteq File
    BY OutInFile DEF Evidence
  <2>3. /\ \A g \in Evidence : file'[g] \in Content
        /\ \A g \in Out : file'[g] \in Eval \cup {"absent"}
    BY <2>1, <2>2 DEF Kinds, Content
  <2>4. cleans' \in 0 .. MaxCleans
    <3>1. cleans' = cleans + 1 /\ cleans < MaxCleans
      BY <1>2 DEF Clean
    <3>2. cleans \in 0 .. MaxCleans
      BY DEF Kinds
    <3>3. QED
      BY <3>1, <3>2, CleansAssumption
  <2>5. reopened' \in BOOLEAN
    BY <1>2 DEF Clean, Kinds
  <2>6. UNCHANGED <<work, freezes, frozenIn, late, eval>>
    BY <1>2 DEF Clean
  <2>7. QED
    BY <2>3, <2>4, <2>5, <2>6 DEF Kinds
<1>3. CASE ReplaceRf1 \/ UNCHANGED vars
  BY <1>3 DEF ReplaceRf1, vars, Kinds
<1>4. QED
  BY <1>1, <1>2, <1>3, StartKinds, WriteKinds, OneFileKinds, EvalKinds DEF Next

LEMMA OneOutput ==
  ASSUME Types, NEW p \in {"freeze", "audit", "seal"}, NEW f, Outputs[p] = <<f>>,
         NEW c, c # "absent", file[f] = "absent", file' = [file EXCEPT ![f] = c]
  PROVE  FileStep
<1>1. p \in Phase /\ Len(Outputs[p]) = 1 /\ Outputs[p][1] = f
  BY PhaseNames
<1>2. 1 \in 1 .. Len(Outputs[p]) /\ \A j \in 1 .. Len(Outputs[p]) : ~(j < 1)
  BY <1>1
<1>3. Writes(p, 1)
  BY <1>1, <1>2, NewFile
<1>4. QED
  BY <1>1, <1>2, <1>3 DEF FileStep

\* An execution writes its outputs in order.
LEMMA EvalFile ==
  ASSUME Inv, NEW e \in Eval, NEW i \in 1 .. 6, NEW next, WriteNew(e, Outputs["d6"][i], next),
         \A j \in 1 .. 6 : j < i => file[Outputs["d6"][j]] = e
  PROVE  FileStep
<1>1. "d6" \in Phase /\ Len(Outputs["d6"]) = 6
  BY Lengths, PhaseNames
<1>2. e # "absent"
  BY EvalAssumption
<1>3. file[Outputs["d6"][i]] = "absent" /\ file' = [file EXCEPT ![Outputs["d6"][i]] = e]
  BY DEF WriteNew
<1>4. /\ i \in 1 .. Len(Outputs["d6"])
      /\ \A j \in 1 .. Len(Outputs["d6"]) : j < i => file[Outputs["d6"][j]] # "absent"
  BY <1>1, <1>2
<1>5. Writes("d6", i)
  <2>1. Types
    BY DEF Inv
  <2>2. QED
    BY <1>1, <1>2, <1>3, <1>4, <2>1, NewFile, Zenon
<1>6. QED
  BY <1>1, <1>4, <1>5 DEF FileStep

LEMMA EvalFiles ==
  ASSUME Inv, NEW e \in Eval, BuildMatrix(e) \/ Report(e) \/ Conclude(e)
  PROVE  FileStep
<1>0. /\ Outputs["d6"][1] = "rows" /\ Outputs["d6"][2] = "rf1_pred"
      /\ Outputs["d6"][3] = "rf2_pred" /\ Outputs["d6"][4] = "reports"
      /\ Outputs["d6"][5] = "docs" /\ Outputs["d6"][6] = "manifest"
  BY Contents
<1>1. CASE BuildMatrix(e)
  BY <1>0, <1>1, EvalFile DEF BuildMatrix
<1>2. CASE eval[e].stage = "rf1_pred" /\ WriteNew(e, "rf1_pred", "rf2")
  <2>1. \A j \in 1 .. 6 : j < 2 => file[Outputs["d6"][j]] = e
    BY <1>0, <1>2 DEF Inv, Owns
  <2>2. QED
    BY <1>0, <1>2, <2>1, EvalFile
<1>3. CASE eval[e].stage = "rf2_pred" /\ WriteNew(e, "rf2_pred", "reports")
  <2>1. \A j \in 1 .. 6 : j < 3 => file[Outputs["d6"][j]] = e
    BY <1>0, <1>3 DEF Inv, Owns
  <2>2. QED
    BY <1>0, <1>3, <2>1, EvalFile
<1>4. CASE eval[e].stage = "reports" /\ WriteNew(e, "reports", "docs")
  <2>1. \A j \in 1 .. 6 : j < 4 => file[Outputs["d6"][j]] = e
    BY <1>0, <1>4 DEF Inv, Owns
  <2>2. QED
    BY <1>0, <1>4, <2>1, EvalFile
<1>5. CASE Conclude(e)
  <2>1. eval[e].stage = "docs" /\ WriteNew(e, "docs", "manifest")
    BY <1>5 DEF Conclude
  <2>2. \A j \in 1 .. 6 : j < 5 => file[Outputs["d6"][j]] = e
    BY <1>0, <2>1 DEF Inv, Owns
  <2>3. QED
    BY <1>0, <2>1, <2>2, EvalFile
<1>6. CASE eval[e].stage = "manifest" /\ WriteNew(e, "manifest", "passed")
  <2>1. \A j \in 1 .. 6 : j < 6 => file[Outputs["d6"][j]] = e
    BY <1>0, <1>6 DEF Inv, Owns
  <2>2. QED
    BY <1>0, <1>6, <2>1, EvalFile
<1>7. QED
  BY <1>1, <1>2, <1>3, <1>4, <1>5, <1>6 DEF Report

LEMMA ScriptWrites ==
  ASSUME Types, Kinds, Begun, NEW s \in Script, Write(s)
  PROVE  Writes(s, at[s])
<1>1. s \in Phase /\ at[s] \in 1 .. Len(Outputs[s])
  BY ScriptFile
<1>2. /\ file[Outputs[s][at[s]]] = "absent" /\ work[s] # "absent"
      /\ file' = [file EXCEPT ![Outputs[s][at[s]]] = work[s]]
  BY DEF Write, Kinds
<1>3. \A j \in 1 .. Len(Outputs[s]) : j < at[s] => file[Outputs[s][j]] # "absent"
  BY DEF Begun
<1>4. QED
  BY <1>1, <1>2, <1>3, NewFile

LEMMA FileSteps ==
  ASSUME Inv, Kinds, Begun, [Next]_vars
  PROVE  FileStep
<1>1. CASE \/ TrainStart \/ CaptureStart \/ ExtractStart \/ PrepareStart \/ UNCHANGED vars
           \/ ReplaceRf1
           \/ \E s \in Script : Abort(s)
           \/ \E e \in Eval : Gate(e) \/ Infer1(e) \/ Infer2(e) \/ EvalEnds(e)
  <2>1. file' = file
    BY <1>1 DEF TrainStart, CaptureStart, ExtractStart, PrepareStart, Begin, vars, Abort, Gate,
                ReplaceRf1, Infer1, Infer2, EvalEnds
  <2>2. QED
    BY <2>1 DEF FileStep
<1>2. ASSUME NEW s \in Script, Write(s)
      PROVE  FileStep
  BY <1>2, ScriptFile, ScriptWrites DEF FileStep, Inv
<1>3. CASE Freeze
  <2>1. /\ file["freeze"] = "absent" /\ file["model"] = "pinned"
        /\ file' = [file EXCEPT !["freeze"] = file["model"]]
    BY <1>3 DEF Freeze, Absent
  <2>2. QED
    BY <2>1, Contents, OneOutput DEF Inv
<1>4. CASE Audit
  <2>1. /\ file["leakage"] = "absent" /\ file["labeled"] # "absent"
        /\ file' = [file EXCEPT !["leakage"] = file["labeled"]]
    BY <1>4 DEF Audit, Audited, Absent, Exists
  <2>2. QED
    BY <2>1, Contents, OneOutput DEF Inv
<1>5. CASE Seal
  <2>1. /\ file["sealed"] = "absent" /\ file["labeled"] # "absent"
        /\ file' = [file EXCEPT !["sealed"] = file["labeled"]]
    BY <1>5 DEF Seal, Absent, Exists
  <2>2. QED
    BY <2>1, Contents, OneOutput DEF Inv
<1>6. ASSUME NEW p \in Phase, Clean(p)
      PROVE  FileStep
  <2>1. Deletes(p) /\ Resting
    BY <1>6 DEF Clean, Deletes, Resting
  <2>2. QED
    BY <2>1 DEF FileStep
<1>7. QED
  BY <1>1, <1>2, <1>3, <1>4, <1>5, <1>6, EvalFiles DEF Next

\* What exists stays, but for a deletion, which waits for everybody.
LEMMA Stays ==
  ASSUME FileStep, NEW f \in File, file[f] # "absent"
  PROVE  file'[f] = file[f] \/ Resting
<1>1. CASE file' = file
  BY <1>1
<1>2. ASSUME NEW p \in Phase, NEW i \in 1 .. Len(Outputs[p]), Writes(p, i)
      PROVE  file'[f] = file[f]
  BY <1>2 DEF Writes
<1>3. QED
  BY <1>1, <1>2 DEF FileStep

LEMMA PrefixesStep ==
  ASSUME LeftInOrder, FileStep
  PROVE  LeftInOrder'
<1> SUFFICES ASSUME NEW p \in Phase, NEW i \in 1 .. Len(Outputs[p]), NEW j \in 1 .. Len(Outputs[p]),
                    i < j, file'[Outputs[p][j]] # "absent"
             PROVE  file'[Outputs[p][i]] # "absent"
  BY Lengths DEF LeftInOrder, LeavesPrefix, Exists
<1>0. Outputs[p][i] \in File /\ Outputs[p][j] \in File
  BY AtHome
<1>1. file[Outputs[p][j]] # "absent" => file[Outputs[p][i]] # "absent"
  BY Lengths DEF LeftInOrder, LeavesPrefix, Exists
<1>2. CASE file' = file
  BY <1>1, <1>2
<1>3. ASSUME NEW q \in Phase, NEW k \in 1 .. Len(Outputs[q]), Writes(q, k)
      PROVE  file'[Outputs[p][i]] # "absent"
  <2>1. CASE Outputs[p][j] = Outputs[q][k]
    <3>1. p = q /\ j = k
      BY <2>1, OwnFiles
    <3>2. file[Outputs[p][i]] # "absent" /\ Outputs[p][i] # Outputs[p][j]
      BY <1>3, <3>1, OwnFiles DEF Writes
    <3>3. QED
      BY <1>0, <1>3, <2>1, <3>2 DEF Writes
  <2>2. CASE Outputs[p][j] # Outputs[q][k]
    <3>1. file[Outputs[p][i]] # "absent"
      BY <1>0, <1>1, <1>3, <2>2 DEF Writes
    <3>2. QED
      BY <1>0, <1>3, <3>1 DEF Writes
  <2>3. QED
    BY <2>1, <2>2
<1>4. ASSUME NEW q \in Phase, Deletes(q)
      PROVE  file'[Outputs[p][i]] # "absent"
  <2>1. Outputs[p][j] \notin ToSet(Outputs[q]) /\ file[Outputs[p][j]] # "absent"
    BY <1>0, <1>4 DEF Deletes
  <2>2. Outputs[p][i] \notin ToSet(Outputs[q])
    BY <2>1, OwnSet
  <2>3. QED
    BY <1>0, <1>1, <1>4, <2>1, <2>2 DEF Deletes
<1>5. QED
  BY <1>2, <1>3, <1>4 DEF FileStep

\* A script starts, goes on to its next output, or leaves.
LEMMA AtStep ==
  ASSUME Types, [Next]_vars, NEW s \in Script, at'[s] # at[s], at'[s] # 0
  PROVE  \/ Write(s) /\ at'[s] = at[s] + 1
         \/ /\ at[s] = 0 /\ at'[s] = 1
            /\ s = "d4" => TrainStart
            /\ s = "prepare" => PrepareStart
<1>1. ASSUME NEW t \in Script, NEW c, Begin(t, c), at'[s] # at[s]
      PROVE  t = s /\ at[s] = 0 /\ at'[s] = 1
  BY <1>1 DEF Begin, Types
<1>2. ASSUME NEW t \in Script, Abort(t)
      PROVE  FALSE
  BY <1>2 DEF Abort, Leave, Types
<1>3. ASSUME NEW t \in Script, Write(t)
      PROVE  t = s /\ at'[s] = at[s] + 1
  BY <1>3 DEF Write, Leave, Types
<1>4. CASE TrainStart
  BY <1>1, <1>4 DEF TrainStart, Script
<1>5. CASE CaptureStart
  BY <1>1, <1>5 DEF CaptureStart, Script
<1>6. CASE ExtractStart
  BY <1>1, <1>6 DEF ExtractStart, Script
<1>7. CASE PrepareStart
  BY <1>1, <1>7 DEF PrepareStart, Script
<1>8. CASE Freeze \/ Audit \/ Seal \/ ReplaceRf1 \/ (\E p \in Phase : Clean(p)) \/ UNCHANGED vars
  BY <1>8 DEF Freeze, Audit, Audited, Seal, ReplaceRf1, Clean, vars
<1>9. CASE \E e \in Eval : \/ Gate(e) \/ BuildMatrix(e) \/ Infer1(e) \/ Infer2(e)
                           \/ Report(e) \/ Conclude(e) \/ EvalEnds(e)
  BY <1>9 DEF Gate, BuildMatrix, Infer1, Infer2, Report, Conclude, EvalEnds, WriteNew
<1>10. QED
  BY <1>2, <1>3, <1>4, <1>5, <1>6, <1>7, <1>8, <1>9 DEF Next

LEMMA BegunStep ==
  ASSUME Types, Kinds, Begun, FileStep, [Next]_vars
  PROVE  Begun'
<1> SUFFICES ASSUME NEW s \in Script, NEW j \in 1 .. Len(Outputs[s]), j < at'[s]
             PROVE  file'[Outputs[s][j]] # "absent"
  BY DEF Begun
<1>0. s \in Phase /\ Outputs[s][j] \in File /\ at[s] \in Nat
  BY AtHome, PhaseNames DEF Script, Types
<1>1. CASE j < at[s]
  <2>1. file[Outputs[s][j]] # "absent" /\ at[s] # 0
    BY <1>0, <1>1 DEF Begun
  <2>2. QED
    BY <1>0, <2>1, Stays DEF Resting
<1>2. CASE ~(j < at[s])
  <2>1. at'[s] # at[s] /\ at'[s] # 0 /\ at'[s] # 1
    BY <1>0, <1>2
  <2>2. Write(s) /\ at'[s] = at[s] + 1
    BY <2>1, AtStep
  <2>3. j = at[s]
    BY <1>0, <1>2, <2>2
  <2>4. QED
    BY <2>2, <2>3, ScriptWrites DEF Writes
<1>3. QED
  BY <1>1, <1>2

-----------------------------------------------------------------------------
(* Before the final test is labelled the model is frozen.                  *)

\* A fit starts when there is neither model nor final test; it has written
\* the model first, since when there is something late.
Fitting == at["d4"] > 0 =>
  /\ \A j \in 1 .. 6 : j >= at["d4"] => file[Outputs["d4"][j]] = "absent"
  /\ at["d4"] > 1 => late # {}
  /\ at["d4"] = 1 => file["labeled"] = "absent"

\* Labelling starts with a model and with no audit of an earlier set.
Preparing == at["prepare"] > 0 =>
  /\ file["model"] # "absent"
  /\ at["prepare"] = 1 => file["leakage"] = "absent" /\ file["labeled"] = "absent"

\* The set that was audited is of a model that was frozen first.
AuditedFirst == file["leakage"] # "absent" => late = {} \/ file["labeled"] = "absent"

\* What an execution has yet to read stays what the gate saw.
Held == \A e \in Eval :
  Running(e) => late = {} /\ file["flows"] = "pinned" /\ file["model"] = "pinned"

Frozen == Fitting /\ Preparing /\ AuditedFirst /\ Held /\ PredictsPinned

LEMMA FrozenInit == Init => Kinds /\ LeftInOrder /\ Begun /\ Frozen
<1> SUFFICES ASSUME Init
             PROVE  LeftInOrder /\ Begun /\ Frozen
  BY KindsInit
<1>1. \A f \in File : file[f] = "absent"
  BY DEF Init
<1>2. LeftInOrder
  <2>1. \A p \in Phase : \A j \in DOMAIN Outputs[p] : file[Outputs[p][j]] = "absent"
    BY <1>1, AtHome, Lengths
  <2>2. QED
    BY <2>1 DEF LeftInOrder, LeavesPrefix, Exists
<1>3. \A s \in Script : at[s] = 0
  BY DEF Init
<1>4. Begun
  BY <1>3 DEF Begun
<1>5. Fitting /\ Preparing
  BY <1>3 DEF Fitting, Preparing, Script
<1>6. AuditedFirst /\ Held /\ PredictsPinned
  BY DEF Init, AuditedFirst, Held, Running, PredictsPinned, NotStarted
<1>7. QED
  BY <1>2, <1>4, <1>5, <1>6 DEF Frozen

\* Each file has one writer.
LEMMA Appears ==
  ASSUME Inv, Kinds, Begun, [Next]_vars, NEW p \in Phase, NEW i \in 1 .. Len(Outputs[p]),
         file[Outputs[p][i]] = "absent", file'[Outputs[p][i]] # "absent"
  PROVE  /\ p \in Script => Write(p) /\ at[p] = i
         /\ p = "audit" => Audit
<1> DEFINE f == Outputs[p][i]
<1>0. f \in File
  BY AtHome
<1>1. CASE \/ TrainStart \/ CaptureStart \/ ExtractStart \/ PrepareStart \/ UNCHANGED vars
           \/ ReplaceRf1
           \/ \E s \in Script : Abort(s)
           \/ \E e \in Eval : Gate(e) \/ Infer1(e) \/ Infer2(e) \/ EvalEnds(e)
  <2>1. file' = file
    BY <1>1 DEF TrainStart, CaptureStart, ExtractStart, PrepareStart, Begin, vars, Abort, Gate,
                ReplaceRf1, Infer1, Infer2, EvalEnds
  <2>2. QED
    BY <2>1
<1>2. ASSUME NEW s \in Script, Write(s)
      PROVE  p = s /\ at[p] = i
  <2>1. s \in Phase /\ at[s] \in 1 .. Len(Outputs[s]) /\ Writes(s, at[s])
    BY <1>2, ScriptFile, ScriptWrites DEF Inv
  <2>2. f = Outputs[s][at[s]]
    BY <1>0, <2>1 DEF Writes
  <2>3. QED
    BY <2>1, <2>2, OwnFiles
<1>3. ASSUME NEW q \in {"freeze", "audit", "seal"}, NEW c,
             file' = [file EXCEPT ![Outputs[q][1]] = c]
      PROVE  p = q
  <2>1. q \in Phase /\ 1 \in 1 .. Len(Outputs[q])
    <3>1. q \in Phase /\ Len(Outputs[q]) = 1
      BY <1>3, Lengths, PhaseNames
    <3>2. QED
      BY <3>1
  <2>2. f = Outputs[q][1]
    <3> DEFINE g == Outputs[q][1]
    <3>1. g \in File /\ file' = [file EXCEPT ![g] = c]
      BY <2>1, <1>3, AtHome
    <3> HIDE DEF g, f
    <3>2. f # g => file'[f] = file[f]
      BY <1>0, <3>1 DEF Inv, Types
    <3>3. QED
      BY <3>2 DEF f, g
  <2>3. QED
    BY <2>1, <2>2, OwnFiles
<1>4. "freeze" \notin Script /\ "audit" \notin Script /\ "seal" \notin Script
  BY DEF Script
<1>5. CASE Freeze
  <2>1. file' = [file EXCEPT ![Outputs["freeze"][1]] = file["model"]]
    BY <1>5, Contents DEF Freeze
  <2>2. QED
    BY <1>3, <1>4, <2>1
<1>6. CASE Audit
  <2>1. file' = [file EXCEPT ![Outputs["audit"][1]] = file["labeled"]]
    BY <1>6, Contents DEF Audit, Audited
  <2>2. QED
    BY <1>3, <1>4, <1>6, <2>1
<1>7. CASE Seal
  <2>1. file' = [file EXCEPT ![Outputs["seal"][1]] = file["labeled"]]
    BY <1>7, Contents DEF Seal
  <2>2. QED
    BY <1>3, <1>4, <2>1
<1>8. ASSUME NEW e \in Eval, BuildMatrix(e) \/ Report(e) \/ Conclude(e)
      PROVE  p = "d6"
  <2>1. PICK g \in Out : file' = [file EXCEPT ![g] = e]
    BY <1>8, OutFiles DEF BuildMatrix, Report, Conclude, WriteNew, OutNames
  <2> HIDE DEF f
  <2>2. f = g
    BY <1>0, <2>1, OutInFile DEF Inv, Types, f
  <2>3. f \in Out
    BY <2>2
  <2>4. QED
    BY <2>3, OthersKeepOut DEF f
<1>9. ASSUME NEW q \in Phase, Clean(q)
      PROVE  FALSE
  <2>1. file'[f] \in {file[f], "absent"}
    BY <1>0, <1>9 DEF Clean
  <2>2. QED
    BY <2>1
<1>10. "d6" \notin Script
  BY DEF Script
<1>11. QED
  BY <1>1, <1>2, <1>4, <1>5, <1>6, <1>7, <1>8, <1>9, <1>10 DEF Next

\* Only a fit makes anything late, and only a freeze makes it the past.
LEMMA LateStep ==
  ASSUME Types, [Next]_vars, late' # late
  PROVE  \/ Freeze /\ late' = {}
         \/ Write("d4") /\ late' # {}
<1>1. ASSUME NEW s \in Script, Write(s)
      PROVE  s = "d4" /\ late' # {}
  <2> DEFINE f == Outputs[s][at[s]]
  <2>1. s \in Phase /\ at[s] \in 1 .. Len(Outputs[s])
    BY <1>1, ScriptFile
  <2>2. f \in Timed /\ late' # {}
    <3>1. late' = late \cup ({f} \cap Timed)
      BY <1>1 DEF Write
    <3> HIDE DEF f
    <3>2. QED
      BY <3>1
  <2>3. Home[f] = <<s, at[s]>> /\ Home[f][1] = "d4"
    <3>1. Home[f] = <<s, at[s]>>
      BY <2>1, AtHome
    <3> HIDE DEF f
    <3>2. QED
      BY <3>1, <2>2 DEF Timed, Home
  <2>4. QED
    BY <2>2, <2>3
<1>2. ASSUME NEW s \in Script, Begin(s, "pinned") \/ Begin(s, "other") \/ Begin(s, "invalid")
                               \/ Begin(s, file["pcap"]) \/ Abort(s)
      PROVE  FALSE
  BY <1>2 DEF Begin, Abort
<1>3. CASE TrainStart \/ CaptureStart \/ ExtractStart \/ PrepareStart
  BY <1>2, <1>3 DEF TrainStart, CaptureStart, ExtractStart, PrepareStart, Script
<1>4. CASE Freeze
  BY <1>4 DEF Freeze
<1>5. CASE Audit \/ Seal \/ ReplaceRf1 \/ (\E p \in Phase : Clean(p)) \/ UNCHANGED vars
  BY <1>5 DEF Audit, Audited, Seal, ReplaceRf1, Clean, vars
<1>6. CASE \E e \in Eval : \/ Gate(e) \/ BuildMatrix(e) \/ Infer1(e) \/ Infer2(e)
                           \/ Report(e) \/ Conclude(e) \/ EvalEnds(e)
  BY <1>6 DEF Gate, BuildMatrix, Infer1, Infer2, Report, Conclude, EvalEnds, WriteNew
<1>7. QED
  BY <1>1, <1>2, <1>3, <1>4, <1>5, <1>6 DEF Next

LEMMA Named ==
  /\ Outputs["d4"][1] = "model" /\ Outputs["d4"][6] = "comparison"
  /\ Outputs["prepare"][1] = "labeled" /\ Outputs["prepare"][2] = "dataset"
  /\ Outputs["audit"][1] = "leakage"
  /\ "d4" \in Phase /\ "prepare" \in Phase /\ "audit" \in Phase
  /\ "d4" \in Script /\ "prepare" \in Script /\ "d4" # "prepare"
  /\ {"model", "comparison", "labeled", "dataset", "leakage", "flows", "sealed"} \subseteq File
<1>1. {"model", "comparison", "labeled", "dataset", "leakage", "flows", "sealed"} \subseteq File
  BY EvidenceFiles DEF EvidenceNames, Evidence
<1>2. QED
  BY <1>1, Contents, PhaseNames DEF Script

\* The label file appears by a labelling at its first output, the audit by
\* Audit, a file of the fit by the fit at that output.
LEMMA Writers ==
  ASSUME Inv, Kinds, Begun, [Next]_vars
  PROVE  /\ file["labeled"] = "absent" /\ file'["labeled"] # "absent"
              => Write("prepare") /\ at["prepare"] = 1
         /\ file["leakage"] = "absent" /\ file'["leakage"] # "absent" => Audit
         /\ \A j \in 1 .. 6 : file[Outputs["d4"][j]] = "absent" /\ file'[Outputs["d4"][j]] # "absent"
              => Write("d4") /\ at["d4"] = j
<1>1. /\ Outputs["prepare"][1] = "labeled" /\ 1 \in 1 .. Len(Outputs["prepare"])
      /\ Outputs["audit"][1] = "leakage" /\ 1 \in 1 .. Len(Outputs["audit"])
      /\ 1 .. Len(Outputs["d4"]) = 1 .. 6
  <2>1. Len(Outputs["prepare"]) = 3 /\ Len(Outputs["audit"]) = 1 /\ Len(Outputs["d4"]) = 6
    BY Lengths
  <2>2. QED
    BY <2>1, Named
<1>2. file["labeled"] = "absent" /\ file'["labeled"] # "absent"
        => Write("prepare") /\ at["prepare"] = 1
  BY <1>1, Named, Appears
<1>3. file["leakage"] = "absent" /\ file'["leakage"] # "absent" => Audit
  BY <1>1, Named, Appears
<1>4. \A j \in 1 .. 6 : file[Outputs["d4"][j]] = "absent" /\ file'[Outputs["d4"][j]] # "absent"
        => Write("d4") /\ at["d4"] = j
  BY <1>1, Named, Appears
<1>5. QED
  BY <1>2, <1>3, <1>4

LEMMA FittingStep ==
  ASSUME Inv, Kinds, Begun, Fitting, Preparing, [Next]_vars
  PROVE  Fitting'
<1>0. at["d4"] \in Nat /\ at["prepare"] \in Nat
  BY Named DEF Inv, Types
<1>1. CASE at'["d4"] = 0
  BY <1>1 DEF Fitting
<1>2. CASE at'["d4"] = at["d4"] /\ at["d4"] > 0
  <2>1. ~Write("d4")
    BY <1>0, <1>2, Named DEF Write, Leave, Inv, Types
  <2>2. \A j \in 1 .. 6 : j >= at["d4"] => file'[Outputs["d4"][j]] = "absent"
    BY <1>2, <2>1, Writers DEF Fitting
  <2>3. at["d4"] > 1 => late' # {}
    <3>1. SUFFICES ASSUME at["d4"] > 1, late' = {}
                   PROVE  FALSE
      OBVIOUS
    <3>2. late # {} /\ file["comparison"] = "absent"
      <4>1. at["d4"] <= 6
        BY Named, Lengths DEF Inv, Types
      <4>2. file[Outputs["d4"][6]] = "absent" /\ late # {}
        BY <1>2, <3>1, <4>1 DEF Fitting
      <4>3. QED
        BY <4>2, Named
    <3>3. Freeze
      BY <2>1, <3>1, <3>2, LateStep DEF Inv
    <3>4. "comparison" \in ToSet(Outputs.d4) \ {"metrics"}
      <4>1. 6 \in DOMAIN Outputs["d4"] /\ Outputs["d4"][6] = "comparison"
        BY Contents
      <4>2. "comparison" \in ToSet(Outputs["d4"])
        BY <4>1 DEF ToSet
      <4>3. QED
        BY <4>2
    <3>5. QED
      BY <3>2, <3>3, <3>4 DEF Freeze, Exists
  <2>4. at["d4"] = 1 => file'["labeled"] = "absent"
    <3>1. SUFFICES ASSUME at["d4"] = 1, file'["labeled"] # "absent"
                   PROVE  FALSE
      OBVIOUS
    <3>2. file["labeled"] = "absent" /\ file["model"] = "absent"
      BY <3>1, Named DEF Fitting
    <3>3. at["prepare"] = 1
      BY <3>1, <3>2, Writers
    <3>4. QED
      BY <3>2, <3>3 DEF Preparing
  <2>5. QED
    BY <1>2, <2>2, <2>3, <2>4 DEF Fitting
<1>3. CASE Write("d4") /\ at'["d4"] = at["d4"] + 1
  <2>1. at["d4"] > 0 /\ late' = late \cup ({Outputs["d4"][at["d4"]]} \cap Timed)
    BY <1>3 DEF Write
  <2>2. \A j \in 1 .. 6 : j >= at'["d4"] => file'[Outputs["d4"][j]] = "absent"
    <3>1. \A j \in 1 .. 6 : j >= at'["d4"] => file[Outputs["d4"][j]] = "absent" /\ j # at["d4"]
      BY <1>0, <1>3, <2>1 DEF Fitting
    <3>2. QED
      BY <3>1, Writers
  <2>3. late' # {}
    <3>1. CASE at["d4"] = 1
      BY <2>1, <3>1, Named DEF Timed
    <3>2. CASE at["d4"] > 1
      BY <2>1, <3>2 DEF Fitting
    <3>3. QED
      BY <1>0, <2>1, <3>1, <3>2
  <2>4. at'["d4"] # 1
    BY <1>0, <1>3, <2>1
  <2>5. QED
    BY <2>2, <2>3, <2>4 DEF Fitting
<1>4. CASE TrainStart /\ at'["d4"] = 1
  <2>1. file' = file /\ Absent(ToSet(Outputs["d4"]) \cup FinalTest)
    BY <1>4 DEF TrainStart, Begin
  <2>2. \A j \in 1 .. 6 : file[Outputs["d4"][j]] = "absent"
    <3>1. \A j \in 1 .. 6 : Outputs["d4"][j] \in ToSet(Outputs["d4"])
      BY Contents, Lengths DEF ToSet
    <3>2. QED
      BY <2>1, <3>1 DEF Absent
  <2>3. file["labeled"] = "absent"
    BY <2>1 DEF Absent, FinalTest
  <2>4. QED
    BY <1>4, <2>1, <2>2, <2>3 DEF Fitting
<1>5. QED
  <2>1. Types /\ "d4" \in Script
    BY Named DEF Inv
  <2>2. CASE at'["d4"] # at["d4"] /\ at'["d4"] # 0
    BY <2>1, <2>2, <1>3, <1>4, AtStep
  <2>3. QED
    BY <1>0, <1>1, <1>2, <2>2

LEMMA PreparingStep ==
  ASSUME Inv, Kinds, Begun, Preparing, FileStep, [Next]_vars
  PROVE  Preparing'
<1>0. at["prepare"] \in Nat /\ "prepare" \in Script /\ Types
  BY Named DEF Inv, Types
<1>1. CASE at'["prepare"] = 0
  BY <1>1 DEF Preparing
<1>2. CASE at["prepare"] > 0
  <2>1. file'["model"] # "absent"
    BY <1>0, <1>2, Named, Stays DEF Preparing, Resting
  <2>2. at'["prepare"] = 1 => at["prepare"] = 1
    BY <1>0, <1>2, AtStep
  <2>3. ASSUME at["prepare"] = 1, at'["prepare"] = 1
        PROVE  file'["leakage"] = "absent" /\ file'["labeled"] = "absent"
    <3>1. file["leakage"] = "absent" /\ file["labeled"] = "absent"
      BY <2>3 DEF Preparing
    <3>2. ~Write("prepare")
      BY <1>0, <2>3 DEF Write, Leave, Types
    <3>3. ~Audit
      BY <3>1 DEF Audit, Audited, Exists
    <3>4. QED
      BY <3>1, <3>2, <3>3, Writers
  <2>4. QED
    BY <2>1, <2>2, <2>3 DEF Preparing
<1>3. CASE PrepareStart /\ at'["prepare"] = 1
  <2>1. /\ file' = file /\ file["model"] = "pinned"
        /\ Absent(ToSet(Outputs["prepare"]) \cup {"leakage"})
    BY <1>3 DEF PrepareStart, Begin, FrozenVerified
  <2>2. "labeled" \in ToSet(Outputs["prepare"])
    BY Contents, Lengths DEF ToSet
  <2>3. file["leakage"] = "absent" /\ file["labeled"] = "absent"
    BY <2>1, <2>2 DEF Absent
  <2>4. QED
    BY <2>1, <2>3 DEF Preparing
<1>4. QED
  <2>1. CASE at["prepare"] = 0 /\ at'["prepare"] # 0
    BY <1>0, <2>1, <1>3, AtStep DEF Write
  <2>2. QED
    BY <1>0, <1>1, <1>2, <2>1

LEMMA AuditedStep ==
  ASSUME Inv, Kinds, Begun, Fitting, Preparing, AuditedFirst, [Next]_vars
  PROVE  AuditedFirst'
<1>0. at["d4"] \in Nat
  BY Named DEF Inv, Types
<1> SUFFICES ASSUME file'["leakage"] # "absent", late' # {}, file'["labeled"] # "absent"
             PROVE  FALSE
  BY DEF AuditedFirst
<1>1. file["leakage"] # "absent"
  <2>1. Audit => late = {} /\ late' = late
    BY DEF Audit, Audited
  <2>2. QED
    BY <2>1, Writers
<1>2. file["labeled"] # "absent"
  BY <1>1, Writers DEF Preparing
<1>3. late = {}
  BY <1>1, <1>2 DEF AuditedFirst
<1>4. Write("d4")
  BY <1>3, LateStep DEF Inv
<1>5. at["d4"] = 1
  BY <1>0, <1>3, <1>4 DEF Fitting, Write
<1>6. QED
  BY <1>2, <1>5 DEF Fitting

\* What an execution does it does itself.
LEMMA EvalStep ==
  ASSUME Types, [Next]_vars, NEW e \in Eval, eval'[e] # eval[e]
  PROVE  \/ Gate(e) \/ BuildMatrix(e) \/ Infer1(e) \/ Infer2(e)
         \/ Report(e) \/ Conclude(e) \/ EvalEnds(e)
<1>1. ASSUME NEW o \in Eval, Gate(o) \/ Infer1(o) \/ Infer2(o) \/ EvalEnds(o)
      PROVE  o = e
  BY <1>1 DEF Gate, Infer1, Infer2, EvalEnds, Goto, Types
<1>2. ASSUME NEW o \in Eval, BuildMatrix(o) \/ Report(o) \/ Conclude(o)
      PROVE  o = e
  <2>1. \E f, next : WriteNew(o, f, next)
    BY <1>2 DEF BuildMatrix, Report, Conclude
  <2>2. QED
    BY <2>1, NewStage
<1>3. CASE TrainStart \/ CaptureStart \/ ExtractStart \/ PrepareStart
  BY <1>3 DEF TrainStart, CaptureStart, ExtractStart, PrepareStart, Begin
<1>4. CASE \E s \in Script : Write(s) \/ Abort(s)
  BY <1>4 DEF Write, Abort
<1>5. CASE Freeze \/ Audit \/ Seal \/ ReplaceRf1 \/ (\E p \in Phase : Clean(p)) \/ UNCHANGED vars
  BY <1>5 DEF Freeze, Audit, Audited, Seal, ReplaceRf1, Clean, vars
<1>6. QED
  BY <1>1, <1>2, <1>3, <1>4, <1>5 DEF Next

LEMMA HeldStep ==
  ASSUME Inv, Kinds, Begun, LeftInOrder, Fitting, AuditedFirst, Held, FileStep, [Next]_vars
  PROVE  Held'
<1> SUFFICES ASSUME NEW e \in Eval, Running(e)'
             PROVE  late' = {} /\ file'["flows"] = "pinned" /\ file'["model"] = "pinned"
  BY DEF Held
<1>1. CASE Running(e)
  <2>1. late = {} /\ file["flows"] = "pinned" /\ file["model"] = "pinned"
    BY <1>1 DEF Held
  <2>2. file'["flows"] = "pinned" /\ file'["model"] = "pinned"
    BY <1>1, <2>1, Stays, Named DEF Resting
  <2>3. ~(Write("d4") /\ late' # {})
    <3>1. SUFFICES ASSUME Write("d4")
                   PROVE  FALSE
      OBVIOUS
    <3>2. at["d4"] \in Nat /\ at["d4"] > 0
      BY <3>1, Named DEF Write, Inv, Types
    <3>3. at["d4"] = 1
      BY <2>1, <3>2 DEF Fitting
    <3>4. file["model"] = "absent"
      BY <3>3, Named DEF Fitting
    <3>5. QED
      BY <2>1, <3>4
  <2>4. QED
    BY <2>1, <2>2, <2>3, LateStep DEF Inv
<1>2. CASE ~Running(e)
  <2>1. Gate(e)
    <3>1. eval'[e] # eval[e]
      BY <1>2 DEF Running
    <3>2. BuildMatrix(e) \/ Infer1(e) \/ Infer2(e) \/ Report(e) \/ Conclude(e) \/ EvalEnds(e)
            => Running(e)
      BY DEF BuildMatrix, Infer1, Infer2, Report, Conclude, EvalEnds, Running
    <3>3. QED
      BY <1>2, <3>1, <3>2, EvalStep DEF Inv
  <2>2. /\ file' = file /\ late' = late /\ file["flows"] = "pinned" /\ file["model"] = "pinned"
        /\ file["leakage"] = "pinned" /\ file["dataset"] = "pinned"
    BY <2>1 DEF Gate, FrozenVerified, DataPinned
  <2>3. file["labeled"] # "absent"
    <3>1. LeavesPrefix("prepare") /\ Outputs["prepare"] = <<"labeled", "dataset", "distribution">>
      BY Named, Contents DEF LeftInOrder
    <3>2. /\ 1 \in DOMAIN Outputs["prepare"] /\ 2 \in DOMAIN Outputs["prepare"]
          /\ Exists({Outputs["prepare"][2]})
      BY <2>2, <3>1 DEF Exists
    <3>3. Exists({Outputs["prepare"][1]})
      BY <3>1, <3>2 DEF LeavesPrefix
    <3>4. QED
      BY <3>1, <3>3 DEF Exists
  <2>4. QED
    BY <2>2, <2>3 DEF AuditedFirst
<1>3. QED
  BY <1>1, <1>2

LEMMA PinsStep ==
  ASSUME Inv, Held, PredictsPinned, [Next]_vars
  PROVE  PredictsPinned'
<1> SUFFICES ASSUME NEW e \in Eval
             PROVE  eval'[e].data \in {"absent", "pinned"} /\ eval'[e].rf2 \in {"absent", "pinned"}
  BY DEF PredictsPinned
<1>0. eval[e].data \in {"absent", "pinned"} /\ eval[e].rf2 \in {"absent", "pinned"} /\ Types
  BY DEF PredictsPinned, Inv
<1>1. CASE Gate(e) \/ Infer1(e)
  <2>1. eval'[e].data = eval[e].data /\ eval'[e].rf2 = eval[e].rf2
    BY <1>0, <1>1 DEF Gate, Infer1, Goto, Types
  <2>2. QED
    BY <1>0, <2>1
<1>2. CASE EvalEnds(e)
  BY <1>0, <1>2 DEF EvalEnds, NotStarted, Types
<1>3. CASE Infer2(e)
  <2>1. file["model"] = "pinned"
    BY <1>3 DEF Infer2, Held, Running
  <2>2. eval'[e] = [[eval[e] EXCEPT !.stage = "rf2_pred"] EXCEPT !.rf2 = file["model"]]
    BY <1>0, <1>3 DEF Infer2, Types
  <2>3. eval'[e].data = eval[e].data /\ eval'[e].rf2 = "pinned"
    BY <1>0, <2>1, <2>2 DEF Types
  <2>4. QED
    BY <1>0, <2>3
<1>4. CASE BuildMatrix(e) \/ Report(e) \/ Conclude(e)
  <2>1. \E f, next : WriteNew(e, f, next)
    BY <1>4 DEF BuildMatrix, Report, Conclude
  <2>2. Running(e)
    BY <1>4 DEF BuildMatrix, Report, Conclude, Running
  <2>3. /\ eval'[e].rf2 = eval[e].rf2 /\ eval'[e].data \in {eval[e].data, file["flows"]}
    BY <1>0, <2>1, NewStage
  <2>4. QED
    BY <1>0, <2>2, <2>3 DEF Held
<1>5. QED
  BY <1>0, <1>1, <1>2, <1>3, <1>4, EvalStep

-----------------------------------------------------------------------------
(* RF-v1, which the gate has seen but nothing holds.                       *)

RfTypes ==
  /\ rf1 \in {"pinned", "other"}
  /\ loaded \in [Eval -> {"pinned", "other", "absent"}] /\ swaps \in [Eval -> 0 .. 2]

\* Whoever counts no replacement still finds the pinned RF-v1, and has loaded
\* it; whoever counts one finds another until it is put back.
Watched(e) ==
  /\ eval[e].stage = "ready" => swaps[e] = 0
  /\ Judging(e) /\ swaps[e] = 0 => rf1 = "pinned"
  /\ Judging(e) /\ swaps[e] = 1 => rf1 = "other"
  /\ Judging(e) /\ eval[e].stage \notin {"rows", "rf1"} /\ swaps[e] = 0 => loaded[e] = "pinned"
  /\ eval[e].stage \in {"manifest", "passed"} /\ swaps[e] < 2 => loaded[e] = "pinned"

Swapping == RfTypes /\ \A e \in Eval : Watched(e)

LEMMA SwappingInit == Init => Swapping
BY DEF Init, Swapping, RfTypes, Watched, Judging, NotStarted

\* An execution goes on and RF-v1 stays: the others watch as before.
LEMMA OthersWatch ==
  ASSUME Swapping, RfTypes', NEW e \in Eval, rf1' = rf1, Watched(e)',
         \A o \in Eval : o # e =>
           eval'[o] = eval[o] /\ swaps'[o] = swaps[o] /\ loaded'[o] = loaded[o]
  PROVE  Swapping'
<1>1. ASSUME NEW o \in Eval, o # e
      PROVE  Watched(o)'
  BY <1>1 DEF Swapping, Watched, Judging
<1>2. QED
  BY <1>1 DEF Swapping

LEMMA WriterWatches ==
  ASSUME Types, Swapping, NEW e \in Eval, BuildMatrix(e) \/ Report(e) \/ Conclude(e)
  PROVE  Swapping'
<1>1. \E f, next : WriteNew(e, f, next)
  BY DEF BuildMatrix, Report, Conclude
<1>2. \A o \in Eval : o # e => eval'[o] = eval[o]
  BY <1>1, NewStage
<1>3. UNCHANGED <<rf1, loaded, swaps>>
  BY <1>1 DEF WriteNew, rfVars
<1>4. \/ eval[e].stage = "rows" /\ eval'[e].stage = "rf1"
      \/ eval[e].stage = "rf1_pred" /\ eval'[e].stage = "rf2"
      \/ eval[e].stage = "rf2_pred" /\ eval'[e].stage = "reports"
      \/ eval[e].stage = "reports" /\ eval'[e].stage = "docs"
      \/ eval[e].stage = "docs" /\ eval'[e].stage = "manifest" /\ rf1 = "pinned"
      \/ eval[e].stage = "manifest" /\ eval'[e].stage = "passed"
  BY NewStage DEF BuildMatrix, Report, Conclude
<1>5. Watched(e) /\ swaps[e] \in {0, 1, 2}
  BY DEF Swapping, RfTypes
<1>6. Watched(e)'
  BY <1>3, <1>4, <1>5 DEF Watched, Judging
<1>7. RfTypes'
  BY <1>3 DEF Swapping, RfTypes
<1>8. QED
  BY <1>2, <1>3, <1>6, <1>7, OthersWatch

LEMMA ReaderWatches ==
  ASSUME Types, Swapping, NEW e \in Eval, Gate(e) \/ Infer1(e) \/ Infer2(e) \/ EvalEnds(e)
  PROVE  Swapping'
<1>1. /\ \A o \in Eval : o # e => eval'[o] = eval[o]
      /\ rf1' = rf1
  BY DEF Gate, Infer1, Infer2, EvalEnds, Goto, NotStarted, Types, rfVars
<1>2. /\ rf1 \in {"pinned", "other"}
      /\ loaded \in [Eval -> {"pinned", "other", "absent"}] /\ swaps \in [Eval -> 0 .. 2]
      /\ Watched(e)
  BY DEF Swapping, RfTypes
<1>3. CASE Gate(e) \/ Infer2(e)
  <2>1. loaded' = loaded /\ swaps' = swaps
    BY <1>3 DEF Gate, Infer2, rfVars
  <2>2. \/ eval[e].stage = "ready" /\ eval'[e].stage = "rows" /\ rf1 = "pinned"
        \/ eval[e].stage = "rf2" /\ eval'[e].stage = "rf2_pred"
    BY <1>3 DEF Gate, Infer2, Types
  <2>3. Watched(e)'
    BY <1>1, <1>2, <2>1, <2>2 DEF Watched, Judging
  <2>4. RfTypes'
    BY <1>1, <1>2, <2>1 DEF RfTypes
  <2>5. QED
    BY <1>1, <2>1, <2>3, <2>4, OthersWatch
<1>4. CASE Infer1(e)
  <2>1. swaps' = swaps /\ loaded' = [loaded EXCEPT ![e] = rf1]
    BY <1>4 DEF Infer1
  <2>2. eval[e].stage = "rf1" /\ eval'[e].stage = "rf1_pred"
    BY <1>4 DEF Infer1, Goto, Types
  <2>3. loaded'[e] = rf1 /\ \A o \in Eval : o # e => loaded'[o] = loaded[o]
    BY <1>2, <2>1
  <2>4. Watched(e)'
    BY <1>1, <1>2, <2>1, <2>2, <2>3 DEF Watched, Judging
  <2>5. RfTypes'
    BY <1>1, <1>2, <2>1 DEF RfTypes
  <2>6. QED
    BY <1>1, <2>1, <2>3, <2>4, <2>5, OthersWatch
<1>5. CASE EvalEnds(e)
  <2>1. swaps' = [swaps EXCEPT ![e] = 0] /\ loaded' = [loaded EXCEPT ![e] = "absent"]
    BY <1>5 DEF EvalEnds
  <2>2. eval'[e].stage = "ended"
    BY <1>5 DEF EvalEnds, NotStarted, Types
  <2>3. \A o \in Eval : o # e => loaded'[o] = loaded[o] /\ swaps'[o] = swaps[o]
    BY <1>2, <2>1
  <2>4. Watched(e)'
    BY <2>2 DEF Watched, Judging
  <2>5. RfTypes'
    BY <1>1, <1>2, <2>1 DEF RfTypes
  <2>6. QED
    BY <1>1, <2>3, <2>4, <2>5, OthersWatch
<1>6. QED
  BY <1>3, <1>4, <1>5

LEMMA SwapStep ==
  ASSUME Swapping, ReplaceRf1
  PROVE  Swapping'
<1>1. /\ rf1 \in {"pinned", "other"} /\ rf1' = (IF rf1 = "pinned" THEN "other" ELSE "pinned")
      /\ eval' = eval /\ loaded' = loaded
  BY DEF ReplaceRf1, Swapping, RfTypes
<1>2. \A e \in Eval : /\ swaps[e] \in {0, 1, 2}
                      /\ swaps'[e] = IF Judging(e) /\ swaps[e] < 2 THEN swaps[e] + 1 ELSE swaps[e]
  BY DEF ReplaceRf1, Swapping, RfTypes
<1>3. RfTypes'
  <2>1. swaps' = [e \in Eval |-> swaps'[e]] /\ \A e \in Eval : swaps'[e] \in 0 .. 2
    BY <1>2 DEF ReplaceRf1
  <2>2. QED
    BY <1>1, <2>1 DEF Swapping, RfTypes
<1>4. ASSUME NEW e \in Eval
      PROVE  Watched(e)'
  <2>1. Watched(e) /\ (Judging(e)' <=> Judging(e)) /\ (Judging(e) => eval[e].stage # "ready")
    BY <1>1 DEF Swapping, Judging
  <2>2. CASE Judging(e)
    <3>1. eval[e].stage \notin {"ready", "manifest", "passed"} /\ swaps'[e] # 0
      BY <1>2, <2>2 DEF Judging
    <3>2. swaps'[e] = 1 => rf1' = "other"
      BY <1>1, <1>2, <2>1, <2>2 DEF Watched
    <3>3. QED
      BY <1>1, <3>1, <3>2 DEF Watched
  <2>3. CASE ~Judging(e)
    BY <1>1, <1>2, <2>1, <2>3 DEF Watched
  <2>4. QED
    BY <2>2, <2>3
<1>5. QED
  BY <1>3, <1>4 DEF Swapping

LEMMA SwappingStep ==
  ASSUME Types, Swapping, [Next]_vars
  PROVE  Swapping'
<1>1. ASSUME UNCHANGED <<eval, rfVars>>
      PROVE  Swapping'
  BY <1>1 DEF rfVars, Swapping, RfTypes, Watched, Judging
<1>2. CASE TrainStart \/ CaptureStart \/ ExtractStart \/ PrepareStart
  BY <1>1, <1>2 DEF TrainStart, CaptureStart, ExtractStart, PrepareStart, Begin
<1>3. CASE \E s \in Script : Write(s) \/ Abort(s)
  BY <1>1, <1>3 DEF Write, Abort
<1>4. CASE Freeze \/ Audit \/ Seal \/ (\E p \in Phase : Clean(p)) \/ UNCHANGED vars
  BY <1>1, <1>4 DEF Freeze, Audit, Audited, Seal, Clean, vars
<1>5. QED
  BY <1>2, <1>3, <1>4, SwapStep, WriterWatches, ReaderWatches DEF Next

-----------------------------------------------------------------------------
(* The theorems about types, pins and dates.                               *)

IInv == Inv /\ Kinds /\ LeftInOrder /\ Begun /\ Frozen /\ Swapping

LEMMA IInvNext == IInv /\ [Next]_vars => IInv'
<1> SUFFICES ASSUME IInv, [Next]_vars
             PROVE  IInv'
  OBVIOUS
<1>1. Inv' /\ FileStep
  BY InvNext, FileSteps DEF IInv
<1>2. Kinds' /\ LeftInOrder' /\ Begun'
  BY <1>1, KindsStep, PrefixesStep, BegunStep DEF IInv, Inv
<1>3. Fitting' /\ Preparing' /\ AuditedFirst' /\ Held' /\ PredictsPinned'
  BY <1>1, FittingStep, PreparingStep, AuditedStep, HeldStep, PinsStep DEF IInv, Frozen
<1>4. Swapping'
  BY SwappingStep DEF IInv, Inv
<1>5. QED
  BY <1>1, <1>2, <1>3, <1>4 DEF IInv, Frozen

LEMMA IInvAlways == Spec => []IInv
<1>1. Init => IInv
  BY InvInit, FrozenInit, SwappingInit DEF IInv
<1>2. QED
  BY <1>1, IInvNext, PTL DEF Spec

\* The types, and that the files of a phase that exist are the first it writes.
THEOREM EvaluationTypes == Spec => []TypeOK
<1>1. IInv => TypeOK
  <2> SUFFICES ASSUME IInv
               PROVE  TypeOK
    OBVIOUS
  <2>1. \A s \in Script : at[s] \in 0 .. Len(Outputs[s]) /\ work[s] \in Content
    <3>1. \A s \in Script : Len(Outputs[s]) \in Nat
      BY DEF Script, Outputs
    <3>2. QED
      BY <3>1 DEF IInv, Inv, Types, Kinds
  <2>2. \A e \in Eval : /\ eval[e].data \in Content
                        /\ eval[e].rf2 \in {"pinned", "other", "absent"}
    BY DEF IInv, Frozen, PredictsPinned, Content
  <2>3. DOMAIN file = File /\ inferred \in [{"rf1", "rf2"} -> Nat]
    BY DEF IInv, Inv, Types
  <2>4. QED
    BY <2>1, <2>2, <2>3 DEF IInv, Kinds, LeftInOrder, Swapping, RfTypes, TypeOK
<1>2. QED
  BY <1>1, IInvAlways, PTL

\* integrity_gate: what is predicted after it, and by which RF-v2, is what it
\* has seen, although both are read again by name.
THEOREM PinnedAlone == Spec => []PredictsPinned
<1>1. IInv => PredictsPinned
  BY DEF IInv, Frozen
<1>2. QED
  BY <1>1, IInvAlways, PTL

\* post_integrity's rf_v1_unchanged: of all replacements of RF-v1 during a run
\* only one that is taken back within the run goes unnoticed.
THEOREM SwapIsNoticed == Spec => []OneSwapIsNoticed
<1>1. IInv => OneSwapIsNoticed
  BY DEF IInv, Swapping, Watched, OneSwapIsNoticed
<1>2. QED
  BY <1>1, IInvAlways, PTL

\* model_artifacts_predate_freeze: no PASS for a model, metadata or training
\* record that was written after the freeze.
THEOREM FrozenBeforePass == Spec => PassIsFrozenFirst
<1>1. IInv /\ [Next]_vars =>
        [file'["manifest"] # file["manifest"] /\ file'["manifest"] # "absent" => late = {}]_vars
  <2> SUFFICES ASSUME IInv, [Next]_vars, file'["manifest"] # file["manifest"],
                      file'["manifest"] # "absent"
               PROVE  late = {}
    OBVIOUS
  <2>1. "manifest" \in Out /\ "manifest" \in File
    BY OutFiles, OutInFile DEF OutNames
  <2>2. ASSUME NEW e \in Eval, BuildMatrix(e) \/ Report(e) \/ Conclude(e)
        PROVE  late = {}
    BY <2>2 DEF BuildMatrix, Report, Conclude, Running, IInv, Frozen, Held
  <2>3. \E e \in Eval : BuildMatrix(e) \/ Report(e) \/ Conclude(e)
    <3>1. CASE \/ TrainStart \/ CaptureStart \/ ExtractStart \/ PrepareStart \/ UNCHANGED vars
               \/ ReplaceRf1
               \/ \E s \in Script : Abort(s)
               \/ \E e \in Eval : Gate(e) \/ Infer1(e) \/ Infer2(e) \/ EvalEnds(e)
      <4>1. file' = file
        BY <3>1 DEF TrainStart, CaptureStart, ExtractStart, PrepareStart, Begin, vars, Abort,
                    ReplaceRf1, Gate, Infer1, Infer2, EvalEnds
      <4>2. QED
        BY <4>1
    <3>2. ASSUME NEW s \in Script, Write(s)
          PROVE  FALSE
      <4>1. Outputs[s][at[s]] # "manifest" /\ Writes(s, at[s])
        BY <2>1, <3>2, ScriptFile, ScriptWrites DEF IInv, Inv, Evidence
      <4>2. QED
        BY <2>1, <4>1 DEF Writes
    <3>3. CASE Freeze \/ Audit \/ Seal
      BY <2>1, <3>3 DEF Freeze, Audit, Audited, Seal, IInv, Inv, Types
    <3>4. ASSUME NEW p \in Phase, Clean(p)
          PROVE  FALSE
      BY <2>1, <3>4 DEF Clean
    <3>5. QED
      BY <3>1, <3>2, <3>3, <3>4 DEF Next
  <2>4. QED
    BY <2>2, <2>3
<1>2. QED
  BY <1>1, IInvAlways, PTL DEF Spec, PassIsFrozenFirst
=============================================================================
