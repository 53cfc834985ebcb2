----------------------------- MODULE Adaptation -----------------------------
(***************************************************************************)
(* Phases D0 to D4 of Experiment D up to the fit of RF-v2: the baseline    *)
(* manifest, the extraction of the adaptation captures, their audit        *)
(* (audit_experiment_d_adaptation.py), the plan of the training set        *)
(* (prepare_experiment_d_d3.py, src/experiment_d/d3.py), its dry run       *)
(* (train_rf_v2.py) and what train_rf_v2_d4.py loads by it.  ExperimentD   *)
(* continues from the fit.  As there, scripts meet in files alone and      *)
(* never overwrite one, may be killed, and the operator may delete what a  *)
(* phase has written while no script is at work.                           *)
(*                                                                         *)
(* The flow files of one extraction carry its number, which stands for     *)
(* their hashes.  What they hold is settled when D3 first reads them: per  *)
(* session its rows, each the feature vector by which rows are compared.   *)
(***************************************************************************)
EXTENDS Integers, Sequences, FiniteSets

CONSTANTS
  NumSessions,    \* valid sessions, numbered in the order of their flow files
  ClassOf,        \* ground truth of each
  Validation,     \* VALIDATION_SESSIONS
  Datasets,       \* what the flow files may hold: sessions to rows
  Rank(_),        \* deterministic_rank: the hash of a row's identity
  SessionCap,     \* 600 in the code
  MaxExtractions, \* bound of the model: times the flows are extracted
  MaxCleans       \* bound of the model: phases whose files are deleted

Session == 1 .. NumSessions
Class   == {"Normal", "DDoS", "PortScan"}

ASSUME SessionsAssumption ==
  NumSessions \in Nat \ {0} /\ ClassOf \in [Session -> Class] /\ Validation \subseteq Session
ASSUME DatasetsAssumption ==
  \A d \in Datasets : DOMAIN d = Session /\ \A s \in Session : Len(d[s]) \in Nat
ASSUME RankAssumption == \A d \in Datasets : \A s \in Session :
                           \A i \in 1 .. Len(d[s]) : Rank(<<d[s], i>>) \in Int
ASSUME CapAssumption == SessionCap \in Nat
ASSUME AdaptationBounds == MaxExtractions \in Nat /\ MaxCleans \in Nat

-----------------------------------------------------------------------------
(* The split, for flow files that hold d.  A row is <<session, index>>.    *)

Rows(d)        == UNION {{<<s, i>> : i \in 1 .. Len(d[s])} : s \in Session}
Vector(d, r)   == d[r[1]][r[2]]
Identity(d, r) == <<d[r[1]], r[2]>>   \* the flow file's hash, and the index
Of(R, c)       == {r \in R : ClassOf[r[1]] = c}
Vectors(d, R)  == {Vector(d, r) : r \in R}

ValidationRows(d) == {r \in Rows(d) : r[1] \in Validation}
Pool(d)           == Rows(d) \ ValidationRows(d)

\* sorted by source_file, original_row_index
Before(q, r) == q[1] < r[1] \/ (q[1] = r[1] /\ q[2] < r[2])

\* Of rows of one class with one vector only the first is kept, so a vector
\* may stay under two labels.
Duplicate(d, r) ==
  \E q \in Pool(d) : Before(q, r) /\ ClassOf[q[1]] = ClassOf[r[1]] /\ Vector(d, q) = Vector(d, r)

Clean(d) ==
  LET held == Vectors(d, ValidationRows(d))
  IN {r \in Pool(d) : Vector(d, r) \notin held /\ ~Duplicate(d, r)}

Precedes(d, q, r) ==
  LET a == Rank(Identity(d, q)) b == Rank(Identity(d, r))
  IN a < b \/ (a = b /\ Before(q, r))

\* Deviation: the rank is seeded anew for every cap.
CapReseeded(d, R, n) ==
  {r \in R : Cardinality({q \in R : IF n = 1 THEN Precedes(d, q, r) ELSE Precedes(d, r, q)}) < n}

\* deterministic_cap: the first n rows of R by rank.
Cap(d, R, n) == {r \in R : Cardinality({q \in R : Precedes(d, q, r)}) < n}

Least(m, n)    == IF m <= n THEN m ELSE n
Size(K, c)     == Cardinality(Of(K, c))
AttackCap(K)   == Least(Size(K, "DDoS"), Size(K, "PortScan"))
BalancedCap(K) == Least(Size(K, "Normal"), AttackCap(K))

\* The four policies, of the clean rows K (which are D3-A).
D3B(d, K) == Of(K, "Normal") \cup
  UNION {Cap(d, R, n) : R \in {Of(K, "DDoS"), Of(K, "PortScan")}, n \in {AttackCap(K)}}
D3C(d, K) == UNION {Cap(d, R, SessionCap) : R \in {{r \in K : r[1] = s} : s \in Session}}
D3D(d, K) == UNION {Cap(d, R, n) : R \in {Of(K, c) : c \in Class}, n \in {BalancedCap(K)}}

\* What the plan recommends, and D4 takes.
Planned(d) == UNION {D3C(d, K) : K \in {Clean(d)}}

\* load_adaptation finds rows again by identity, over all flow files: equal
\* files make it find more of them.
Named(d, R) == LET ids == {Identity(d, q) : q \in R} IN {r \in Rows(d) : Identity(d, r) \in ids}

\* Deviation: the classes of what was loaded are not counted.
CountsTrusted(d) == TRUE

\* actual = dry["combined_training_counts"]
CountsMatch(d) ==
  \E R \in {Planned(d)}, N \in {Named(d, Planned(d))} :
    \A c \in Class : Size(N, c) = Size(R, c)

-----------------------------------------------------------------------------
\* What each phase writes; files of one phase that nobody reads, or that are
\* read with their neighbour, are one file here.
Files(p) == CASE p = "d2" -> {"manifests", "audit", "leakage"}
              [] p = "d3" -> {"split", "plan"}
              [] p = "d4" -> {"model", "d4audit"}
Phase == {"d2", "d3", "d4"}
File  == Files("d2") \cup Files("d3") \cup Files("d4")

\* What a phase does after it has written a file.
After == [manifests |-> "audit", audit |-> "leakage", leakage |-> "idle",
          split |-> "plan", plan |-> "idle", model |-> "d4audit", d4audit |-> "idle"]

VARIABLES
  flows,      \* the extraction whose files lie there, 0 if none
  extracted,  \* number of extractions
  rows,       \* what these files hold, once D3 or D4 has read them
  file,       \* the extraction each file is of, 0 if absent
  passed,     \* both D2 audits say PASS
  baseline,   \* the baseline manifest exists
  rf1,        \* the RF-v1 artifacts have the hashes the sources name
  final,      \* final-test artifacts exist
  at,         \* where each phase is: "idle", "read", "load" or its next output
  work,       \* the extraction it works on
  cleans

vars == <<flows, extracted, rows, file, passed, baseline, rf1, final, at, work, cleans>>

Unread == <<>>

Init ==
  /\ flows = 0 /\ extracted = 0 /\ rows = Unread
  /\ file = [f \in File |-> 0] /\ passed = FALSE
  /\ baseline = FALSE /\ rf1 = TRUE /\ final = FALSE
  /\ at = [p \in Phase |-> "idle"] /\ work = [p \in Phase |-> 0] /\ cleans = 0

Idle == \A p \in Phase : at[p] = "idle"
Goto(p, where, v) == at' = [at EXCEPT ![p] = where] /\ work' = [work EXCEPT ![p] = v]

\* D0, verify_experiment_d_frozen_baseline.py
FreezeBaseline ==
  /\ ~baseline /\ rf1
  /\ baseline' = TRUE
  /\ UNCHANGED <<flows, extracted, rows, file, passed, rf1, final, at, work, cleans>>

\* Ten captures, and run_experiment_d_cicflowmeter_v3.py for the valid ones.
Extract ==
  /\ flows = 0 /\ extracted < MaxExtractions
  /\ extracted' = extracted + 1 /\ flows' = extracted'
  /\ UNCHANGED <<rows, file, passed, baseline, rf1, final, at, work, cleans>>

\* Another training is published over RF-v1, or the old one restored.
ReplaceRf1 ==
  /\ rf1' = ~rf1
  /\ UNCHANGED <<flows, extracted, rows, file, passed, baseline, final, at, work, cleans>>

\* capture_experiment_d_final_test.py runs, at any time.
CaptureFinal ==
  /\ ~final /\ final' = TRUE
  /\ UNCHANGED <<flows, extracted, rows, file, passed, baseline, rf1, at, work, cleans>>

\* audit_experiment_d_adaptation.py reads and judges everything before it
\* writes: criteria and checks; both fail beside a final test.  That RF-v1 has
\* changed makes the exit status, but neither of the two.
AuditStart ==
  /\ at["d2"] = "idle" /\ flows # 0 /\ baseline
  /\ Goto("d2", "manifests", flows)
  /\ IF \A f \in Files("d2") : file[f] = 0
     THEN passed' \in BOOLEAN /\ (final => ~passed')
     ELSE UNCHANGED passed
  /\ UNCHANGED <<flows, extracted, rows, file, baseline, rf1, final, cleans>>

\* validate_d2: both audits passed, and the manifests name what lies there.
D2Valid ==
  /\ \A f \in Files("d2") : file[f] # 0
  /\ passed
  /\ flows = file["manifests"]

\* prepare_experiment_d_d3.py
PlanStart ==
  /\ at["d3"] = "idle" /\ D2Valid
  /\ Goto("d3", "read", flows)
  /\ UNCHANGED <<flows, extracted, rows, file, passed, baseline, rf1, final, cleans>>

ReadRows ==
  \E d \in IF rows = Unread THEN Datasets ELSE {rows} : rows' = d

\* adaptation_rows: the flow files are read again.
PlanRead ==
  /\ at["d3"] = "read" /\ flows # 0
  /\ ReadRows
  /\ Goto("d3", "split", work["d3"])
  /\ UNCHANGED <<flows, extracted, file, passed, baseline, rf1, final, cleans>>

\* train_rf_v2_d4.py up to its data: outputs absent, dry run, D2 once more,
\* RF-v1 as frozen, no final test.
TrainStart ==
  /\ at["d4"] = "idle"
  /\ \A f \in Files("d4") : file[f] = 0
  /\ file["split"] # 0 /\ file["plan"] # 0
  /\ D2Valid /\ rf1 /\ ~final
  /\ Goto("d4", "load", file["split"])
  /\ UNCHANGED <<flows, extracted, rows, file, passed, baseline, rf1, final, cleans>>

\* Deviation: the sources are not hashed against the split.
LoadAny ==
  /\ at["d4"] = "load" /\ flows # 0
  /\ ReadRows /\ CountsMatch(rows')
  /\ Goto("d4", "model", work["d4"])
  /\ UNCHANGED <<flows, extracted, file, passed, baseline, rf1, final, cleans>>

\* load_adaptation, and the fit.
Load ==
  /\ at["d4"] = "load" /\ flows = work["d4"]
  /\ ReadRows /\ CountsMatch(rows')
  /\ Goto("d4", "model", work["d4"])
  /\ UNCHANGED <<flows, extracted, file, passed, baseline, rf1, final, cleans>>

\* The next output; RF-v1 is verified again before D4's audit.
Write(p) ==
  LET f == at[p] IN
  /\ f \in Files(p) /\ file[f] = 0
  /\ f = "d4audit" => rf1
  /\ file' = [file EXCEPT ![f] = work[p]]
  /\ Goto(p, After[f], IF After[f] = "idle" THEN 0 ELSE work[p])
  /\ UNCHANGED <<flows, extracted, rows, passed, baseline, rf1, final, cleans>>

\* A check fails, an output exists, or the script is killed.
Abort(p) ==
  /\ at[p] # "idle"
  /\ Goto(p, "idle", 0)
  /\ UNCHANGED <<flows, extracted, rows, file, passed, baseline, rf1, final, cleans>>

\* The operator deletes the files of a phase, or the captures and the flows.
CleanPhase(p) ==
  /\ Idle /\ cleans < MaxCleans
  /\ cleans' = cleans + 1
  /\ file' = [f \in File |-> IF f \in Files(p) THEN 0 ELSE file[f]]
  /\ UNCHANGED <<flows, extracted, rows, passed, baseline, rf1, final, at, work>>

CleanFlows ==
  /\ Idle /\ cleans < MaxCleans /\ flows # 0
  /\ cleans' = cleans + 1 /\ flows' = 0 /\ rows' = Unread
  /\ UNCHANGED <<extracted, file, passed, baseline, rf1, final, at, work>>

Next ==
  \/ FreezeBaseline \/ Extract \/ ReplaceRf1 \/ CaptureFinal
  \/ AuditStart \/ PlanStart \/ PlanRead \/ TrainStart \/ Load
  \/ \E p \in Phase : Write(p) \/ Abort(p) \/ CleanPhase(p)
  \/ CleanFlows

Spec == Init /\ [][Next]_vars
-----------------------------------------------------------------------------
\* The sets D3 plans nest: all are taken of the clean rows, and each smaller
\* policy keeps a part of what the larger keeps, although each is drawn on its
\* own (deterministic_cap); D3-D is balanced, as its policy text says.
StrategiesNested ==
  at["d3"] = "split" =>
    \E K \in {Clean(rows)} :
      /\ D3D(rows, K) \subseteq D3B(rows, K)
      /\ D3B(rows, K) \subseteq K /\ D3C(rows, K) \subseteq K
      /\ \A c \in Class : Size(D3D(rows, K), c) = BalancedCap(K)

\* RF-v2 is fitted on just the rows that D3 chose, from the very flows that
\* the D2 audits passed and the split was made of, through every deletion, new
\* extraction and second run of an earlier phase.
FitIsAuditedPlan ==
  at["d4"] = "model" =>
    /\ \A f \in Files("d2") \cup Files("d3") : file[f] = flows
    /\ passed
    /\ Named(rows, Planned(rows)) = Planned(rows)
=============================================================================
