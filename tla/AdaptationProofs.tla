-------------------------- MODULE AdaptationProofs --------------------------
(***************************************************************************)
(* Proofs about Adaptation: for every number of sessions and rows, every   *)
(* content of the flow files and every rank, the planned sets nest, and    *)
(* RF-v2 is fitted on the audited plan.                                    *)
(***************************************************************************)
EXTENDS Adaptation, FiniteSetTheorems, TLAPS

-----------------------------------------------------------------------------
(* The split.                                                              *)

LEMMA CleanIsPool ==
  ASSUME NEW d
  PROVE  /\ Clean(d) \subseteq Pool(d)
         /\ \A r \in Clean(d) : Vector(d, r) \notin Vectors(d, ValidationRows(d))
BY DEF Clean

LEMMA CapSubset ==
  ASSUME NEW d, NEW R, NEW n
  PROVE  Cap(d, R, n) \subseteq R
BY DEF Cap

\* A larger cap keeps what a smaller one keeps.
LEMMA CapMonotone ==
  ASSUME NEW d, NEW R, IsFiniteSet(R), NEW m \in Int, NEW n \in Int, m <= n
  PROVE  Cap(d, R, m) \subseteq Cap(d, R, n)
<1> SUFFICES ASSUME NEW r \in Cap(d, R, m)
             PROVE  r \in Cap(d, R, n)
  OBVIOUS
<1> DEFINE P == {q \in R : Precedes(d, q, r)}
<1>1. r \in R /\ Cardinality(P) < m
  BY DEF Cap
<1>2. IsFiniteSet(P)
  BY FS_Subset
<1>3. Cardinality(P) \in Nat
  BY <1>2, FS_CardinalityType
<1>4. Cardinality(P) < n
  <2> HIDE DEF P
  <2> QED  BY <1>1, <1>3
<1>5. QED
  BY <1>1, <1>4 DEF Cap

LEMMA PlannedIsClean ==
  ASSUME NEW d
  PROVE  Planned(d) \subseteq Clean(d)
<1> SUFFICES ASSUME NEW r \in D3C(d, Clean(d))
             PROVE  r \in Clean(d)
  BY DEF Planned
<1>1. PICK R \in {{q \in Clean(d) : q[1] = s} : s \in Session} : r \in Cap(d, R, SessionCap)
  BY DEF D3C
<1>2. r \in R /\ R \subseteq Clean(d)
  BY <1>1, CapSubset
<1>3. QED
  BY <1>2

-----------------------------------------------------------------------------
(* The policies nest.                                                      *)

LEMMA SizeType ==
  ASSUME NEW K, IsFiniteSet(K), NEW c
  PROVE  IsFiniteSet(Of(K, c)) /\ Size(K, c) \in Nat
<1>1. IsFiniteSet(Of(K, c))
  BY FS_Subset DEF Of
<1>2. QED
  BY <1>1, FS_CardinalityType DEF Size

LEMMA CapsOrdered ==
  ASSUME NEW K, IsFiniteSet(K)
  PROVE  AttackCap(K) \in Int /\ BalancedCap(K) \in Int /\ BalancedCap(K) <= AttackCap(K)
<1>1. Size(K, "Normal") \in Nat /\ Size(K, "DDoS") \in Nat /\ Size(K, "PortScan") \in Nat
  BY SizeType
<1>2. QED
  BY <1>1 DEF AttackCap, BalancedCap, Least

\* Of finitely many clean rows: D3-D is a part of D3-B, and B and C of A.
THEOREM PoliciesNest ==
  ASSUME NEW d, NEW K, IsFiniteSet(K)
  PROVE  D3D(d, K) \subseteq D3B(d, K) /\ D3B(d, K) \subseteq K /\ D3C(d, K) \subseteq K
<1>1. D3D(d, K) \subseteq D3B(d, K)
  <2> SUFFICES ASSUME NEW c \in Class, NEW r \in Cap(d, Of(K, c), BalancedCap(K))
               PROVE  r \in D3B(d, K)
    BY DEF D3D
  <2>1. CASE c = "Normal"
    BY <2>1, CapSubset DEF D3B
  <2>2. CASE c \in {"DDoS", "PortScan"}
    <3>1. r \in Cap(d, Of(K, c), AttackCap(K))
      BY CapMonotone, CapsOrdered, SizeType
    <3>2. QED
      BY <2>2, <3>1 DEF D3B
  <2>3. QED
    BY <2>1, <2>2 DEF Class
<1>2. D3B(d, K) \subseteq K
  <2> SUFFICES ASSUME NEW r \in D3B(d, K)
               PROVE  r \in K
    OBVIOUS
  <2>1. \A c : Of(K, c) \subseteq K
    BY DEF Of
  <2>2. CASE r \in Of(K, "Normal")
    BY <2>1, <2>2
  <2>3. CASE \E R \in {Of(K, "DDoS"), Of(K, "PortScan")} : r \in Cap(d, R, AttackCap(K))
    BY <2>1, <2>3, CapSubset
  <2>4. QED
    BY <2>2, <2>3 DEF D3B
<1>3. D3C(d, K) \subseteq K
  <2> SUFFICES ASSUME NEW r \in D3C(d, K)
               PROVE  r \in K
    OBVIOUS
  <2>1. PICK R \in {{q \in K : q[1] = s} : s \in Session} : r \in Cap(d, R, SessionCap)
    BY DEF D3C
  <2>2. QED
    BY <2>1, CapSubset
<1>4. QED
  BY <1>1, <1>2, <1>3

-----------------------------------------------------------------------------
(* Rows that are named again.                                              *)

LEMMA RowsFinite ==
  ASSUME NEW d \in Datasets
  PROVE  IsFiniteSet(Rows(d))
<1> DEFINE F == [s \in Session |-> {<<s, i>> : i \in 1 .. Len(d[s])}]
           T == {F[s] : s \in Session}
<1>1. IsFiniteSet(Session)
  BY FS_Interval, SessionsAssumption DEF Session
<1>2. F \in Surjection(Session, T)
  BY DEF Surjection
<1>3. IsFiniteSet(T)
  BY <1>1, <1>2, FS_Surjection
<1>4. ASSUME NEW s \in Session
      PROVE  IsFiniteSet(F[s])
  <2> DEFINE I == 1 .. Len(d[s])
             G == [i \in I |-> <<s, i>>]
  <2>1. IsFiniteSet(I)
    BY FS_Interval, DatasetsAssumption
  <2>2. G \in Surjection(I, F[s])
    BY DEF Surjection
  <2>3. QED
    BY <2>1, <2>2, FS_Surjection
<1>5. IsFiniteSet(UNION T)
  BY <1>3, <1>4, FS_UNION
<1>6. Rows(d) = UNION T
  BY DEF Rows
<1>7. QED
  BY <1>5, <1>6

\* If no class has grown, just the named rows have been found.
LEMMA NamedExact ==
  ASSUME NEW d \in Datasets, CountsMatch(d)
  PROVE  Named(d, Planned(d)) = Planned(d)
<1> DEFINE P == Planned(d)
           N == Named(d, Planned(d))
<1>1. P \subseteq Rows(d)
  BY PlannedIsClean, CleanIsPool DEF Pool
<1>2. P \subseteq N
  BY <1>1 DEF Named
<1>3. N \subseteq Rows(d)
  BY DEF Named
<1>4. \A c \in Class : Size(N, c) = Size(P, c)
  BY DEF CountsMatch
<1> HIDE DEF P, N
<1>5. ASSUME NEW r \in N
      PROVE  r \in P
  <2> DEFINE c == ClassOf[r[1]]
  <2>1. r[1] \in Session
    BY <1>3 DEF Rows
  <2>2. c \in Class
    BY <2>1, SessionsAssumption
  <2>3. IsFiniteSet(Of(N, c))
    <3>1. IsFiniteSet(N)
      BY <1>3, RowsFinite, FS_Subset
    <3>2. QED
      BY <3>1, SizeType
  <2>4. Of(P, c) \in SUBSET Of(N, c)
    BY <1>2 DEF Of
  <2>5. Of(N, c) = Of(P, c)
    <3>1. Cardinality(Of(N, c)) = Cardinality(Of(P, c))
      BY <1>4, <2>2 DEF Size
    <3>2. QED
      BY <2>3, <2>4, <3>1, FS_Subset
  <2>6. r \in Of(N, c)
    BY DEF Of
  <2>7. QED
    BY <2>5, <2>6 DEF Of
<1>6. QED
  BY <1>2, <1>5 DEF P, N

-----------------------------------------------------------------------------
(* How much a cap keeps.                                                   *)

\* Rows are ranked strictly: by rank, then by session and index.
LEMMA RanksOrder ==
  ASSUME NEW d \in Datasets
  PROVE  /\ \A r \in Rows(d) : ~Precedes(d, r, r)
         /\ \A p, q, r \in Rows(d) : Precedes(d, p, q) /\ Precedes(d, q, r) => Precedes(d, p, r)
         /\ \A q, r \in Rows(d) : q # r => Precedes(d, q, r) \/ Precedes(d, r, q)
<1> DEFINE R(r) == Rank(Identity(d, r))
<1>1. ASSUME NEW r \in Rows(d)
      PROVE  /\ R(r) \in Int /\ r[1] \in Int /\ r[2] \in Int
             /\ r = <<r[1], r[2]>>
  <2>1. PICK s \in Session : \E i \in 1 .. Len(d[s]) : r = <<s, i>>
    BY DEF Rows
  <2>2. PICK i \in 1 .. Len(d[s]) : r = <<s, i>>
    BY <2>1
  <2>3. Len(d[s]) \in Nat /\ s \in Int /\ i \in Int
    BY DatasetsAssumption, SessionsAssumption DEF Session
  <2>4. R(r) = Rank(<<d[s], i>>)
    BY <2>2 DEF Identity
  <2>5. QED
    BY <2>2, <2>3, <2>4, RankAssumption
<1>2. \A q, r : Precedes(d, q, r) <=>
        R(q) < R(r) \/ (R(q) = R(r) /\ (q[1] < r[1] \/ (q[1] = r[1] /\ q[2] < r[2])))
  BY DEF Precedes, Before
<1> HIDE DEF R
<1>3. \A r \in Rows(d) : ~Precedes(d, r, r)
  BY <1>1, <1>2
<1>4. ASSUME NEW p \in Rows(d), NEW q \in Rows(d), NEW r \in Rows(d),
             Precedes(d, p, q), Precedes(d, q, r)
      PROVE  Precedes(d, p, r)
  BY <1>1, <1>2, <1>4
<1>5. ASSUME NEW q \in Rows(d), NEW r \in Rows(d), q # r
      PROVE  Precedes(d, q, r) \/ Precedes(d, r, q)
  <2>1. q[1] # r[1] \/ q[2] # r[2]
    BY <1>1, <1>5
  <2>2. QED
    BY <1>1, <1>2, <2>1
<1>6. QED
  BY <1>3, <1>4, <1>5

\* Of at least n rows a cap of n keeps n: their numbers of predecessors are
\* all different and smaller than there are rows, so each number occurs.
LEMMA CapSize ==
  ASSUME NEW d \in Datasets, NEW R, R \subseteq Rows(d), NEW n \in Nat, n <= Cardinality(R)
  PROVE  Cardinality(Cap(d, R, n)) = n
<1> DEFINE P(r)  == {q \in R : Precedes(d, q, r)}
           rank  == [r \in R |-> Cardinality(P(r))]
           N     == Cardinality(R)
           C     == Cap(d, R, n)
           place == [r \in C |-> Cardinality(P(r))]
<1>1. IsFiniteSet(R) /\ N \in Nat
  BY RowsFinite, FS_Subset, FS_CardinalityType
<1>2. \A r \in R : IsFiniteSet(P(r)) /\ Cardinality(P(r)) \in Nat
  <2>1. ASSUME NEW r \in R
        PROVE  IsFiniteSet(P(r)) /\ Cardinality(P(r)) \in Nat
    <3>1. P(r) \in SUBSET R
      OBVIOUS
    <3>2. IsFiniteSet(P(r))
      BY <1>1, <3>1, FS_Subset
    <3>3. QED
      BY <3>2, FS_CardinalityType
  <2>2. QED
    BY <2>1
<1>3. ASSUME NEW q \in R, NEW r \in R, Precedes(d, q, r)
      PROVE  Cardinality(P(q)) < Cardinality(P(r))
  <2>1. P(q) \in SUBSET P(r) /\ q \in P(r) /\ q \notin P(q)
    BY <1>3, RanksOrder
  <2> HIDE DEF P
  <2>2. Cardinality(P(q)) <= Cardinality(P(r)) /\ Cardinality(P(q)) # Cardinality(P(r))
    BY <1>2, <2>1, FS_Subset
  <2>3. QED
    BY <1>2, <2>2
<1>4. ASSUME NEW q \in R, NEW r \in R, q # r
      PROVE  Cardinality(P(q)) # Cardinality(P(r))
  <2>1. Precedes(d, q, r) \/ Precedes(d, r, q)
    BY <1>4, RanksOrder
  <2> HIDE DEF P
  <2>2. Cardinality(P(q)) < Cardinality(P(r)) \/ Cardinality(P(r)) < Cardinality(P(q))
    BY <1>3, <2>1
  <2>3. QED
    BY <1>2, <2>2
<1>5. ASSUME NEW r \in R
      PROVE  Cardinality(P(r)) < N
  <2>1. P(r) \in SUBSET R /\ r \notin P(r)
    BY RanksOrder
  <2> HIDE DEF P
  <2>2. Cardinality(P(r)) <= N /\ Cardinality(P(r)) # N
    BY <1>1, <2>1, FS_Subset
  <2>3. QED
    BY <1>1, <1>2, <2>2
<1>6. C = {r \in R : Cardinality(P(r)) < n}
  BY DEF Cap
<1> HIDE DEF P, C
<1>7. rank \in Surjection(R, 0 .. N - 1)
  <2>1. rank \in Injection(R, 0 .. N - 1)
    <3>1. rank \in [R -> 0 .. N - 1]
      <4>1. \A r \in R : Cardinality(P(r)) \in 0 .. N - 1
        BY <1>1, <1>2, <1>5
      <4>2. QED
        BY <4>1
    <3>2. \A q, r \in R : rank[q] = rank[r] => q = r
      BY <1>4
    <3>3. QED
      BY <3>1, <3>2 DEF Injection, IsInjective
  <2>2. IsFiniteSet(0 .. N - 1) /\ Cardinality(0 .. N - 1) = N
    <3> HIDE DEF N
    <3>1. 0 \in Int /\ N - 1 \in Int /\ (IF 0 > N - 1 THEN 0 ELSE (N - 1) - 0 + 1) = N
      BY <1>1
    <3>2. QED
      BY <3>1, FS_Interval
  <2> HIDE DEF rank
  <2>3. QED
    BY <2>1, <2>2, FS_Injection
<1>8. place \in Injection(C, 0 .. n - 1)
  <2>1. \A r \in C : Cardinality(P(r)) \in 0 .. n - 1
    BY <1>2, <1>6
  <2>2. place \in [C -> 0 .. n - 1]
    BY <2>1
  <2>3. \A q, r \in C : place[q] = place[r] => q = r
    BY <1>4, <1>6
  <2>4. QED
    BY <2>2, <2>3 DEF Injection, IsInjective
<1>9. place \in Surjection(C, 0 .. n - 1)
  <2>1. ASSUME NEW k \in 0 .. n - 1
        PROVE  \E r \in C : place[r] = k
    <3>1. k \in 0 .. N - 1 /\ k < n
      BY <1>1
    <3>2. PICK r \in R : rank[r] = k
      BY <1>7, <3>1 DEF Surjection
    <3>3. r \in C
      BY <1>6, <3>1, <3>2
    <3>4. QED
      BY <3>2, <3>3
  <2>2. QED
    BY <1>8, <2>1 DEF Injection, Surjection
<1>10. QED
  <2>1. IsFiniteSet(0 .. n - 1) /\ Cardinality(0 .. n - 1) = n
    BY FS_Interval
  <2>2. QED
    BY <1>8, <1>9, <2>1, FS_Injection DEF C

\* D3-D takes as many rows of every class.
LEMMA Balanced ==
  ASSUME NEW d \in Datasets, NEW K, K \subseteq Rows(d), NEW c \in Class
  PROVE  Size(D3D(d, K), c) = BalancedCap(K)
<1> DEFINE B == BalancedCap(K)
<1>1. IsFiniteSet(K)
  BY RowsFinite, FS_Subset
<1>2. B \in Nat /\ B <= Size(K, c)
  <2>1. Size(K, "Normal") \in Nat /\ Size(K, "DDoS") \in Nat /\ Size(K, "PortScan") \in Nat
    BY <1>1, SizeType
  <2>2. QED
    BY <2>1 DEF BalancedCap, AttackCap, Least, Class
<1> HIDE DEF B
<1>3. Of(D3D(d, K), c) = Cap(d, Of(K, c), B)
  <2>1. D3D(d, K) = UNION {Cap(d, Of(K, x), B) : x \in Class}
    BY DEF D3D, B
  <2>2. \A x : \A r \in Cap(d, Of(K, x), B) : ClassOf[r[1]] = x
    BY CapSubset DEF Of
  <2>3. \A x \in Class : \A r \in Cap(d, Of(K, x), B) : ClassOf[r[1]] = c => x = c
    BY <2>2
  <2>4. \A r \in D3D(d, K) : ClassOf[r[1]] = c => r \in Cap(d, Of(K, c), B)
    BY <2>1, <2>3
  <2>5. Cap(d, Of(K, c), B) \subseteq D3D(d, K)
    BY <2>1
  <2>6. QED
    BY <2>2, <2>4, <2>5 DEF Of
<1>4. Of(K, c) \subseteq Rows(d)
  BY DEF Of
<1>5. Cardinality(Cap(d, Of(K, c), B)) = B
  BY <1>2, <1>4, CapSize DEF Size
<1>6. QED
  BY <1>3, <1>5 DEF Size, B

-----------------------------------------------------------------------------
(* The specification.                                                      *)

LEMMA FileNames ==
  File = {"manifests", "audit", "leakage", "split", "plan", "model", "d4audit"}
BY DEF File, Files

Place == {"idle", "read", "load", "manifests", "audit", "leakage", "split", "plan",
          "model", "d4audit"}

LEMMA D2Files ==
  D2Valid <=> /\ file["manifests"] # 0 /\ file["audit"] # 0 /\ file["leakage"] # 0
              /\ passed /\ flows = file["manifests"]
BY DEF D2Valid, Files

LEMMA AfterPlace == \A f \in File : After[f] \in Place
BY FileNames DEF After, Place

Types ==
  /\ at \in [Phase -> Place] /\ work \in [Phase -> Nat] /\ file \in [File -> Nat]
  /\ flows \in Nat /\ extracted \in Nat
  /\ rows = Unread \/ rows \in Datasets

\* The files of a phase are there in the order they are written, all of one
\* extraction; a run that is at its second output has written its first.
InStep ==
  /\ file["audit"] # 0 => file["manifests"] = file["audit"]
  /\ file["leakage"] # 0 => file["audit"] = file["leakage"]
  /\ file["plan"] # 0 => file["split"] = file["plan"]
  /\ at["d2"] = "audit" => file["manifests"] = work["d2"]
  /\ at["d2"] = "leakage" => file["manifests"] = work["d2"] /\ file["audit"] = work["d2"]
  /\ at["d3"] = "plan" => file["split"] = work["d3"]

\* While D4 is at work, what it has checked stays so.
D4Checked ==
  at["d4"] # "idle" =>
    /\ file["manifests"] # 0 /\ file["audit"] # 0 /\ file["leakage"] # 0
    /\ passed /\ flows = file["manifests"]
    /\ file["split"] # 0 /\ file["plan"] # 0 /\ work["d4"] = file["split"]

D4Loaded ==
  at["d4"] = "model" => flows = work["d4"] /\ rows \in Datasets /\ CountsMatch(rows)

\* D3 plans of rows that it has read.
D3Loaded == at["d3"] = "split" => rows \in Datasets

Inv == Types /\ InStep /\ D4Checked /\ D4Loaded /\ D3Loaded

LEMMA InvInit == Init => Inv
<1> SUFFICES ASSUME Init
             PROVE  Inv
  OBVIOUS
<1>1. Types
  BY DEF Init, Types, Place
<1>2. InStep
  BY FileNames DEF Init, InStep, Phase
<1>3. D4Checked /\ D4Loaded /\ D3Loaded
  BY DEF Init, D4Checked, D4Loaded, D3Loaded, Phase
<1>4. QED
  BY <1>1, <1>2, <1>3 DEF Inv

LEMMA NotUnread == Unread \notin Datasets
<1> SUFFICES ASSUME Unread \in Datasets
             PROVE  FALSE
  OBVIOUS
<1>1. DOMAIN Unread = Session
  BY DatasetsAssumption
<1>2. 1 \in Session
  BY SessionsAssumption DEF Session
<1>3. DOMAIN Unread = {}
  BY DEF Unread
<1>4. QED
  BY <1>1, <1>2, <1>3

LEMMA ReadRowsType ==
  ASSUME Inv, ReadRows
  PROVE  rows' \in Datasets /\ (rows \in Datasets => rows' = rows)
BY NotUnread DEF Inv, Types, ReadRows

LEMMA InvNext == Inv /\ [Next]_vars => Inv'
<1> SUFFICES ASSUME Inv, [Next]_vars
             PROVE  Inv'
  OBVIOUS
<1> USE FileNames DEF Place
<1>1. CASE FreezeBaseline \/ ReplaceRf1 \/ CaptureFinal
  BY <1>1 DEF FreezeBaseline, ReplaceRf1, CaptureFinal, Inv, Types, InStep, D4Checked,
     D4Loaded, D3Loaded
<1>2. CASE Extract
  BY <1>2 DEF Extract, Inv, Types, InStep, D4Checked, D4Loaded, D3Loaded
<1>3. CASE AuditStart
  BY <1>3 DEF Files, AuditStart, Goto, Inv, Types, InStep, D4Checked, D4Loaded, D3Loaded, Phase
<1>4. CASE PlanStart
  BY <1>4 DEF PlanStart, Goto, Inv, Types, InStep, D4Checked, D4Loaded, D3Loaded, Phase
<1>5. CASE PlanRead
  BY <1>5, ReadRowsType DEF PlanRead, Goto, Inv, Types, InStep, D4Checked, D4Loaded, D3Loaded, Phase
<1>6. CASE TrainStart
  BY <1>6, D2Files DEF TrainStart, Goto, Inv, Types, InStep, D4Checked, D4Loaded, D3Loaded, Phase
<1>7. CASE Load
  BY <1>7, ReadRowsType DEF Load, Goto, Inv, Types, InStep, D4Checked, D4Loaded, D3Loaded, Phase
<1>8. ASSUME NEW p \in Phase, Write(p)
      PROVE  Inv'
  <2>1. CASE p = "d2"
    BY <1>8, <2>1 DEF Files, Write, After, Goto, Inv, Types, InStep, D4Checked, D4Loaded, D3Loaded, Phase
  <2>2. CASE p = "d3"
    BY <1>8, <2>2 DEF Files, Write, After, Goto, Inv, Types, InStep, D4Checked, D4Loaded, D3Loaded, Phase
  <2>3. CASE p = "d4"
    BY <1>8, <2>3 DEF Files, Write, After, Goto, Inv, Types, InStep, D4Checked, D4Loaded, D3Loaded, Phase
  <2>4. QED
    BY <2>1, <2>2, <2>3 DEF Phase
<1>9. ASSUME NEW p \in Phase, Abort(p)
      PROVE  Inv'
  BY <1>9 DEF Abort, Goto, Inv, Types, InStep, D4Checked, D4Loaded, D3Loaded, Phase
<1>10. ASSUME NEW p \in Phase, CleanPhase(p)
       PROVE  Inv'
  <2>1. /\ at["d2"] = "idle" /\ at["d3"] = "idle" /\ at["d4"] = "idle" /\ at' = at
        /\ \A f \in File : file'[f] = IF f \in Files(p) THEN 0 ELSE file[f]
    BY <1>10 DEF CleanPhase, Idle, Phase
  <2>2. Types'
    <3>1. file' \in [File -> Nat]
      BY <1>10 DEF CleanPhase, Inv, Types
    <3>2. QED
      BY <1>10, <3>1 DEF CleanPhase, Inv, Types
  <2>3. InStep'
    <3>1. CASE p = "d2"
      BY <2>1, <3>1 DEF Inv, InStep, Files
    <3>2. CASE p = "d3"
      BY <2>1, <3>2 DEF Inv, InStep, Files
    <3>3. CASE p = "d4"
      BY <2>1, <3>3 DEF Inv, InStep, Files
    <3>4. QED
      BY <3>1, <3>2, <3>3 DEF Phase
  <2>4. (D4Checked /\ D4Loaded /\ D3Loaded)'
    BY <2>1 DEF D4Checked, D4Loaded, D3Loaded
  <2>5. QED
    BY <2>2, <2>3, <2>4 DEF Inv
<1>11. CASE CleanFlows
  BY <1>11 DEF CleanFlows, Idle, Inv, Types, InStep, D4Checked, D4Loaded, D3Loaded, Phase
<1>12. CASE UNCHANGED vars
  BY <1>12 DEF vars, Inv, Types, InStep, D4Checked, D4Loaded, D3Loaded
<1>13. QED
  BY <1>1, <1>2, <1>3, <1>4, <1>5, <1>6, <1>7, <1>8, <1>9, <1>10, <1>11, <1>12 DEF Next

\* Through every deletion, new extraction and second run of a phase.
THEOREM FitIsAudited == Spec => []FitIsAuditedPlan
<1>1. Inv => FitIsAuditedPlan
  <2> SUFFICES ASSUME Inv, at["d4"] = "model"
               PROVE  /\ \A f \in Files("d2") \cup Files("d3") : file[f] = flows
                      /\ passed
                      /\ Named(rows, Planned(rows)) = Planned(rows)
    BY DEF FitIsAuditedPlan
  <2>1. /\ file["manifests"] # 0 /\ file["audit"] # 0 /\ file["leakage"] # 0
        /\ passed /\ flows = file["manifests"]
        /\ file["split"] # 0 /\ file["plan"] # 0 /\ work["d4"] = file["split"]
    BY DEF Inv, D4Checked
  <2>2. flows = work["d4"] /\ rows \in Datasets /\ CountsMatch(rows)
    BY DEF Inv, D4Loaded
  <2>3. \A f \in Files("d2") \cup Files("d3") : file[f] = flows
    BY <2>1, <2>2 DEF Inv, InStep, Files
  <2>4. QED
    BY <2>1, <2>2, <2>3, NamedExact
<1>2. QED
  BY <1>1, InvInit, InvNext, PTL DEF Spec

\* prepare_experiment_d_d3.py: the policies it writes nest, and D3-D is
\* balanced, whatever the flow files hold and however they are ranked.
THEOREM StrategiesNest == Spec => []StrategiesNested
<1>1. Inv => StrategiesNested
  <2> SUFFICES ASSUME Inv, at["d3"] = "split"
               PROVE  \E K \in {Clean(rows)} :
                        /\ D3D(rows, K) \subseteq D3B(rows, K)
                        /\ D3B(rows, K) \subseteq K /\ D3C(rows, K) \subseteq K
                        /\ \A c \in Class : Size(D3D(rows, K), c) = BalancedCap(K)
    BY DEF StrategiesNested
  <2> DEFINE K == Clean(rows)
  <2>1. rows \in Datasets /\ K \subseteq Rows(rows)
    BY CleanIsPool DEF Inv, D3Loaded, Pool
  <2>2. IsFiniteSet(K)
    BY <2>1, RowsFinite, FS_Subset
  <2> HIDE DEF K
  <2>3. /\ D3D(rows, K) \subseteq D3B(rows, K)
        /\ D3B(rows, K) \subseteq K /\ D3C(rows, K) \subseteq K
    BY <2>2, PoliciesNest
  <2>4. \A c \in Class : Size(D3D(rows, K), c) = BalancedCap(K)
    BY <2>1, Balanced
  <2>5. QED
    BY <2>3, <2>4 DEF K
<1>2. QED
  BY <1>1, InvInit, InvNext, PTL DEF Spec
=============================================================================
