-------------------------- MODULE PublicationProofs --------------------------
(***************************************************************************)
(* Proofs about Publication: for any number of trainings, publications,    *)
(* loaders, runs of Experiment C and syncs, beside each other and killed   *)
(* anywhere, a model that is loaded is the declared one; a publication     *)
(* that ends with no other beside it is whole; and evidence that is        *)
(* accepted are the counts of the model named in it.                       *)
(***************************************************************************)
EXTENDS Publication, SequenceTheorems, TLAPS

-----------------------------------------------------------------------------
(* What each process writes.                                               *)

TrainedFile == {"baseline model", "baseline metrics", "tuned model", "tuned metrics"}
FileName == {"baseline model", "baseline metrics", "tuned model", "tuned metrics",
             "active", "metadata", "prior", "ddos", "report", "matrix"}

LEMMA Processes ==
  /\ DOMAIN Script = {"baseline", "tuned", "v3_inference", "v3_final", "c_final", "api", "sync"}
  /\ Process = Publisher \cup DOMAIN Script /\ Publisher \cap DOMAIN Script = {}
  /\ Publisher # {}
BY PublisherAssumption DEF Process, Script

LEMMA OutputsAre ==
  /\ \A p \in Publisher : Outputs[p] = <<"active", "metadata">>
  /\ Outputs["baseline"] = <<"baseline model", "baseline metrics">>
  /\ Outputs["tuned"] = <<"tuned model", "tuned metrics">>
  /\ Outputs["v3_inference"] = <<"prior">> /\ Outputs["v3_final"] = <<"ddos", "report">>
  /\ Outputs["c_final"] = <<"ddos", "matrix">>
  /\ Outputs["api"] = <<>> /\ Outputs["sync"] = <<>>
<1>1. /\ \A p \in Publisher : Outputs[p] = <<"active", "metadata">>
      /\ \A p \in DOMAIN Script : Outputs[p] = Script[p]
  BY Processes DEF Outputs
<1>2. {"baseline", "tuned", "v3_inference", "v3_final", "c_final", "api", "sync"}
        \subseteq DOMAIN Script
  BY Processes
<1>3. QED
  BY <1>1, <1>2 DEF Script

LEMMA Lengths ==
  /\ Outputs["baseline"] \in Seq(FileName) /\ Len(Outputs["baseline"]) = 2
  /\ Outputs["tuned"] \in Seq(FileName) /\ Len(Outputs["tuned"]) = 2
  /\ \A p \in Publisher : Outputs[p] \in Seq(FileName) /\ Len(Outputs[p]) = 2
  /\ Outputs["v3_inference"] \in Seq(FileName) /\ Len(Outputs["v3_inference"]) = 1
  /\ Outputs["v3_final"] \in Seq(FileName) /\ Len(Outputs["v3_final"]) = 2
  /\ Outputs["c_final"] \in Seq(FileName) /\ Len(Outputs["c_final"]) = 2
  /\ Outputs["api"] \in Seq(FileName) /\ Len(Outputs["api"]) = 0
  /\ Outputs["sync"] \in Seq(FileName) /\ Len(Outputs["sync"]) = 0
<1>a. \A f, g \in FileName : /\ <<f, g>> \in Seq(FileName) /\ Len(<<f, g>>) = 2
                             /\ <<f>> \in Seq(FileName) /\ Len(<<f>>) = 1
  OBVIOUS
<1>b. {"baseline model", "baseline metrics", "tuned model", "tuned metrics", "active",
       "metadata", "prior", "ddos", "report", "matrix"} \subseteq FileName
  BY DEF FileName
<1>1. Outputs["baseline"] \in Seq(FileName) /\ Len(Outputs["baseline"]) = 2
  BY OutputsAre, <1>a, <1>b, Zenon
<1>2. Outputs["tuned"] \in Seq(FileName) /\ Len(Outputs["tuned"]) = 2
  BY OutputsAre, <1>a, <1>b, Zenon
<1>3. \A p \in Publisher : Outputs[p] \in Seq(FileName) /\ Len(Outputs[p]) = 2
  <2>1. <<"active", "metadata">> \in Seq(FileName) /\ Len(<<"active", "metadata">>) = 2
    BY DEF FileName
  <2>2. QED
    BY <2>1, OutputsAre
<1>4. Outputs["v3_inference"] \in Seq(FileName) /\ Len(Outputs["v3_inference"]) = 1
  BY OutputsAre, <1>a, <1>b, Zenon
<1>5. Outputs["v3_final"] \in Seq(FileName) /\ Len(Outputs["v3_final"]) = 2
  BY OutputsAre, <1>a, <1>b, Zenon
<1>6. Outputs["c_final"] \in Seq(FileName) /\ Len(Outputs["c_final"]) = 2
  BY OutputsAre, <1>a, <1>b, Zenon
<1>7. Outputs["api"] \in Seq(FileName) /\ Len(Outputs["api"]) = 0
  BY OutputsAre, EmptySeq
<1>8. Outputs["sync"] \in Seq(FileName) /\ Len(Outputs["sync"]) = 0
  BY OutputsAre, EmptySeq
<1>9. QED
  BY <1>1, <1>2, <1>3, <1>4, <1>5, <1>6, <1>7, <1>8

LEMMA LengthOf ==
  ASSUME NEW p \in Process
  PROVE  /\ Outputs[p] \in Seq(FileName) /\ Len(Outputs[p]) \in {0, 1, 2}
         /\ Len(Outputs[p]) = 1 => p = "v3_inference"
<1>1. Outputs[p] \in Seq(FileName)
  BY Lengths, Processes
<1>2. Len(Outputs[p]) = 2 \/ Len(Outputs[p]) = 0 \/ (Len(Outputs[p]) = 1 /\ p = "v3_inference")
  BY Lengths, Processes
<1>3. 1 # 2 /\ 1 # 0
  OBVIOUS
<1>4. QED
  BY <1>1, <1>2, <1>3, Zenon

LEMMA Names ==
  /\ Outputs["baseline"][1] = "baseline model" /\ Outputs["baseline"][2] = "baseline metrics"
  /\ Outputs["tuned"][1] = "tuned model" /\ Outputs["tuned"][2] = "tuned metrics"
  /\ \A p \in Publisher : Outputs[p][1] = "active" /\ Outputs[p][2] = "metadata"
  /\ Outputs["v3_inference"][1] = "prior"
  /\ Outputs["v3_final"][1] = "ddos" /\ Outputs["v3_final"][2] = "report"
  /\ Outputs["c_final"][1] = "ddos" /\ Outputs["c_final"][2] = "matrix"
<1>1. \A s, a, b : s = <<a, b>> => s[1] = a /\ s[2] = b
  OBVIOUS
<1>2. \A s, a : s = <<a>> => s[1] = a
  OBVIOUS
<1>3. Outputs["baseline"][1] = "baseline model" /\ Outputs["baseline"][2] = "baseline metrics"
  <2>1. Outputs["baseline"] = <<"baseline model", "baseline metrics">>
    BY OutputsAre
  <2>2. QED
    BY <1>1, <2>1, Zenon
<1>4. Outputs["tuned"][1] = "tuned model" /\ Outputs["tuned"][2] = "tuned metrics"
  <2>1. Outputs["tuned"] = <<"tuned model", "tuned metrics">>
    BY OutputsAre
  <2>2. QED
    BY <1>1, <2>1, Zenon
<1>5. ASSUME NEW p \in Publisher PROVE Outputs[p][1] = "active" /\ Outputs[p][2] = "metadata"
  <2>1. Outputs[p] = <<"active", "metadata">>
    BY OutputsAre
  <2>2. QED
    BY <1>1, <2>1, Zenon
<1>6. Outputs["v3_inference"][1] = "prior"
  <2>1. Outputs["v3_inference"] = <<"prior">>
    BY OutputsAre
  <2>2. QED
    BY <1>2, <2>1, Zenon
<1>7. Outputs["v3_final"][1] = "ddos" /\ Outputs["v3_final"][2] = "report"
  <2>1. Outputs["v3_final"] = <<"ddos", "report">>
    BY OutputsAre
  <2>2. QED
    BY <1>1, <2>1, Zenon
<1>8. Outputs["c_final"][1] = "ddos" /\ Outputs["c_final"][2] = "matrix"
  <2>1. Outputs["c_final"] = <<"ddos", "matrix">>
    BY OutputsAre
  <2>2. QED
    BY <1>1, <2>1, Zenon
<1>9. QED
  BY <1>3, <1>4, <1>5, <1>6, <1>7, <1>8

LEMMA FileNames ==
  /\ FileName \subseteq File
  /\ \A p \in Process : \A i \in 1 .. Len(Outputs[p]) : Outputs[p][i] \in File
<1>1. \A p \in Process : \A i \in 1 .. Len(Outputs[p]) : Outputs[p][i] \in ToSet(Outputs[p])
  BY LengthOf DEF ToSet
<1>2. \A p \in Process : \A i \in 1 .. Len(Outputs[p]) : Outputs[p][i] \in File
  BY <1>1 DEF File
<1>3. \A p \in Process :
        /\ Len(Outputs[p]) = 2 => Outputs[p][1] \in File /\ Outputs[p][2] \in File
        /\ Len(Outputs[p]) = 1 => Outputs[p][1] \in File
  BY <1>2
<1>4. QED
  <2>1. Outputs["baseline"][1] \in File /\ Outputs["baseline"][2] \in File
    <3>1. "baseline" \in Process /\ Len(Outputs["baseline"]) = 2
      BY Lengths, Processes
    <3>2. QED
      BY <3>1, <1>3, Zenon
  <2>2. Outputs["tuned"][1] \in File /\ Outputs["tuned"][2] \in File
    <3>1. "tuned" \in Process /\ Len(Outputs["tuned"]) = 2
      BY Lengths, Processes
    <3>2. QED
      BY <3>1, <1>3, Zenon
  <2>3. "active" \in File /\ "metadata" \in File
    <3>1. PICK c \in Publisher : TRUE
      BY Processes
    <3>2. c \in Process /\ Len(Outputs[c]) = 2
      BY <3>1, Lengths, Processes
    <3>3. Outputs[c][1] \in File /\ Outputs[c][2] \in File
      BY <3>2, <1>3, Zenon
    <3>4. QED
      BY <3>1, <3>3, Names
  <2>4. Outputs["v3_final"][1] \in File /\ Outputs["v3_final"][2] \in File
    <3>1. "v3_final" \in Process /\ Len(Outputs["v3_final"]) = 2
      BY Lengths, Processes
    <3>2. QED
      BY <3>1, <1>3, Zenon
  <2>5. Outputs["c_final"][1] \in File /\ Outputs["c_final"][2] \in File
    <3>1. "c_final" \in Process /\ Len(Outputs["c_final"]) = 2
      BY Lengths, Processes
    <3>2. QED
      BY <3>1, <1>3, Zenon
  <2>6. Outputs["v3_inference"][1] \in File
    <3>1. "v3_inference" \in Process /\ Len(Outputs["v3_inference"]) = 1
      BY Lengths, Processes
    <3>2. QED
      BY <3>1, <1>3, Zenon
  <2>7. QED
    BY <2>1, <2>2, <2>3, <2>4, <2>5, <2>6, <1>2, Names DEF FileName

\* s is the end of p's outputs: what p may still have to write.
IsLeft(p, s) ==
  /\ s \in Seq(FileName) /\ Len(s) <= Len(Outputs[p])
  /\ \A i \in 1 .. Len(s) : s[i] = Outputs[p][Len(Outputs[p]) - Len(s) + i]

LEMMA AllLeft == ASSUME NEW p \in Process PROVE IsLeft(p, Outputs[p]) /\ IsLeft(p, <<>>)
<1> DEFINE o == Outputs[p]
<1>1. o \in Seq(FileName) /\ Len(o) \in Nat /\ <<>> \in Seq(FileName) /\ Len(<<>>) = 0
  BY LengthOf, EmptySeq
<1> HIDE DEF o
<1>2. /\ Len(o) <= Len(o) /\ \A i \in 1 .. Len(o) : o[i] = o[Len(o) - Len(o) + i]
      /\ Len(<<>>) <= Len(o) /\ 1 .. Len(<<>>) = {}
  BY <1>1
<1>3. QED
  BY <1>1, <1>2 DEF IsLeft, o

\* The next file p writes tells p, and what is left after it.
LEMMA NextOutput ==
  ASSUME NEW p \in Process, NEW s, IsLeft(p, s), s # <<>>
  PROVE  /\ Head(s) \in File /\ Head(s) \in FileName /\ IsLeft(p, Tail(s))
         /\ Len(s) \in {1, 2} /\ Len(Tail(s)) = Len(s) - 1
         /\ Head(s) \in TrainedFile <=> p \in Trainer
         /\ Head(s) \in {"active", "metadata"} <=> p \in Publisher
         /\ Head(s) = "active" => Len(s) = 2
         /\ Head(s) = "metadata" => Len(s) = 1
         /\ Head(s) = "report" => p = "v3_final"
<1> DEFINE o == Outputs[p]
           t == Tail(s)
<1>1. o \in Seq(FileName) /\ Len(o) \in {0, 1, 2} /\ s \in Seq(FileName) /\ Len(s) <= Len(o)
  BY LengthOf DEF IsLeft
<1>a. \A i \in 1 .. Len(s) : s[i] = o[Len(o) - Len(s) + i]
  BY DEF IsLeft
<1>b. Len(s) \in {1, 2}
  <2>1. Len(s) \in Nat \ {0}
    BY <1>1, EmptySeq
  <2>2. \A k \in Nat \ {0}, l \in {0, 1, 2} : k <= l => k \in {1, 2}
    OBVIOUS
  <2>3. QED
    BY <1>1, <2>1, <2>2
<1>c. Len(o) = 1 => p = "v3_inference"
  BY LengthOf
<1> HIDE DEF o
<1>2. /\ t \in Seq(FileName) /\ Len(t) = Len(s) - 1
      /\ \A i \in 1 .. Len(t) : t[i] = s[i + 1]
  BY HeadTailProperties DEF IsLeft
<1>3. Head(s) = s[1] /\ s[1] = o[Len(o) - Len(s) + 1]
  BY <1>1, <1>a, <1>b
<1> HIDE DEF t
<1>5. IsLeft(p, t)
  <2>1. ASSUME NEW i \in 1 .. Len(t)
        PROVE  t[i] = o[Len(o) - Len(t) + i]
    <3>1. i + 1 \in 1 .. Len(s) /\ Len(o) - Len(s) + (i + 1) = Len(o) - Len(t) + i
      BY <1>1, <1>2, <1>b
    <3>2. t[i] = s[i + 1] /\ s[i + 1] = o[Len(o) - Len(s) + (i + 1)]
      BY <1>2, <1>a, <3>1
    <3>3. QED
      BY <3>1, <3>2
  <2>2. QED
    BY <2>1, <1>1, <1>2, <1>b DEF IsLeft, o
<1>6. Head(s) \in File
  <2>1. Len(o) - Len(s) + 1 \in 1 .. Len(o)
    BY <1>1, <1>b
  <2>2. QED
    BY <2>1, <1>3, FileNames DEF o
<1>7. \/ Len(o) = 2 /\ Len(s) = 2 /\ Head(s) = o[1]
      \/ Len(o) = 2 /\ Len(s) = 1 /\ Head(s) = o[2]
      \/ Len(o) = 1 /\ Len(s) = 1 /\ Head(s) = o[1] /\ p = "v3_inference"
  BY <1>1, <1>3, <1>b, <1>c
<1>8. p \in Publisher \cup {"baseline", "tuned", "v3_inference", "v3_final", "c_final"}
  <2>1. Len(o) # 0
    BY <1>7
  <2>2. QED
    BY <2>1, Lengths, Processes DEF o
<1> DEFINE h == Head(s)
<1>d. /\ p = "baseline" => h \in {"baseline model", "baseline metrics"}
      /\ p = "tuned" => h \in {"tuned model", "tuned metrics"}
      /\ p \in Publisher => \/ h = "active" /\ Len(s) = 2
                            \/ h = "metadata" /\ Len(s) = 1
      /\ p = "v3_inference" => h = "prior"
      /\ p = "v3_final" => h \in {"ddos", "report"}
      /\ p = "c_final" => h \in {"ddos", "matrix"}
  BY <1>7, Lengths, Names DEF o
<1> HIDE DEF h
<1>9. /\ h \in TrainedFile <=> p \in Trainer
      /\ h \in {"active", "metadata"} <=> p \in Publisher
      /\ h = "active" => Len(s) = 2
      /\ h = "metadata" => Len(s) = 1
      /\ h = "report" => p = "v3_final"
  <2>1. Publisher \cap {"baseline", "tuned", "v3_inference", "v3_final", "c_final"} = {}
    BY Processes
  <2>2. CASE p \in Publisher
    BY <1>d, <2>1, <2>2 DEF TrainedFile, Trainer
  <2>3. CASE p \in {"baseline", "tuned", "v3_inference", "v3_final", "c_final"}
    BY <1>d, <2>1, <2>3 DEF TrainedFile, Trainer
  <2>4. QED
    BY <1>8, <2>2, <2>3
<1>e. h \in FileName
  BY <1>1, <1>3, <1>b, ElementOfSeq DEF h
<1>10. QED
  BY <1>e, <1>2, <1>b, <1>5, <1>6, <1>9 DEF t, h

-----------------------------------------------------------------------------
(* The invariant.                                                          *)

\* What a file of one fit holds: a model, its metrics, a result of one model.
IsFit(c) == c \in Int \X Int /\ c[1] \in 1 .. fits /\ c[2] = c[1]

Place == {"idle", "write", "hash", "verify", "load", "up", "prior",
          "experiment a", "report", "matrix", "validate"}

Types ==
  /\ file \in [File -> Int \X Int]
  /\ pc \in [Process -> Place]
  /\ todo \in [Process -> Seq(FileName)] /\ \A p \in Process : IsLeft(p, todo[p])
  /\ open \subseteq {p \in Process : pc[p] = "write" /\ todo[p] # <<>>}
  /\ mem \in [Process -> Int \X Int]
  /\ selected \in [Publisher -> Trainer]
  /\ read \in [prior : Int, report : Int \X Int, matrix : Int \X Int]
  /\ fits \in Nat /\ calm \subseteq Process /\ alone \subseteq Publisher

\* Files that hold one fit hold one that was made, and so do trainers.
Kept ==
  /\ \A f \in TrainedFile \cup {"active"} : file[f] \in {Absent, Torn} \/ IsFit(file[f])
  /\ \A t \in Trainer : pc[t] # "idle" => IsFit(mem[t])

\* Between hash and load the file is the one that was hashed, or the loader
\* is not calm; what it loads is a fit.
Loaded ==
  \A p \in Loader :
    /\ pc[p] = "load" /\ p \in calm => mem[p][1] = Hash("active")
    /\ pc[p] \in {"up", "prior", "write"} =>
         /\ mem[p][2] \in 1 .. fits
         /\ p \in calm => mem[p][1] = mem[p][2]

\* A publication is at the first output, between copy and hash, at the second
\* output, or done; one that is alone has no other at work beside it.
Working ==
  /\ \A c \in Publisher :
       pc[c] # "idle" => /\ mem[c][2] \in 1 .. fits /\ pc[c] \in {"write", "hash"}
                         /\ pc[c] = "hash" => Len(todo[c]) = 1
  /\ \A c \in alone : \A q \in Publisher : q # c => pc[q] = "idle"

\* The hash of a publication that is alone is that of its copy, before its
\* metadata are written and, in them, also after its end.
Hashed ==
  \A c \in alone :
    /\ pc[c] = "idle" => Len(todo[c]) = 0
    /\ pc[c] = "write" /\ Len(todo[c]) = 1 => mem[c][1] = Hash("active")
    /\ pc[c] \in {"write", "idle"} /\ Len(todo[c]) = 0 => file["metadata"][1] = Hash("active")

\* With no training beside it, the model a publication copies stays the one
\* its metrics are of.
Undisturbed ==
  \A c \in alone \cap calm :
    /\ pc[c] # "idle" => /\ \A t \in Trainer : pc[t] = "idle"
                         /\ file[ModelOf[selected[c]]] = Of(mem[c][2])
    /\ pc[c] = "hash" => file["active"] = Of(mem[c][2])
    /\ pc[c] = "write" /\ Len(todo[c]) = 1 => mem[c][1] = mem[c][2]
    /\ pc[c] \in {"write", "idle"} /\ Len(todo[c]) = 0 =>
         file["metadata"][2] = file["metadata"][1]

\* There is one report, of one run, which is calm for good or not at all: a run
\* that finds a report does not start.
Reported == file["report"] \in {Absent, Torn} \/ ("v3_final" \in calm => IsFit(file["report"]))

\* What the sync has read of Experiment C is that report, and it accepts only
\* a table that counts like the model that made it.
Taken ==
  /\ pc["sync"] \in {"matrix", "validate", "write"} =>
       file["report"] # Absent /\ ("v3_final" \in calm => IsFit(read.report))
  /\ pc["sync"] = "write" => Tally(read.matrix) = Tally(Of(read.report[2]))

IInv == Types /\ Kept /\ Loaded /\ Working /\ Hashed /\ Undisturbed /\ Reported /\ Taken

-----------------------------------------------------------------------------
(* Writes.                                                                 *)

\* A process that opens or closes a file writes its next output.
LEMMA Writing ==
  ASSUME Types, NEW p \in Process, pc[p] = "write", todo[p] # <<>>
  PROVE  LET h == Head(todo[p])
             t == Tail(todo[p])
         IN  /\ h \in File /\ h \in FileName /\ IsLeft(p, t) /\ t \in Seq(FileName)
             /\ Len(todo[p]) \in {1, 2} /\ Len(t) = Len(todo[p]) - 1
             /\ h \in TrainedFile <=> p \in Trainer
             /\ h \in {"active", "metadata"} <=> p \in Publisher
             /\ h = "active" => Len(todo[p]) = 2
             /\ h = "metadata" => Len(todo[p]) = 1
             /\ h = "report" => p = "v3_final"
<1> DEFINE s == todo[p]
<1>1. IsLeft(p, s) /\ s # <<>>
  BY DEF Types
<1> HIDE DEF s
<1>2. /\ Head(s) \in File /\ Head(s) \in FileName /\ IsLeft(p, Tail(s))
      /\ Len(s) \in {1, 2} /\ Len(Tail(s)) = Len(s) - 1
      /\ Head(s) \in TrainedFile <=> p \in Trainer
      /\ Head(s) \in {"active", "metadata"} <=> p \in Publisher
      /\ Head(s) = "active" => Len(s) = 2
      /\ Head(s) = "metadata" => Len(s) = 1
      /\ Head(s) = "report" => p = "v3_final"
  BY <1>1, NextOutput
<1>3. Tail(s) \in Seq(FileName)
  BY <1>2 DEF IsLeft
<1>4. QED
  BY <1>2, <1>3, Zenon DEF s

LEMMA Members ==
  /\ Trainer \subseteq Process /\ Loader \subseteq Process /\ Publisher \subseteq Process
  /\ "sync" \in Process /\ "sync" \notin Trainer /\ "sync" \notin Loader
  /\ Publisher \cap Trainer = {} /\ Publisher \cap Loader = {} /\ Trainer \cap Loader = {}
  /\ "sync" \notin Publisher /\ "c_final" \notin Publisher /\ "c_final" \notin Trainer
  /\ "c_final" \in Loader /\ "v3_final" \in Loader
<1> DEFINE D == {"baseline", "tuned", "v3_inference", "v3_final", "c_final", "api", "sync"}
<1>1. /\ D \subseteq Process /\ Publisher \subseteq Process
      /\ \A p \in D : p \notin Publisher
  BY Processes
<1>2. /\ Trainer \subseteq D /\ Loader \subseteq D /\ "sync" \in D
      /\ "c_final" \in Loader /\ "v3_final" \in Loader
  BY DEF Trainer, Loader
<1>3. "sync" \notin Trainer /\ "c_final" \notin Trainer
  BY DEF Trainer
<1>4. "sync" \notin Loader /\ "baseline" \notin Loader /\ "tuned" \notin Loader
  BY DEF Loader
<1>5. Trainer \cap Loader = {}
  BY <1>4 DEF Trainer
<1> HIDE DEF D
<1>6. QED
  BY <1>1, <1>2, <1>3, <1>4, <1>5

LEMMA ModelFiles ==
  ASSUME NEW k \in Trainer
  PROVE  /\ ModelOf[k] \in TrainedFile /\ MetricsOf[k] \in TrainedFile
         /\ ModelOf[k] # "active" /\ ModelOf[k] # "metadata" /\ ModelOf[k] # "report"
         /\ TrainedFile \cup {"active", "metadata", "report"} \subseteq File
<1>1. TrainedFile \cup {"active", "metadata", "report"} \subseteq File
  BY FileNames DEF TrainedFile, FileName
<1>2. QED
  <2>1. CASE k = "baseline"
    BY <1>1, <2>1 DEF ModelOf, MetricsOf, TrainedFile
  <2>2. CASE k = "tuned"
    BY <1>1, <2>2 DEF ModelOf, MetricsOf, TrainedFile
  <2>3. QED
    BY <2>1, <2>2 DEF Trainer

LEMMA Contents ==
  ASSUME Types, NEW p \in Process, pc[p] = "write", todo[p] # <<>>
  PROVE  LET f == Head(todo[p])
             c == Content(p, f)
         IN  /\ c \in Int \X Int
             /\ p \in Trainer => c = mem[p]
             /\ f = "active" => c = file[ModelOf[selected[p]]]
             /\ f = "metadata" => c = mem[p]
             /\ f = "report" => c = mem["v3_final"]
<1> DEFINE f == Head(todo[p])
           c == Content(p, f)
<1>1. /\ f \in FileName /\ (f \in TrainedFile <=> p \in Trainer)
      /\ f \in {"active", "metadata"} <=> p \in Publisher
  BY Writing
<1>2. /\ mem[p] \in Int \X Int
      /\ p \in Publisher => file[ModelOf[selected[p]]] \in Int \X Int
      /\ PriorResult \in Int \X Int /\ FinalReport \in Int \X Int /\ FinalMatrix \in Int \X Int
      /\ Written \in Int \X Int
  <2>1. ASSUME p \in Publisher PROVE file[ModelOf[selected[p]]] \in Int \X Int
    <3>1. selected[p] \in Trainer
      BY <2>1 DEF Types
    <3>2. ModelOf[selected[p]] \in File
      BY <3>1, ModelFiles
    <3>3. QED
      BY <3>2 DEF Types
  <2>2. /\ \A q \in Process : mem[q] \in Int \X Int /\ mem[q][2] \in Int
        /\ read.prior \in Int
    BY DEF Types
  <2>3. {"v3_inference", "v3_final", "c_final"} \subseteq Process
    BY Processes
  <2>4. QED
    BY <2>1, <2>2, <2>3 DEF PriorResult, FinalReport, FinalMatrix, Written, Of
<1> HIDE DEF f
<1>3. CASE p \in Trainer
  <2>1. f \notin {"active", "metadata", "prior", "ddos", "report", "matrix"}
    BY <1>1, <1>3 DEF TrainedFile
  <2>2. c = mem[p]
    BY <1>3, <2>1 DEF Content
  <2>3. QED
    BY <2>1, <2>2, <1>2 DEF f
<1>4. CASE p \notin Trainer
  <2>1. f \in {"active", "metadata", "prior", "ddos", "report", "matrix"}
    BY <1>1, <1>4 DEF FileName, TrainedFile
  <2>2. /\ f = "active" => c = file[ModelOf[selected[p]]]
        /\ f = "metadata" => c = mem[p]
        /\ f = "ddos" => c = Written
        /\ f = "prior" => c = PriorResult
        /\ f = "report" => c = FinalReport
        /\ f = "matrix" => c = FinalMatrix
    BY <1>4 DEF Content
  <2>3. f = "active" => p \in Publisher
    BY <1>1
  <2>4. QED
    BY <2>1, <2>2, <2>3, <1>2, <1>4 DEF FinalReport, f
<1>5. QED
  BY <1>3, <1>4

-----------------------------------------------------------------------------
(* Types are kept.                                                         *)

LEMMA GotoIs ==
  ASSUME Types, NEW p \in Process, NEW w \in Place, Goto(p, w)
  PROVE  /\ pc' \in [Process -> Place] /\ pc'[p] = w
         /\ \A q \in Process : q # p => pc'[q] = pc[q]
BY DEF Types, Goto

LEMMA KeepIs ==
  ASSUME Types, NEW p \in Process, NEW a \in Int, NEW b \in Int, Keep(p, a, b)
  PROVE  /\ mem' \in [Process -> Int \X Int] /\ mem'[p] = <<a, b>>
         /\ mem'[p][1] = a /\ mem'[p][2] = b
         /\ \A q \in Process : q # p => mem'[q] = mem[q]
<1>1. mem \in [Process -> Int \X Int] /\ <<a, b>> \in Int \X Int
  BY DEF Types
<1>2. mem' = [mem EXCEPT ![p] = <<a, b>>]
  BY DEF Keep
<1>3. QED
  BY <1>1, <1>2

\* A process at its start has all its outputs before it.
LEMMA StartTypes ==
  ASSUME Types, NEW p \in Process, NEW w \in Place, Start(p, w), open' = open
  PROVE  /\ pc' \in [Process -> Place]
         /\ todo' \in [Process -> Seq(FileName)] /\ \A q \in Process : IsLeft(q, todo'[q])
         /\ open' \subseteq {q \in Process : pc'[q] = "write" /\ todo'[q] # <<>>}
<1>1. IsLeft(p, Outputs[p]) /\ Outputs[p] \in Seq(FileName)
  BY AllLeft DEF IsLeft
<1>2. p \notin open
  BY DEF Types, Start
<1>3. pc' \in [Process -> Place] /\ \A q \in Process \ {p} : pc'[q] = pc[q]
  BY DEF Types, Start, Goto
<1>4. /\ todo' \in [Process -> Seq(FileName)] /\ todo'[p] = Outputs[p]
      /\ \A q \in Process \ {p} : todo'[q] = todo[q]
  BY <1>1 DEF Types, Start
<1>5. QED
  BY <1>1, <1>2, <1>3, <1>4 DEF Types

\* A process that goes on to another place has no output opened.
LEMMA GotoTypes ==
  ASSUME Types, NEW p \in Process, NEW w \in Place, Goto(p, w), p \notin open,
         UNCHANGED <<todo, open>>
  PROVE  /\ pc' \in [Process -> Place]
         /\ todo' \in [Process -> Seq(FileName)] /\ \A q \in Process : IsLeft(q, todo'[q])
         /\ open' \subseteq {q \in Process : pc'[q] = "write" /\ todo'[q] # <<>>}
BY DEF Types, Goto

LEMMA ForgetTypes ==
  ASSUME Types, NEW p \in Process, Forget(p), open' = open \ {p},
         alone' \in {alone, alone \ {p}}, UNCHANGED <<file, fits, calm>>
  PROVE  Types'
<1>1. IsLeft(p, <<>>) /\ <<>> \in Seq(FileName)
  BY AllLeft DEF IsLeft
<1>2. /\ pc' \in [Process -> Place] /\ mem' \in [Process -> Int \X Int]
      /\ \A q \in Process \ {p} : pc'[q] = pc[q]
  <2>1. Goto(p, "idle") /\ Keep(p, 0, 0) /\ "idle" \in Place
    BY DEF Forget, Place
  <2>2. QED
    BY <2>1, GotoIs, KeepIs
<1>3. /\ todo' \in [Process -> Seq(FileName)] /\ todo'[p] = <<>>
      /\ \A q \in Process \ {p} : todo'[q] = todo[q]
  BY <1>1 DEF Types, Forget
<1>4. open' \subseteq {q \in Process : pc'[q] = "write" /\ todo'[q] # <<>>}
  BY <1>2, <1>3 DEF Types
<1>5. selected' \in [Publisher -> Trainer] /\ calm' \subseteq Process /\ alone' \subseteq Publisher
  BY DEF Types, Forget, Trainer
<1>6. read' \in [prior : Int, report : Int \X Int, matrix : Int \X Int]
  <2> DEFINE R == [prior : Int, report : Int \X Int, matrix : Int \X Int]
  <2>a. ASSUME NEW A, NEW r \in [prior : Int, report : A, matrix : A]
        PROVE  [r EXCEPT !.prior = 0] \in [prior : Int, report : A, matrix : A]
    OBVIOUS
  <2>1. read \in R /\ [read EXCEPT !.prior = 0] \in R
    BY <2>a DEF Types
  <2>2. Absent \in Int \X Int
    BY DEF Absent
  <2>3. [Unread EXCEPT !.prior = read.prior] \in R
    BY <2>1, <2>2 DEF Unread
  <2>4. CASE p = "c_final"
    BY <2>1, <2>4 DEF Forget
  <2>5. CASE p = "sync"
    BY <2>3, <2>5 DEF Forget
  <2>6. CASE p \notin {"c_final", "sync"}
    BY <2>1, <2>6 DEF Forget
  <2>7. QED
    BY <2>4, <2>5, <2>6
<1>7. QED
  BY <1>1, <1>2, <1>3, <1>4, <1>5, <1>6 DEF Types

LEMMA OpenTypes == ASSUME Types, NEW p \in Process, Open(p) PROVE Types'
<1>1. Head(todo[p]) \in File /\ Torn \in Int \X Int
  BY Writing DEF Open, Torn
<1>2. file' \in [File -> Int \X Int]
  BY <1>1 DEF Types, Open
<1>3. open' \subseteq {q \in Process : pc'[q] = "write" /\ todo'[q] # <<>>}
  BY DEF Types, Open
<1>4. calm' \subseteq Process
  BY DEF Types, Open
<1>5. QED
  BY <1>2, <1>3, <1>4 DEF Types, Open

LEMMA CloseTypes == ASSUME Types, NEW p \in Process, Close(p) PROVE Types'
<1>1. pc[p] = "write" /\ todo[p] # <<>>
  BY DEF Types, Close
<1>2. /\ Head(todo[p]) \in File /\ Content(p, Head(todo[p])) \in Int \X Int
      /\ IsLeft(p, Tail(todo[p])) /\ Tail(todo[p]) \in Seq(FileName)
  BY <1>1, Writing, Contents
<1>3. file' \in [File -> Int \X Int]
  <2>1. PICK c \in {Torn, Content(p, Head(todo[p]))} : file' = [file EXCEPT ![Head(todo[p])] = c]
    BY DEF Close
  <2>2. c \in Int \X Int
    BY <1>2 DEF Torn
  <2>3. QED
    BY <1>2, <2>1, <2>2 DEF Types
<1>4. /\ todo' \in [Process -> Seq(FileName)] /\ todo'[p] = Tail(todo[p])
      /\ \A q \in Process \ {p} : todo'[q] = todo[q]
  BY <1>2 DEF Types, Close
<1>5. pc' \in [Process -> Place] /\ \A q \in Process \ {p} : pc'[q] = pc[q]
  BY DEF Types, Close, Goto, Place
<1>6. open' \subseteq {q \in Process : pc'[q] = "write" /\ todo'[q] # <<>>}
  BY <1>4, <1>5 DEF Types, Close
<1>7. \A q \in Process : IsLeft(q, todo'[q])
  BY <1>2, <1>4 DEF Types
<1>8. calm' \subseteq Process
  BY DEF Types, Close
<1>9. QED
  BY <1>3, <1>4, <1>5, <1>6, <1>7, <1>8 DEF Types, Close

LEMMA TypesInit == Init => Types
<1> SUFFICES ASSUME Init PROVE Types
  OBVIOUS
<1> DEFINE Fits == Int \X Int
<1>0. Of(0) \in Fits /\ Of(1) \in Fits /\ Of(2) \in Fits /\ Absent \in Fits
  BY DEF Of, Absent
<1> HIDE DEF Fits
<1>1. file \in [File -> Fits]
  <2>1. PICK c \in {Absent, Of(1)} :
          file = [f \in File |-> CASE f \in {"baseline model", "baseline metrics"} -> Of(1)
                                    [] f \in {"tuned model", "tuned metrics"} -> Of(2)
                                    [] f \in {"active", "metadata", "prior"} -> c
                                    [] OTHER -> Absent]
    BY DEF Init
  <2>2. c \in Fits
    BY <1>0
  <2>3. QED
    BY <1>0, <2>1, <2>2
<1>2. /\ pc \in [Process -> Place] /\ open = {} /\ calm \subseteq Process /\ fits \in Nat
      /\ alone \subseteq Publisher
  BY DEF Init, Place
<1>3. mem \in [Process -> Fits]
  BY <1>0 DEF Init
<1>4. todo \in [Process -> Seq(FileName)] /\ \A p \in Process : IsLeft(p, todo[p])
  BY AllLeft DEF Init, IsLeft
<1>5. selected \in [Publisher -> Trainer]
  BY DEF Init, Trainer
<1>6. read \in [prior : Int, report : Fits, matrix : Fits]
  <2>1. \A a \in Fits : [prior |-> 0, report |-> a, matrix |-> a]
                          \in [prior : Int, report : Fits, matrix : Fits]
    OBVIOUS
  <2>2. read = [prior |-> 0, report |-> Absent, matrix |-> Absent]
    BY DEF Init, Unread
  <2>3. QED
    BY <1>0, <2>1, <2>2
<1>7. QED
  BY <1>1, <1>2, <1>3, <1>4, <1>5, <1>6 DEF Types, Fits

\* The first file and the last are told apart by an index in range.
LEMMA Pairs ==
  ASSUME Types
  PROVE  /\ \A f \in File : file[f][1] \in Int /\ file[f][2] \in Int
         /\ \A p \in Process : mem[p][1] \in Int /\ mem[p][2] \in Int
         /\ \A f \in File : Hash(f) \in Int
<1>1. \A f \in File : file[f][1] \in Int /\ file[f][2] \in Int
  BY DEF Types
<1>2. \A p \in Process : mem[p][1] \in Int /\ mem[p][2] \in Int
  BY DEF Types
<1>3. QED
  BY <1>1, <1>2 DEF Hash

LEMMA TypesStep == Types /\ [Next]_vars => Types'
<1> SUFFICES ASSUME Types, [Next]_vars PROVE Types'
  OBVIOUS
<1> USE Pairs, Members
<1>1. ASSUME NEW k \in Trainer, Fit(k) PROVE Types'
  <2>1. Start(k, "write") /\ "write" \in Place /\ open' = open
    BY <1>1 DEF Fit, Place
  <2>2. mem' \in [Process -> Int \X Int] /\ fits' \in Nat
    <3>1. fits' \in Nat /\ Keep(k, fits', fits')
      BY <1>1 DEF Fit, Types
    <3>2. QED
      BY <3>1, KeepIs
  <2>3. calm' \subseteq Process
    BY <1>1 DEF Fit, Types
  <2>4. QED
    BY <1>1, <2>1, <2>2, <2>3, StartTypes DEF Fit, Types
<1>2. ASSUME NEW p \in Publisher, NEW k \in Trainer, Compare(p, k) PROVE Types'
  <2>1. Start(p, "write") /\ "write" \in Place /\ open' = open
    BY <1>2 DEF Compare, Place
  <2>2. mem' \in [Process -> Int \X Int]
    <3>1. Keep(p, 0, file[MetricsOf[k]][1]) /\ MetricsOf[k] \in File
      BY <1>2, ModelFiles DEF Compare
    <3>2. QED
      BY <3>1, KeepIs
  <2>3. /\ calm' \subseteq Process /\ alone' \subseteq Publisher
        /\ selected' \in [Publisher -> Trainer]
    BY <1>2 DEF Compare, Types
  <2>4. QED
    BY <1>2, <2>1, <2>2, <2>3, StartTypes DEF Compare, Types
<1>3. ASSUME NEW p \in Publisher, HashActive(p) PROVE Types'
  <2>1. Goto(p, "write") /\ "write" \in Place /\ p \notin open
    BY <1>3 DEF HashActive, Place, Types
  <2>2. mem' \in [Process -> Int \X Int]
    <3>1. Keep(p, Hash("active"), mem[p][2]) /\ "active" \in File
      BY <1>3, FileNames DEF HashActive, FileName
    <3>2. QED
      BY <3>1, KeepIs
  <2>3. QED
    BY <1>3, <2>1, <2>2, GotoTypes DEF HashActive, Types
<1>4. ASSUME NEW p \in Loader, ReadMetadata(p) PROVE Types'
  <2>1. Start(p, "verify") /\ "verify" \in Place /\ open' = open
    BY <1>4 DEF ReadMetadata, Place
  <2>2. mem' \in [Process -> Int \X Int]
    <3>1. Keep(p, file["metadata"][1], 0) /\ "metadata" \in File
      BY <1>4, FileNames DEF ReadMetadata, FileName
    <3>2. QED
      BY <3>1, KeepIs
  <2>3. calm' \subseteq Process
    BY <1>4 DEF ReadMetadata, Types
  <2>4. QED
    BY <1>4, <2>1, <2>2, <2>3, StartTypes DEF ReadMetadata, Types
<1>5. ASSUME NEW p \in Loader, Verify(p) PROVE Types'
  <2>1. Goto(p, "load") /\ "load" \in Place /\ p \notin open
    BY <1>5 DEF Verify, Place, Types
  <2>2. QED
    BY <1>5, <2>1, GotoTypes DEF Verify, Types
<1>6. ASSUME NEW p \in Loader, LoadModel(p) PROVE Types'
  <2>1. p \notin open
    BY <1>6 DEF LoadModel, Types
  <2>2. PICK w \in Place : Goto(p, w)
    BY <1>6 DEF LoadModel, Place
  <2>3. mem' \in [Process -> Int \X Int]
    <3>1. Keep(p, mem[p][1], file["active"][2]) /\ "active" \in File
      BY <1>6, FileNames DEF LoadModel, FileName
    <3>2. QED
      BY <3>1, KeepIs
  <2>4. QED
    BY <1>6, <2>1, <2>2, <2>3, GotoTypes DEF LoadModel, Types
<1>7. ASSUME NEW A, NEW r \in [prior : Int, report : A, matrix : A], NEW i \in Int, NEW a \in A
      PROVE  /\ [r EXCEPT !.prior = i] \in [prior : Int, report : A, matrix : A]
             /\ [r EXCEPT !.report = a] \in [prior : Int, report : A, matrix : A]
             /\ [r EXCEPT !.matrix = a] \in [prior : Int, report : A, matrix : A]
  OBVIOUS
<1>8. ASSUME ReadPrior PROVE Types'
  <2>1. Goto("c_final", "write") /\ "write" \in Place /\ "c_final" \notin open /\ "c_final" \in Process
    BY <1>8, Processes DEF ReadPrior, Place, Types
  <2>2. read' \in [prior : Int, report : Int \X Int, matrix : Int \X Int]
    BY <1>8, <1>7, FileNames DEF ReadPrior, FileName, Types
  <2>3. QED
    BY <1>8, <2>1, <2>2, GotoTypes DEF ReadPrior, Types
<1>9. ASSUME SyncStart PROVE Types'
  <2>1. Start("sync", "experiment a") /\ "experiment a" \in Place /\ open' = open
    BY <1>9 DEF SyncStart, Place
  <2>2. mem' \in [Process -> Int \X Int]
    <3>1. Keep("sync", file["metadata"][1], 0) /\ "metadata" \in File
      BY <1>9, FileNames DEF SyncStart, FileName
    <3>2. QED
      BY <3>1, KeepIs
  <2>3. QED
    BY <1>9, <2>1, <2>2, StartTypes DEF SyncStart, Types
<1>10. ASSUME ReadExperimentA PROVE Types'
  <2>1. Goto("sync", "report") /\ "report" \in Place /\ "sync" \notin open
    BY <1>10 DEF ReadExperimentA, Place, Types
  <2>2. QED
    BY <1>10, <2>1, GotoTypes DEF ReadExperimentA, Types
<1>11. ASSUME ReadReport PROVE Types'
  <2>1. Goto("sync", "matrix") /\ "matrix" \in Place /\ "sync" \notin open
    BY <1>11 DEF ReadReport, Place, Types
  <2>2. read' \in [prior : Int, report : Int \X Int, matrix : Int \X Int]
    <3> DEFINE A == Int \X Int
    <3>1. read' = [read EXCEPT !.report = file["report"]] /\ file["report"] \in A
      BY <1>11, FileNames DEF ReadReport, FileName, Types
    <3>2. read \in [prior : Int, report : A, matrix : A]
      BY DEF Types
    <3> HIDE DEF A
    <3>3. read' \in [prior : Int, report : A, matrix : A]
      BY <3>1, <3>2, <1>7
    <3>4. QED
      BY <3>3 DEF A
  <2>3. QED
    BY <1>11, <2>1, <2>2, GotoTypes DEF ReadReport, Types
<1>12. ASSUME ReadMatrix PROVE Types'
  <2>1. Goto("sync", "validate") /\ "validate" \in Place /\ "sync" \notin open
    BY <1>12 DEF ReadMatrix, Place, Types
  <2>2. read' \in [prior : Int, report : Int \X Int, matrix : Int \X Int]
    <3> DEFINE A == Int \X Int
    <3>1. read' = [read EXCEPT !.matrix = file["matrix"]] /\ file["matrix"] \in A
      BY <1>12, FileNames DEF ReadMatrix, FileName, Types
    <3>2. read \in [prior : Int, report : A, matrix : A]
      BY DEF Types
    <3> HIDE DEF A
    <3>3. read' \in [prior : Int, report : A, matrix : A]
      BY <3>1, <3>2, <1>7
    <3>4. QED
      BY <3>3 DEF A
  <2>3. QED
    BY <1>12, <2>1, <2>2, GotoTypes DEF ReadMatrix, Types
<1>13. ASSUME Accept PROVE Types'
  <2>1. Goto("sync", "write") /\ "write" \in Place /\ "sync" \notin open
    BY <1>13 DEF Accept, Validated, Place, Types
  <2>2. QED
    BY <1>13, <2>1, GotoTypes DEF Accept, Types
<1>14. ASSUME NEW p \in Process, Finish(p) PROVE Types'
  <2>1. Forget(p) /\ open' = open \ {p} /\ alone' = alone /\ UNCHANGED <<file, fits, calm>>
    BY <1>14 DEF Finish, Types
  <2>2. QED
    BY <2>1, ForgetTypes
<1>15. ASSUME NEW p \in Process, Abort(p) PROVE Types'
  BY <1>15, ForgetTypes DEF Abort
<1>16. CASE UNCHANGED vars
  BY <1>16 DEF vars, Types
<1>17. QED
  BY <1>1, <1>2, <1>3, <1>4, <1>5, <1>6, <1>8, <1>9, <1>10, <1>11, <1>12, <1>13, <1>14,
     <1>15, <1>16, OpenTypes, CloseTypes DEF Next

-----------------------------------------------------------------------------
(* Who does what to whom.                                                  *)

\* What a step of p leaves as it is.
Frame(p) ==
  /\ \A q \in Process : q # p =>
       pc'[q] = pc[q] /\ mem'[q] = mem[q] /\ todo'[q] = todo[q] /\ (q \in calm' => q \in calm)
  /\ \A q \in Publisher : q # p => selected'[q] = selected[q] /\ (q \in alone' => q \in alone)
  /\ p # "sync" => read'.report = read.report /\ read'.matrix = read.matrix
  /\ fits' \in Nat /\ fits <= fits'

LEMMA ForgetFrame ==
  ASSUME Types, NEW p \in Process, Forget(p), fits' = fits, calm' = calm,
         alone' \in {alone, alone \ {p}}
  PROVE  Frame(p) /\ pc'[p] = "idle" /\ todo'[p] = <<>>
<1>1. Goto(p, "idle") /\ Keep(p, 0, 0) /\ "idle" \in Place
  BY DEF Forget, Place
<1>2. todo'[p] = <<>> /\ \A q \in Process : q # p => todo'[q] = todo[q]
  BY DEF Forget, Types
<1>3. p # "sync" => read'.report = read.report /\ read'.matrix = read.matrix
  <2>1. ASSUME NEW A, NEW r \in [prior : Int, report : A, matrix : A]
        PROVE  [r EXCEPT !.prior = 0].report = r.report /\ [r EXCEPT !.prior = 0].matrix = r.matrix
    OBVIOUS
  <2>2. p = "c_final" => read' = [read EXCEPT !.prior = 0]
    BY DEF Forget
  <2>3. p \notin {"c_final", "sync"} => read' = read
    BY DEF Forget
  <2>4. QED
    BY <2>1, <2>2, <2>3 DEF Types
<1>4. \A q \in Publisher : q # p => selected'[q] = selected[q] /\ (q \in alone' => q \in alone)
  BY DEF Forget, Types
<1>5. pc'[p] = "idle" /\ \A q \in Process : q # p => pc'[q] = pc[q]
  BY <1>1, GotoIs
<1>6. \A q \in Process : q # p => mem'[q] = mem[q]
  BY <1>1, KeepIs
<1>7. fits' \in Nat /\ fits <= fits'
  BY DEF Types
<1>8. QED
  BY <1>2, <1>3, <1>4, <1>5, <1>6, <1>7 DEF Frame

\* A step that writes changes the one file, and the publication's place.
LEMMA WriteFrame ==
  ASSUME Types, NEW p \in Process, Open(p) \/ Close(p)
  PROVE  LET h == Head(todo[p])
         IN  /\ Frame(p) /\ pc[p] = "write" /\ todo[p] # <<>>
             /\ mem' = mem /\ fits' = fits /\ selected' = selected /\ read' = read
             /\ alone' = alone
             /\ \A f \in File : f # h => file'[f] = file[f]
             /\ Open(p) => file'[h] = Torn /\ todo' = todo
             /\ Close(p) => /\ file'[h] = Content(p, h) \/ (Contended(p, h) /\ file'[h] = Torn)
                            /\ todo'[p] = Tail(todo[p])
             /\ pc'[p] = IF Close(p) /\ h = "active" THEN "hash" ELSE "write"
             /\ calm' = calm \ Disturbs(h)
<1> DEFINE h == Head(todo[p])
<1>1. pc[p] = "write" /\ todo[p] # <<>>
  BY DEF Open, Close, Types
<1>2. h \in File
  BY <1>1, Writing
<1>3. CASE Open(p)
  <2>1. ~Close(p)
    BY <1>3 DEF Open, Close
  <2>2. /\ \A f \in File : f # h => file'[f] = file[f]
        /\ file'[h] = Torn
    BY <1>2, <1>3 DEF Open, Types
  <2>3. Frame(p)
    BY <1>3 DEF Open, Frame, Types
  <2>4. QED
    BY <1>1, <1>3, <2>1, <2>2, <2>3 DEF Open
<1>4. CASE Close(p)
  <2>1. ~Open(p)
    BY <1>4 DEF Open, Close
  <2>2. /\ \A f \in File : f # h => file'[f] = file[f]
        /\ file'[h] = Content(p, h) \/ (Contended(p, h) /\ file'[h] = Torn)
    <3>1. PICK c : /\ file' = [file EXCEPT ![h] = c]
                   /\ c = Content(p, h) \/ (Contended(p, h) /\ c = Torn)
      BY <1>4 DEF Close
    <3>2. QED
      BY <1>2, <3>1 DEF Types
  <2>3. /\ todo'[p] = Tail(todo[p])
        /\ \A q \in Process : q # p => todo'[q] = todo[q]
    BY <1>4 DEF Close, Types
  <2>4. /\ pc'[p] = IF h = "active" THEN "hash" ELSE "write"
        /\ \A q \in Process : q # p => pc'[q] = pc[q]
    BY <1>1, <1>2, <1>4 DEF Close, Goto, Types
  <2>5. Frame(p)
    BY <1>4, <2>3, <2>4 DEF Close, Frame, Types
  <2>6. QED
    BY <1>1, <1>4, <2>1, <2>2, <2>3, <2>4, <2>5 DEF Close
<1>5. QED
  BY <1>3, <1>4

\* No other process writes a publication's files while it is alone.
LEMMA Uncontended ==
  ASSUME Working, Types, NEW c \in alone, NEW f \in {"active", "metadata"}
  PROVE  ~Contended(c, f)
<1> SUFFICES ASSUME NEW q \in Process \ {c}, AtWork(q), f \in ToSet(Outputs[q]) PROVE FALSE
  BY DEF Contended
<1>1. q \notin Publisher
  BY DEF Working, AtWork
<1>2. PICK i \in 1 .. Len(Outputs[q]) : f = Outputs[q][i]
  BY DEF ToSet
<1>3. q \in {"baseline", "tuned", "v3_inference", "v3_final", "c_final", "api", "sync"}
  BY <1>1, Processes
<1>4. CASE Len(Outputs[q]) = 2
  <2>1. i = 1 \/ i = 2
    BY <1>2, <1>4
  <2>2. q \in {"baseline", "tuned", "v3_final", "c_final"}
    <3>1. q # "v3_inference"
      BY <1>4, Lengths
    <3>2. Len(Outputs["api"]) = 0 /\ Len(Outputs["sync"]) = 0
      BY Lengths
    <3>3. QED
      BY <1>3, <1>4, <3>1, <3>2
  <2>3. Outputs[q][1] \notin {"active", "metadata"} /\ Outputs[q][2] \notin {"active", "metadata"}
    <3>1. CASE q = "baseline"
      BY <3>1, Names
    <3>2. CASE q = "tuned"
      BY <3>2, Names
    <3>3. CASE q = "v3_final"
      BY <3>3, Names
    <3>4. CASE q = "c_final"
      BY <3>4, Names
    <3>5. QED
      BY <2>2, <3>1, <3>2, <3>3, <3>4
  <2>4. QED
    BY <1>2, <2>1, <2>3
<1>5. CASE Len(Outputs[q]) = 1
  <2>1. i = 1 /\ q = "v3_inference"
    BY <1>2, <1>5, LengthOf
  <2>2. QED
    BY <1>2, <2>1, Names
<1>6. CASE Len(Outputs[q]) = 0
  BY <1>2, <1>6
<1>7. QED
  BY <1>4, <1>5, <1>6, LengthOf

\* A process that starts or goes on touches nothing of another one's.
LEMMA StartFrame ==
  ASSUME Types, NEW p \in Process, NEW w \in Place, Start(p, w),
         NEW a \in Int, NEW b \in Int, Keep(p, a, b)
  PROVE  /\ \A q \in Process : q # p =>
              pc'[q] = pc[q] /\ mem'[q] = mem[q] /\ todo'[q] = todo[q]
         /\ pc[p] = "idle" /\ pc'[p] = w /\ todo'[p] = Outputs[p]
         /\ mem'[p] = <<a, b>> /\ mem'[p][1] = a /\ mem'[p][2] = b
<1>1. Goto(p, w) /\ pc[p] = "idle"
  BY DEF Start
<1>2. todo'[p] = Outputs[p] /\ \A q \in Process : q # p => todo'[q] = todo[q]
  BY DEF Start, Types
<1>3. QED
  BY <1>1, <1>2, GotoIs, KeepIs

LEMMA GotoFrame ==
  ASSUME Types, NEW p \in Process, NEW w \in Place, Goto(p, w), mem' = mem, todo' = todo
  PROVE  /\ \A q \in Process : q # p =>
              pc'[q] = pc[q] /\ mem'[q] = mem[q] /\ todo'[q] = todo[q]
         /\ pc'[p] = w
BY GotoIs

-----------------------------------------------------------------------------
(* The steps, one fact each: what becomes of the process and its memory.   *)

LEMMA FitStep ==
  ASSUME Types, NEW k \in Trainer, Fit(k)
  PROVE  /\ Frame(k) /\ file' = file /\ fits' = fits + 1
         /\ pc'[k] = "write" /\ mem'[k] = <<fits', fits'>>
         /\ \A c \in Publisher : pc[c] # "idle" => c \notin calm'
<1>1. /\ Start(k, "write") /\ Keep(k, fits', fits') /\ fits' \in Int /\ fits' = fits + 1
      /\ "write" \in Place /\ k \in Process
  <2>1. Start(k, "write") /\ Keep(k, fits', fits') /\ fits' = fits + 1 /\ fits \in Nat
    BY DEF Fit, Types
  <2>2. QED
    BY <2>1, Members DEF Place
<1>2. /\ \A q \in Process : q # k =>
           pc'[q] = pc[q] /\ mem'[q] = mem[q] /\ todo'[q] = todo[q]
      /\ pc'[k] = "write" /\ mem'[k] = <<fits', fits'>>
  BY <1>1, StartFrame
<1>3. /\ calm' \subseteq calm /\ (\A c \in Publisher : pc[c] # "idle" => c \notin calm')
      /\ UNCHANGED <<file, read, selected, alone>>
  BY DEF Fit, AtWork
<1>4. fits' \in Nat /\ fits <= fits'
  BY <1>1 DEF Types
<1>5. QED
  BY <1>1, <1>2, <1>3, <1>4 DEF Frame

LEMMA CompareStep ==
  ASSUME Types, NEW p \in Publisher, NEW k \in Trainer, Compare(p, k)
  PROVE  /\ Frame(p) /\ file' = file /\ fits' = fits /\ selected'[p] = k
         /\ pc'[p] = "write" /\ todo'[p] = Outputs[p]
         /\ mem'[p][2] = file[MetricsOf[k]][1]
         /\ p \in calm' =>
              file[ModelOf[k]] = file[MetricsOf[k]] /\ \A t \in Trainer : pc[t] = "idle"
         /\ file[MetricsOf[k]] \notin {Absent, Torn}
         /\ alone' \subseteq {p}
         /\ p \in alone' => \A q \in Publisher : pc[q] = "idle"
<1>1. /\ Start(p, "write") /\ Keep(p, 0, file[MetricsOf[k]][1])
      /\ file[MetricsOf[k]][1] \in Int /\ "write" \in Place /\ p \in Process
  BY Members, ModelFiles, Pairs DEF Compare, Place
<1>2. /\ \A q \in Process : q # p =>
           pc'[q] = pc[q] /\ mem'[q] = mem[q] /\ todo'[q] = todo[q]
      /\ pc'[p] = "write" /\ todo'[p] = Outputs[p]
      /\ mem'[p][2] = file[MetricsOf[k]][1]
  BY <1>1, StartFrame
<1>3. /\ \A q \in calm' : q # p => q \in calm
      /\ p \in calm' =>
           file[ModelOf[k]] = file[MetricsOf[k]] /\ \A t \in Trainer : pc[t] = "idle"
      /\ UNCHANGED <<file, read, fits>>
  BY DEF Compare, AtWork
<1>4. file[MetricsOf[k]] \notin {Absent, Torn}
  <2>1. Readable(MetricsOf.baseline) /\ Readable(MetricsOf.tuned)
    BY DEF Compare
  <2>2. MetricsOf[k] = MetricsOf.baseline \/ MetricsOf[k] = MetricsOf.tuned
    BY DEF Trainer
  <2>3. QED
    BY <2>1, <2>2 DEF Readable
<1>5. fits' \in Nat /\ fits <= fits'
  BY <1>3 DEF Types
<1>6. selected'[p] = k /\ \A q \in Publisher : q # p => selected'[q] = selected[q]
  BY DEF Compare, Types
<1>7. alone' \subseteq {p} /\ (p \in alone' => \A q \in Publisher : pc[q] = "idle")
  BY DEF Compare, AtWork
<1>8. QED
  BY <1>2, <1>3, <1>4, <1>5, <1>6, <1>7 DEF Frame

LEMMA HashStep ==
  ASSUME Types, NEW p \in Publisher, HashActive(p)
  PROVE  /\ Frame(p) /\ file' = file /\ fits' = fits
         /\ todo' = todo /\ selected' = selected /\ calm' = calm /\ alone' = alone
         /\ pc[p] = "hash" /\ pc'[p] = "write"
         /\ mem'[p][1] = Hash("active") /\ mem'[p][2] = mem[p][2]
<1>1. /\ Goto(p, "write") /\ Keep(p, Hash("active"), mem[p][2])
      /\ "write" \in Place /\ p \in Process /\ "active" \in File
  BY Members, FileNames DEF HashActive, Place, FileName
<1>2. Hash("active") \in Int /\ mem[p][2] \in Int
  BY <1>1, Pairs
<1>3. /\ pc'[p] = "write" /\ \A q \in Process : q # p => pc'[q] = pc[q]
      /\ mem'[p][1] = Hash("active") /\ mem'[p][2] = mem[p][2]
      /\ \A q \in Process : q # p => mem'[q] = mem[q]
  BY <1>1, <1>2, GotoIs, KeepIs
<1>4. fits' \in Nat /\ fits <= fits'
  BY DEF Types, HashActive
<1>5. QED
  BY <1>3, <1>4 DEF Frame, HashActive

LEMMA MetadataStep ==
  ASSUME Types, NEW p \in Loader, ReadMetadata(p)
  PROVE  /\ Frame(p) /\ file' = file /\ fits' = fits /\ pc'[p] = "verify"
         /\ alone' = alone /\ (p = "v3_final" => file["report"] = Absent)
<1>1. /\ Start(p, "verify") /\ Keep(p, file["metadata"][1], 0) /\ file["metadata"][1] \in Int
      /\ "verify" \in Place /\ p \in Process
  BY Members, FileNames, Pairs DEF ReadMetadata, Place, FileName
<1>2. /\ \A q \in Process : q # p =>
           pc'[q] = pc[q] /\ mem'[q] = mem[q] /\ todo'[q] = todo[q]
      /\ pc'[p] = "verify"
  BY <1>1, StartFrame
<1>3. fits' \in Nat /\ fits <= fits'
  BY DEF Types, ReadMetadata
<1>4. p = "v3_final" => file["report"] = Absent
  <2>1. "v3_final" \in Process /\ Len(Outputs["v3_final"]) = 2
    BY Processes, Lengths
  <2>2. "report" \in ToSet(Outputs["v3_final"])
    <3>1. "report" = Outputs["v3_final"][2]
      BY Names
    <3>2. 2 \in DOMAIN Outputs["v3_final"]
      BY <2>1, Lengths
    <3>3. QED
      BY <3>1, <3>2 DEF ToSet
  <2>3. QED
    BY <2>2 DEF ReadMetadata
<1>5. QED
  BY <1>2, <1>3, <1>4 DEF Frame, ReadMetadata

LEMMA VerifyStep ==
  ASSUME Types, NEW p \in Loader, Verify(p)
  PROVE  /\ Frame(p) /\ file' = file /\ fits' = fits /\ pc'[p] = "load"
         /\ mem' = mem /\ calm' = calm /\ mem[p][1] = Hash("active")
<1>1. Goto(p, "load") /\ "load" \in Place /\ p \in Process /\ mem' = mem /\ todo' = todo
  BY Members DEF Verify, Place
<1>2. fits' \in Nat /\ fits <= fits'
  BY DEF Types, Verify
<1>3. QED
  BY <1>1, <1>2, GotoFrame DEF Frame, Verify

LEMMA LoadStep ==
  ASSUME Types, NEW p \in Loader, LoadModel(p)
  PROVE  /\ Frame(p) /\ file' = file /\ fits' = fits /\ calm' = calm /\ pc[p] = "load"
         /\ file["active"] \notin {Absent, Torn}
         /\ mem'[p][1] = mem[p][1] /\ mem'[p][2] = file["active"][2]
         /\ pc'[p] \in {"up", "prior", "write"}
<1>1. PICK w \in {"up", "prior", "write"} : Goto(p, w)
  BY DEF LoadModel
<1>2. /\ Keep(p, mem[p][1], file["active"][2]) /\ w \in Place /\ p \in Process
      /\ mem[p][1] \in Int /\ file["active"][2] \in Int
  BY Members, FileNames, Pairs DEF LoadModel, Place, FileName
<1>3. /\ pc'[p] = w /\ \A q \in Process : q # p => pc'[q] = pc[q]
      /\ mem'[p][1] = mem[p][1] /\ mem'[p][2] = file["active"][2]
      /\ \A q \in Process : q # p => mem'[q] = mem[q]
  BY <1>1, <1>2, GotoIs, KeepIs
<1>4. fits' \in Nat /\ fits <= fits'
  BY DEF Types, LoadModel
<1>5. QED
  BY <1>3, <1>4 DEF Frame, LoadModel, Readable

LEMMA PriorStep ==
  ASSUME Types, ReadPrior
  PROVE  /\ Frame("c_final") /\ file' = file /\ fits' = fits /\ calm' = calm /\ mem' = mem
         /\ pc["c_final"] = "prior" /\ pc'["c_final"] = "write"
<1>1. /\ Goto("c_final", "write") /\ "write" \in Place /\ "c_final" \in Process
      /\ mem' = mem /\ todo' = todo
  BY Processes DEF ReadPrior, Place
<1>2. read'.report = read.report /\ read'.matrix = read.matrix
  <2>1. ASSUME NEW A, NEW r \in [prior : Int, report : A, matrix : A], NEW i
        PROVE  [r EXCEPT !.prior = i].report = r.report /\ [r EXCEPT !.prior = i].matrix = r.matrix
    OBVIOUS
  <2>2. QED
    BY <2>1 DEF ReadPrior, Types
<1>3. fits' \in Nat /\ fits <= fits'
  BY DEF Types, ReadPrior
<1>4. QED
  BY <1>1, <1>2, <1>3, GotoFrame DEF Frame, ReadPrior

\* The steps of the sync, as far as they concern it and others.
LEMMA SyncStep ==
  ASSUME Types, SyncStart \/ ReadExperimentA \/ ReadReport \/ ReadMatrix \/ Accept
  PROVE  /\ Frame("sync") /\ file' = file /\ fits' = fits /\ calm' = calm
         /\ SyncStart => pc'["sync"] = "experiment a"
         /\ ReadExperimentA => pc'["sync"] = "report"
         /\ ReadReport => /\ pc'["sync"] = "matrix" /\ read'.report = file["report"]
                          /\ file["report"] \notin {Absent, Torn}
         /\ ReadMatrix => /\ pc["sync"] = "matrix" /\ pc'["sync"] = "validate"
                          /\ read'.report = read.report
         /\ Accept => /\ pc["sync"] = "validate" /\ pc'["sync"] = "write"
                      /\ read' = read
                      /\ Tally(read.matrix) = Tally(Of(read.report[2]))
<1> USE Members
<1>1. \A w \in {"experiment a", "report", "matrix", "validate", "write"} : w \in Place
  BY DEF Place
<1>2. /\ fits' = fits /\ fits' \in Nat /\ fits <= fits'
      /\ UNCHANGED <<file, calm, selected, alone>>
  <2>1. fits' = fits /\ UNCHANGED <<file, calm, selected, alone>>
    BY DEF SyncStart, ReadExperimentA, ReadReport, ReadMatrix, Accept
  <2>2. fits \in Nat
    BY DEF Types
  <2>3. QED
    BY <2>1, <2>2
<1>3. ASSUME NEW A, NEW r \in [prior : Int, report : A, matrix : A], NEW a
      PROVE  /\ [r EXCEPT !.report = a].report = a
             /\ [r EXCEPT !.matrix = a].report = r.report
  OBVIOUS
<1>4. CASE SyncStart
  <2>1. /\ Start("sync", "experiment a") /\ Keep("sync", file["metadata"][1], 0)
        /\ file["metadata"][1] \in Int
    BY <1>4, FileNames, Pairs DEF SyncStart, FileName
  <2>2. /\ \A q \in Process : q # "sync" =>
             pc'[q] = pc[q] /\ mem'[q] = mem[q] /\ todo'[q] = todo[q]
        /\ pc["sync"] = "idle" /\ pc'["sync"] = "experiment a"
    <3>1. "experiment a" \in Place /\ "sync" \in Process /\ 0 \in Int
      BY DEF Place
    <3>2. QED
      BY <2>1, <3>1, StartFrame
  <2>3. QED
    BY <1>2, <1>4, <2>2 DEF SyncStart, Frame, ReadExperimentA, ReadReport, ReadMatrix, Accept, Validated
<1>5. ASSUME NEW w \in Place, Goto("sync", w), mem' = mem, todo' = todo
      PROVE  Frame("sync") /\ pc'["sync"] = w
  BY <1>2, <1>5, GotoFrame DEF Frame
<1>6. CASE ReadExperimentA
  <2>1. Frame("sync") /\ pc'["sync"] = "report" /\ pc["sync"] = "experiment a"
    BY <1>1, <1>5, <1>6 DEF ReadExperimentA
  <2>2. QED
    BY <1>2, <2>1, <1>6 DEF SyncStart, Start, ReadReport, ReadMatrix, Accept, Validated
<1>7. CASE ReadReport
  <2>1. Frame("sync") /\ pc'["sync"] = "matrix" /\ pc["sync"] = "report"
    BY <1>1, <1>5, <1>7 DEF ReadReport
  <2>2. read'.report = file["report"]
    BY <1>3, <1>7 DEF ReadReport, Types
  <2>3. QED
    BY <1>2, <2>1, <2>2, <1>7
    DEF SyncStart, Start, ReadExperimentA, ReadReport, ReadMatrix, Accept, Validated, Readable
<1>8. CASE ReadMatrix
  <2>1. Frame("sync") /\ pc'["sync"] = "validate" /\ pc["sync"] = "matrix"
    BY <1>1, <1>5, <1>8 DEF ReadMatrix
  <2>2. read'.report = read.report
    BY <1>3, <1>8 DEF ReadMatrix, Types
  <2>3. QED
    BY <1>2, <2>1, <2>2, <1>8 DEF SyncStart, Start, ReadExperimentA, ReadReport, Accept, Validated
<1>9. CASE Accept
  <2>1. Frame("sync") /\ pc'["sync"] = "write" /\ pc["sync"] = "validate"
    BY <1>1, <1>5, <1>9 DEF Accept, Validated
  <2>2. QED
    BY <1>2, <2>1, <1>9 DEF SyncStart, Start, ReadExperimentA, ReadReport, ReadMatrix, Accept
<1>10. QED
  BY <1>4, <1>6, <1>7, <1>8, <1>9

LEMMA EndStep ==
  ASSUME Types, NEW p \in Process, Finish(p) \/ Abort(p)
  PROVE  /\ Frame(p) /\ pc'[p] = "idle" /\ todo'[p] = <<>> /\ file' = file /\ fits' = fits
         /\ Finish(p) => pc[p] = "write" /\ todo[p] = <<>>
         /\ Abort(p) => p \notin alone'
         /\ calm' = calm /\ alone' \subseteq alone
<1>1. /\ Forget(p) /\ file' = file /\ fits' = fits /\ calm' = calm
      /\ alone' \in {alone, alone \ {p}}
      /\ Finish(p) => pc[p] = "write" /\ todo[p] = <<>>
      /\ Abort(p) => p \notin alone'
  BY DEF Finish, Abort
<1>2. QED
  BY <1>1, ForgetFrame

-----------------------------------------------------------------------------
(* The invariant is kept.                                                  *)

LEMMA IInvInit == Init => IInv
<1> SUFFICES ASSUME Init PROVE IInv
  OBVIOUS
<1>1. Types
  BY TypesInit
<1>2. \A p \in Process : pc[p] = "idle"
  BY DEF Init
<1>3. Kept
  <2>1. \A f \in TrainedFile \cup {"active"} : file[f] \in {Of(1), Of(2), Absent}
    BY FileNames DEF Init, TrainedFile, FileName
  <2>2. fits = 2
    BY DEF Init
  <2>3. IsFit(Of(1)) /\ IsFit(Of(2))
    BY <2>2 DEF IsFit, Of
  <2>4. QED
    BY <1>2, <2>1, <2>3, Members DEF Kept
<1>4. Loaded /\ Working /\ Hashed /\ Undisturbed /\ Taken
  BY <1>2, Members DEF Init, Loaded, Working, Hashed, Undisturbed, Taken
<1>5. Reported
  BY FileNames DEF Init, FileName, Reported
<1>6. QED
  BY <1>1, <1>3, <1>4, <1>5 DEF IInv

\* A fit stays one when more are made.
LEMMA StillFit ==
  ASSUME Types, fits' \in Nat, fits <= fits', NEW c, IsFit(c)
  PROVE  c \in Int \X Int /\ c[1] \in 1 .. fits' /\ c[2] = c[1]
BY DEF Types, IsFit

\* Nobody but its trainer touches a trainer's memory.
LEMMA KeptTrainers ==
  ASSUME Types, Kept, Next
  PROVE  \A t \in Trainer : pc'[t] # "idle" => IsFit(mem[t])'
<1> SUFFICES ASSUME NEW t \in Trainer, pc'[t] # "idle" PROVE IsFit(mem[t])'
  OBVIOUS
<1> USE Members
<1>1. ASSUME NEW p \in Process, p # t, Frame(p) PROVE IsFit(mem[t])'
  <2>1. pc[t] # "idle" /\ mem'[t] = mem[t] /\ fits' \in Nat /\ fits <= fits'
    BY <1>1 DEF Frame
  <2>2. IsFit(mem[t])
    BY <2>1 DEF Kept
  <2>3. QED
    BY <2>1, <2>2, StillFit DEF IsFit
<1>2. ASSUME Fit(t) PROVE IsFit(mem[t])'
  <2>1. mem'[t] = <<fits', fits'>> /\ fits' = fits + 1 /\ fits \in Nat
    BY <1>2, FitStep DEF Types
  <2>2. QED
    BY <2>1 DEF IsFit
<1>3. ASSUME Open(t) \/ Close(t) PROVE IsFit(mem[t])'
  <2>1. pc[t] = "write" /\ mem' = mem /\ fits' = fits
    BY <1>3, WriteFrame
  <2>2. IsFit(mem[t])
    BY <2>1 DEF Kept
  <2>3. QED
    BY <2>1, <2>2 DEF IsFit
<1>4. ~Finish(t) /\ ~Abort(t)
  BY EndStep
<1>5. QED
  <2>1. ASSUME NEW k \in Trainer, Fit(k) PROVE IsFit(mem[t])'
    BY <1>1, <1>2, <2>1, FitStep
  <2>2. ASSUME NEW p \in Publisher, HashActive(p) \/ \E k \in Trainer : Compare(p, k)
        PROVE  IsFit(mem[t])'
    BY <1>1, <2>2, HashStep, CompareStep
  <2>3. ASSUME NEW p \in Loader, ReadMetadata(p) \/ Verify(p) \/ LoadModel(p)
        PROVE  IsFit(mem[t])'
    BY <1>1, <2>3, MetadataStep, VerifyStep, LoadStep
  <2>4. ASSUME ReadPrior PROVE IsFit(mem[t])'
    BY <1>1, <2>4, PriorStep, Processes DEF Trainer
  <2>5. ASSUME SyncStart \/ ReadExperimentA \/ ReadReport \/ ReadMatrix \/ Accept
        PROVE  IsFit(mem[t])'
    BY <1>1, <2>5, SyncStep
  <2>6. ASSUME NEW p \in Process, Open(p) \/ Close(p) \/ Finish(p) \/ Abort(p)
        PROVE  IsFit(mem[t])'
    <3>1. Frame(p)
      BY <2>6, WriteFrame, EndStep
    <3>2. QED
      BY <1>1, <1>3, <1>4, <2>6, <3>1
  <2>7. QED
    BY <2>1, <2>2, <2>3, <2>4, <2>5, <2>6 DEF Next

\* Every step but a write leaves the files alone.
LEMMA Unwritten ==
  ASSUME Types, Next, \A p \in Process : ~Open(p) /\ ~Close(p)
  PROVE  file' = file /\ fits' \in Nat /\ fits <= fits'
<1>1. fits \in Nat
  BY DEF Types
<1>2. ASSUME NEW k \in Trainer, Fit(k) PROVE file' = file /\ fits' \in {fits, fits + 1}
  BY <1>2, FitStep
<1>3. ASSUME NEW p \in Loader, ReadMetadata(p) \/ Verify(p) \/ LoadModel(p)
      PROVE  file' = file /\ fits' = fits
  BY <1>3, MetadataStep, VerifyStep, LoadStep
<1>4. ASSUME ReadPrior PROVE file' = file /\ fits' = fits
  BY <1>4, PriorStep
<1>5. ASSUME SyncStart \/ ReadExperimentA \/ ReadReport \/ ReadMatrix \/ Accept
      PROVE  file' = file /\ fits' = fits
  BY <1>5, SyncStep
<1>6. ASSUME NEW p \in Publisher, HashActive(p) \/ \E k \in Trainer : Compare(p, k)
      PROVE  file' = file /\ fits' = fits
  BY <1>6, HashStep, CompareStep
<1>7. file' = file /\ fits' \in {fits, fits + 1}
  BY <1>2, <1>3, <1>4, <1>5, <1>6, EndStep DEF Next
<1>8. QED
  BY <1>1, <1>7

LEMMA KeptStep == ASSUME IInv, Next PROVE Kept'
<1> USE DEF IInv
<1>1. ASSUME NEW f \in TrainedFile \cup {"active"}
      PROVE  file'[f] \in {Absent, Torn} \/ IsFit(file[f])'
  <2>1. CASE \A p \in Process : ~Open(p) /\ ~Close(p)
    <3>1. file' = file /\ fits' \in Nat /\ fits <= fits'
      BY <2>1, Unwritten
    <3>2. file[f] \in {Absent, Torn} \/ IsFit(file[f])
      BY DEF Kept
    <3>3. QED
      BY <3>1, <3>2, StillFit DEF IsFit
  <2>2. ASSUME NEW p \in Process, Open(p) \/ Close(p)
        PROVE  file'[f] \in {Absent, Torn} \/ IsFit(file[f])'
    <3> DEFINE h == Head(todo[p])
               c == Content(p, h)
    <3>1. /\ fits' = fits /\ pc[p] = "write" /\ todo[p] # <<>>
          /\ \A g \in File : g # h => file'[g] = file[g]
          /\ file'[h] = Torn \/ file'[h] = c
      BY <2>2, WriteFrame
    <3>2. f \in File
      BY FileNames DEF TrainedFile, FileName
    <3>3. CASE f # h
      <4>1. file'[f] = file[f]
        BY <3>1, <3>2, <3>3
      <4>2. file[f] \in {Absent, Torn} \/ IsFit(file[f])
        BY DEF Kept
      <4>3. QED
        BY <3>1, <4>1, <4>2 DEF IsFit
    <3>4. CASE f = h
      <4>1. /\ p \in Trainer => c = mem[p]
            /\ h = "active" => c = file[ModelOf[selected[p]]] /\ p \in Publisher
            /\ h \in TrainedFile <=> p \in Trainer
        BY <3>1, Contents, Writing
      <4>2. h \in TrainedFile => IsFit(c)
        BY <3>1, <4>1 DEF Kept
      <4>3. h = "active" => c \in {Absent, Torn} \/ IsFit(c)
        <5>1. h = "active" => selected[p] \in Trainer
          BY <4>1 DEF Types
        <5>2. h = "active" => ModelOf[selected[p]] \in TrainedFile
          BY <5>1, ModelFiles
        <5>3. QED
          BY <4>1, <5>2 DEF Kept
      <4>5. c \in {Absent, Torn} \/ IsFit(c)
        BY <3>4, <4>2, <4>3
      <4>6. QED
        BY <3>1, <3>4, <4>5 DEF IsFit
    <3>5. QED
      BY <3>3, <3>4
  <2>3. QED
    BY <2>1, <2>2
<1>2. QED
  BY <1>1, KeptTrainers DEF Kept

\* A write of another file, or by another process, is none of the model's.
LEMMA ActiveKept ==
  ASSUME Types, Next
  PROVE  \/ Hash("active")' = Hash("active")
         \/ \A p \in Loader : pc[p] = "load" => p \notin calm'
<1>1. CASE \A p \in Process : ~Open(p) /\ ~Close(p)
  BY <1>1, Unwritten DEF Hash
<1>2. ASSUME NEW p \in Process, Open(p) \/ Close(p)
      PROVE  \/ Hash("active")' = Hash("active")
             \/ \A q \in Loader : pc[q] = "load" => q \notin calm'
  <2>1. /\ \A f \in File : f # Head(todo[p]) => file'[f] = file[f]
        /\ calm' = calm \ Disturbs(Head(todo[p]))
    BY <1>2, WriteFrame
  <2>2. CASE Head(todo[p]) = "active"
    BY <2>1, <2>2 DEF Disturbs
  <2>3. CASE Head(todo[p]) # "active"
    BY <2>1, <2>3, FileNames DEF Hash, FileName
  <2>4. QED
    BY <2>2, <2>3
<1>3. QED
  BY <1>1, <1>2

LEMMA LoadedStep == ASSUME IInv, Next PROVE Loaded'
<1> DEFINE L(q) == /\ pc[q] = "load" /\ q \in calm => mem[q][1] = Hash("active")
                   /\ pc[q] \in {"up", "prior", "write"} =>
                        /\ mem[q][2] \in 1 .. fits
                        /\ q \in calm => mem[q][1] = mem[q][2]
<1> SUFFICES ASSUME NEW q \in Loader PROVE L(q)'
  BY DEF Loaded
<1> USE Members DEF IInv
<1>0. L(q) /\ fits \in Nat /\ q \in Process
  BY DEF Loaded, Types
\* What holds of a loader still does if it stays where it is.
<1>1. ASSUME pc'[q] = pc[q], mem'[q] = mem[q], q \in calm' => q \in calm,
             fits' \in Nat, fits <= fits'
      PROVE  L(q)'
  <2>1. pc'[q] = "load" /\ q \in calm' => mem'[q][1] = Hash("active")'
    BY <1>0, <1>1, ActiveKept
  <2>2. mem[q][2] \in 1 .. fits => mem'[q][2] \in 1 .. fits'
    BY <1>0, <1>1
  <2>3. QED
    BY <1>0, <1>1, <2>1, <2>2
<1>2. ASSUME NEW p \in Process, p # q, Frame(p) PROVE L(q)'
  BY <1>0, <1>1, <1>2 DEF Frame
<1>3. ASSUME pc'[q] \notin {"load", "up", "prior", "write"} PROVE L(q)'
  BY <1>3
<1>4. ASSUME Verify(q) PROVE L(q)'
  BY <1>4, VerifyStep DEF Hash
<1>5. ASSUME LoadModel(q) PROVE L(q)'
  <2>1. /\ file["active"] \notin {Absent, Torn}
        /\ file["active"] \in {Absent, Torn} \/ IsFit(file["active"])
        /\ mem'[q][1] = mem[q][1] /\ mem'[q][2] = file["active"][2]
        /\ pc[q] = "load" /\ pc'[q] \in {"up", "prior", "write"} /\ calm' = calm /\ fits' = fits
    BY <1>5, LoadStep DEF Kept
  <2>2. Hash("active") = file["active"][1] /\ IsFit(file["active"])
    BY <2>1 DEF Hash
  <2>3. file["active"][2] \in 1 .. fits /\ Hash("active") = file["active"][2]
    BY <2>2 DEF IsFit
  <2>4. QED
    BY <1>0, <2>1, <2>3
<1>6. ASSUME ReadPrior, q = "c_final" PROVE L(q)'
  <2>1. /\ mem' = mem /\ calm' = calm /\ fits' = fits
        /\ pc[q] = "prior" /\ pc'[q] = "write"
    BY <1>6, PriorStep
  <2>2. QED
    BY <1>0, <2>1
<1>7. ASSUME Open(q) \/ Close(q) PROVE L(q)'
  <2>1. /\ pc[q] = "write" /\ todo[q] # <<>> /\ mem' = mem /\ fits' = fits
        /\ pc'[q] = IF Close(q) /\ Head(todo[q]) = "active" THEN "hash" ELSE "write"
        /\ calm' = calm \ Disturbs(Head(todo[q]))
    BY <1>0, <1>7, WriteFrame
  <2>2. Head(todo[q]) # "active"
    BY <1>0, <2>1, Writing
  <2>3. QED
    BY <1>0, <1>1, <2>1, <2>2
<1>8. QED
  <2>1. ASSUME NEW k \in Trainer, Fit(k) PROVE L(q)'
    BY <1>2, <2>1, FitStep
  <2>2. ASSUME NEW p \in Publisher, HashActive(p) \/ \E k \in Trainer : Compare(p, k)
        PROVE  L(q)'
    <3>1. p \in Process /\ p # q
      BY Members
    <3>2. QED
      BY <1>2, <2>2, <3>1, HashStep, CompareStep
  <2>3. ASSUME NEW p \in Loader, ReadMetadata(p) \/ Verify(p) \/ LoadModel(p)
        PROVE  L(q)'
    <3>1. CASE p = q
      BY <1>3, <1>4, <1>5, <2>3, <3>1, MetadataStep
    <3>2. CASE p # q
      BY <1>2, <2>3, <3>2, MetadataStep, VerifyStep, LoadStep
    <3>3. QED
      BY <3>1, <3>2
  <2>4. ASSUME ReadPrior PROVE L(q)'
    BY <1>2, <1>6, <2>4, PriorStep, Processes
  <2>5. ASSUME SyncStart \/ ReadExperimentA \/ ReadReport \/ ReadMatrix \/ Accept
        PROVE  L(q)'
    BY <1>2, <2>5, SyncStep
  <2>6. ASSUME NEW p \in Process, Open(p) \/ Close(p) PROVE L(q)'
    BY <1>2, <1>7, <2>6, WriteFrame
  <2>7. ASSUME NEW p \in Process, Finish(p) \/ Abort(p) PROVE L(q)'
    BY <1>2, <1>3, <2>7, EndStep
  <2>8. QED
    BY <2>1, <2>2, <2>3, <2>4, <2>5, <2>6, <2>7 DEF Next

\* A publication that is alone has no other at work beside it, before the step
\* and after it, and is the one that was, unless it starts.
LEMMA AloneStep ==
  ASSUME IInv, Next, NEW c \in alone'
  PROVE  /\ c \in Publisher
         /\ \A q \in Publisher : q # c => pc[q] = "idle" /\ pc'[q] = "idle"
         /\ c \in alone \/ \E k \in Trainer : Compare(c, k)
<1> USE Members DEF IInv
<1>1. ASSUME NEW p \in Publisher, NEW k \in Trainer, Compare(p, k)
      PROVE  p = c /\ \A q \in Publisher : q # c => pc[q] = "idle" /\ pc'[q] = "idle"
  <2>1. Frame(p) /\ alone' \subseteq {p} /\ (p \in alone' => \A q \in Publisher : pc[q] = "idle")
    BY <1>1, CompareStep
  <2>2. QED
    BY <2>1 DEF Frame
<1>2. ASSUME NEW p \in Process, Frame(p), alone' \subseteq alone,
             p \notin Publisher \/ pc[p] # "idle" \/ pc'[p] = "idle"
      PROVE  /\ c \in Publisher /\ c \in alone
             /\ \A q \in Publisher : q # c => pc[q] = "idle" /\ pc'[q] = "idle"
  <2>1. c \in alone /\ c \in Publisher
    BY <1>2 DEF Types
  <2>2. \A q \in Publisher : q # c => pc[q] = "idle"
    BY <2>1 DEF Working
  <2>3. QED
    BY <1>2, <2>1, <2>2 DEF Frame
<1>3. ASSUME NEW k \in Trainer, Fit(k) PROVE Frame(k) /\ alone' = alone
  BY <1>3, FitStep DEF Fit
<1>4. ASSUME NEW p \in Publisher, HashActive(p) PROVE Frame(p) /\ alone' = alone /\ pc[p] # "idle"
  BY <1>4, HashStep
<1>5. ASSUME NEW p \in Loader, ReadMetadata(p) \/ Verify(p) \/ LoadModel(p)
      PROVE  Frame(p) /\ alone' = alone
  <2>1. Frame(p)
    BY <1>5, MetadataStep, VerifyStep, LoadStep
  <2>2. /\ ReadMetadata(p) => alone' = alone
        /\ Verify(p) => alone' = alone
        /\ LoadModel(p) => alone' = alone
    BY DEF ReadMetadata, Verify, LoadModel
  <2>3. QED
    BY <1>5, <2>1, <2>2
<1>6. ASSUME ReadPrior PROVE Frame("c_final") /\ alone' = alone
  BY <1>6, PriorStep DEF ReadPrior
<1>7. ASSUME SyncStart \/ ReadExperimentA \/ ReadReport \/ ReadMatrix \/ Accept
      PROVE  Frame("sync") /\ alone' = alone
  <2>1. Frame("sync")
    BY <1>7, SyncStep
  <2>2. QED
    BY <1>7, <2>1 DEF SyncStart, ReadExperimentA, ReadReport, ReadMatrix, Accept
<1>8. ASSUME NEW p \in Process, Open(p) \/ Close(p) PROVE Frame(p) /\ alone' = alone /\ pc[p] # "idle"
  BY <1>8, WriteFrame
<1>9. ASSUME NEW p \in Process, Finish(p) \/ Abort(p)
      PROVE  Frame(p) /\ alone' \subseteq alone /\ pc'[p] = "idle"
  BY <1>9, EndStep
<1>10. CASE \E p \in Publisher, k \in Trainer : Compare(p, k)
  BY <1>1, <1>10
<1>11. CASE ~ \E p \in Publisher, k \in Trainer : Compare(p, k)
  <2>1. \E p \in Process : /\ Frame(p) /\ alone' \subseteq alone
                           /\ p \notin Publisher \/ pc[p] # "idle" \/ pc'[p] = "idle"
    <3>1. "c_final" \in Process /\ "sync" \in Process
      OBVIOUS
    <3>2. QED
      BY <1>3, <1>4, <1>5, <1>6, <1>7, <1>8, <1>9, <1>11, <3>1 DEF Next
  <2>2. QED
    BY <1>2, <2>1
<1>12. QED
  BY <1>10, <1>11

\* Nobody else writes the model of a publication that is alone, or its metadata.
LEMMA PublishedKept ==
  ASSUME IInv, Next, NEW c \in alone', ~Open(c), ~Close(c)
  PROVE  file'["active"] = file["active"] /\ file'["metadata"] = file["metadata"]
<1>1. CASE \A p \in Process : ~Open(p) /\ ~Close(p)
  BY <1>1, Unwritten DEF IInv
<1>2. ASSUME NEW p \in Process, Open(p) \/ Close(p)
      PROVE  file'["active"] = file["active"] /\ file'["metadata"] = file["metadata"]
  <2>1. /\ \A f \in File : f # Head(todo[p]) => file'[f] = file[f]
        /\ pc[p] = "write" /\ todo[p] # <<>>
    BY <1>2, WriteFrame DEF IInv
  <2>2. p \notin Publisher
    <3>1. p # c
      BY <1>2
    <3>2. QED
      BY <2>1, <3>1, AloneStep
  <2>3. Head(todo[p]) \notin {"active", "metadata"}
    BY <2>1, <2>2, Writing DEF IInv
  <2>4. QED
    BY <2>1, <2>3, FileNames DEF FileName
<1>3. QED
  BY <1>1, <1>2

\* A step that is not of a publication leaves its state alone.
LEMMA OfOthers ==
  ASSUME Types, Next, NEW c \in Publisher,
         \A k \in Trainer : ~Compare(c, k), ~HashActive(c), ~Open(c), ~Close(c),
         ~Finish(c), ~Abort(c)
  PROVE  /\ pc'[c] = pc[c] /\ mem'[c] = mem[c]
         /\ todo'[c] = todo[c] /\ selected'[c] = selected[c]
         /\ c \in calm' => c \in calm
         /\ c \in alone' => c \in alone
         /\ fits' \in Nat /\ fits <= fits'
<1> USE Members
<1>1. ASSUME NEW p \in Process, p # c, Frame(p)
      PROVE  /\ pc'[c] = pc[c] /\ mem'[c] = mem[c]
             /\ todo'[c] = todo[c] /\ selected'[c] = selected[c]
             /\ c \in calm' => c \in calm
             /\ c \in alone' => c \in alone
             /\ fits' \in Nat /\ fits <= fits'
  BY <1>1 DEF Frame
<1>2. \E p \in Process : p # c /\ Frame(p)
  <2>1. ASSUME NEW k \in Trainer, Fit(k) PROVE k # c /\ Frame(k)
    BY <2>1, FitStep
  <2>2. ASSUME NEW p \in Publisher, HashActive(p) \/ \E k \in Trainer : Compare(p, k)
        PROVE  p # c /\ Frame(p)
    BY <2>2, HashStep, CompareStep
  <2>3. ASSUME NEW p \in Loader, ReadMetadata(p) \/ Verify(p) \/ LoadModel(p)
        PROVE  p # c /\ Frame(p)
    BY <2>3, MetadataStep, VerifyStep, LoadStep
  <2>4. ASSUME ReadPrior PROVE "c_final" \in Process /\ "c_final" # c /\ Frame("c_final")
    BY <2>4, PriorStep
  <2>5. ASSUME SyncStart \/ ReadExperimentA \/ ReadReport \/ ReadMatrix \/ Accept
        PROVE  "sync" # c /\ Frame("sync")
    BY <2>5, SyncStep
  <2>6. ASSUME NEW p \in Process, Open(p) \/ Close(p) \/ Finish(p) \/ Abort(p)
        PROVE  p # c /\ Frame(p)
    BY <2>6, WriteFrame, EndStep
  <2>7. QED
    BY <2>1, <2>2, <2>3, <2>4, <2>5, <2>6 DEF Next
<1>3. QED
  BY <1>1, <1>2

\* A publication's own writes: the model first, the metadata last.
LEMMA PublishingWrites ==
  ASSUME IInv, NEW c \in Publisher, Open(c) \/ Close(c)
  PROVE  LET h == Head(todo[c])
         IN  /\ pc[c] = "write" /\ mem' = mem /\ fits' = fits /\ selected' = selected
             /\ alone' = alone /\ (c \in calm' => c \in calm)
             /\ \A t \in Trainer : pc'[t] = pc[t] /\ file'[ModelOf[t]] = file[ModelOf[t]]
             /\ \/ h = "active" /\ Len(todo[c]) = 2
                \/ h = "metadata" /\ Len(todo[c]) = 1 /\ file'["active"] = file["active"]
             /\ Open(c) => pc'[c] = "write" /\ todo' = todo
             /\ Close(c) =>
                  /\ pc'[c] = IF h = "active" THEN "hash" ELSE "write"
                  /\ h = "active" => Len(todo'[c]) = 1
                  /\ h = "metadata" => Len(todo'[c]) = 0
             /\ Close(c) /\ c \in alone =>
                  /\ h = "active" => file'["active"] = file[ModelOf[selected[c]]]
                  /\ h = "metadata" => file'["metadata"] = mem[c]
<1> DEFINE h == Head(todo[c])
<1> USE Members
<1>1. /\ Frame(c) /\ pc[c] = "write" /\ todo[c] # <<>>
      /\ mem' = mem /\ fits' = fits /\ selected' = selected /\ alone' = alone
      /\ \A f \in File : f # h => file'[f] = file[f]
      /\ Open(c) => todo' = todo
      /\ Close(c) => /\ file'[h] = Content(c, h) \/ Contended(c, h)
                     /\ todo'[c] = Tail(todo[c])
      /\ pc'[c] = IF Close(c) /\ h = "active" THEN "hash" ELSE "write"
      /\ calm' = calm \ Disturbs(h)
  BY WriteFrame DEF IInv
<1>2. /\ h \in {"active", "metadata"}
      /\ h = "active" => Len(todo[c]) = 2 /\ Len(Tail(todo[c])) = 1
      /\ h = "metadata" => Len(todo[c]) = 1 /\ Len(Tail(todo[c])) = 0
  BY <1>1, Writing DEF IInv
<1>3. /\ h = "active" => Content(c, h) = file[ModelOf[selected[c]]]
      /\ h = "metadata" => Content(c, h) = mem[c]
  BY <1>1, Contents DEF IInv
<1>4. \A t \in Trainer : ModelOf[t] \in File /\ ModelOf[t] # h
  BY <1>2, ModelFiles
<1>5. "active" \in File
  BY FileNames DEF FileName
<1>6. Open(c) => ~Close(c)
  BY DEF Open, Close
<1>7. c \in alone => ~Contended(c, h)
  BY <1>2, Uncontended DEF IInv
<1> HIDE DEF h
<1>8. \A t \in Trainer : pc'[t] = pc[t] /\ file'[ModelOf[t]] = file[ModelOf[t]]
  BY <1>1, <1>4 DEF Frame
<1>9. h = "metadata" => file'["active"] = file["active"]
  BY <1>1, <1>5
<1>10. QED
  BY <1>1, <1>2, <1>3, <1>6, <1>7, <1>8, <1>9 DEF h

LEMMA CopiedMetrics ==
  ASSUME IInv, NEW c \in Publisher, NEW k \in Trainer, Compare(c, k)
  PROVE  /\ mem'[c][2] \in 1 .. fits'
         /\ file[MetricsOf[k]] = Of(mem'[c][2])
<1>1. /\ file[MetricsOf[k]] \notin {Absent, Torn} /\ mem'[c][2] = file[MetricsOf[k]][1]
      /\ fits' = fits
  BY CompareStep DEF IInv
<1>2. IsFit(file[MetricsOf[k]])
  BY <1>1, ModelFiles DEF IInv, Kept
<1>3. QED
  BY <1>1, <1>2 DEF IsFit, Of

LEMMA WorkingStep == ASSUME IInv, Next PROVE Working'
<1> USE Members DEF IInv
<1>0. fits \in Nat
  BY DEF Types
<1>1. ASSUME NEW c \in Publisher, pc'[c] # "idle"
      PROVE  /\ mem'[c][2] \in 1 .. fits' /\ pc'[c] \in {"write", "hash"}
             /\ pc'[c] = "hash" => Len(todo'[c]) = 1
  <2>0. pc[c] # "idle" => /\ mem[c][2] \in 1 .. fits /\ pc[c] \in {"write", "hash"}
                          /\ pc[c] = "hash" => Len(todo[c]) = 1
    BY DEF Working
  <2>1. CASE \E k \in Trainer : Compare(c, k)
    BY <2>1, CompareStep, CopiedMetrics
  <2>2. CASE HashActive(c)
    <3>1. pc'[c] = "write" /\ pc[c] = "hash" /\ mem'[c][2] = mem[c][2] /\ fits' = fits
      BY <2>2, HashStep
    <3>2. QED
      BY <2>0, <3>1
  <2>3. CASE Open(c) \/ Close(c)
    <3>1. pc[c] = "write" /\ mem' = mem /\ fits' = fits
      BY <2>3, PublishingWrites
    <3>2. pc'[c] = "write" \/ (pc'[c] = "hash" /\ Len(todo'[c]) = 1)
      BY <2>3, PublishingWrites
    <3>3. QED
      BY <2>0, <3>1, <3>2
  <2>4. CASE Finish(c) \/ Abort(c)
    BY <1>1, <2>4, EndStep
  <2>5. CASE /\ \A k \in Trainer : ~Compare(c, k)
             /\ ~HashActive(c) /\ ~Open(c) /\ ~Close(c) /\ ~Finish(c) /\ ~Abort(c)
    <3>1. /\ pc'[c] = pc[c] /\ mem'[c] = mem[c] /\ todo'[c] = todo[c]
          /\ fits' \in Nat /\ fits <= fits'
      BY <2>5, OfOthers
    <3>2. mem[c][2] \in 1 .. fits => mem'[c][2] \in 1 .. fits'
      BY <1>0, <3>1
    <3>3. QED
      BY <1>1, <2>0, <3>1, <3>2
  <2>6. QED
    BY <2>1, <2>2, <2>3, <2>4, <2>5
<1>2. \A c \in alone' : \A q \in Publisher : q # c => pc'[q] = "idle"
  BY AloneStep
<1>3. QED
  BY <1>1, <1>2 DEF Working

LEMMA HashedStep == ASSUME IInv, Next PROVE Hashed'
<1> DEFINE H(c) ==
             /\ pc[c] = "idle" => Len(todo[c]) = 0
             /\ pc[c] = "write" /\ Len(todo[c]) = 1 => mem[c][1] = Hash("active")
             /\ pc[c] \in {"write", "idle"} /\ Len(todo[c]) = 0 =>
                  file["metadata"][1] = Hash("active")
<1> SUFFICES ASSUME NEW c \in alone' PROVE H(c)'
  BY DEF Hashed
<1> USE Members DEF IInv
<1>0. c \in Publisher /\ (c \in alone => H(c)) /\ "write" # "hash" /\ "write" # "idle" /\ "hash" # "idle"
  BY AloneStep DEF Hashed
<1>1. ASSUME NEW k \in Trainer, Compare(c, k) PROVE H(c)'
  <2>1. pc'[c] = "write" /\ Len(todo'[c]) = 2
    BY <1>0, <1>1, CompareStep, Lengths
  <2>2. QED
    BY <2>1
<1>2. ASSUME HashActive(c) PROVE H(c)'
  <2>1. /\ pc[c] = "hash" /\ pc'[c] = "write" /\ todo' = todo /\ file' = file
        /\ mem'[c][1] = Hash("active") /\ alone' = alone
    BY <1>0, <1>2, HashStep
  <2>2. Len(todo'[c]) = 1
    BY <1>0, <2>1 DEF Working
  <2>3. Hash("active")' = Hash("active")
    BY <2>1 DEF Hash
  <2>4. QED
    BY <2>1, <2>2, <2>3
<1>3. ASSUME Open(c) \/ Close(c) PROVE H(c)'
  <2> DEFINE h == Head(todo[c])
  <2>1. /\ pc[c] = "write" /\ mem' = mem /\ alone' = alone
        /\ \/ h = "active" /\ Len(todo[c]) = 2
           \/ h = "metadata" /\ Len(todo[c]) = 1 /\ file'["active"] = file["active"]
        /\ Open(c) => pc'[c] = "write" /\ todo' = todo
        /\ Close(c) => /\ pc'[c] = IF h = "active" THEN "hash" ELSE "write"
                       /\ h = "active" => Len(todo'[c]) = 1
                       /\ h = "metadata" => Len(todo'[c]) = 0
    BY <1>0, <1>3, PublishingWrites
  <2>a. Close(c) /\ h = "metadata" => file'["metadata"] = mem[c]
    BY <1>0, <1>3, <2>1, PublishingWrites
  <2> HIDE DEF h
  <2>2. CASE h = "active"
    <3>1. \/ pc'[c] = "write" /\ Len(todo'[c]) = 2
          \/ pc'[c] = "hash" /\ Len(todo'[c]) = 1
      BY <1>3, <2>1, <2>2
    <3>2. CASE pc'[c] = "write" /\ Len(todo'[c]) = 2
      BY <3>2
    <3>3. CASE pc'[c] = "hash" /\ Len(todo'[c]) = 1
      BY <3>3
    <3>4. QED
      BY <3>1, <3>2, <3>3
  <2>3. CASE h = "metadata"
    <3>1. mem[c][1] = Hash("active") /\ Hash("active")' = Hash("active")
      BY <1>0, <2>1, <2>3 DEF Hash
    <3>2. CASE Open(c)
      <4>1. pc'[c] = "write" /\ Len(todo'[c]) = 1 /\ mem' = mem
        BY <2>1, <2>3, <3>2
      <4>2. QED
        BY <3>1, <4>1
    <3>3. CASE Close(c)
      <4>1. /\ pc'[c] = "write" /\ Len(todo'[c]) = 0
            /\ file'["metadata"] = mem[c]
        BY <2>1, <2>a, <2>3, <3>3
      <4>2. QED
        BY <3>1, <4>1
    <3>4. QED
      BY <1>3, <3>2, <3>3
  <2>4. QED
    BY <2>1, <2>2, <2>3
<1>4. ASSUME Finish(c) \/ Abort(c) PROVE H(c)'
  <2>1. /\ pc'[c] = "idle" /\ todo'[c] = <<>> /\ file' = file
        /\ pc[c] = "write" /\ todo[c] = <<>> /\ c \in alone
    BY <1>0, <1>4, EndStep
  <2>2. Len(todo[c]) = 0 /\ Len(todo'[c]) = 0
    BY <2>1, EmptySeq
  <2>3. Hash("active")' = Hash("active") /\ file["metadata"][1] = Hash("active")
    BY <1>0, <2>1, <2>2 DEF Hash
  <2>4. QED
    BY <2>1, <2>2, <2>3
<1>5. ASSUME \A k \in Trainer : ~Compare(c, k), ~HashActive(c), ~Open(c), ~Close(c),
             ~Finish(c), ~Abort(c)
      PROVE  H(c)'
  <2>1. /\ pc'[c] = pc[c] /\ mem'[c] = mem[c] /\ todo'[c] = todo[c] /\ c \in alone
    BY <1>0, <1>5, OfOthers
  <2>2. file'["active"] = file["active"] /\ file'["metadata"] = file["metadata"]
    BY <1>5, PublishedKept
  <2>3. Hash("active")' = Hash("active")
    BY <2>2 DEF Hash
  <2>4. QED
    BY <1>0, <2>1, <2>2, <2>3
<1>6. QED
  BY <1>1, <1>2, <1>3, <1>4, <1>5

LEMMA UndisturbedStep == ASSUME IInv, Next PROVE Undisturbed'
<1> DEFINE U(c) ==
             /\ pc[c] # "idle" => /\ \A t \in Trainer : pc[t] = "idle"
                                  /\ file[ModelOf[selected[c]]] = Of(mem[c][2])
             /\ pc[c] = "hash" => file["active"] = Of(mem[c][2])
             /\ pc[c] = "write" /\ Len(todo[c]) = 1 => mem[c][1] = mem[c][2]
             /\ pc[c] \in {"write", "idle"} /\ Len(todo[c]) = 0 =>
                  file["metadata"][2] = file["metadata"][1]
<1> SUFFICES ASSUME NEW c \in alone', c \in calm' PROVE U(c)'
  BY DEF Undisturbed
<1> USE Members DEF IInv
<1>0. /\ c \in Publisher /\ (c \in alone /\ c \in calm => U(c))
      /\ "write" # "hash" /\ "write" # "idle" /\ "hash" # "idle"
  BY AloneStep DEF Undisturbed
<1>1. ASSUME NEW k \in Trainer, Compare(c, k) PROVE U(c)'
  <2>1. /\ pc'[c] = "write" /\ Len(todo'[c]) = 2
        /\ file' = file /\ selected'[c] = k /\ Frame(c)
        /\ file[ModelOf[k]] = file[MetricsOf[k]] /\ \A t \in Trainer : pc[t] = "idle"
    BY <1>0, <1>1, CompareStep, Lengths
  <2>2. file[MetricsOf[k]] = Of(mem'[c][2])
    BY <1>0, <1>1, CopiedMetrics
  <2>3. \A t \in Trainer : pc'[t] = "idle"
    BY <1>0, <2>1 DEF Frame
  <2>4. file'[ModelOf[selected'[c]]] = Of(mem'[c][2])
    BY <2>1, <2>2
  <2>5. QED
    BY <2>1, <2>3, <2>4 DEF Of
<1>2. ASSUME HashActive(c) PROVE U(c)'
  <2>1. /\ pc[c] = "hash" /\ pc'[c] = "write" /\ todo' = todo /\ file' = file
        /\ mem'[c][1] = Hash("active") /\ mem'[c][2] = mem[c][2]
        /\ selected' = selected /\ calm' = calm /\ alone' = alone /\ Frame(c)
    BY <1>0, <1>2, HashStep
  <2>2. \A t \in Trainer : pc'[t] = "idle"
    BY <1>0, <2>1 DEF Frame
  <2>3. Len(todo[c]) = 1 /\ mem[c][2] \in 1 .. fits
    BY <1>0, <2>1 DEF Working
  <2>4. Hash("active") = mem[c][2]
    <3>1. file["active"] = Of(mem[c][2])
      BY <1>0, <2>1
    <3>2. Of(mem[c][2]) # Torn /\ Of(mem[c][2])[1] = mem[c][2]
      BY <2>3 DEF Of, Torn
    <3>3. QED
      BY <3>1, <3>2 DEF Hash
  <2>5. file'[ModelOf[selected'[c]]] = Of(mem'[c][2])
    BY <1>0, <2>1 DEF Of
  <2>6. Len(todo'[c]) = 1
    BY <2>1, <2>3
  <2>7. QED
    BY <2>1, <2>2, <2>4, <2>5, <2>6
<1>3. ASSUME Open(c) \/ Close(c) PROVE U(c)'
  <2> DEFINE h == Head(todo[c])
  <2>1. /\ pc[c] = "write" /\ mem' = mem /\ selected' = selected /\ alone' = alone /\ c \in calm
        /\ \A t \in Trainer : pc'[t] = pc[t] /\ file'[ModelOf[t]] = file[ModelOf[t]]
        /\ \/ h = "active" /\ Len(todo[c]) = 2
           \/ h = "metadata" /\ Len(todo[c]) = 1 /\ file'["active"] = file["active"]
        /\ Open(c) => pc'[c] = "write" /\ todo' = todo
        /\ Close(c) => /\ pc'[c] = IF h = "active" THEN "hash" ELSE "write"
                       /\ h = "active" => Len(todo'[c]) = 1
                       /\ h = "metadata" => Len(todo'[c]) = 0
    BY <1>0, <1>3, PublishingWrites
  <2>a. Close(c) => /\ h = "active" => file'["active"] = file[ModelOf[selected[c]]]
                    /\ h = "metadata" => file'["metadata"] = mem[c]
    BY <1>0, <1>3, <2>1, PublishingWrites
  <2> HIDE DEF h
  <2>2. /\ \A t \in Trainer : pc'[t] = "idle"
        /\ file'[ModelOf[selected'[c]]] = Of(mem'[c][2])
        /\ file[ModelOf[selected[c]]] = Of(mem[c][2])
    <3>1. selected[c] \in Trainer
      BY <1>0 DEF Types
    <3>2. QED
      BY <1>0, <2>1, <3>1 DEF Of
  <2>3. CASE Open(c)
    <3>1. pc'[c] = "write" /\ todo'[c] = todo[c] /\ mem' = mem
      BY <2>1, <2>3
    <3>2. Len(todo[c]) = 2 \/ (Len(todo[c]) = 1 /\ mem[c][1] = mem[c][2])
      BY <1>0, <2>1
    <3>3. CASE Len(todo[c]) = 2
      BY <2>2, <3>1, <3>3
    <3>4. CASE Len(todo[c]) = 1 /\ mem[c][1] = mem[c][2]
      BY <2>2, <3>1, <3>4
    <3>5. QED
      BY <3>2, <3>3, <3>4
  <2>4. CASE Close(c) /\ h = "active"
    <3>1. pc'[c] = "hash" /\ mem' = mem /\ file'["active"] = Of(mem[c][2])
      BY <2>1, <2>a, <2>2, <2>4
    <3>2. QED
      BY <2>2, <3>1 DEF Of
  <2>5. CASE Close(c) /\ h = "metadata"
    <3>1. /\ pc'[c] = "write" /\ Len(todo'[c]) = 0
          /\ file'["metadata"] = mem[c] /\ Len(todo[c]) = 1
      BY <2>1, <2>a, <2>5
    <3>2. mem[c][1] = mem[c][2]
      BY <1>0, <2>1, <3>1
    <3>3. QED
      BY <2>2, <3>1, <3>2
  <2>6. QED
    BY <1>3, <2>1, <2>3, <2>4, <2>5
<1>4. ASSUME Finish(c) \/ Abort(c) PROVE U(c)'
  <2>1. /\ pc'[c] = "idle" /\ todo'[c] = <<>> /\ file' = file
        /\ pc[c] = "write" /\ todo[c] = <<>> /\ c \in alone /\ c \in calm
    BY <1>0, <1>4, EndStep
  <2>2. Len(todo[c]) = 0
    BY <2>1, EmptySeq
  <2>3. QED
    BY <1>0, <2>1, <2>2
<1>5. ASSUME \A k \in Trainer : ~Compare(c, k), ~HashActive(c), ~Open(c), ~Close(c),
             ~Finish(c), ~Abort(c)
      PROVE  U(c)'
  <2>1. /\ pc'[c] = pc[c] /\ mem'[c] = mem[c]
        /\ todo'[c] = todo[c] /\ selected'[c] = selected[c]
        /\ c \in calm /\ c \in alone
    BY <1>0, <1>5, OfOthers
  <2>2. file'["active"] = file["active"] /\ file'["metadata"] = file["metadata"]
    BY <1>5, PublishedKept
  <2>a. CASE pc[c] = "idle"
    BY <1>0, <2>1, <2>2, <2>a
  <2>b. CASE pc[c] # "idle"
    <3>3. \A t \in Trainer : pc[t] = "idle"
      BY <1>0, <2>1, <2>b
\* No trainer is at work, and none starts: neither a model nor its metrics changes.
    <3>4. ASSUME NEW t \in Trainer
          PROVE  ~Fit(t) /\ ~Open(t) /\ ~Close(t) /\ ~Finish(t) /\ ~Abort(t)
      BY <1>0, <2>b, <3>3, FitStep, WriteFrame DEF Finish, Abort
    <3>5. \A t \in Trainer : pc'[t] = "idle"
      <4>1. ASSUME NEW t \in Trainer, NEW p \in Process, p # t, Frame(p) PROVE pc'[t] = "idle"
        BY <3>3, <4>1 DEF Frame
      <4>2. \E p \in Process : p \notin Trainer /\ Frame(p)
        <5>1. ASSUME NEW p \in Loader, ReadMetadata(p) \/ Verify(p) \/ LoadModel(p)
              PROVE  p \notin Trainer /\ Frame(p)
          BY <5>1, MetadataStep, VerifyStep, LoadStep
        <5>2. ASSUME ReadPrior PROVE "c_final" \in Process /\ "c_final" \notin Trainer /\ Frame("c_final")
          BY <5>2, PriorStep
        <5>3. ASSUME SyncStart \/ ReadExperimentA \/ ReadReport \/ ReadMatrix \/ Accept
              PROVE  Frame("sync")
          BY <5>3, SyncStep
        <5>4. ASSUME NEW p \in Process, Open(p) \/ Close(p) \/ Finish(p) \/ Abort(p)
              PROVE  p \notin Trainer /\ Frame(p)
          BY <3>4, <5>4, WriteFrame, EndStep
        <5>5. ASSUME NEW p \in Publisher, HashActive(p) \/ \E k \in Trainer : Compare(p, k)
              PROVE  p \notin Trainer /\ Frame(p)
          BY <5>5, HashStep, CompareStep
        <5>6. QED
          BY <3>4, <5>1, <5>2, <5>3, <5>4, <5>5 DEF Next
      <4>3. QED
        BY <4>1, <4>2
    <3>6. file'[ModelOf[selected[c]]] = file[ModelOf[selected[c]]]
      <4>0. selected[c] \in Trainer
        BY <1>0 DEF Types
      <4>1. ModelOf[selected[c]] \in TrainedFile /\ ModelOf[selected[c]] \in File
        BY <4>0, ModelFiles
      <4>2. CASE \A p \in Process : ~Open(p) /\ ~Close(p)
        BY <4>2, Unwritten
      <4>3. ASSUME NEW p \in Process, Open(p) \/ Close(p)
            PROVE  file'[ModelOf[selected[c]]] = file[ModelOf[selected[c]]]
        <5>1. p \notin Trainer
          BY <3>4, <4>3
        <5>2. /\ pc[p] = "write" /\ todo[p] # <<>>
              /\ \A f \in File : f # Head(todo[p]) => file'[f] = file[f]
          BY <4>3, WriteFrame
        <5>3. Head(todo[p]) \notin TrainedFile
          BY <5>1, <5>2, Writing
        <5>4. QED
          BY <4>1, <5>2, <5>3
      <4>4. QED
        BY <4>2, <4>3
    <3>7. QED
      BY <1>0, <2>1, <2>2, <3>5, <3>6 DEF Of
  <2>3. QED
    BY <2>a, <2>b
<1>6. QED
  BY <1>1, <1>2, <1>3, <1>4, <1>5

\* The run that made the report is calm again only by starting, which it does
\* only if there is no report.
LEMMA CalmStep ==
  ASSUME IInv, Next, "v3_final" \in calm', "v3_final" \notin calm
  PROVE  file["report"] = Absent /\ file' = file
<1> USE Members DEF IInv
<1>1. ASSUME NEW p \in Process, p # "v3_final", Frame(p) PROVE FALSE
  BY <1>1 DEF Frame
<1>2. ASSUME NEW p \in Loader, ReadMetadata(p) \/ Verify(p) \/ LoadModel(p)
      PROVE  file["report"] = Absent /\ file' = file
  <2>1. ~Verify(p) /\ ~LoadModel(p)
    <3>1. Verify(p) => calm' = calm
      BY VerifyStep
    <3>2. LoadModel(p) => calm' = calm
      BY LoadStep
    <3>3. QED
      BY <3>1, <3>2
  <2>2. ReadMetadata(p) => Frame(p) /\ file' = file /\ (p = "v3_final" => file["report"] = Absent)
    BY MetadataStep
  <2>3. QED
    BY <1>1, <1>2, <2>1, <2>2
<1>3. ASSUME NEW p \in Process, Open(p) \/ Close(p) \/ Finish(p) \/ Abort(p) PROVE FALSE
  BY <1>3, WriteFrame, EndStep
<1>4. ASSUME NEW k \in Trainer, Fit(k) PROVE FALSE
  BY <1>1, <1>4, FitStep
<1>5. ASSUME NEW p \in Publisher, HashActive(p) \/ \E k \in Trainer : Compare(p, k) PROVE FALSE
  BY <1>1, <1>5, HashStep, CompareStep
<1>6. ASSUME ReadPrior PROVE FALSE
  BY <1>6, PriorStep
<1>7. ASSUME SyncStart \/ ReadExperimentA \/ ReadReport \/ ReadMatrix \/ Accept PROVE FALSE
  BY <1>7, SyncStep
<1>8. QED
  BY <1>2, <1>3, <1>4, <1>5, <1>6, <1>7 DEF Next

\* The report is written by the one run, whole and of the model it loaded, or
\* left torn; it does not vanish.
LEMMA ReportStep ==
  ASSUME IInv, Next
  PROVE  \/ file'["report"] = file["report"]
         \/ file'["report"] = Torn
         \/ /\ file'["report"] # Absent
            /\ "v3_final" \in calm' => IsFit(file["report"])'
<1> USE Members DEF IInv
<1>1. CASE \A p \in Process : ~Open(p) /\ ~Close(p)
  BY <1>1, Unwritten
<1>2. ASSUME NEW p \in Process, Open(p) \/ Close(p), Head(todo[p]) # "report"
      PROVE  file'["report"] = file["report"]
  BY <1>2, WriteFrame, FileNames DEF FileName
<1>3. ASSUME NEW p \in Process, Open(p) \/ Close(p), Head(todo[p]) = "report",
             file'["report"] # Torn
      PROVE  /\ file'["report"] # Absent
             /\ "v3_final" \in calm' => IsFit(file["report"])'
  <2>1. /\ pc[p] = "write" /\ todo[p] # <<>> /\ fits' = fits /\ calm' \subseteq calm
        /\ file'["report"] = Content(p, Head(todo[p]))
    BY <1>3, WriteFrame
  <2>2. p = "v3_final" /\ file'["report"] = mem["v3_final"] /\ mem["v3_final"] \in Int \X Int
    BY <1>3, <2>1, Writing, Contents
  <2>3. /\ mem["v3_final"][2] \in 1 .. fits
        /\ "v3_final" \in calm' => mem["v3_final"][1] = mem["v3_final"][2]
    BY <2>1, <2>2 DEF Loaded
  <2>4. fits \in Nat
    BY DEF Types
  <2>5. mem["v3_final"] # Absent
    BY <2>3, <2>4 DEF Absent
  <2>6. QED
    BY <2>1, <2>2, <2>3, <2>5 DEF IsFit
<1>4. QED
  BY <1>1, <1>2, <1>3

LEMMA FitsGrow == ASSUME Types, Next PROVE fits' \in Nat /\ fits <= fits'
<1>1. CASE \A p \in Process : ~Open(p) /\ ~Close(p)
  BY <1>1, Unwritten
<1>2. ASSUME NEW p \in Process, Open(p) \/ Close(p) PROVE fits' \in Nat /\ fits <= fits'
  BY <1>2, WriteFrame DEF Types
<1>3. QED
  BY <1>1, <1>2

LEMMA ReportedStep == ASSUME IInv, Next PROVE Reported'
<1> USE DEF IInv
<1>1. CASE file'["report"] = file["report"]
  <2>1. CASE file["report"] \in {Absent, Torn}
    BY <1>1, <2>1 DEF Reported
  <2>2. CASE file["report"] \notin {Absent, Torn}
    <3>1. "v3_final" \in calm' => IsFit(file["report"])
      BY <2>2, CalmStep DEF Reported
    <3>2. "v3_final" \in calm' => IsFit(file["report"])'
      BY <1>1, <3>1, FitsGrow, StillFit DEF IsFit
    <3>3. QED
      BY <3>2 DEF Reported
  <2>3. QED
    BY <2>1, <2>2
<1>2. QED
  BY <1>1, ReportStep DEF Reported

LEMMA TakenStep == ASSUME IInv, Next PROVE Taken'
<1> USE Members DEF IInv
<1>1. ASSUME pc'["sync"] = pc["sync"], read'.report = read.report, read'.matrix = read.matrix
      PROVE  Taken'
  <2>1. CASE pc["sync"] \in {"matrix", "validate", "write"}
    <3>1. file["report"] # Absent /\ ("v3_final" \in calm => IsFit(read.report))
      BY <2>1 DEF Taken
    <3>2. file'["report"] # Absent
      BY <3>1, ReportStep DEF Absent, Torn
    <3>3. "v3_final" \in calm' => IsFit(read.report)
      BY <3>1, CalmStep
    <3>4. "v3_final" \in calm' => IsFit(read.report)'
      BY <1>1, <3>3, FitsGrow, StillFit DEF IsFit
    <3>5. pc["sync"] = "write" => (Tally(read.matrix) = Tally(Of(read.report[2])))'
      BY <1>1 DEF Taken, Tally, Of
    <3>6. QED
      BY <1>1, <3>2, <3>4, <3>5 DEF Taken
  <2>2. CASE pc["sync"] \notin {"matrix", "validate", "write"}
    BY <1>1, <2>2 DEF Taken
  <2>3. QED
    BY <2>1, <2>2
<1>2. ASSUME NEW p \in Process, p # "sync", Frame(p) PROVE Taken'
  BY <1>1, <1>2 DEF Frame
<1>3. ASSUME SyncStart \/ ReadExperimentA PROVE Taken'
  BY <1>3, SyncStep DEF Taken
<1>4. ASSUME ReadReport PROVE Taken'
  <2>1. /\ pc'["sync"] = "matrix" /\ read'.report = file["report"]
        /\ file["report"] \notin {Absent, Torn} /\ fits' = fits /\ file' = file /\ calm' = calm
    BY <1>4, SyncStep
  <2>2. "v3_final" \in calm => IsFit(file["report"])
    BY <2>1 DEF Reported
  <2>3. "v3_final" \in calm' => IsFit(read.report)'
    BY <2>1, <2>2 DEF IsFit
  <2>4. QED
    BY <2>1, <2>3 DEF Taken
<1>5. ASSUME ReadMatrix PROVE Taken'
  <2>1. /\ pc["sync"] = "matrix" /\ pc'["sync"] = "validate"
        /\ read'.report = read.report /\ fits' = fits /\ file' = file /\ calm' = calm
    BY <1>5, SyncStep
  <2>2. file'["report"] # Absent /\ ("v3_final" \in calm' => IsFit(read.report)')
    BY <2>1 DEF Taken, IsFit
  <2>3. QED
    BY <2>1, <2>2 DEF Taken
<1>6. ASSUME Accept PROVE Taken'
  <2>1. /\ pc["sync"] = "validate" /\ pc'["sync"] = "write" /\ read' = read
        /\ Tally(read.matrix) = Tally(Of(read.report[2]))
        /\ fits' = fits /\ file' = file /\ calm' = calm
    BY <1>6, SyncStep
  <2>2. file'["report"] # Absent /\ ("v3_final" \in calm' => IsFit(read.report)')
    BY <2>1 DEF Taken, IsFit
  <2>3. (Tally(read.matrix) = Tally(Of(read.report[2])))'
    BY <2>1 DEF Tally, Of
  <2>4. QED
    BY <2>1, <2>2, <2>3 DEF Taken
<1>7. ASSUME Open("sync") \/ Close("sync") PROVE FALSE
  <2>1. pc["sync"] = "write" /\ todo["sync"] # <<>>
    BY <1>7, WriteFrame
  <2>2. Len(todo["sync"]) \in {1, 2}
    BY <2>1, Writing
  <2>3. Len(todo["sync"]) <= 0
    BY Lengths DEF Types, IsLeft
  <2>4. \A l \in {1, 2} : ~(l <= 0)
    OBVIOUS
  <2>5. QED
    BY <2>2, <2>3, <2>4
<1>8. ASSUME Finish("sync") \/ Abort("sync") PROVE Taken'
  BY <1>8, EndStep DEF Taken
<1>9. QED
  <2>1. ASSUME NEW k \in Trainer, Fit(k) PROVE Taken'
    BY <1>2, <2>1, FitStep
  <2>2. ASSUME NEW p \in Publisher, HashActive(p) \/ \E k \in Trainer : Compare(p, k)
        PROVE  Taken'
    BY <1>2, <2>2, HashStep, CompareStep
  <2>3. ASSUME NEW p \in Loader, ReadMetadata(p) \/ Verify(p) \/ LoadModel(p) PROVE Taken'
    BY <1>2, <2>3, MetadataStep, VerifyStep, LoadStep
  <2>4. ASSUME ReadPrior PROVE Taken'
    BY <1>2, <2>4, PriorStep
  <2>5. ASSUME NEW p \in Process, Open(p) \/ Close(p) \/ Finish(p) \/ Abort(p) PROVE Taken'
    BY <1>2, <1>7, <1>8, <2>5, WriteFrame, EndStep
  <2>6. QED
    BY <1>3, <1>4, <1>5, <1>6, <2>1, <2>2, <2>3, <2>4, <2>5 DEF Next

LEMMA IInvStep == IInv /\ [Next]_vars => IInv'
<1> SUFFICES ASSUME IInv, [Next]_vars PROVE IInv'
  OBVIOUS
<1>1. Types'
  BY TypesStep DEF IInv
<1>2. CASE Next
  BY <1>1, <1>2, KeptStep, LoadedStep, WorkingStep, HashedStep, UndisturbedStep,
     ReportedStep, TakenStep DEF IInv
<1>3. CASE UNCHANGED vars
  <2>1. UNCHANGED <<file, pc, todo, open, mem, selected, read, fits, calm, alone>>
    BY <1>3 DEF vars
  <2>2. Kept' /\ Loaded' /\ Working' /\ Hashed' /\ Reported'
    BY <2>1 DEF IInv, Kept, Loaded, Working, Hashed, Reported, IsFit, Hash
  <2>3. Undisturbed'
    BY <2>1 DEF IInv, Undisturbed, Of
  <2>4. Taken'
    BY <2>1 DEF IInv, Taken, IsFit, Tally, Of
  <2>5. QED
    BY <1>1, <2>2, <2>3, <2>4 DEF IInv
<1>4. QED
  BY <1>2, <1>3

LEMMA Invariant == Spec => []IInv
<1>1. QED
  BY IInvInit, IInvStep, PTL DEF Spec

-----------------------------------------------------------------------------
(* The theorems.                                                           *)

\* InferenceEngine: what any loader works with is what its metadata declare,
\* unless the file was replaced between its hash and its load.
THEOREM LoadIsDeclared == Spec => []LoadedIsDeclared
<1>1. IInv => LoadedIsDeclared
  BY DEF IInv, Loaded, LoadedIsDeclared
<1>2. QED
  BY <1>1, Invariant, PTL

\* compare_models: of any number of publications that overlap, are killed and
\* are followed by others, one that was alone and came to its end leaves metadata
\* that declare its model, and its metrics unless a training came between.
THEOREM PublicationWhole == Spec => []PublishedIsWhole
<1>1. IInv => PublishedIsWhole
  <2> SUFFICES ASSUME IInv, NEW p \in alone, todo[p] = <<>>
               PROVE  /\ file["metadata"][1] = Hash("active")
                      /\ p \in calm => file["metadata"][2] = file["metadata"][1]
    BY DEF PublishedIsWhole
  <2>1. Len(todo[p]) = 0 /\ p \in Publisher
    BY EmptySeq DEF IInv, Types
  <2>2. pc[p] \in {"write", "idle"}
    BY <2>1 DEF IInv, Working
  <2>3. QED
    BY <2>1, <2>2 DEF IInv, Hashed, Undisturbed
<1>2. QED
  BY <1>1, Invariant, PTL

\* _cross_validate: the table that the sync accepts counts like the model whose
\* hash the report names, for any models, with equal counts or not.
THEOREM EvidenceIsNamed == Spec => []AcceptedIsNamed
<1>1. IInv => AcceptedIsNamed
  <2> SUFFICES ASSUME IInv, pc["sync"] = "write", "v3_final" \in calm
               PROVE  Tally(read.matrix) = Tally(Of(read.report[1]))
    BY DEF AcceptedIsNamed
  <2>1. IsFit(read.report) /\ Tally(read.matrix) = Tally(Of(read.report[2]))
    BY DEF IInv, Taken
  <2>2. read.report[2] = read.report[1]
    BY <2>1 DEF IsFit
  <2>3. QED
    BY <2>1, <2>2
<1>2. QED
  BY <1>1, Invariant, PTL
=============================================================================
