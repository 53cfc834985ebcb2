--------------------------- MODULE FeatureMapping ---------------------------
(***************************************************************************)
(* From the columns of an extractor's CSV to the features of the model:    *)
(* FeatureAdapter (src/ingestion/feature_adapter.py), which the collectors *)
(* use row by row, CICFlowMeterV3ModelAdapter, through which the           *)
(* experiments feed whole tables to the same model, and what the API and   *)
(* its predictor ask of a row.  A cell is what its text is to a parser;    *)
(* names and mapping tables are parameters.                                *)
(***************************************************************************)
EXTENDS Naturals, Sequences, FiniteSets

CONSTANTS
  Feature,         \* feature_names of the model's metadata
  Normal,          \* normalize_column_name, for each raw column name
  Alias,           \* EXTRACTOR_TO_MODEL_FEATURE, on normalized names
  Artifact,        \* ARTIFACT_REPRODUCTIONS of the policy: target to source
  MetadataField,   \* METADATA_ALIASES, on names after aliasing
  Identity,        \* the features that are part of a fingerprint
  V3Source         \* MAPPING_RULES: the raw V3 column of each feature

Number == {"n1", "n2"}
\* "huge" is finite but not as a float32; "na" is a number's absence to pandas
\* ("NA", "null") and text to Python's float().
Cell == Number \cup {"huge", "inf", "nan", "blank", "na", "text"}
Value == Number \cup {"huge", "null"}

ASSUME MappingAssumption ==
  /\ DOMAIN V3Source = Feature /\ Identity \subseteq Feature
  /\ \A t \in DOMAIN Artifact : Artifact[t] \in Feature \ DOMAIN Artifact

Target(raw) == IF Normal[raw] \in DOMAIN Alias THEN Alias[Normal[raw]] ELSE Normal[raw]

\* Features that are copied from another one because the extractor has none.
Reproduced(available) ==
  {t \in DOMAIN Artifact \cap Feature : t \notin available /\ Artifact[t] \in available}

-----------------------------------------------------------------------------
\* Deviation: names are compared before the aliases are applied.
CompatibleUnaliased(header) ==
  LET available == {Target(header[i]) : i \in DOMAIN header}
  IN /\ Feature \subseteq available \cup Reproduced(available)
     /\ \A i, j \in DOMAIN header : Normal[header[i]] = Normal[header[j]] => i = j

\* compatibility: every feature has its column or its source, and no two
\* columns end up with the same name.
Compatible(header) ==
  LET available == {Target(header[i]) : i \in DOMAIN header}
  IN /\ Feature \subseteq available \cup Reproduced(available)
     /\ \A i, j \in DOMAIN header : Target(header[i]) = Target(header[j]) => i = j

\* A row is a function on the distinct column names, as csv.DictReader makes it.
\* _normalized raises if two of them end up with the same name.
Collides(row) == \E a, b \in DOMAIN row : a # b /\ Target(a) = Target(b)
Names(row) == {Target(raw) : raw \in DOMAIN row}
CellOf(row, name) == row[CHOOSE raw \in DOMAIN row : Target(raw) = name]
FeatureCell(row, f) == CellOf(row, IF f \in Names(row) THEN f ELSE Artifact[f])

Structured(row) == ~Collides(row) /\ Feature \subseteq Names(row) \cup Reproduced(Names(row))

\* Deviation: only NaN and blanks are replaced; an infinity stays one.
ValueOfKeepsInf(c) == IF c \in {"nan", "blank"} THEN "null" ELSE c

\* float() of the text, with None for a blank cell and for what is not finite.
Numeric(c) == c \notin {"text", "na"}
ValueOf(c) == IF c \in {"inf", "nan", "blank"} THEN "null" ELSE c

\* adapt raises FeatureCompatibilityError for any other row.
Adapts(row) == Structured(row) /\ \A f \in Feature : Numeric(FeatureCell(row, f))

Adapt(row) ==
  [features |-> [f \in Feature |-> ValueOf(FeatureCell(row, f))],
   metadata |-> [m \in {n \in Names(row) \cap MetadataField : CellOf(row, n) # "blank"} |->
                   CellOf(row, m)]]

AdaptedFlow == [features : [Feature -> Value],
                metadata : UNION {[M -> Cell] : M \in SUBSET MetadataField}]

\* _fingerprint: the metadata and three of the features, not the whole row.
Fingerprint(flow) == <<flow.metadata, [f \in Identity |-> flow.features[f]]>>

-----------------------------------------------------------------------------
\* CICFlowMeterV3ModelAdapter.adapt: exact V3 names, one malformed cell refuses
\* the whole table, nothing is imputed.
V3Accepts(header, rows) ==
  /\ \A i, j \in DOMAIN header : header[i] = header[j] => i = j
  /\ \A f \in Feature : \E i \in DOMAIN header : header[i] = V3Source[f]
  /\ \A row \in rows, f \in Feature : row[V3Source[f]] # "text"

\* Deviation: the infinities are left to the fitted imputer.
V3ValueOfKeepsInf(c) == IF c \in {"nan", "blank", "na"} THEN "null" ELSE c

V3ValueOf(c) == IF c \in {"inf", "nan", "blank", "na"} THEN "null" ELSE c
AdaptV3(row) == [f \in Feature |-> V3ValueOf(row[V3Source[f]])]

-----------------------------------------------------------------------------
\* FlowMetadata: ports and times must parse, or the whole request is a 422.
MetadataParses(flow) == \A m \in DOMAIN flow.metadata : flow.metadata[m] \in Number

\* InferenceEngine._prepare_row: the features asked for and no others, and
\* numbers; an infinity in the payload would not even be encoded as JSON.
Prepares(flow) ==
  /\ DOMAIN flow.features = Feature
  /\ \A f \in Feature : flow.features[f] \in Value

\* predict_batch classifies and stores the batch only if all of its rows pass;
\* what is not finite as a float32 is refused by the fitted imputer.
Servable(flow) ==
  MetadataParses(flow) /\ Prepares(flow) /\ \A f \in Feature : flow.features[f] # "huge"
=============================================================================
