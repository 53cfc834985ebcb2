------------------------- MODULE MCIngestionRunner -------------------------
(***************************************************************************)
(* IngestionRunner for a model with three features, one of them reproduced *)
(* from another, and CSVs with a complete header, one with every column,   *)
(* and headers with a missing, a doubled and a twice aliased column.       *)
(***************************************************************************)
EXTENDS IngestionRunner, TLC

MCFeature == {"port", "hdr", "hdr.1"}
MCNormal == "Dst Port" :> "dst_port" @@ "Src Port" :> "src_port" @@ "Fwd Hdr" :> "fwd_hdr"
              @@ "hdr" :> "hdr" @@ "hdr.1" :> "hdr.1"
MCAlias == "dst_port" :> "port" @@ "fwd_hdr" :> "hdr"
MCArtifact == "hdr.1" :> "hdr"
MCMetadataField == {"port", "src_port"}
MCIdentity == {"port"}
MCV3Source == "port" :> "Dst Port" @@ "hdr" :> "Fwd Hdr" @@ "hdr.1" :> "Fwd Hdr"

Plain == <<"Dst Port", "Fwd Hdr", "Src Port">>
MCHeaders == {Plain, Append(Plain, "hdr.1"), <<"Dst Port", "Src Port">>,
              Append(Plain, "Fwd Hdr"), Append(Plain, "hdr")}
Columns == {{h[i] : i \in DOMAIN h} : h \in MCHeaders}

\* The cells that differ from a plain number: another one, what is not finite,
\* what is no float32, what is no number, and metadata that does not parse.
Odd == {<<>>, "Fwd Hdr" :> "n2", "Dst Port" :> "n2" @@ "Fwd Hdr" :> "inf",
        "Dst Port" :> "huge", "Fwd Hdr" :> "text", "Src Port" :> "text"}
MCRow == {[c \in C |-> IF c \in DOMAIN o THEN o[c] ELSE "n1"] : C \in Columns, o \in Odd}

MCFlow == AdaptedFlow
MCLabelOf == [f \in MCFlow |-> IF f.features["port"] = "n2" THEN "PortScan" ELSE "Normal"]
=============================================================================
