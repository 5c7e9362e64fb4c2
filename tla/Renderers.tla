------------------------------ MODULE Renderers -----------------------------
(***************************************************************************)
(* What each abstraction level shows of a provenance record, and how the   *)
(* names of continuations bind a level to a source arm.  Values of fields  *)
(* are tuples, so that an identifier built from another contains it.       *)
(* Digests are hashes and always well formed: only identifiers and the     *)
(* agreement of status and polarity can make validate_record raise.  A     *)
(* treatment label has neither the dot that joins the parts of an          *)
(* identifier nor anything the JSON puts between two fields, so a label    *)
(* that is shown stands within one part.                                   *)
(***************************************************************************)
EXTENDS Sequences

CONSTANTS
    Unsafe,    \* parts of identifiers outside [a-zA-Z0-9_.:-]
    Marked     \* parts that hold a treatment label, whatever their case

-----------------------------------------------------------------------------
(* CONTINUATION_BINDINGS *)

Binding(name, source, level) == [name |-> name, source |-> source, level |-> level]

BindingsV1 ==
    <<Binding("echo_L0_value_only", "echo", "L0"),
      Binding("erased_L0_value_only", "erased", "L0"),
      Binding("echo_L2_causal_lineage", "echo", "L2"),
      Binding("echo_L4_target_binding", "echo", "L4"),
      Binding("verified_L4_target_binding", "verified", "L4")>>

BindingsV2 ==
    <<BindingsV1[1], BindingsV1[2], BindingsV1[3],
      Binding("erased_L2_causal_lineage", "erased", "L2"),
      BindingsV1[4], BindingsV1[5]>>

-----------------------------------------------------------------------------
(* Records *)

Base == {"evidence_id", "metric_name", "threshold", "status", "positive"}
Writer == Base \cup {"updated_by"}
CausalLineage == Writer \cup {"source_operation_id", "derived_from_write_id"}
EvaluatorLineage ==
    CausalLineage \cup {"evaluator_id", "evaluator_code_digest",
                        "input_snapshot_digest", "checkpoint_digest"}
TargetBinding ==
    EvaluatorLineage \cup {"measures_target_id", "verification_result",
                           "authorization_receipt_digest", "authorized"}

Identifiers == {"evidence_id", "updated_by", "source_operation_id",
                "derived_from_write_id", "evaluator_id", "measures_target_id"}

\* validate_record
Valid(record) ==
    /\ \A f \in Identifiers : \A i \in DOMAIN record[f] :
         record[f][i] \notin Unsafe
    /\ record.status = (IF record.positive THEN <<"pass">> ELSE <<"below_target">>)

\* (mutant) the causal level shows who evaluated
ShownWithEvaluator(level) ==
    IF level = "L0" THEN Base
    ELSE IF level = "L1" THEN Writer
    ELSE IF level \in {"L2", "L3"} THEN EvaluatorLineage
    ELSE TargetBinding

\* The fields of each level.
Shown(level) ==
    IF level = "L0" THEN Base
    ELSE IF level = "L1" THEN Writer
    ELSE IF level = "L2" THEN CausalLineage
    ELSE IF level = "L3" THEN EvaluatorLineage
    ELSE TargetBinding

\* authorized repeats the verification result; the rest are the record's.
Field(record, level, f) ==
    IF f = "authorized" THEN record["verification_result"] ELSE record[f]

\* The fields that are text of the task's or the provider's.
Texts == Identifiers \cup {"metric_name", "threshold"}

\* A treatment label would be shown: render_observation raises.
Leaks(record, level) ==
    \E f \in Shown(level) \cap Texts : \E i \in DOMAIN record[f] :
        record[f][i] \in Marked

\* render_observation, of a valid record that leaks no label.
Rendered(record, level) == [f \in Shown(level) |-> Field(record, level, f)]
=============================================================================
