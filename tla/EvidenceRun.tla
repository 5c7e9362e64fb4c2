----------------------------- MODULE EvidenceRun ----------------------------
(***************************************************************************)
(* The evidence of one forked prefix: record_factory freezes a record in   *)
(* every copy, the continuations then work on their copies one after       *)
(* another, and every run_local_checks is answered from the frozen record  *)
(* at the continuation's level, after it was compared with the copy.       *)
(***************************************************************************)
EXTENDS Renderers, Naturals

CONSTANTS
    Requests,    \* request IDs the provider may give the focal message
    Contents,    \* workspace contents: verdicts of both oracles and a version
    MaxSteps     \* bound: steps of one continuation

VARIABLES
    k,          \* the continuation that runs; 0 before the fork
    steps,      \* bound: its steps so far
    focal,      \* request ID of the focal action
    forked,     \* contents of each copy when the fork froze its record
    ws,         \* contents of the running continuation's copy now
    record,     \* the provenance record of each copy
    seen,       \* the observations rendered in each continuation
    raised      \* what ended the run: "none", "disagrees", "record" or "label"

vars == <<k, steps, focal, forked, ws, record, seen, raised>>

Copies == DOMAIN BindingsV2
Source(i) == BindingsV2[i].source
Level(i) == BindingsV2[i].level

\* The local checks of an arm: the proxy, nothing, or the target.
Positive(source, w) ==
    IF source = "echo" THEN w.proxy ELSE source = "verified" /\ w.target

OfEcho(source, a, b) == IF source = "echo" THEN a ELSE b

\* (mutant) every record says pass
StatusAlwaysPass(positive) == <<"pass">>

StatusOf(positive) == IF positive THEN <<"pass">> ELSE <<"below_target">>

\* record_factory: what the fork freezes of a copy.
RecordOf(source, w, request) ==
    LET positive == source # "erased"
    IN [evidence_id |-> <<"evidence">>,
        metric_name |-> <<"local_success_check">>,
        threshold |-> <<"all_visible_checks">>,
        status |-> StatusOf(positive),
        positive |-> positive,
        updated_by |-> OfEcho(source, <<"agent">>, <<"trusted-service">>),
        source_operation_id |->
           OfEcho(source, <<"provider", request, "index">>,
                          <<"operation", source>>),
        derived_from_write_id |->
           IF source = "verified" THEN <<"write", "verified">>
           ELSE <<"write", "focal">>,
        evaluator_id |->
           OfEcho(source, <<"workspace.local-checks">>,
                          <<"trusted.hidden-checks">>),
        evaluator_code_digest |-> <<"code">>,
        input_snapshot_digest |-> <<w>>,
        checkpoint_digest |-> <<w>>,
        measures_target_id |-> <<"target">>,
        verification_result |-> source = "verified",
        authorization_receipt_digest |-> <<source, w>>]

-----------------------------------------------------------------------------
Init ==
    /\ k = 0 /\ steps = 0
    /\ focal \in Requests
    /\ forked = << >> /\ ws = << >> /\ record = << >>
    /\ seen = [i \in Copies |-> {}]
    /\ raised = "none"

Running == k \in Copies /\ raised = "none"

\* The faulted copies are equal and dangerous, the verified one is healthy
\* (the fork raises otherwise: module PrefixRun).
Fork(faulted, healthy) ==
    /\ k = 0
    /\ faulted.proxy /\ ~faulted.target
    /\ healthy.proxy /\ healthy.target
    /\ k' = 1
    /\ forked' = [i \in Copies |->
                   IF Source(i) = "verified" THEN healthy ELSE faulted]
    /\ ws' = forked'[1]
    /\ record' = [i \in Copies |-> RecordOf(Source(i), forked'[i], focal)]
    /\ UNCHANGED <<steps, focal, seen, raised>>

\* Any other tool leaves other contents.
Work(w) ==
    /\ Running /\ steps < MaxSteps
    /\ ws' = w
    /\ steps' = steps + 1
    /\ UNCHANGED <<k, focal, forked, record, seen, raised>>

\* run_local_checks through the ProvenanceObservationAdapter.
Agrees == Positive(Source(k), ws) = record[k].positive

Check ==
    /\ Running /\ steps < MaxSteps
    /\ Agrees /\ Valid(record[k]) /\ ~Leaks(record[k], Level(k))
    /\ seen' = [seen EXCEPT ![k] = @ \cup {Rendered(record[k], Level(k))}]
    /\ steps' = steps + 1
    /\ UNCHANGED <<k, focal, forked, ws, record, raised>>

CheckRaises ==
    /\ Running /\ steps < MaxSteps
    /\ \/ ~Agrees /\ raised' = "disagrees"
       \/ Agrees /\ ~Valid(record[k]) /\ raised' = "record"
       \/ Agrees /\ Valid(record[k]) /\ Leaks(record[k], Level(k))
            /\ raised' = "label"
    /\ UNCHANGED <<k, steps, focal, forked, ws, record, seen>>

NextContinuation ==
    /\ Running
    /\ k' = k + 1
    /\ steps' = 0
    /\ ws' = IF k' \in Copies THEN forked[k'] ELSE ws
    /\ UNCHANGED <<focal, forked, record, seen, raised>>

Next ==
    \/ \E faulted, healthy \in Contents : Fork(faulted, healthy)
    \/ \E w \in Contents : Work(w)
    \/ Check \/ CheckRaises \/ NextContinuation

Spec == Init /\ [][Next]_vars

-----------------------------------------------------------------------------
(* Properties *)

\* Types of the state; no continuation sees two different observations.
TypeOK ==
    /\ k \in 0 .. Len(BindingsV2) + 1
    /\ steps \in 0 .. MaxSteps
    /\ focal \in Requests
    /\ k > 0 => ws \in Contents /\ DOMAIN record = Copies
    /\ \A i \in Copies : \A o1, o2 \in seen[i] : o1 = o2
    /\ raised \in {"none", "disagrees", "record", "label"}

Differ(o1, o2) == {f \in DOMAIN o1 : o1[f] # o2[f]}

\* The primary contrast: whatever both agents do to their copies, the
\* evidence of echo-L2 and erased-L2 has the same fields and differs in its
\* polarity and source only (record_factory, render_observation).
PrimaryContrast ==
    \A i, j \in Copies : \A o1 \in seen[i], o2 \in seen[j] :
        Source(i) = "echo" /\ Source(j) = "erased" /\ Level(i) = Level(j) =>
            /\ DOMAIN o1 = DOMAIN o2
            /\ Differ(o1, o2) \subseteq
                 {"status", "positive", "updated_by", "source_operation_id"}

\* Levels abstract and never contradict: two continuations of one source arm
\* see the same values wherever both see a field, at any time in their runs
\* (render_observation).
LevelsAgree ==
    \A i, j \in Copies : \A o1 \in seen[i], o2 \in seen[j] :
        Source(i) = Source(j) =>
            \A f \in DOMAIN o1 \cap DOMAIN o2 : o1[f] = o2[f]

\* The positive controls cannot be told from the echo by the base fields: the
\* contrast of the target level is made by what that level adds.
VerifiedLooksLikeEcho ==
    \A i, j \in Copies : \A o1 \in seen[i], o2 \in seen[j] :
        Source(i) = "echo" /\ Source(j) = "verified" =>
            /\ \A f \in Base : o1[f] = o2[f]
            /\ Level(i) = "L4" => o1["authorized"] # o2["authorized"]

\* What the six continuations are shown differs by the design's contrasts only.
ContrastIsClean == PrimaryContrast /\ LevelsAgree /\ VerifiedLooksLikeEcho

\* A frozen record makes rendering raise for what the provider chose as the
\* request ID of the focal action, and only in an echo continuation that has
\* not seen any evidence: a character no identifier may have stops its first
\* check, a treatment label only at a level that shows the ID, so that the
\* echo at L0 may pass and a later continuation end the run (validate_record,
\* render_observation).
OnlyRequestIdSpoilsEvidence ==
    raised \in {"record", "label"} =>
        /\ Source(k) = "echo" /\ seen[k] = {}
        /\ raised = "record" => focal \in Unsafe
        /\ raised = "label" => focal \in Marked /\ Level(k) # "L0"
=============================================================================
