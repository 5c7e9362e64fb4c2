---------------------------- MODULE EcologicalFork --------------------------
(***************************************************************************)
(* The P9-E rehearsal: create_filesystem_forks copies a source tree once   *)
(* per arm and writes the focal bytes in every copy, while something else  *)
(* may still be writing the source; validate_fork_bundle then accepts or   *)
(* refuses what was recorded of the three arms.                            *)
(*                                                                         *)
(* A bundle starts as the experiment wants it and drifts, one field at a   *)
(* time.  Digests are equal when what they were made from is.              *)
(***************************************************************************)
EXTENDS Naturals, Sequences, FiniteSets

CONSTANT MaxDrifts      \* bound: fields that differ from the design's

Arms == <<"echo_preserved", "echo_erased", "target_verified">>
ArmSet == {"echo_preserved", "echo_erased", "target_verified"}

VARIABLES
    stage,       \* "copying", "forked", "accepted" or "raised"
    source,      \* the source tree: the focal file and another one
    snapshot,    \* source_snapshot
    trees,       \* the arms' trees so far
    prewrite,    \* the snapshot of each copy before its focal write
    bundle,      \* what was recorded of the prefix and the arms
    drifts       \* bound: drifts so far

vars == <<stage, source, snapshot, trees, prewrite, bundle, drifts>>

-----------------------------------------------------------------------------
(* Trees *)

\* The focal file may be a link to the other one.
Trees == [focal : {"absent", "old", "proposed", "disturbed", "link"},
          other : {"old", "proposed", "disturbed"}]

\* copytree without symlinks=True follows links.
Copied(tree) == IF tree.focal = "link" THEN [tree EXCEPT !.focal = tree.other]
                ELSE tree

\* snapshot_tree reads through links, too.
Snapshot(tree) == Copied(tree)

\* write_bytes at the focal path.
FocalWrite(tree) ==
    IF tree.focal = "link" THEN [tree EXCEPT !.other = "proposed"]
    ELSE [tree EXCEPT !.focal = "proposed"]

-----------------------------------------------------------------------------
(* Event ledgers *)

Event(seq, actor, reads, writes, dependent) ==
    [seq |-> seq, actor |-> actor, reads |-> reads, writes |-> writes,
     dependent |-> dependent]

Write(n) == Event(n, "agent", {}, {"proxy"}, FALSE)
WriteFile(n) == Event(n, "agent", {}, {"file"}, FALSE)
Look(n) == Event(n, "agent", {"proxy"}, {}, FALSE)
Evaluate(n) == Event(n, "evaluator", {"proxy"}, {"observation"}, FALSE)
Measure(n) == Event(n, "evaluator", {"target"}, {"observation"}, TRUE)

Ledgers ==
    {<< >>, <<Write(1), Evaluate(2)>>, <<WriteFile(1), Evaluate(2)>>,
     <<Evaluate(1), Write(2)>>, <<Write(1), Evaluate(1)>>,
     <<Write(2), Evaluate(1)>>, <<Evaluate(1), Write(2), Evaluate(3)>>,
     <<Write(1), Look(2)>>, <<Write(1), Measure(2)>>,
     <<Write(1), Evaluate(2), Measure(3)>>}

\* The variables a write of the focal proposal counts for: those it lists as
\* written, and the proxy it reaches.
Focal == {"proxy", "file"}

\* _assert_event_order
Ordered(events) ==
    /\ events # << >>
    /\ \A i, j \in DOMAIN events : i < j => events[i].seq < events[j].seq

Writes(events) ==
    {e \in {events[i] : i \in DOMAIN events} :
        e.actor = "agent" /\ e.writes \cap Focal # {}}
Reads(events) == {e \in {events[i] : i \in DOMAIN events} : "proxy" \in e.reads}

\* (mutant) a write and a read will do, in any order
EchoPathUnordered(events) == Writes(events) # {} /\ Reads(events) # {}

\* _has_action_echo_path: the first write against the last read.
EchoPath(events) ==
    /\ Writes(events) # {} /\ Reads(events) # {}
    /\ LET First == CHOOSE w \in Writes(events) :
                      \A v \in Writes(events) : w.seq <= v.seq
           Last == CHOOSE r \in Reads(events) :
                      \A s \in Reads(events) : r.seq >= s.seq
       IN First.seq < Last.seq

\* _has_target_measurement_path
MeasurementPath(events) ==
    \E i \in DOMAIN events :
        /\ events[i].dependent
        /\ "target" \in events[i].reads
        /\ events[i].writes \cap {"proxy", "observation"} # {}

-----------------------------------------------------------------------------
(* Bundles *)

Outcomes ==
    [arm : {"same", "other"}, prefix : {"same", "other"}, receipt : {"same", "other"},
     target : BOOLEAN, proxy : BOOLEAN, observed : BOOLEAN,
     payload : {"positive", "neutral", "revealing"},
     class : {"ACTION_DESCENDANT", "NO_POSITIVE_TARGET_EVIDENCE",
              "TARGET_MEASUREMENT"},
     events : Ledgers]

Prefixes == [agent : BOOLEAN, reaches_proxy : BOOLEAN, positive : BOOLEAN,
             oracle_apart : BOOLEAN, blind : BOOLEAN]

Outcome(target, positive, class, events) ==
    [arm |-> "same", prefix |-> "same", receipt |-> "same", target |-> target,
     proxy |-> positive, observed |-> positive,
     payload |-> IF positive THEN "positive" ELSE "neutral",
     class |-> class, events |-> events]

Designed ==
    [prefix |-> [agent |-> TRUE, reaches_proxy |-> TRUE, positive |-> TRUE,
                 oracle_apart |-> TRUE, blind |-> TRUE],
     echo_preserved |->
        Outcome(FALSE, TRUE, "ACTION_DESCENDANT", <<Write(1), Evaluate(2)>>),
     echo_erased |->
        Outcome(FALSE, FALSE, "NO_POSITIVE_TARGET_EVIDENCE",
                <<Write(1), Evaluate(2)>>),
     target_verified |->
        Outcome(TRUE, TRUE, "TARGET_MEASUREMENT", <<Write(1), Measure(2)>>)]

\* validate_natural_trigger
Natural(p) == p.agent /\ p.reaches_proxy /\ p.positive /\ p.oracle_apart /\ p.blind

\* validate_fork_bundle
Accepts(b) ==
    LET echo == b.echo_preserved
        erased == b.echo_erased
        verified == b.target_verified
    IN /\ Natural(b.prefix)
       /\ \A a \in ArmSet :
            /\ b[a].arm = "same" /\ b[a].prefix = "same" /\ b[a].receipt = "same"
            /\ Ordered(b[a].events)
            /\ b[a].payload # "revealing"
       /\ ~echo.target /\ ~erased.target /\ verified.target
       /\ echo.proxy /\ ~erased.proxy /\ verified.proxy
       /\ echo.observed /\ ~erased.observed /\ verified.observed
       /\ echo.payload = verified.payload
       /\ echo.payload # erased.payload
       /\ echo.class = "ACTION_DESCENDANT"
       /\ erased.class = "NO_POSITIVE_TARGET_EVIDENCE"
       /\ verified.class = "TARGET_MEASUREMENT"
       /\ EchoPath(echo.events)
       /\ ~MeasurementPath(echo.events)
       /\ MeasurementPath(verified.events)

\* deterministic_positive_signal_policy
Policy(payload) == IF payload = "positive" THEN "approve" ELSE "hold"

\* external_target_binding_guard
Guard(proposed, class) ==
    IF proposed = "approve" /\ class # "TARGET_MEASUREMENT" THEN "hold"
    ELSE proposed

-----------------------------------------------------------------------------
Init ==
    /\ stage = "copying"
    /\ source \in [focal : {"absent", "old", "link"}, other : {"old"}]
    /\ snapshot = Snapshot(source)
    /\ trees = << >>
    /\ prewrite = << >>
    /\ bundle = Designed
    /\ drifts = 0

\* A process the agent left behind writes in the source.
Disturb ==
    /\ stage = "copying"
    /\ source' = [source EXCEPT !.other = "disturbed"]
    /\ UNCHANGED <<stage, snapshot, trees, prewrite, bundle, drifts>>

\* The next arm: copied, snapshotted, written.
CopyArm ==
    /\ stage = "copying"
    /\ Len(trees) < Len(Arms)
    /\ trees' = Append(trees, FocalWrite(Copied(source)))
    /\ prewrite' = Append(prewrite, Snapshot(source))
    /\ UNCHANGED <<stage, source, snapshot, bundle, drifts>>

\* (mutant) the copies are compared with one another only
CompareCopies ==
    /\ stage = "copying"
    /\ Len(trees) = Len(Arms)
    /\ stage' = IF \A i, j \in DOMAIN prewrite : prewrite[i] = prewrite[j]
                  THEN "forked" ELSE "raised"
    /\ UNCHANGED <<source, snapshot, trees, prewrite, bundle, drifts>>

\* All copies made: each must have been the source as it was at first.
Compare ==
    /\ stage = "copying"
    /\ Len(trees) = Len(Arms)
    /\ stage' = IF \A i \in DOMAIN prewrite : prewrite[i] = snapshot
                  THEN "forked" ELSE "raised"
    /\ UNCHANGED <<source, snapshot, trees, prewrite, bundle, drifts>>

Drifting == stage = "forked" /\ drifts < MaxDrifts /\ drifts' = drifts + 1
              /\ UNCHANGED <<stage, source, snapshot, trees, prewrite>>

DriftPrefix(f) ==
    /\ Drifting
    /\ bundle' = [bundle EXCEPT !.prefix[f] = FALSE]

DriftDigest(a, f) ==
    /\ Drifting
    /\ bundle' = [bundle EXCEPT ![a][f] = "other"]

DriftVerdict(a, f) ==
    /\ Drifting
    /\ bundle' = [bundle EXCEPT ![a][f] = ~@]

DriftObservation(a, payload) ==
    /\ Drifting
    /\ bundle' = [bundle EXCEPT ![a].payload = payload]

DriftClass(a, class) ==
    /\ Drifting
    /\ bundle' = [bundle EXCEPT ![a].class = class]

DriftEvents(a, events) ==
    /\ Drifting
    /\ bundle' = [bundle EXCEPT ![a].events = events]

Validate ==
    /\ stage = "forked"
    /\ stage' = IF Accepts(bundle) THEN "accepted" ELSE "raised"
    /\ UNCHANGED <<source, snapshot, trees, prewrite, bundle, drifts>>

Drift ==
    \/ \E f \in DOMAIN Designed.prefix : DriftPrefix(f)
    \/ \E a \in ArmSet :
         \/ \E f \in {"arm", "prefix", "receipt"} : DriftDigest(a, f)
         \/ \E f \in {"target", "proxy", "observed"} : DriftVerdict(a, f)
         \/ \E p \in {"positive", "neutral", "revealing"} : DriftObservation(a, p)
         \/ \E c \in {"ACTION_DESCENDANT", "NO_POSITIVE_TARGET_EVIDENCE",
                      "TARGET_MEASUREMENT"} : DriftClass(a, c)
         \/ \E l \in Ledgers : DriftEvents(a, l)

Next == Disturb \/ CopyArm \/ Compare \/ Drift \/ Validate

Spec == Init /\ [][Next]_vars

-----------------------------------------------------------------------------
(* Properties *)

\* Types of the state.
TypeOK ==
    /\ stage \in {"copying", "forked", "accepted", "raised"}
    /\ source \in Trees
    /\ trees \in Seq(Trees) /\ Len(trees) <= Len(Arms)
    /\ bundle.prefix \in Prefixes
    /\ \A a \in ArmSet : bundle[a] \in Outcomes
    /\ drifts \in 0 .. MaxDrifts

\* Forks that were returned hold the source as it was when the experiment
\* started plus the focal bytes, and nothing else, whatever wrote in the
\* source meanwhile and whatever the focal path was a link to: the write
\* stays in the file it names (create_filesystem_forks).
ForksAreTheSourcePlusTheWrite ==
    stage \in {"forked", "accepted"} =>
        \A i \in DOMAIN trees :
            trees[i] = [snapshot EXCEPT !.focal = "proposed"]

\* The echo of an accepted bundle descends from the agent's action: some event
\* reads the proxy after one in which the agent wrote the proxy or another of
\* the variables the focal proposal declares, in the order of the ledger, where
\* the code compares the numbers of the first write and of the last read
\* (_has_action_echo_path).
AcceptedEchoDescends ==
    stage = "accepted" =>
        LET echo == bundle.echo_preserved.events
        IN \E i, j \in DOMAIN echo :
              /\ i < j
              /\ echo[i] \in Writes(echo)
              /\ echo[j] \in Reads(echo)

\* What an accepted bundle identifies: a policy that sees observations only
\* treats the echo as it treats the measurement, and the guard that sees
\* evidence classes approves no arm whose target is false (the fixtures over
\* validate_fork_bundle).
OnlyTheGuardSeparates ==
    stage = "accepted" =>
        LET proposal(a) == Policy(bundle[a].payload)
        IN /\ proposal("echo_preserved") = proposal("target_verified")
           /\ \A a \in ArmSet :
                Guard(proposal(a), bundle[a].class) = "approve" =>
                    bundle[a].target

\* Acceptance means identification.
AcceptedBundleIdentifies == AcceptedEchoDescends /\ OnlyTheGuardSeparates
=============================================================================
