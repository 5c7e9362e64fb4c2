---------------------------- MODULE StudyRecords ----------------------------
(***************************************************************************)
(* What the study records and how its records are folded.  One behaviour   *)
(* is one subject: the evidence of a forked prefix, a rehearsal, an        *)
(* analysis of the opportunity funnel, an audit of the operational gate, a *)
(* run of the first runner or loop, or a bundle of the P9-E forks.  The    *)
(* variables of the other subjects are "off".                              *)
(***************************************************************************)
EXTENDS Integers, Sequences, FiniteSets

CONSTANTS
    Models, Tasks, Results, MaxEnvelopes,                  \* funnel
    UnitPlans, LogicalCeiling, GatePhysicalCeiling, Rows, MaxUnits,  \* gate
    Unsafe, Marked, Requests, EvidenceContents, MaxSteps,  \* evidence
    DryPlans, Fixtures, RetryCount,                        \* rehearsal
    Continuations, SourceArms,                             \* first runner
    PreforkMax, ContinuationMax, MaxPerPrefix,
    MaxDrifts                                              \* forks

\* A plan names finitely many models and tasks.
ASSUME StrataAssumption == IsFiniteSet(Models) /\ IsFiniteSet(Tasks)

ASSUME RetryAssumption == RetryCount \in Nat

\* The census of the plan is not empty.
ASSUME CensusAssumption ==
    Continuations \in Seq(STRING) /\ Continuations # << >>

ASSUME BoundsAssumption == MaxDrifts \in Nat /\ MaxSteps \in Nat

\* The constructor of the controller converts the limits with int.
ASSUME DryPlansAssumption ==
    \A p \in DryPlans :
        /\ Len(p.bindings) \in Nat
        /\ p.prefork \in Int /\ p.each \in Int /\ p.probe \in Int
        /\ p.max \in Int

\* What the code itself puts in a record may stand in identifiers, and is no
\* treatment label.
ASSUME UnsafeAssumption ==
    (Unsafe \cup Marked) \cap
                {"evidence", "echo", "erased", "verified", "agent",
                 "trusted-service", "operation", "provider", "index", "write",
                 "focal", "workspace.check", "trusted.check",
                 "workspace.local-checks", "trusted.hidden-checks",
                 "target", "local_success_check", "all_visible_checks"} = {}

VARIABLES
    subject,
    stage, total, byModel, byTask, opportunities, refused,
    planned, units, verdict,
    k, steps, focal, forked, ws, record, seen, raised,
    plan, dryStage, fixture, refuses, ledger, rows,
    kind, pc, error, decision, spent, closed, reported, probed,
    forking, source, snapshot, trees, prewrite, bundle, drifts

funnelVars == <<stage, total, byModel, byTask, opportunities, refused>>
gateVars == <<planned, units, verdict>>
evidenceVars == <<k, steps, focal, forked, ws, record, seen, raised>>
dryVars == <<plan, dryStage, fixture, refuses, ledger, rows>>
runnerVars == <<kind, pc, error, decision, spent, closed, reported, probed>>
forkVars == <<forking, source, snapshot, trees, prewrite, bundle, drifts>>
vars == <<subject, funnelVars, gateVars, evidenceVars, dryVars, runnerVars,
          forkVars>>

funnelOff ==
    /\ stage = "off" /\ total = "off" /\ byModel = "off" /\ byTask = "off"
    /\ opportunities = "off" /\ refused = "off"
gateOff ==
    /\ planned = "off" /\ units = "off" /\ verdict = "off"
evidenceOff ==
    /\ k = "off" /\ steps = "off" /\ focal = "off" /\ forked = "off"
    /\ ws = "off" /\ record = "off" /\ seen = "off" /\ raised = "off"
dryOff ==
    /\ plan = "off" /\ dryStage = "off" /\ fixture = "off"
    /\ refuses = "off" /\ ledger = "off" /\ rows = "off"
runnerOff ==
    /\ kind = "off" /\ pc = "off" /\ error = "off" /\ decision = "off"
    /\ spent = "off" /\ closed = "off" /\ reported = "off" /\ probed = "off"
forkOff ==
    /\ forking = "off" /\ source = "off" /\ snapshot = "off" /\ trees = "off"
    /\ prewrite = "off" /\ bundle = "off" /\ drifts = "off"

-----------------------------------------------------------------------------
(* The subjects *)

Funnel == INSTANCE OpportunityFunnel
Gate == INSTANCE OperationalGate
    WITH Plans <- UnitPlans, PhysicalCeiling <- GatePhysicalCeiling
Evidence == INSTANCE EvidenceRun WITH Contents <- EvidenceContents
Dry == INSTANCE DryRun WITH Plans <- DryPlans, stage <- dryStage
Runner == INSTANCE ProspectiveRunner
    WITH Sources <- SourceArms, ledger <- spent, total <- closed,
         rows <- reported
Ecological == INSTANCE EcologicalFork WITH stage <- forking

\* load_operational_unit converts the counts with int.
ASSUME RowsAssumption ==
    \A row \in Rows : row.logical \in Int /\ row.physical \in Int

ASSUME ResultsAssumption ==
    \A result \in Results :
        /\ result.audits \in Seq(Funnel!Audits)
        /\ result.turns \in Nat
        /\ result.opportunity \in BOOLEAN

-----------------------------------------------------------------------------
Init ==
    \/ /\ subject = "funnel" /\ Funnel!Init
       /\ gateOff /\ evidenceOff /\ dryOff /\ runnerOff /\ forkOff
    \/ /\ subject = "gate" /\ Gate!Init
       /\ funnelOff /\ evidenceOff /\ dryOff /\ runnerOff /\ forkOff
    \/ /\ subject = "evidence" /\ Evidence!Init
       /\ funnelOff /\ gateOff /\ dryOff /\ runnerOff /\ forkOff
    \/ /\ subject = "dry" /\ Dry!Init
       /\ funnelOff /\ gateOff /\ evidenceOff /\ runnerOff /\ forkOff
    \/ /\ subject = "runner" /\ Runner!Init
       /\ funnelOff /\ gateOff /\ evidenceOff /\ dryOff /\ forkOff
    \/ /\ subject = "fork" /\ Ecological!Init
       /\ funnelOff /\ gateOff /\ evidenceOff /\ dryOff /\ runnerOff

Next ==
    \/ subject = "funnel" /\ Funnel!Next
         /\ UNCHANGED <<subject, gateVars, evidenceVars, dryVars, runnerVars, forkVars>>
    \/ subject = "gate" /\ Gate!Next
         /\ UNCHANGED <<subject, funnelVars, evidenceVars, dryVars, runnerVars, forkVars>>
    \/ subject = "evidence" /\ Evidence!Next
         /\ UNCHANGED <<subject, funnelVars, gateVars, dryVars, runnerVars, forkVars>>
    \/ subject = "dry" /\ Dry!Next
         /\ UNCHANGED <<subject, funnelVars, gateVars, evidenceVars, runnerVars, forkVars>>
    \/ subject = "runner" /\ Runner!Next
         /\ UNCHANGED <<subject, funnelVars, gateVars, evidenceVars, dryVars, forkVars>>
    \/ subject = "fork" /\ Ecological!Next
         /\ UNCHANGED <<subject, funnelVars, gateVars, evidenceVars, dryVars, runnerVars>>

Spec == Init /\ [][Next]_vars
-----------------------------------------------------------------------------
TypeOK ==
    /\ subject = "funnel" => Funnel!TypeOK
    /\ subject = "gate" => Gate!TypeOK
    /\ subject = "evidence" => Evidence!TypeOK
    /\ subject = "dry" => Dry!TypeOK
    /\ subject = "runner" => Runner!TypeOK
    /\ subject = "fork" => Ecological!TypeOK
ReportTellsTheTruth == subject = "funnel" => Funnel!ReportTellsTheTruth
NaturalResultsAccepted == subject = "funnel" => Funnel!NaturalResultsAccepted
GateVerdictHolds == subject = "gate" => Gate!GateVerdictHolds
ContrastIsClean == subject = "evidence" => Evidence!ContrastIsClean
OnlyRequestIdSpoilsEvidence ==
    subject = "evidence" => Evidence!OnlyRequestIdSpoilsEvidence
RehearsalFailsForCause == subject = "dry" => Dry!RehearsalFailsForCause
DecidedBeforeProbe == subject = "runner" => Runner!DecidedBeforeProbe
ForksAreTheSourcePlusTheWrite ==
    subject = "fork" => Ecological!ForksAreTheSourcePlusTheWrite
AcceptedBundleIdentifies ==
    subject = "fork" => Ecological!AcceptedBundleIdentifies
=============================================================================
