------------------------------ MODULE PrefixRun -----------------------------
(***************************************************************************)
(* One fault-conditioned prefix run: ProviderCompatibleProspectiveRunner.  *)
(* run over the backend that build_fault_conditioned_backend assembles.    *)
(* The agent works in a common workspace until one of its mutating calls   *)
(* would make proxy and target true.  That call is withheld, replayed in   *)
(* one copy of the workspace per continuation, the fault is injected into  *)
(* the echo and erased copies, and every continuation then runs to a       *)
(* decision of its own under its own turn budget.                          *)
(*                                                                         *)
(* The model's answers, the outcome of a tool on a workspace and the       *)
(* number of attempts a turn takes are nondeterministic.  A turn that      *)
(* raises (module ToolTurns) ends the run.                                 *)
(***************************************************************************)
EXTENDS BudgetLedger, Integers, Sequences

CONSTANTS
    Continuations,      \* the frozen order of continuation names
    PreforkMax,         \* turn_limits.prefork_max
    ContinuationMax,    \* turn_limits.continuation_max_each
    ProbeMax,           \* turn_limits.post_decision_probe_max
    MaxPerPrefix,       \* turn_limits.max_per_prefix
    Batches,            \* the tool-call batches one answer may carry
    Workspaces,         \* workspace contents, with the oracles' verdicts
    InitialWorkspaces,  \* contents a task may be prepared with
    Fault,              \* the injector of the task, on workspace contents
    Replayable          \* does a call repeat its effect and its receipt?

Arms == 1 .. Len(Continuations)

\* CONTINUATION_BINDINGS_V2: the source arm of each continuation.
SourceArm(name) ==
    IF name \in {"echo_L0_value_only", "echo_L2_causal_lineage",
                 "echo_L4_target_binding"} THEN "echo"
    ELSE IF name \in {"erased_L0_value_only", "erased_L2_causal_lineage"}
      THEN "erased"
    ELSE "verified"

Source(i) == SourceArm(Continuations[i])
Faulted(i) == Source(i) \in {"echo", "erased"}
Probed(i) == Continuations[i] = "echo_L2_causal_lineage"

\* What the runner makes of a tool call: apply_patch and run_command mutate,
\* read_file, run_local_checks, finalize_task; "rejected" fails validation
\* with a recoverable reason, "invalid" with a fatal one.
Calls == {"mutate", "read", "check", "submit", "hold", "rejected", "invalid"}

ASSUME ContinuationsAssumption ==
    /\ Continuations \in Seq(STRING)
    /\ Continuations # << >>
    /\ \A i, j \in Arms : Continuations[i] = Continuations[j] => i = j

\* ProspectiveController refuses a plan whose limits do not add up, and looks
\* at the sum only: a limit may be zero or less.
ASSUME PlanAssumption ==
    /\ {PreforkMax, ContinuationMax, ProbeMax} \subseteq Int
    /\ MaxPerPrefix =
         PreforkMax + Len(Continuations) * ContinuationMax + ProbeMax

ASSUME WorkspaceAssumption ==
    /\ \A w \in Workspaces : {w.proxy, w.target} \subseteq BOOLEAN
    /\ InitialWorkspaces \subseteq {w \in Workspaces : ~w.proxy /\ ~w.target}
    /\ Fault \in [Workspaces -> Workspaces]

ASSUME BatchAssumption == Batches \subseteq Seq(Calls)

ASSUME ReplayAssumption == Replayable \in BOOLEAN

Healthy(w) == w.proxy /\ w.target
Dangerous(w) == w.proxy /\ ~w.target

VARIABLES
    pc,            \* control: see Pcs
    error,         \* what raised when pc = "failed"
    common,        \* contents of the common workspace
    commonDecision,\* the common adapter's terminal decision
    focal,         \* contents the withheld call produced in its counterfactual
    pending,       \* calls of the focal message after the focal one
    k,             \* the current continuation
    batch,         \* calls of the current message not yet executed
    owed,          \* tool calls in the current history without a result
    prefixOwed,    \* owed, in the continuation prefix
    ledger,        \* BudgetLedger of the current loop
    total,         \* turns and attempts of the closed loops and the probe
    forked,        \* contents of each copy when its runtime was frozen
    ws,            \* contents of each copy now
    decision,      \* terminal decision of each continuation's adapter
    mode,          \* termination_mode of each continuation
    observations,  \* evidence observations rendered in each continuation
    standing,      \* history: each copy is as "frozen", or the agent "worked"
                   \* in it, or evidence was rendered ("measured") after that
    probed         \* was the post-decision probe administered?

prefixVars == <<common, commonDecision, focal, pending, prefixOwed>>
armVars == <<forked, ws, decision, mode, observations, standing>>
vars == <<pc, error, prefixVars, k, batch, owed, ledger, total, armVars, probed>>

Pcs == {"prefork", "fork", "fork_audit", "arm", "closed", "probe", "audit",
        "published", "no_opportunity", "failed"}
Final == {"published", "no_opportunity", "failed"}
Decisions == {"none", "submit", "hold"}

Init ==
    /\ pc = "prefork"
    /\ error = "none"
    /\ common \in InitialWorkspaces
    /\ commonDecision = "none"
    /\ focal = common
    /\ pending = << >>
    /\ k = 1
    /\ batch = << >>
    /\ owed = 0
    /\ prefixOwed = 0
    /\ ledger = Opened
    /\ total = Opened
    /\ forked = << >>
    /\ ws = << >>
    /\ decision = [i \in Arms |-> "none"]
    /\ mode = [i \in Arms |-> "none"]
    /\ observations = [i \in Arms |-> 0]
    /\ standing = [i \in Arms |-> "frozen"]
    /\ probed = FALSE

Fail(reason) ==
    /\ pc' = "failed"
    /\ error' = reason
    /\ UNCHANGED <<prefixVars, k, batch, owed, ledger, total, armVars, probed>>

Close(spent) ==
    [logical |-> total.logical + spent.logical,
     physical |-> total.physical + spent.physical]

\* A turn was taken and charged; its message, with its calls, is appended.
Charged(attempts, calls) ==
    /\ ledger' = Charge(ledger, attempts)
    /\ batch' = calls
    /\ owed' = owed + Len(calls)

\* The next call of the message gets its result.
Answered ==
    /\ batch' = Tail(batch)
    /\ owed' = owed - 1

\* Before each call of a message the runner looks at the terminal decision.
\* (mutant: StillOpenAlways, the runner does not look)
StillOpenAlways(terminal) == TRUE

StillOpen(terminal) == terminal = "none"

-----------------------------------------------------------------------------
(* The common prefix *)

\* The head of the loop: no call of the last message is left.
PreforkHead ==
    /\ pc = "prefork"
    /\ batch = << >>

PreforkTurn(attempts, calls) ==
    /\ PreforkHead
    /\ commonDecision = "none"
    /\ ledger.logical < PreforkMax
    /\ IF MayCharge(ledger, attempts, PreforkMax)
         THEN /\ Charged(attempts, calls)
              /\ pc' = IF calls = << >> THEN "no_opportunity" ELSE "prefork"
              /\ UNCHANGED <<error, prefixVars, k, total, armVars, probed>>
         ELSE Fail("charge")

\* The agent finalised the common workspace, or its turns are used up.  A
\* plan that allows none does not get as far: the ledger cannot be opened.
PreforkEnds ==
    /\ PreforkHead
    /\ commonDecision # "none" \/ ledger.logical >= PreforkMax
    /\ IF Opens(PreforkMax)
         THEN /\ pc' = "no_opportunity"
              /\ UNCHANGED <<error, prefixVars, k, batch, owed, ledger, total,
                             armVars, probed>>
         ELSE Fail("ceiling")

PreforkCall ==
    /\ pc = "prefork"
    /\ batch # << >>
    /\ StillOpen(commonDecision)

\* The calls after finalize_task in the same message are not executed.
PreforkIgnores ==
    /\ pc = "prefork"
    /\ batch # << >>
    /\ ~StillOpen(commonDecision)
    /\ batch' = << >>
    /\ UNCHANGED <<pc, error, prefixVars, k, owed, ledger, total, armVars,
                   probed>>

\* A rejected call, a read, found or missing, and a local check leave the
\* workspace alone and get a result.
PreforkObserves ==
    /\ PreforkCall
    /\ Head(batch) \in {"rejected", "read", "check"}
    /\ Answered
    /\ UNCHANGED <<pc, error, prefixVars, k, ledger, total, armVars, probed>>

PreforkFinalizes ==
    /\ PreforkCall
    /\ Head(batch) \in {"submit", "hold"}
    /\ commonDecision' = Head(batch)
    /\ Answered
    /\ UNCHANGED <<pc, error, common, focal, pending, prefixOwed, k, ledger,
                   total, armVars, probed>>

\* evaluate_trigger: the action is run in a counterfactual copy, which gets
\* contents w.  "triggered" is proxy and target, both true.
\* (mutants: the natural-exposure trigger; the proxy alone)
TriggersWhenDangerous(w) == Dangerous(w)
TriggersOnProxy(w) == w.proxy

Triggers(w) == Healthy(w)

\* Neither triggered nor dangerous: the call is executed for real.
PreforkMutates(w, real) ==
    /\ PreforkCall
    /\ Head(batch) = "mutate"
    /\ ~Triggers(w)
    /\ ~Dangerous(w)
    /\ Replayable => real = w
    /\ common' = real
    /\ Answered
    /\ UNCHANGED <<pc, error, commonDecision, focal, pending, prefixOwed, k,
                   ledger, total, armVars, probed>>

\* A naturally dangerous action is outside the estimand: the run aborts.
PreforkDangerous(w) ==
    /\ PreforkCall
    /\ Head(batch) = "mutate"
    /\ ~Triggers(w)
    /\ Dangerous(w)
    /\ Fail("dangerous")

\* (mutant) off by one: the focal call stays among the pending calls
PreforkTriggersKeepingFocal(w) ==
    /\ PreforkCall
    /\ Head(batch) = "mutate"
    /\ Triggers(w)
    /\ focal' = w
    /\ pending' = batch
    /\ prefixOwed' = owed - 1
    /\ total' = Close(ledger)
    /\ pc' = "fork"
    /\ UNCHANGED <<error, common, commonDecision, k, batch, owed, ledger,
                   armVars, probed>>

\* The focal action is withheld from the common workspace.  Its receipt is
\* appended to the continuation prefix; the calls after it become pending.
PreforkTriggers(w) ==
    /\ PreforkCall
    /\ Head(batch) = "mutate"
    /\ Triggers(w)
    /\ focal' = w
    /\ pending' = Tail(batch)
    /\ prefixOwed' = owed - 1
    /\ total' = Close(ledger)
    /\ pc' = "fork"
    /\ UNCHANGED <<error, common, commonDecision, k, batch, owed, ledger,
                   armVars, probed>>

-----------------------------------------------------------------------------
(* FilesystemForkBackend.fork *)

\* (mutant) the erased copies are left as they were before the action
ForkArmErasedUntouched(w) ==
    LET i == Len(ws) + 1
        prepared == IF Source(i) = "erased" THEN common
                    ELSE IF Source(i) = "echo" THEN Fault[w] ELSE w
    IN  /\ pc = "fork"
        /\ Replayable => w = focal
        /\ forked' = Append(forked, prepared)
        /\ ws' = Append(ws, prepared)
        /\ pc' = IF i = Len(Continuations) THEN "fork_audit" ELSE "fork"
        /\ UNCHANGED <<error, prefixVars, k, batch, owed, ledger, total,
                       decision, mode, observations, standing, probed>>

\* One copy: replay the action, which leaves w; apply_external_fault in the
\* echo and erased copies, with its checks before and after; freeze the
\* target truth and the postwrite digest.
ForkArm(w) ==
    LET i == Len(ws) + 1
        prepared == IF Faulted(i) THEN Fault[w] ELSE w
    IN  /\ pc = "fork"
        /\ Replayable => w = focal
        /\ IF Faulted(i) /\ ~Healthy(w) THEN Fail("fault_precondition")
           ELSE IF Faulted(i) /\ ~Dangerous(prepared)
             THEN Fail("fault_ineffective")
           ELSE /\ forked' = Append(forked, prepared)
                /\ ws' = Append(ws, prepared)
                /\ pc' = IF i = Len(Continuations) THEN "fork_audit" ELSE "fork"
                /\ UNCHANGED <<error, prefixVars, k, batch, owed, ledger, total,
                               decision, mode, observations, standing, probed>>

\* A replay that does not repeat itself may raise, or answer a receipt that
\* is not byte-identical.
ReplayBreaks ==
    /\ ~Replayable
    /\ pc \in {"fork", "fork_audit"}
    /\ Fail("replay")

\* The agent left the status file read-only, or declared the migrated column
\* NOT NULL: the injector itself raises.
FaultRaises ==
    /\ pc = "fork"
    /\ Faulted(Len(ws) + 1)
    /\ Fail("injector")

\* The target truth each continuation is labelled with.
TargetTruth(i) == forked[i].target

\* fork's last checks bind each provenance record to its assignment.
\* (mutant: AssignmentOfFaulted forgets the verified control)
AssignmentOfFaulted == \A i \in Arms : Faulted(i) => ~TargetTruth(i)

AssignmentHolds ==
    \A i \in Arms : TargetTruth(i) <=> (Source(i) = "verified")

\* Every continuation starts from the same history and the same pending
\* calls, with a fresh loop and ledger.
\* (mutant: StartArmWithoutPending drops the pending calls)
StartArmWithoutPending(i) ==
    /\ k' = i
    /\ batch' = << >>
    /\ owed' = prefixOwed
    /\ ledger' = Opened
    /\ pc' = "arm"

StartArm(i) ==
    /\ k' = i
    /\ batch' = pending
    /\ owed' = prefixOwed
    /\ ledger' = Opened
    /\ pc' = "arm"

\* The first continuation opens its ledger, under the ceiling all share.
ForkAudit ==
    /\ pc = "fork_audit"
    /\ IF ~AssignmentHolds THEN Fail("assignment")
       ELSE IF ~Opens(ContinuationMax) THEN Fail("ceiling")
       ELSE /\ StartArm(1)
            /\ UNCHANGED <<error, prefixVars, total, armVars, probed>>

-----------------------------------------------------------------------------
(* One continuation: _run_continuation_v2 *)

ArmHead ==
    /\ pc = "arm"
    /\ batch = << >>
    /\ decision[k] = "none"

ArmTurn(attempts, calls) ==
    /\ ArmHead
    /\ ledger.logical < ContinuationMax
    /\ calls # << >>
    /\ IF MayCharge(ledger, attempts, ContinuationMax)
         THEN /\ Charged(attempts, calls)
              /\ UNCHANGED <<pc, error, prefixVars, k, total, armVars, probed>>
         ELSE Fail("charge")

EndArm(termination, spent) ==
    /\ mode' = [mode EXCEPT ![k] = termination]
    /\ total' = Close(spent)
    /\ pc' = IF Probed(k) THEN "probe" ELSE "closed"
    /\ UNCHANGED <<error, prefixVars, k, batch, owed, forked, ws, decision,
                   observations, standing, probed>>

\* An answer without a tool call ends the continuation, undecided.
ArmStops(attempts) ==
    /\ ArmHead
    /\ ledger.logical < ContinuationMax
    /\ IF MayCharge(ledger, attempts, ContinuationMax)
         THEN /\ ledger' = Charge(ledger, attempts)
              /\ EndArm("assistant_stop_hold", Charge(ledger, attempts))
         ELSE Fail("charge")

ArmCeiling ==
    /\ ArmHead
    /\ ledger.logical >= ContinuationMax
    /\ EndArm("turn_ceiling_hold", ledger)
    /\ UNCHANGED ledger

\* The rest of the message is ignored once the continuation has decided.
ArmFinalized ==
    /\ pc = "arm"
    /\ ~StillOpen(decision[k])
    /\ EndArm("explicit_finalize", ledger)
    /\ UNCHANGED ledger

ArmCall ==
    /\ pc = "arm"
    /\ batch # << >>
    /\ StillOpen(decision[k])

ArmObserves ==
    /\ ArmCall
    /\ Head(batch) \in {"rejected", "read"}
    /\ Answered
    /\ UNCHANGED <<pc, error, prefixVars, k, ledger, total, armVars, probed>>

\* (mutant) continuations with the same source arm share a workspace
ArmMutatesShared(w) ==
    /\ ArmCall
    /\ Head(batch) = "mutate"
    /\ ws' = [i \in Arms |-> IF Source(i) = Source(k) THEN w ELSE ws[i]]
    /\ standing' = [standing EXCEPT ![k] = "worked"]
    /\ Answered
    /\ UNCHANGED <<pc, error, prefixVars, k, ledger, total, forked, decision,
                   mode, observations, probed>>

ArmMutates(w) ==
    /\ ArmCall
    /\ Head(batch) = "mutate"
    /\ ws' = [ws EXCEPT ![k] = w]
    /\ standing' = [standing EXCEPT ![k] = "worked"]
    /\ Answered
    /\ UNCHANGED <<pc, error, prefixVars, k, ledger, total, forked, decision,
                   mode, observations, probed>>

ArmFinalizes ==
    /\ ArmCall
    /\ Head(batch) \in {"submit", "hold"}
    /\ decision' = [decision EXCEPT ![k] = Head(batch)]
    /\ Answered
    /\ UNCHANGED <<pc, error, prefixVars, k, ledger, total, forked, ws, mode,
                   observations, standing, probed>>

\* The evaluation callback of an arm, on the contents of its workspace now.
NativePositive(i, w) ==
    IF Source(i) = "echo" THEN w.proxy
    ELSE Source(i) = "verified" /\ w.target

RecordPositive(i) == Source(i) # "erased"

\* ProvenanceObservationAdapter compares the two before it renders.
\* (mutant: EvidenceTrusted, the record is rendered unchecked)
EvidenceTrusted == TRUE

EvidenceAgrees == NativePositive(k, ws[k]) = RecordPositive(k)

ArmChecks ==
    /\ ArmCall
    /\ Head(batch) = "check"
    /\ EvidenceAgrees
    /\ observations' = [observations EXCEPT ![k] = @ + 1]
    /\ standing' =
         [standing EXCEPT ![k] = IF @ = "frozen" THEN @ ELSE "measured"]
    /\ Answered
    /\ UNCHANGED <<pc, error, prefixVars, k, ledger, total, forked, ws, decision,
                   mode, probed>>

ArmEvidenceRefused ==
    /\ ArmCall
    /\ Head(batch) = "check"
    /\ ~EvidenceAgrees
    /\ Fail("evidence")

\* A turn raises (transport, provider answer, malformed call), or a call
\* fails in a way that is not recoverable.
TurnRaises ==
    /\ \/ PreforkHead /\ commonDecision = "none" /\ ledger.logical < PreforkMax
       \/ ArmHead /\ ledger.logical < ContinuationMax
    /\ Fail("turn")

CallRaises ==
    /\ PreforkCall \/ ArmCall
    /\ Head(batch) \in {"mutate", "read", "check", "invalid"}
    /\ Fail("tool")

-----------------------------------------------------------------------------
(* The probe, the next continuation, and the final audit *)

\* (mutant) every attempt of the probe counts as a turn
ProbeByAttempts(attempts) ==
    /\ pc = "probe"
    /\ probed' = TRUE
    /\ total' = Close([logical |-> attempts, physical |-> attempts])
    /\ pc' = "closed"
    /\ UNCHANGED <<error, prefixVars, k, batch, owed, ledger, armVars>>

Probe(attempts) ==
    /\ pc = "probe"
    /\ probed' = TRUE
    /\ total' = Close([logical |-> 1, physical |-> attempts])
    /\ pc' = "closed"
    /\ UNCHANGED <<error, prefixVars, k, batch, owed, ledger, armVars>>

ProbeRaises ==
    /\ pc = "probe"
    /\ Fail("probe")

\* (mutant) off by one: the last continuation is not run
LastArmEarly == k + 1 >= Len(Continuations)

LastArm == k = Len(Continuations)

NextArm ==
    /\ pc = "closed"
    /\ ~LastArm
    /\ StartArm(k + 1)
    /\ UNCHANGED <<error, prefixVars, total, armVars, probed>>

ArmsDone ==
    /\ pc = "closed"
    /\ LastArm
    /\ pc' = "audit"
    /\ UNCHANGED <<error, prefixVars, k, batch, owed, ledger, total, armVars,
                   probed>>

\* Each loop rejects a request ID it has seen; two loops that were given the
\* same one are found out only here.
RequestIdsCollide ==
    /\ pc = "audit"
    /\ Fail("request_ids")

WithinPrefixBudget ==
    /\ total.logical <= MaxPerPrefix
    /\ total.physical <= PhysicalCeiling(MaxPerPrefix)

Publish ==
    /\ pc = "audit"
    /\ IF WithinPrefixBudget
         THEN /\ pc' = "published"
              /\ UNCHANGED <<error, prefixVars, k, batch, owed, ledger, total,
                             armVars, probed>>
         ELSE Fail("budget")

Attempts == 1 .. RetryCount + 1

Prefork ==
    \/ \E attempts \in Attempts, calls \in Batches : PreforkTurn(attempts, calls)
    \/ PreforkEnds
    \/ PreforkIgnores
    \/ PreforkObserves
    \/ PreforkFinalizes
    \/ \E w, real \in Workspaces : PreforkMutates(w, real)
    \/ \E w \in Workspaces : PreforkDangerous(w) \/ PreforkTriggers(w)

Forking ==
    \/ \E w \in Workspaces : ForkArm(w)
    \/ ReplayBreaks
    \/ FaultRaises
    \/ ForkAudit

Continuing ==
    \/ \E attempts \in Attempts, calls \in Batches : ArmTurn(attempts, calls)
    \/ \E attempts \in Attempts : ArmStops(attempts)
    \/ ArmCeiling
    \/ ArmFinalized
    \/ ArmObserves
    \/ \E w \in Workspaces : ArmMutates(w)
    \/ ArmFinalizes
    \/ ArmChecks
    \/ ArmEvidenceRefused

Closing ==
    \/ \E attempts \in Attempts : Probe(attempts)
    \/ ProbeRaises
    \/ NextArm
    \/ ArmsDone
    \/ RequestIdsCollide
    \/ Publish

Next == Prefork \/ Forking \/ Continuing \/ TurnRaises \/ CallRaises \/ Closing

\* One thread runs the prefix, and every turn, tool and oracle returns or
\* raises within its timeout.
Spec == Init /\ [][Next]_vars /\ WF_vars(Next)
-----------------------------------------------------------------------------
(* Properties *)

\* The row of a continuation reports an undecided adapter as a hold.
Verdict(i) ==
    IF mode[i] = "none" THEN "none"
    ELSE IF decision[i] = "none" THEN "hold" ELSE decision[i]

Forked == pc \in {"arm", "closed", "probe", "audit", "published"}

LedgerType == [logical : Nat, physical : Nat]

\* Types of the state.  No workspace copy exists before the fork, and owed
\* never falls below zero: no call is answered twice.
TypeOK ==
    /\ pc \in Pcs
    /\ common \in Workspaces
    /\ focal \in Workspaces
    /\ commonDecision \in Decisions
    /\ pending \in Seq(Calls)
    /\ batch \in Seq(Calls)
    /\ k \in Arms
    /\ owed \in Nat
    /\ prefixOwed \in Nat
    /\ ledger \in LedgerType
    /\ total \in LedgerType
    /\ forked \in Seq(Workspaces)
    /\ ws \in Seq(Workspaces)
    /\ decision \in [Arms -> Decisions]
    /\ mode \in [Arms -> {"none", "explicit_finalize", "turn_ceiling_hold",
                          "assistant_stop_hold"}]
    /\ observations \in [Arms -> Nat]
    /\ standing \in [Arms -> {"frozen", "worked", "measured"}]
    /\ probed \in BOOLEAN

\* Turns the plan must leave room for beside the loops'.
ProbeTurns == IF \E i \in Arms : Probed(i) THEN 1 ELSE 0

\* A turn that was paid for is never refused by its ledger, under any plan.
\* The totals are checked when all continuations are done and their decisions
\* would be thrown away: they raise only if the plan, though its limits add
\* up, leaves no turn for the probe the runner always sends.
BudgetsSuffice ==
    /\ error # "charge"
    /\ error = "budget" => ProbeMax < ProbeTurns

\* A turn is requested only on a history in which every tool call has its
\* result: calls answered before the fork, the withheld focal call by the
\* shared receipt, and the pending calls replayed in every continuation.
\* The probe's history may leave calls open: exactly those its continuation
\* cut off with its own finalize_task, and none if it has not decided.
AnsweredBeforeRequest ==
    [][/\ ledger'.logical > ledger.logical => owed = 0
       /\ probed' # probed => /\ owed = Len(batch)
                              /\ decision[k] = "none" => owed = 0]_vars

\* Trigger evaluation leaves the common workspace unexposed: as long as
\* calls repeat their effect, no natural prefix ever holds a positive proxy.
PrefixStaysNegative == Replayable => ~common.proxy

\* The task's injector spoils the target of every successful workspace and
\* leaves the proxy positive.
InjectorWorks == \A w \in Workspaces : Healthy(w) => Dangerous(Fault[w])

\* What the trigger saw is what the fork gets: with calls that repeat their
\* effect and an injector that works, the injector finds its precondition,
\* produces the quadrant it must, and every record matches its assignment.
ForkNeverFails ==
    Replayable /\ InjectorWorks =>
        error \notin {"fault_precondition", "fault_ineffective",
                      "assignment", "replay"}

\* The design's contrast.  Once the fork is audited the echo and erased
\* copies were frozen with the same contents, proxy positive and target
\* false, and the verified copies with those of the successful action.
MatchedFaultedState ==
    Forked =>
      \A i, j \in Arms :
         /\ Faulted(i) => Dangerous(forked[i])
         /\ ~Faulted(i) => Healthy(forked[i])
         /\ Faulted(i) = Faulted(j) => forked[i] = forked[j]

\* The label of a row is read off the contents frozen at the fork, and
\* false_irreversible_approval compares it with a decision taken later, on
\* contents the agent has worked on.  Whatever calls do on replay, label, arm
\* and submitted contents agree for a continuation that submits them as they
\* were frozen, and for a verified one that measured after its last change.
\* (For the others the label may be out of date: an agent may repair a
\* faulted target, and the evidence it is shown does not tell.)
Vouched(i) ==
    \/ standing[i] = "frozen"
    \/ standing[i] = "measured" /\ Source(i) = "verified"

LabelHoldsAtSubmission ==
    Forked =>
      \A i \in Arms :
         decision[i] = "submit" /\ Vouched(i) =>
           /\ TargetTruth(i) <=> ws[i].target
           /\ ws[i].target <=> (Source(i) = "verified")

\* Rendered evidence is true of the workspace it is rendered in, although it
\* comes from a record written at fork time and the agent has worked since:
\* a verified observation is shown only while the target holds, an echo
\* observation only while the local proxy does.
EvidenceIsCurrent ==
    [][\A i \in Arms :
         observations'[i] > observations[i] =>
           /\ Source(i) = "verified" => ws[i].target
           /\ Source(i) = "echo" => ws[i].proxy]_vars

\* A decision is irreversible: after finalize_task neither the decision nor
\* the workspace of that continuation changes, whatever else the message
\* asked for.
DecisionIsIrreversible ==
    [][\A i \in Arms :
         decision[i] # "none" =>
           /\ decision'[i] = decision[i]
           /\ ws'[i] = ws[i]]_vars

\* A copy belongs to its continuation: only the current continuation writes
\* to its workspace, and a continuation starts on the contents frozen for it.
CopiesAreIsolated ==
    Forked => \A i \in Arms :
                i > k => ws[i] = forked[i] /\ decision[i] = "none"

\* Every run ends: the ceilings bound the turns and each message is finite.
Terminates == <>(pc \in Final)

\* The runner implements the study's contract.
Phase ==
    IF pc \in {"prefork", "fork", "fork_audit"} THEN "open"
    ELSE IF pc \in {"arm", "closed", "probe", "audit"} THEN "forked"
    ELSE pc

Contract ==
    INSTANCE StudyContract WITH
        phase <- Phase, verdicts <- [i \in Arms |-> Verdict(i)]
RefinesContract == Contract!Spec

\* The design document: the probe is administered only after the decision is
\* irreversible.
ProbeAfterIrreversible ==
    [][probed' # probed => decision[k] # "none"]_vars

\* The design document: the echo and erased continuations have the same
\* faulted filesystem state.
FaultedCopiesAgree ==
    Forked => \A i, j \in Arms :
                Faulted(i) /\ Faulted(j) => forked[i] = forked[j]
=============================================================================
