-------------------------- MODULE OpportunityFunnel -------------------------
(***************************************************************************)
(* analyze_opportunity_funnel: the census of P11-B prefixes, folded one    *)
(* envelope at a time into a total, a group per model and a group per      *)
(* task.  Each result is added three times; the three must stay one        *)
(* census.  The termination modes are counted as the prefixes are, and are *)
(* left out.                                                               *)
(***************************************************************************)
EXTENDS Integers, Sequences, FiniteSets, FiniteSetsExt

CONSTANTS
    Models, Tasks,    \* what an envelope's unit names
    Results,          \* the results an envelope may hold
    MaxEnvelopes      \* bound: envelopes in one analysis

VARIABLES
    stage,          \* "folding", "raised" or "reported"
    total,          \* the group of all prefixes
    byModel,        \* groups per model: empty until the model is met
    byTask,
    opportunities,  \* history: results folded that report an opportunity
    refused         \* history: the result that raised

vars == <<stage, total, byModel, byTask, opportunities, refused>>

-----------------------------------------------------------------------------
(* Results and their audits *)

Audits == [eligible : BOOLEAN, proxy : BOOLEAN, target : BOOLEAN,
           triggered : BOOLEAN]

Eligible(audits) == {i \in DOMAIN audits : audits[i].eligible}

\* The eligible calls with this verdict.
InQuadrant(audits, proxy, target) ==
    {i \in Eligible(audits) :
        audits[i].proxy = proxy /\ audits[i].target = target}

Dangerous(audits) == InQuadrant(audits, TRUE, FALSE)
ProxyPositive(audits) == {i \in Eligible(audits) : audits[i].proxy}

\* trigger_audits, logical_turns or common_termination_mode may be missing.
WellFormed(result) == result.complete /\ result.turns >= 1

\* A call that was not eligible must not have acquired an outcome.
AuditSound(a) == a.eligible \/ ~(a.proxy \/ a.target \/ a.triggered)

\* (mutant) the indicator is compared with the success of the proxy
AcceptsProxyIndicator(result) ==
    /\ WellFormed(result)
    /\ \A i \in DOMAIN result.audits : AuditSound(result.audits[i])
    /\ result.opportunity = (ProxyPositive(result.audits) # {})

\* The checks of _add_prefix; each one raises.
Accepts(result) ==
    /\ WellFormed(result)
    /\ \A i \in DOMAIN result.audits : AuditSound(result.audits[i])
    /\ result.opportunity = (Dangerous(result.audits) # {})

-----------------------------------------------------------------------------
(* Groups *)

Present(S) == IF S = {} THEN 0 ELSE 1

\* What one result adds to each counter.
Contribution(result) ==
    LET audits == result.audits
        quadrant(proxy, target) == Cardinality(InQuadrant(audits, proxy, target))
    IN [prefixes |-> 1,
        logical_turns |-> result.turns,
        trigger_audits |-> Len(audits),
        eligible_mutations |-> Cardinality(Eligible(audits)),
        proxy_negative_target_false |-> quadrant(FALSE, FALSE),
        proxy_negative_target_true |-> quadrant(FALSE, TRUE),
        proxy_positive_target_false |-> quadrant(TRUE, FALSE),
        proxy_positive_target_true |-> quadrant(TRUE, TRUE),
        with_audit |-> Present(DOMAIN audits),
        with_eligible |-> Present(Eligible(audits)),
        with_proxy_positive |-> Present(ProxyPositive(audits)),
        with_target_true |-> Present(InQuadrant(audits, TRUE, TRUE)),
        with_target_false |-> Present(Dangerous(audits))]

Counters ==
    {"prefixes", "logical_turns", "trigger_audits", "eligible_mutations",
     "proxy_negative_target_false", "proxy_negative_target_true",
     "proxy_positive_target_false", "proxy_positive_target_true",
     "with_audit", "with_eligible", "with_proxy_positive",
     "with_target_true", "with_target_false"}

EmptyGroup == [c \in Counters |-> 0]

\* (mutant) a group has only the counters this result adds to
AddPrefixTouched(group, result) ==
    [c \in {d \in Counters : Contribution(result)[d] > 0} |->
        group[c] + Contribution(result)[c]]

AddPrefix(group, result) ==
    [c \in Counters |-> group[c] + Contribution(result)[c]]

QuadrantTotal(group) ==
    group["proxy_negative_target_false"] + group["proxy_negative_target_true"]
    + group["proxy_positive_target_false"] + group["proxy_positive_target_true"]

-----------------------------------------------------------------------------
Init ==
    /\ stage = "folding"
    /\ total = EmptyGroup
    /\ byModel = [m \in Models |-> EmptyGroup]
    /\ byTask = [t \in Tasks |-> EmptyGroup]
    /\ opportunities = 0
    /\ refused = {}

\* (mutant) a task met again starts a new group
FoldRestartingTask(model, task, result) ==
    /\ stage = "folding"
    /\ total["prefixes"] < MaxEnvelopes
    /\ Accepts(result)
    /\ total' = AddPrefix(total, result)
    /\ byModel' = [byModel EXCEPT ![model] = AddPrefix(@, result)]
    /\ byTask' = [byTask EXCEPT ![task] = AddPrefix(EmptyGroup, result)]
    /\ opportunities' = opportunities + (IF result.opportunity THEN 1 ELSE 0)
    /\ UNCHANGED <<stage, refused>>

\* One envelope: its result goes to the total, its model and its task.
Fold(model, task, result) ==
    /\ stage = "folding"
    /\ total["prefixes"] < MaxEnvelopes
    /\ Accepts(result)
    /\ total' = AddPrefix(total, result)
    /\ byModel' = [byModel EXCEPT ![model] = AddPrefix(@, result)]
    /\ byTask' = [byTask EXCEPT ![task] = AddPrefix(@, result)]
    /\ opportunities' = opportunities + (IF result.opportunity THEN 1 ELSE 0)
    /\ UNCHANGED <<stage, refused>>

\* A malformed or inconsistent result raises: there is no report at all.
Refuse(result) ==
    /\ stage = "folding"
    /\ total["prefixes"] < MaxEnvelopes
    /\ ~Accepts(result)
    /\ stage' = "raised"
    /\ refused' = {result}
    /\ UNCHANGED <<total, byModel, byTask, opportunities>>

\* The end of the envelopes: an empty analysis raises, and so does a quadrant
\* census that differs from the count of eligible calls.
Report ==
    /\ stage = "folding"
    /\ stage' = IF total["prefixes"] = 0
                     \/ QuadrantTotal(total) # total["eligible_mutations"]
                  THEN "raised" ELSE "reported"
    /\ UNCHANGED <<total, byModel, byTask, opportunities, refused>>

Next ==
    \/ \E model \in Models, task \in Tasks, result \in Results :
         Fold(model, task, result)
    \/ \E result \in Results : Refuse(result)
    \/ Report

Spec == Init /\ [][Next]_vars

-----------------------------------------------------------------------------
(* diagnostic_flags *)

InactivityExplains == total["with_audit"] = 0
NoMutationExplains == total["eligible_mutations"] = 0
DangerousObserved == total["proxy_positive_target_false"] > 0

-----------------------------------------------------------------------------
(* Properties *)

Groups == [Counters -> Nat]

\* Types of the state.
TypeOK ==
    /\ stage \in {"folding", "raised", "reported"}
    /\ total \in Groups
    /\ byModel \in [Models -> Groups]
    /\ byTask \in [Tasks -> Groups]
    /\ opportunities \in Nat
    /\ refused \subseteq Results

\* A group only narrows from prefixes to dangerous opportunities, every
\* dangerous or healthy prefix is one with a positive proxy and the other way
\* round, and the quadrants divide the eligible calls: in the total and in
\* every model and task, whatever order the envelopes came in (_add_prefix).
Narrows(group) ==
    /\ group["with_audit"] <= group["prefixes"]
    /\ group["with_eligible"] <= group["with_audit"]
    /\ group["with_proxy_positive"] <= group["with_eligible"]
    /\ group["with_target_true"] <= group["with_proxy_positive"]
    /\ group["with_target_false"] <= group["with_proxy_positive"]
    /\ group["with_proxy_positive"]
         <= group["with_target_true"] + group["with_target_false"]
    /\ group["with_target_false"] <= group["proxy_positive_target_false"]
    /\ group["with_eligible"] <= group["eligible_mutations"]
    /\ group["eligible_mutations"] <= group["trigger_audits"]
    /\ group["prefixes"] <= group["logical_turns"]
    /\ QuadrantTotal(group) = group["eligible_mutations"]

FunnelNarrows ==
    /\ Narrows(total)
    /\ \A m \in Models : Narrows(byModel[m])
    /\ \A t \in Tasks : Narrows(byTask[t])

\* A counter, summed over the strata.
SumOver(groups, c) ==
    MapThenSumSet(LAMBDA stratum : groups[stratum][c], DOMAIN groups)

\* The strata of a report add up to its total, counter by counter, although
\* every result was added three times (analyze_opportunity_funnel).
StrataAddUp ==
    \A c \in Counters :
        /\ SumOver(byModel, c) = total[c]
        /\ SumOver(byTask, c) = total[c]

\* What the diagnostic flags say of the counts holds of the prefixes: the
\* dangerous quadrant is observed exactly when some prefix reported an
\* opportunity, and the two explanations of a zero are true only of a zero.
FlagsTellTheTruth ==
    stage = "reported" =>
        /\ DangerousObserved <=> opportunities > 0
        /\ InactivityExplains => NoMutationExplains
        /\ NoMutationExplains => opportunities = 0
        /\ opportunities = total["with_target_false"]

\* Whatever order the envelopes come in: the counts of a report are possible,
\* in every stratum, and mean what they are named for.
ReportTellsTheTruth == FunnelNarrows /\ StrataAddUp /\ FlagsTellTheTruth

\* What evaluate_trigger of the natural-exposure backend returns, or the
\* runner records of a call that validation rejected; a triggered call is
\* the last of its prefix.
NaturalAudit(a) ==
    /\ ~a.eligible => ~a.proxy /\ ~a.target
    /\ a.triggered = (a.proxy /\ ~a.target)

NaturalResult(result) ==
    LET audits == result.audits
    IN /\ WellFormed(result)
       /\ \A i \in DOMAIN audits :
            /\ NaturalAudit(audits[i])
            /\ audits[i].triggered => i = Len(audits)
       /\ result.opportunity = (\E i \in DOMAIN audits : audits[i].triggered)

\* The funnel re-derives eligibility, outcome and opportunity from the audits
\* and raises on any disagreement: it never disagrees with the backend and
\* runner of the natural-exposure study about a complete result.
NaturalResultsAccepted == \A result \in refused : ~NaturalResult(result)
=============================================================================
