-------------------------- MODULE ProspectiveRunner -------------------------
(***************************************************************************)
(* The first runner, ProspectiveRunner.run, and OllamaToolLoop.run, whose  *)
(* loop its continuations repeat: one tool call per turn, and whatever is  *)
(* not one valid call that succeeds ends the run.  PrefixRun models the    *)
(* runner that replaced it; this module keeps what that one gave up.       *)
(*                                                                         *)
(* The trigger is FilesystemForkBackend's: an action that succeeds by the  *)
(* proxy and fails the target.  Calls repeat their effect.  The backend's  *)
(* callbacks are given from outside.                                       *)
(***************************************************************************)
EXTENDS BudgetLedger, Sequences

CONSTANTS
    Continuations,      \* names of the continuations, in the plan's order
    Sources,            \* their source arms
    PreforkMax, ContinuationMax, MaxPerPrefix   \* turn_limits

VARIABLES
    kind,       \* "prefix" or "tool_loop", an OllamaToolLoop alone
    pc,         \* control: see Pcs
    error,      \* what raised when pc = "failed"
    decision,   \* terminal decision of the adapter the loop works with
    ledger,     \* BudgetLedger of the current loop
    total,      \* turns and attempts of the closed loops and the probe
    rows,       \* terminal_decision of the finished continuations
    probed      \* continuations the probe was sent to

vars == <<kind, pc, error, decision, ledger, total, rows, probed>>

Pcs == {"prefork", "fork", "arm", "probe", "closed", "audit",
        "published", "no_opportunity", "returned", "failed"}

Contents == [proxy : BOOLEAN, target : BOOLEAN]

Init ==
    /\ kind \in {"prefix", "tool_loop"}
    /\ pc = IF kind = "prefix" THEN "prefork" ELSE "arm"
    /\ error = "none"
    /\ decision = "none"
    /\ ledger = Opened /\ total = Opened
    /\ rows = << >>
    /\ probed = {}

Fail(reason) ==
    /\ pc' = "failed"
    /\ error' = reason
    /\ UNCHANGED <<kind, decision, ledger, total, rows, probed>>

Close(spent) ==
    [logical |-> total.logical + spent.logical,
     physical |-> total.physical + spent.physical]

Ceiling == IF pc = "prefork" THEN PreforkMax ELSE ContinuationMax

\* The head of a loop that takes a turn.
MayTurn == pc \in {"prefork", "arm"} /\ decision = "none" /\ ledger.logical < Ceiling

\* A turn that is answered with one call: charged, then the call is executed.
Turn(attempts) ==
    /\ MayTurn
    /\ MayCharge(ledger, attempts, Ceiling)
    /\ ledger' = Charge(ledger, attempts)

\* The transport fails, the answer is malformed or has no call or several,
\* the call is not valid, or its execution raises: nothing is recoverable.
TurnRaises == MayTurn /\ Fail("turn")

\* A call that reads, checks, or works on a copy.  Whatever the call, a charge
\* that is refused raises before the call is looked at.
Observes(attempts) ==
    /\ MayTurn
    /\ IF MayCharge(ledger, attempts, Ceiling)
         THEN /\ Turn(attempts)
              /\ UNCHANGED <<kind, pc, error, decision, total, rows, probed>>
         ELSE Fail("budget")

Finalizes(attempts, choice) ==
    /\ Turn(attempts)
    /\ decision' = choice
    /\ UNCHANGED <<kind, pc, error, total, rows, probed>>

-----------------------------------------------------------------------------
(* The common prefix *)

\* evaluate_trigger of the base class: the natural danger
Triggers(w) == w.proxy /\ ~w.target

\* A mutation that leaves w in a copy; it is withheld, or runs again in the
\* common workspace.
PreforkMutates(attempts, w) ==
    /\ pc = "prefork"
    /\ Turn(attempts)
    /\ IF Triggers(w) THEN pc' = "fork" /\ total' = Close(ledger')
         ELSE UNCHANGED <<pc, total>>
    /\ UNCHANGED <<kind, error, decision, rows, probed>>

PreforkEnds ==
    /\ pc = "prefork"
    /\ ~MayTurn
    /\ pc' = "no_opportunity"
    /\ UNCHANGED <<kind, error, decision, ledger, total, rows, probed>>

StartArm ==
    /\ pc' = "arm"
    /\ decision' = "none"
    /\ ledger' = Opened

\* fork, with the target truths its callbacks left in the copies.
Fork(truth) ==
    /\ pc = "fork"
    /\ IF \A source \in Sources : truth[source] <=> (source = "verified")
         THEN StartArm /\ UNCHANGED <<kind, error, total, rows, probed>>
         ELSE Fail("assignment")

-----------------------------------------------------------------------------
(* A continuation, or the tool loop *)

Probed(name) == name = "echo_L2_causal_lineage"
Name == Continuations[Len(rows) + 1]

\* The loop ends by a decision; then its row is written, after the probe.
ArmDone ==
    /\ pc = "arm"
    /\ decision # "none"
    /\ total' = Close(ledger)
    /\ pc' = IF kind = "tool_loop" THEN "returned"
             ELSE IF Probed(Name) THEN "probe" ELSE "closed"
    /\ UNCHANGED <<kind, error, decision, ledger, rows, probed>>

\* (mutant) a continuation at its ceiling ends, as a hold
ArmCeilingHolds ==
    /\ pc = "arm"
    /\ decision = "none" /\ ledger.logical >= ContinuationMax
    /\ total' = Close(ledger)
    /\ pc' = IF kind = "tool_loop" THEN "returned"
             ELSE IF Probed(Name) THEN "probe" ELSE "closed"
    /\ UNCHANGED <<kind, error, decision, ledger, rows, probed>>

\* At its ceiling, undecided, a loop raises.
ArmCeiling ==
    /\ pc = "arm"
    /\ decision = "none" /\ ledger.logical >= ContinuationMax
    /\ Fail("ceiling")

Probe(attempts) ==
    /\ pc = "probe"
    /\ total' = Close([logical |-> 1, physical |-> attempts])
    /\ probed' = probed \cup {Name}
    /\ pc' = "closed"
    /\ UNCHANGED <<kind, error, decision, ledger, rows>>

ProbeRaises == pc = "probe" /\ Fail("probe")

CloseRow ==
    /\ pc = "closed"
    /\ rows' = Append(rows, decision)
    /\ IF Len(rows') = Len(Continuations)
         THEN pc' = "audit" /\ UNCHANGED <<decision, ledger>>
         ELSE StartArm
    /\ UNCHANGED <<kind, error, total, probed>>

RequestIdsCollide == pc = "audit" /\ Fail("request_ids")

Publish ==
    /\ pc = "audit"
    /\ IF /\ total.logical <= MaxPerPrefix
          /\ total.physical <= PhysicalCeiling(MaxPerPrefix)
         THEN /\ pc' = "published"
              /\ UNCHANGED <<kind, error, decision, ledger, total, rows,
                             probed>>
         ELSE Fail("budget")

-----------------------------------------------------------------------------
Attempts == 1 .. RetryCount + 1

Next ==
    \/ \E attempts \in Attempts :
         \/ Observes(attempts)
         \/ \E choice \in {"submit", "hold"} : Finalizes(attempts, choice)
         \/ \E w \in Contents : PreforkMutates(attempts, w)
         \/ Probe(attempts)
    \/ TurnRaises
    \/ PreforkEnds
    \/ \E truth \in [Sources -> BOOLEAN] : Fork(truth)
    \/ ArmDone \/ ArmCeiling
    \/ ProbeRaises \/ CloseRow
    \/ RequestIdsCollide \/ Publish

Spec == Init /\ [][Next]_vars

-----------------------------------------------------------------------------
(* Properties *)

LedgerType == [logical : Nat, physical : Nat]

\* Types of the state.
TypeOK ==
    /\ kind \in {"prefix", "tool_loop"}
    /\ pc \in Pcs
    /\ decision \in {"none", "submit", "hold"}
    /\ ledger \in LedgerType /\ total \in LedgerType
    /\ rows \in Seq({"none", "submit", "hold"})
    /\ Len(rows) <= Len(Continuations)
    /\ probed \subseteq {Continuations[i] : i \in DOMAIN Continuations}

\* "A post-decision probe is administered only after the echo-L2 decision is
\* irreversible": here it is, for a continuation that does not decide ends
\* the run, and every row reports a decision its adapter holds.  The runner
\* that replaced this one probes undecided continuations (_run_continuation).
DecidedBeforeProbe ==
    /\ pc = "probe" \/ (pc = "closed" /\ probed # {}) => decision # "none"
    /\ \A i \in DOMAIN rows : rows[i] # "none"

=============================================================================
