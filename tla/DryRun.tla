------------------------------- MODULE DryRun -------------------------------
(***************************************************************************)
(* ProspectiveController.run_dry_task: the scripted rehearsal of one task. *)
(* A fork is built from the task alone, every continuation renders the     *)
(* record of its arm at its level, a fixture decides by what it sees, and  *)
(* the rows are checked against the contrasts of the design.               *)
(***************************************************************************)
EXTENDS BudgetLedger, Renderers

CONSTANTS
    Plans,         \* execution plans: continuations and turn_limits
    Fixtures       \* the texts of the dry-run tasks

\* What the controller's constructor asks of a plan, or it raises.
PlanAccepted(p) ==
    /\ p.bindings \in {BindingsV1, BindingsV2}
    /\ p.max = p.prefork + Len(p.bindings) * p.each + p.probe

Sources == {"echo", "erased", "verified"}

VARIABLES
    plan,
    stage,       \* "task", "forked", "published", or an error: "plan",
                 \* "refused", "record", "label", "budget" or "contract"
    fixture,     \* task_id, metric, threshold and the identifiers of the task
    refuses,     \* what the tool registry refuses: the trigger, a decision
    ledger,
    rows         \* the continuation results so far

vars == <<plan, stage, fixture, refuses, ledger, rows>>

\* _record
RecordOf(source) ==
    LET ofEcho(a, b) == IF source = "echo" THEN a ELSE b
        positive == source # "erased"
    IN [evidence_id |-> <<"evidence", source, fixture.id>>,
        metric_name |-> <<fixture.metric>>, threshold |-> <<fixture.threshold>>,
        status |-> IF positive THEN <<"pass">> ELSE <<"below_target">>,
        positive |-> positive,
        updated_by |-> ofEcho(<<"agent">>, <<"trusted-service">>),
        source_operation_id |->
           ofEcho(<<fixture.operation>>, <<"operation", source, fixture.id>>),
        derived_from_write_id |->
           IF source = "verified" THEN <<"write", "verified", fixture.id>>
           ELSE <<fixture.write>>,
        evaluator_id |-> ofEcho(<<"workspace.check">>, <<"trusted.check">>),
        evaluator_code_digest |-> <<"evaluator", source>>,
        input_snapshot_digest |-> <<"input", source>>,
        checkpoint_digest |-> <<"checkpoint", source>>,
        measures_target_id |-> <<fixture.target>>,
        verification_result |-> source = "verified",
        authorization_receipt_digest |-> <<"authorization", source>>]

TargetTruth(source) == source = "verified"

\* _fixture_terminal: an evidence that says it is not authorized holds.
FixtureTerminal(observation) ==
    IF "authorized" \in DOMAIN observation /\ ~observation["authorized"]
      THEN "hold"
    ELSE IF observation["positive"] THEN "submit" ELSE "hold"

\* (mutant) every continuation is probed
ProbedEach(name) == TRUE

Probed(name) == name = "echo_L2_causal_lineage"

\* The charges of one continuation: its decision, and the probe.
ChargesOf(name) == IF Probed(name) THEN 2 ELSE 1

Row(binding) ==
    LET observation == Rendered(RecordOf(binding.source), binding.level)
    IN [binding |-> binding, observation |-> observation,
        terminal |-> FixtureTerminal(observation),
        target |-> TargetTruth(binding.source)]

Observed(name) ==
    LET row == CHOOSE row \in {rows[i] : i \in DOMAIN rows} : row.binding.name = name
    IN row.observation

\* The renderer contract of the rows.
Contrast ==
    /\ Observed("echo_L0_value_only")["positive"]
    /\ "derived_from_write_id" \in DOMAIN Observed("echo_L2_causal_lineage")
    /\ plan.bindings = BindingsV2 =>
         /\ ~Observed("erased_L2_causal_lineage")["positive"]
         /\ "derived_from_write_id" \in
              DOMAIN Observed("erased_L2_causal_lineage")
    /\ ~Observed("echo_L4_target_binding")["authorized"]
    /\ Observed("verified_L4_target_binding")["authorized"]

-----------------------------------------------------------------------------
Init ==
    /\ plan \in Plans
    /\ stage = IF PlanAccepted(plan) THEN "task" ELSE "plan"
    /\ fixture \in Fixtures
    /\ refuses \in SUBSET {"trigger", "submit", "hold"}
    /\ ledger = Opened
    /\ rows = << >>

Stop(reason) ==
    stage' = reason /\ UNCHANGED <<plan, fixture, refuses, ledger, rows>>

\* The focal turn is charged to a ledger that opens.  The three immediate
\* receipts are one: run_dry_task overrides none.
Fork ==
    /\ stage = "task"
    /\ IF "trigger" \in refuses THEN Stop("refused")
       ELSE IF ~Opens(plan.max) \/ ~MayCharge(ledger, 1, plan.max)
         THEN Stop("budget")
       ELSE /\ ledger' = Charge(ledger, 1)
            /\ stage' = "forked"
            /\ UNCHANGED <<plan, fixture, refuses, rows>>

\* The charges of a continuation fit.
Fits(binding) ==
    /\ MayCharge(ledger, 1, plan.max)
    /\ ChargesOf(binding.name) = 2 =>
         MayCharge(Charge(ledger, 1), 1, plan.max)

\* The next continuation renders, decides and is charged turn by turn.
Continue ==
    /\ stage = "forked"
    /\ Len(rows) < Len(plan.bindings)
    /\ LET binding == plan.bindings[Len(rows) + 1]
           record == RecordOf(binding.source)
           once == Charge(ledger, 1)
       IN IF ~Valid(record) THEN Stop("record")
          ELSE IF Leaks(record, binding.level) THEN Stop("label")
          ELSE IF Row(binding).terminal \in refuses THEN Stop("refused")
          ELSE IF ~Fits(binding) THEN Stop("budget")
          ELSE /\ rows' = Append(rows, Row(binding))
               /\ ledger' = IF ChargesOf(binding.name) = 2
                              THEN Charge(once, 1) ELSE once
               /\ UNCHANGED <<plan, stage, fixture, refuses>>

Audit ==
    /\ stage = "forked"
    /\ Len(rows) = Len(plan.bindings)
    /\ Stop(IF Contrast THEN "published" ELSE "contract")

Next == Fork \/ Continue \/ Audit

Spec == Init /\ [][Next]_vars

-----------------------------------------------------------------------------
(* Properties *)

\* Types of the state; the ledger counts what was done.
TypeOK ==
    /\ plan \in Plans
    /\ stage \in {"plan", "task", "forked", "published", "refused", "record",
                  "label", "budget", "contract"}
    /\ fixture \in Fixtures
    /\ refuses \subseteq {"trigger", "submit", "hold"}
    /\ ledger.logical \in Nat /\ ledger.physical = ledger.logical
    /\ Len(rows) <= Len(plan.bindings)

\* One turn for the focal write, one for each continuation, one probe.
TurnsOfARehearsal == Len(plan.bindings) + 2

\* A rehearsal of an accepted plan fails for a cause in its inputs: the
\* budget raises only when the plan's total, however it is split over the
\* phases, is below the turns a rehearsal takes, and no such plan passes; a
\* call only if the registry refuses some; a record only for an identifier of
\* the task, or for a label in a text of it; and the renderer contract never
\* raises (run_dry_task).
RehearsalFailsForCause ==
    LET ids == {fixture.id, fixture.operation, fixture.write, fixture.target}
    IN /\ stage # "contract"
       /\ stage = "budget" => plan.max < TurnsOfARehearsal
       /\ stage = "published" => plan.max >= TurnsOfARehearsal
       /\ stage = "refused" => refuses # {}
       /\ stage = "record" => ids \cap Unsafe # {}
       /\ stage = "label" =>
            (ids \cup {fixture.metric, fixture.threshold}) \cap Marked # {}
=============================================================================
