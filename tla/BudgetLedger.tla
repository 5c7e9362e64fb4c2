---------------------------- MODULE BudgetLedger ----------------------------
(***************************************************************************)
(* The two counters the controller charges a model turn against            *)
(* (p9_controller.py, class BudgetLedger): the logical turns taken and the *)
(* physical provider attempts they needed.                                 *)
(***************************************************************************)
EXTENDS Integers

CONSTANT RetryCount     \* transport_retries_per_logical_turn

ASSUME RetryCountAssumption == RetryCount \in Nat

\* A ledger as it is opened: nothing charged yet.
Opened == [logical |-> 0, physical |-> 0]

\* (mutant) off by one: the first attempt of a turn is forgotten
PhysicalCeilingOfRetries(logicalCeiling) == logicalCeiling * RetryCount

\* Every ledger of the runner is opened with this physical ceiling.
PhysicalCeiling(logicalCeiling) == logicalCeiling * (1 + RetryCount)

\* BudgetLedger.__init__ raises for a ceiling below one; the physical ceiling
\* it is given is then never below the logical one.
Opens(logicalCeiling) == logicalCeiling >= 1

\* BudgetLedger.charge raises unless all three conditions hold.
MayCharge(ledger, attempts, logicalCeiling) ==
    /\ attempts >= 1
    /\ ledger.logical + 1 <= logicalCeiling
    /\ ledger.physical + attempts <= PhysicalCeiling(logicalCeiling)

\* (mutant) retries are not charged
ChargeOneAttempt(ledger, attempts) ==
    [logical |-> ledger.logical + 1, physical |-> ledger.physical + 1]

\* (mutant) the charge is lost
ChargeNothing(ledger, attempts) == ledger

Charge(ledger, attempts) ==
    [logical |-> ledger.logical + 1, physical |-> ledger.physical + attempts]
=============================================================================
