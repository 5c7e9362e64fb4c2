---------------------------- MODULE LogicalTurns ----------------------------
(***************************************************************************)
(* What a loop of model turns promises to the runner that opened its       *)
(* budget: a turn costs one logical unit and between one and RetryCount+1  *)
(* physical attempts, no turn is taken beyond the ceiling, and a loop that *)
(* has failed takes no further turn.  Requests, retries, the journal and   *)
(* the post-decision probe are not visible at this level.                  *)
(***************************************************************************)
EXTENDS BudgetLedger

CONSTANT LogicalCeiling

VARIABLES ledger, stopped

Init ==
    /\ ledger = Opened
    /\ stopped = FALSE

Turn ==
    /\ ~stopped
    /\ \E attempts \in 1 .. RetryCount + 1 :
         /\ MayCharge(ledger, attempts, LogicalCeiling)
         /\ ledger' = Charge(ledger, attempts)
    /\ UNCHANGED stopped

\* The runner turns to its next loop, with a ledger of its own.
NextLoop ==
    /\ ~stopped
    /\ ledger' = Opened
    /\ UNCHANGED stopped

Fail ==
    /\ stopped' = TRUE
    /\ UNCHANGED ledger

Next == Turn \/ NextLoop \/ Fail

Spec == Init /\ [][Next]_<<ledger, stopped>>
=============================================================================
