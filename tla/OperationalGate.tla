--------------------------- MODULE OperationalGate --------------------------
(***************************************************************************)
(* audit_operational_slice: the rows of a model slice against the frozen   *)
(* manifest.  load_operational_unit admits one row at a time; the audit    *)
(* then raises, or reports whether the gate passes.  Only mechanics are    *)
(* representable in a row, so it has no behavioural field to read.         *)
(***************************************************************************)
EXTENDS Integers, Sequences, SequencesExt

CONSTANTS
    Plans,             \* planned_unit_ids a manifest may list
    LogicalCeiling,    \* of the manifest
    PhysicalCeiling,
    Rows,              \* the rows a slice may hold
    MaxUnits           \* bound: rows of a slice

VARIABLES
    planned,    \* planned_unit_ids of the manifest
    units,      \* OperationalUnits loaded so far
    verdict     \* "loading", "raised", "failed" or "passed"

vars == <<planned, units, verdict>>

LogicalSum(rows) == FoldLeft(LAMBDA sum, row : sum + row.logical, 0, rows)
PhysicalSum(rows) == FoldLeft(LAMBDA sum, row : sum + row.physical, 0, rows)

\* load_operational_unit: exact fields, and no turn without an attempt.
Loadable(row) ==
    /\ row.exact
    /\ row.logical >= 0
    /\ row.physical >= row.logical

RequestIds(rows) == FlattenSeq([i \in DOMAIN rows |-> rows[i].requests])

Distinct(seq) == \A i, j \in DOMAIN seq : seq[i] = seq[j] => i = j

UnitIds(rows) == [i \in DOMAIN rows |-> rows[i].unit]

\* (mutant) the census is compared as a set
SoundSetCensus(plan, rows) ==
    /\ Distinct(plan)
    /\ ToSet(UnitIds(rows)) = ToSet(plan)
    /\ Distinct(RequestIds(rows))
    /\ LogicalSum(rows) <= LogicalCeiling
    /\ PhysicalSum(rows) <= PhysicalCeiling

\* The checks of the audit that raise: unique planned units, the census in
\* the frozen order, unique request IDs, and the two ceilings.
SoundSlice(plan, rows) ==
    /\ Distinct(plan)
    /\ UnitIds(rows) = plan
    /\ Distinct(RequestIds(rows))
    /\ LogicalSum(rows) <= LogicalCeiling
    /\ PhysicalSum(rows) <= PhysicalCeiling

\* At least one unit, the six integrity flags of all, no quota or transport
\* stop.
Passes(rows) ==
    /\ rows # << >>
    /\ \A i \in DOMAIN rows : rows[i].intact /\ ~rows[i].stopped

-----------------------------------------------------------------------------
Init ==
    /\ planned \in Plans
    /\ units = << >>
    /\ verdict = "loading"

Load(row) ==
    /\ verdict = "loading"
    /\ Len(units) < MaxUnits
    /\ Loadable(row)
    /\ units' = Append(units, row)
    /\ UNCHANGED <<planned, verdict>>

LoadRaises(row) ==
    /\ verdict = "loading"
    /\ Len(units) < MaxUnits
    /\ ~Loadable(row)
    /\ verdict' = "raised"
    /\ UNCHANGED <<planned, units>>

Audit ==
    /\ verdict = "loading"
    /\ verdict' = IF ~SoundSlice(planned, units) THEN "raised"
                  ELSE IF Passes(units) THEN "passed" ELSE "failed"
    /\ UNCHANGED <<planned, units>>

Next ==
    \/ \E row \in Rows : Load(row) \/ LoadRaises(row)
    \/ Audit

Spec == Init /\ [][Next]_vars

-----------------------------------------------------------------------------
(* Properties *)

\* Types of the state; a slice that was not refused is the plan, unit by unit.
TypeOK ==
    /\ planned \in Plans
    /\ units \in Seq(Rows)
    /\ verdict \in {"loading", "raised", "failed", "passed"}

\* The rows without the k-th.
Without(k) == SubSeq(units, 1, k - 1) \o SubSeq(units, k + 1, Len(units))

\* The rows with the i-th and j-th exchanged.
Exchanged(i, j) == [units EXCEPT ![i] = units[j], ![j] = units[i]]

\* A verdict is a verdict on the whole plan: the same rows with a unit left
\* out, repeated, or in another order would have raised, so no bad unit can be
\* dropped and no good one be counted twice (audit_operational_slice).
VerdictCoversPlan ==
    verdict \in {"passed", "failed"} =>
        \A i, j \in DOMAIN units :
            /\ ~SoundSlice(planned, Without(i))
            /\ ~SoundSlice(planned, Append(units, units[i]))
            /\ i # j => ~SoundSlice(planned, Exchanged(i, j))

\* What a passing gate lets a reader conclude: every planned unit ran intact
\* and to its end, and the turns and attempts of all are within the ceilings,
\* attempts covering turns.
PassedSliceIsAccounted ==
    verdict = "passed" =>
        LET logical == LogicalSum(units)
            physical == PhysicalSum(units)
        IN /\ \A id \in ToSet(planned) : \E i \in DOMAIN units :
                units[i].unit = id /\ units[i].intact /\ ~units[i].stopped
           /\ planned # << >>
           /\ logical <= physical
           /\ logical <= LogicalCeiling /\ physical <= PhysicalCeiling

\* A verdict stands for the whole plan, and a passing one for its accounts.
GateVerdictHolds == VerdictCoversPlan /\ PassedSliceIsAccounted
=============================================================================
