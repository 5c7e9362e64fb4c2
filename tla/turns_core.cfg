CONSTANTS
    RetryCount = 1
    LogicalCeiling = 2
    TurnDigests = {d1, d2}
    ProbeDigest = probe
    ProbeAllowed = TRUE
    DiskMayFail = TRUE
    MaxCalls = 4
SPECIFICATION Spec
INVARIANTS
    TypeOK
    ChargeNeverRefused
    JournalAgreesWithLoop
    SequencesFollowCalls
    TurnResendsAccounted
PROPERTIES
    ChargedAttemptsAreJournaled
    CallsSettle
    RefinesLogicalTurns
CHECK_DEADLOCK FALSE
