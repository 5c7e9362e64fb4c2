CONSTANTS
    RetryCount = 1
    LogicalCeiling = 1
    TurnDigests = {d1}
    ProbeDigest = probe
    ProbeAllowed = TRUE
    DiskMayFail = FALSE
    MaxCalls = 2
SPECIFICATION Spec
INVARIANT ServerErrorsAreRetried
CHECK_DEADLOCK FALSE
