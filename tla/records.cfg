\* What the study records, and the folds over its records.
SPECIFICATION Spec
CONSTANTS
    Models = {"m1", "m2"}
    Tasks = {"t1", "t2"}
    Results <- MCResults
    MaxEnvelopes = 2
    UnitPlans <- MCUnitPlans
    LogicalCeiling = 1
    GatePhysicalCeiling = 3
    Rows <- MCRows
    MaxUnits = 2
    Unsafe = {"bad/id"}
    Marked = {"self-certification"}
    Requests = {"r1", "bad/id", "self-certification"}
    EvidenceContents <- MCContents
    MaxSteps = 2
    DryPlans <- MCDryPlans
    Fixtures <- MCFixtures
    RetryCount = 1
    Continuations <- MCContinuations
    SourceArms = {"echo", "verified"}
    PreforkMax = 2
    ContinuationMax = 2
    MaxPerPrefix = 9
    MaxDrifts = 2
INVARIANTS
    TypeOK
    ReportTellsTheTruth
    NaturalResultsAccepted
    GateVerdictHolds
    ContrastIsClean
    OnlyRequestIdSpoilsEvidence
    RehearsalFailsForCause
    DecidedBeforeProbe
    ForksAreTheSourcePlusTheWrite
    AcceptedBundleIdentifies
CHECK_DEADLOCK FALSE
