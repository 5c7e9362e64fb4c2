CONSTANTS
    RetryCount = 0
    Continuations <- PairedArms
    PreforkMax = 2
    ContinuationMax = 2
    ProbeMax = 1
    MaxPerPrefix <- FrozenMaxPerPrefix
    Batches <- MixedBatches
    Workspaces <- SmallWorkspaces
    InitialWorkspaces <- PristineOnly
    Fault <- Injector
    Replayable = TRUE
SPECIFICATION Spec
INVARIANTS
    TypeOK
    PrefixStaysNegative
    ForkNeverFails
PROPERTIES
    AnsweredBeforeRequest
    DecisionIsIrreversible
CHECK_DEADLOCK FALSE
