CONSTANTS
    RetryCount = 0
    Continuations <- PairedArms
    PreforkMax = 1
    ContinuationMax = 1
    ProbeMax = 1
    MaxPerPrefix <- FrozenMaxPerPrefix
    Batches <- DecisionBatches
    Workspaces <- SmallWorkspaces
    InitialWorkspaces <- PristineOnly
    Fault <- Injector
    Replayable = TRUE
SPECIFICATION Spec
PROPERTY ProbeAfterIrreversible
CHECK_DEADLOCK FALSE
