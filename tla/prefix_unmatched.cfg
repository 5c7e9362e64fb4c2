CONSTANTS
    RetryCount = 0
    Continuations <- PairedArms
    PreforkMax = 1
    ContinuationMax = 1
    ProbeMax = 1
    MaxPerPrefix <- FrozenMaxPerPrefix
    Batches <- DecisionBatches
    Workspaces <- DriftWorkspaces
    InitialWorkspaces <- PristineOnly
    Fault <- Injector
    Replayable = FALSE
SPECIFICATION Spec
INVARIANT FaultedCopiesAgree
CHECK_DEADLOCK FALSE
