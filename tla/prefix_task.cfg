CONSTANTS
    Task = "migration"
    RetryCount = 0
    Continuations <- FrozenArms
    PreforkMax = 1
    ContinuationMax = 1
    ProbeMax = 1
    MaxPerPrefix <- FrozenMaxPerPrefix
    Batches <- DecisionBatches
    Workspaces <- TaskWorkspaces
    InitialWorkspaces <- PreparedWorkspace
    Fault <- TaskInjector
    Replayable = TRUE
SPECIFICATION Spec
INVARIANTS
    MatchedFaultedState
    CopiesAreIsolated
CHECK_DEADLOCK FALSE
