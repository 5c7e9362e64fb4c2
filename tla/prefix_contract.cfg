CONSTANTS
    RetryCount = 1
    Continuations <- PairedArms
    PreforkMax = 1
    ContinuationMax = 1
    ProbeMax = 1
    MaxPerPrefix <- FrozenMaxPerPrefix
    Batches <- FewBatches
    Workspaces <- SmallWorkspaces
    InitialWorkspaces <- PristineOnly
    Fault <- Injector
    Replayable = TRUE
SPECIFICATION Spec
INVARIANT BudgetsSuffice
PROPERTIES
    Terminates
    RefinesContract
CHECK_DEADLOCK FALSE
