CONSTANTS
    RetryCount = 0
    Continuations <- PairedArms
    PreforkMax = 1
    ContinuationMax = 1
    ProbeMax = 1
    MaxPerPrefix <- FrozenMaxPerPrefix
    Batches <- DriftBatches
    Workspaces <- DriftWorkspaces
    InitialWorkspaces <- PristineOnly
    Fault <- Injector
    Replayable = FALSE
SPECIFICATION Spec
INVARIANTS
    LabelHoldsAtSubmission
PROPERTIES
    EvidenceIsCurrent
CHECK_DEADLOCK FALSE
