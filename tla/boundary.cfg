\* Messages of up to five calls of every kind, over links into and out of the workspace.
SPECIFICATION Spec
CONSTANTS
    Batches <- MCBatches
    MaxCalls = 5
INVARIANTS
    CheckedCallsComplete
    AuditTrailComplete
PROPERTIES
    OnlyJudgedCallsChangeCommon
CHECK_DEADLOCK FALSE
