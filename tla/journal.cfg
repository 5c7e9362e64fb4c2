\* Runs one after another at one path, crashing anywhere.
CONSTANTS
    Launches = {l1, l2, l3}
    Overlap = FALSE
    MaxRows = 3
SPECIFICATION Spec
INVARIANTS
    JournalAlwaysAuditable
PROPERTIES
    RefinesDurableJournal
CHECK_DEADLOCK FALSE
