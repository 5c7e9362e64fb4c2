CONSTANTS
    ExtraParts = {"extra"}
    SizeLimit = 3
    Stamps = {1, 2, 4}
    HandStates = {"faithful", "other"}
    Written <- HandWritten
SPECIFICATION Spec
INVARIANTS
    TypeOK
    InjectionNeverMisses
    CompletedToolsKeepProxy
    AuditsPass
PROPERTIES
    HalfWrittenDecidesNothing
CHECK_DEADLOCK FALSE
