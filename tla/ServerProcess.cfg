\* A configuration with and without a timeout; four signals, two starts.
SPECIFICATION FairSpec
CONSTANTS
    Timeouts = {0, 2}
    CacheTimeFlags = {3, 4}
    DefaultFlag = 4
    MaxStarts = 2
    MaxSignals = 4
INVARIANTS
    TypeOK
    DebugSettled
PROPERTIES
    ReloadHonoured
    TerminationEnds
CHECK_DEADLOCK FALSE
