\* Two goroutines, two roles besides the user's own, with fairness.
SPECIFICATION FairSpec
CONSTANTS
    Threads = {t1, t2}
    Roles = {dev, ops}
    NoRole = NoRole
    Garbage = Garbage
    None = None
    Lifetime = 1
    MaxTime = 3
INVARIANTS
    TypeOK
    ServedFresh
    CoherentUnlessOverlap
PROPERTIES
    Answered
    RefreshKeepsRole
CHECK_DEADLOCK FALSE
