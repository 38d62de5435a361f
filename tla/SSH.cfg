\* Two goroutines and all kinds of requests; keyrings change once.
SPECIFICATION FairSpec
CONSTANTS
    t1 = t1  t2 = t2  s1 = s1  s2 = s2  k1 = k1  k2 = k2  k3 = k3
    Threads = {t1, t2}
    Socks = {s1, s2}
    NoSock = NoSock
    Garbage = Garbage
    Keys = {k1, k2, k3}
    BadKey = BadKey
    None = None
    Requests <- MCRequests
    Rings <- MCRings
    Registered = {k2}
    MaxRingChanges = 1
INVARIANTS
    TypeOK
    UndisturbedSignsOwn
    UndisturbedTriesAll
    DiesOnlyForCause
PROPERTY
    SigningEnds
CHECK_DEADLOCK FALSE
