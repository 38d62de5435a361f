\* Two CLIs at once, each with an SSH agent of its own.
SPECIFICATION Spec
CONSTANTS
    t1 = t1  t2 = t2  s1 = s1  s2 = s2  k1 = k1  k2 = k2  k3 = k3
    Threads = {t1, t2}
    Socks = {s1, s2}
    NoSock = NoSock
    Garbage = Garbage
    Keys = {k1, k2, k3}
    BadKey = BadKey
    None = None
    Requests <- TwoRequests
    Rings <- TwoRings
    Registered = {k1, k2}
    MaxRingChanges = 0
INVARIANT
    SignsOwn
CHECK_DEADLOCK FALSE
