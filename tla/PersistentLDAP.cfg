\* Two goroutines, one user with two keys and two passwords, three connections.
SPECIFICATION Spec
CONSTANTS
    Threads = {t1, t2}
    Users = {u1}
    Keys = {k1, k2}
    Passwords = {p1, p2}
    u1 = u1
    k1 = k1
    k2 = k2
    p1 = p1
    p2 = p2
    None = None
    Requests <- MCRequests
    Entries <- MCEntries
    MaxConns = 3
    MaxChanges = 1
INVARIANTS
    TypeOK
    SavedKeyListed
    KeysGranted
    NetworkErrorExplained
SYMMETRY ThreadSymmetry
CHECK_DEADLOCK FALSE
