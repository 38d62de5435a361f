\* Two goroutines, one user whose roles come from an LDAP group; with fairness.
SPECIFICATION FairSpec
CONSTANTS
    main = main  h1 = h1
    u1 = u1  u2 = u2  g1 = g1  k1 = k1  k2 = k2
    raw1 = raw1  alt1 = alt1  raw2 = raw2  junk = junk  dev = dev  ops = ops
    Threads = {main, h1}
    Main = main
    Users = {u1}
    Groups = {g1}
    RawKeys = {raw1}
    Keys = {k1}
    ParseKey <- OneParseKey
    Roles = {dev, ops}
    UserEntries <- RoleEntries
    EnableLDAPRoles = TRUE
    DefaultRole = dev
    NoRole = NoRole
    Unparsable = Unparsable
    Absent = Absent
    MaxDirChanges = 1
INVARIANT
    UpdateComplete
PROPERTY
    AuthenticateReturns
CHECK_DEADLOCK FALSE
