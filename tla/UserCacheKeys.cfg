\* Two goroutines, two users who differ in their keys; roles not from LDAP.
SPECIFICATION Spec
CONSTANTS
    main = main  h1 = h1
    u1 = u1  u2 = u2  g1 = g1  k1 = k1  k2 = k2
    raw1 = raw1  alt1 = alt1  raw2 = raw2  junk = junk  dev = dev  ops = ops
    Threads = {main, h1}
    Main = main
    Users = {u1, u2}
    Groups = {}
    RawKeys = {raw1, alt1, raw2, junk}
    Keys = {k1, k2}
    ParseKey <- MCParseKey
    Roles = {dev}
    UserEntries <- KeyEntries
    EnableLDAPRoles = FALSE
    DefaultRole = dev
    NoRole = NoRole
    Unparsable = Unparsable
    Absent = Absent
    MaxDirChanges = 2
INVARIANTS
    TypeOK
    AuthenticatedOwnsKey
    MissIsGenuine
CHECK_DEADLOCK FALSE
