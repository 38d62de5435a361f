\* Two connections at once, with fairness; roles not from LDAP.
SPECIFICATION FairSpec
CONSTANTS
    c1 = c1  c2 = c2  u1 = u1  u2 = u2  k1 = k1  k2 = k2  k3 = k3  g1 = g1
    devWord = devWord  opsWord = opsWord  prod = prod  here = here  there = there
    Words = {devWord, opsWord, prod}
    Accounts = {here, there}
    DefaultAccount = here
    AccountAliases <- MCAliases
    Conns = {c1, c2}
    Users = {u1}
    Groups = {}
    Keys = {k1, k2, k3}
    RoleNames <- OneRole
    Keyring <- MCKeyring
    Directories <- StaticDirectory
    Requests <- AllKinds
    EnableLDAPRoles = FALSE
    DefaultRole <- dev
    None = None
    MaxDirChanges = 0
PROPERTIES
    RequestEnds
    HandlerEnds
    GrantArrives
CHECK_DEADLOCK FALSE
