\* One request for a role.
SPECIFICATION Spec
CONSTANTS
    c1 = c1  c2 = c2  u1 = u1  u2 = u2  k1 = k1  k2 = k2  k3 = k3  g1 = g1
    devWord = devWord  opsWord = opsWord  prod = prod  here = here  there = there
    Words = {devWord, opsWord, prod}
    Accounts = {here, there}
    DefaultAccount = here
    AccountAliases <- MCAliases
    Conns = {c1}
    Users = {u1}
    Groups = {g1}
    Keys = {k1, k2, k3}
    RoleNames <- MCRoles
    Keyring <- OneKeyring
    Directories <- OneDirectory
    Requests <- UseRequests
    EnableLDAPRoles = TRUE
    DefaultRole <- dev
    None = None
    MaxDirChanges = 1
INVARIANT
    RetryKeepsServing
CHECK_DEADLOCK FALSE
