------------------------------ MODULE UserCache ------------------------------
(***************************************************************************)
(* The server's cache of LDAP users (server/usercache.go): the maps users  *)
(* and groups, filled by Update and read by Authenticate.  Every           *)
(* connection handler and the reload goroutine of cmd/hologram-server call *)
(* these methods with no lock, so each access to a map is a step of its    *)
(* own here.  The LDAP directory is external: it changes between any two   *)
(* steps, and any search of it may fail.                                   *)
(***************************************************************************)
EXTENDS Naturals, FiniteSets

CONSTANTS
    Threads,          \* goroutines that use the cache
    Main,             \* the goroutine that builds the cache at start-up
    Users, Groups,    \* names of LDAP users and DNs of LDAP groups
    RawKeys, Keys,    \* sshPublicKey values, and the keys they parse to
    ParseKey,         \* what a value parses to
    Roles,            \* role names
    UserEntries,      \* the attributes an LDAP user can have
    EnableLDAPRoles,  \* configuration: are roles read from LDAP?
    DefaultRole,      \* configuration: role of a user who has none in LDAP
    NoRole,           \* the empty defaultRoleAttr
    Unparsable,       \* what ParseKey gives for a value that is no key
    Absent,           \* no such LDAP entry, no such key in a map
    MaxDirChanges     \* bound on the changes of the directory

ASSUME UserCacheAssumption ==
    /\ Main \in Threads
    /\ Users # {}
    /\ ParseKey \in [RawKeys -> Keys \cup {Unparsable}]
    /\ Unparsable \notin Keys
    /\ UserEntries \subseteq [keys : SUBSET RawKeys,
                              memberOf : SUBSET Groups,
                              defaultRole : Roles \cup {NoRole}]
    /\ EnableLDAPRoles \in BOOLEAN
    /\ DefaultRole \in Roles
    /\ NoRole \notin Roles
    /\ Absent \notin UserEntries
    /\ \A rs \in SUBSET Roles : Absent # rs
    /\ Absent \notin Users
    /\ \A r \in [keys : SUBSET Keys, arns : SUBSET Roles, defaultRole : Roles] :
            Absent # r
    /\ MaxDirChanges \in Nat

VARIABLES
    ldapUsers,  \* LDAP: the entry of each user, or Absent
    ldapGroups, \* LDAP: the roles of each group, or Absent
    changes,    \* how often the directory has changed
    users,      \* the cache: luc.users
    groups,     \* the cache: luc.groups
    status,     \* of the server process
    pc,         \* where each goroutine is
    call,       \* the method each goroutine is in
    key,        \* the key that signed the challenge given to Authenticate
    pass,       \* which of Authenticate's two calls of _verify this is
    pending,    \* search results that are still to be stored
    must, seen, \* the iteration of _verify over luc.users
    ret,        \* the user the last Authenticate returned; Absent for nil
    listed,     \* history: the pairs <<user, key>> LDAP has ever had
    current,    \* history: goroutines whose last searches found what LDAP still has
    overtaken,  \* history: goroutines since whose search old results were stored
    synced      \* history: an Update has stored what is still LDAP's state

dirVars == <<ldapUsers, ldapGroups, changes, listed>>
cacheVars == <<users, groups>>
authVars == <<key, pass, must, seen, ret>>
histVars == <<current, overtaken, synced>>
vars == <<dirVars, cacheVars, status, pc, call, pending, authVars, histVars>>
-----------------------------------------------------------------------------
(* What the code makes of the entries it finds. *)

UserRecord == [keys : SUBSET Keys, arns : SUBSET Roles, defaultRole : Roles]

\* Mutant of ParsedKeys: a value that does not parse is kept.
KeepUnparsable(raw) == {ParseKey[r] : r \in raw}

\* The keys of an entry; a value that does not parse is skipped.
ParsedKeys(raw) == {ParseKey[r] : r \in raw} \ {Unparsable}

\* Mutant of MakeUser: the list of keys is not emptied between two users.
MakeUserLeaking(entry, roles) ==
    [keys |-> ParsedKeys(entry.keys)
              \cup UNION {users[u].keys : u \in {v \in Users : users[v] # Absent}},
     arns |-> {},
     defaultRole |-> DefaultRole]

\* The User built from an entry, given the roles of the groups.
MakeUser(entry, roles) ==
    [keys |-> ParsedKeys(entry.keys),
     arns |-> IF EnableLDAPRoles THEN UNION {roles[g] : g \in entry.memberOf}
                                 ELSE {},
     defaultRole |-> IF EnableLDAPRoles /\ entry.defaultRole # NoRole
                     THEN entry.defaultRole ELSE DefaultRole]

HasKey(u) == ldapUsers[u] # Absent /\ ldapUsers[u].keys # {}

\* The result of the search (sshPublicKey=*).
UserSearchResult ==
    {<<u, ldapUsers[u]>> : u \in {v \in Users : HasKey(v)}}

\* Mutant of GroupSearchResult: a group that has no role left is skipped.
SearchNonEmptyGroups ==
    {<<g, ldapGroups[g]>> : g \in {h \in Groups : ldapGroups[h] \notin {Absent, {}}}}

\* The result of the search (objectClass=groupOfNames).
GroupSearchResult ==
    {<<g, ldapGroups[g]>> : g \in {h \in Groups : ldapGroups[h] # Absent}}

Cached == {u \in Users : users[u] # Absent}

ListedKeys(u) == IF ldapUsers[u] = Absent THEN {}
                 ELSE ParsedKeys(ldapUsers[u].keys)

\* Where an Update begins.
UpdateStart == IF EnableLDAPRoles THEN "groupSearch" ELSE "userSearch"
-----------------------------------------------------------------------------
TypeOK ==
    /\ ldapUsers \in [Users -> {Absent} \cup UserEntries]
    /\ ldapGroups \in [Groups -> {Absent} \cup SUBSET Roles]
    /\ changes \in 0..MaxDirChanges
    /\ users \in [Users -> {Absent} \cup UserRecord]
    /\ groups \in [Groups -> SUBSET Roles]
    /\ status \in {"booting", "serving", "down"}
    /\ pc \in [Threads -> {"idle", "groupSearch", "groupStore", "userSearch",
                           "userStore", "range", "verify"}]
    /\ call \in [Threads -> {"none", "new", "update", "authenticate"}]
    /\ key \in [Threads -> Keys \cup {Absent}]
    /\ pass \in [Threads -> 1..2]
    /\ pending \in [Threads -> SUBSET ((Groups \X SUBSET Roles)
                                       \cup (Users \X UserEntries))]
    /\ must \in [Threads -> SUBSET Users]
    /\ seen \in [Threads -> SUBSET Users]
    /\ ret \in [Threads -> Users \cup {Absent}]
    /\ listed \subseteq Users \X Keys
    /\ current \subseteq Threads
    /\ overtaken \subseteq Threads
    /\ synced \in BOOLEAN

\* memberOf names only groups that exist (LDAP's referential integrity).
DirectoryConsistent(us, gs) ==
    \A u \in Users : us[u] # Absent =>
        \A g \in us[u].memberOf : gs[g] # Absent

\* The process starts with empty maps and calls Update from the constructor.
NewLDAPUserCache ==
    /\ users = [u \in Users |-> Absent]
    /\ groups = [g \in Groups |-> {}]
    /\ status = "booting"
    /\ pc = [t \in Threads |-> IF t = Main THEN UpdateStart ELSE "idle"]
    /\ call = [t \in Threads |-> IF t = Main THEN "new" ELSE "none"]
    /\ pending = [t \in Threads |-> {}]
    /\ key = [t \in Threads |-> Absent]
    /\ pass = [t \in Threads |-> 1]
    /\ must = [t \in Threads |-> {}]
    /\ seen = [t \in Threads |-> {}]
    /\ ret = [t \in Threads |-> Absent]
    /\ current = {}
    /\ overtaken = {}
    /\ synced = FALSE

Init ==
    /\ ldapUsers \in [Users -> {Absent} \cup UserEntries]
    /\ ldapGroups \in [Groups -> {Absent} \cup SUBSET Roles]
    /\ DirectoryConsistent(ldapUsers, ldapGroups)
    /\ changes = 0
    /\ listed = {p \in Users \X Keys : p[2] \in ListedKeys(p[1])}
    /\ NewLDAPUserCache
-----------------------------------------------------------------------------
(* The directory, changed by administrators and by hologram-authorize. *)

DirectoryChange ==
    /\ changes < MaxDirChanges
    /\ \/ \E u \in Users, e \in {Absent} \cup UserEntries :
            /\ e # ldapUsers[u]
            /\ ldapUsers' = [ldapUsers EXCEPT ![u] = e]
            /\ UNCHANGED ldapGroups
       \/ \E g \in Groups, rs \in {Absent} \cup SUBSET Roles :
            /\ rs # ldapGroups[g]
            /\ ldapGroups' = [ldapGroups EXCEPT ![g] = rs]
            /\ UNCHANGED ldapUsers
    /\ DirectoryConsistent(ldapUsers', ldapGroups')
    /\ changes' = changes + 1
    /\ listed' = listed \cup {p \in Users \X Keys : p[2] \in ListedKeys(p[1])'}
    /\ current' = {}
    /\ synced' = FALSE
    /\ UNCHANGED <<cacheVars, status, pc, call, pending, authVars, overtaken>>
-----------------------------------------------------------------------------
(* Update *)

\* SIGHUP, the cache timeout, or the retry of a failed AssumeRole.
CallUpdate(t) ==
    /\ status = "serving"
    /\ pc[t] = "idle"
    /\ pc' = [pc EXCEPT ![t] = UpdateStart]
    /\ call' = [call EXCEPT ![t] = "update"]
    /\ pass' = [pass EXCEPT ![t] = 1]
    /\ UNCHANGED <<dirVars, cacheVars, status, pending, key, must, seen, ret,
                   histVars>>

\* Mutant of Return: Authenticate calls itself instead of _verify.
ReturnAndStartOver(t) ==
    /\ call' = [call EXCEPT ![t] = IF @ = "authenticate" THEN @ ELSE "none"]
    /\ pc' = [pc EXCEPT ![t] = IF call[t] = "authenticate" THEN "range" ELSE "idle"]
    /\ UNCHANGED authVars

\* Where a goroutine goes when Update returns; Authenticate ignores an error.
Return(t) ==
    /\ call' = [call EXCEPT ![t] = IF @ = "authenticate" THEN @ ELSE "none"]
    /\ pc' = [pc EXCEPT ![t] = IF call[t] = "authenticate" THEN "range" ELSE "idle"]
    /\ pass' = [pass EXCEPT ![t] = IF call[t] = "authenticate" THEN 2 ELSE @]
    /\ UNCHANGED <<key, must, seen, ret>>

\* A search fails and Update returns the error; the constructor's error ends
\* the process.
SearchFails(t) ==
    /\ status # "down"
    /\ pc[t] \in {"groupSearch", "userSearch"}
    /\ current' = current \ {t}
    /\ status' = IF call[t] = "new" THEN "down" ELSE status
    /\ Return(t)
    /\ UNCHANGED <<dirVars, cacheVars, pending, overtaken, synced>>

GroupSearch(t) ==
    /\ status # "down"
    /\ pc[t] = "groupSearch"
    /\ pending' = [pending EXCEPT ![t] = GroupSearchResult]
    /\ pc' = [pc EXCEPT ![t] = IF GroupSearchResult = {} THEN "userSearch"
                                                         ELSE "groupStore"]
    /\ current' = current \cup {t}
    /\ overtaken' = overtaken \ {t}
    /\ UNCHANGED <<dirVars, cacheVars, status, call, authVars, synced>>

\* Goroutines whose results are LDAP's and have been neither mixed with nor
\* replaced by older ones.
Fresh == current \ overtaken

\* A store by any other goroutine may undo what others have stored.
MarkStore(t) ==
    /\ overtaken' = IF t \in Fresh THEN overtaken ELSE Threads
    /\ UNCHANGED current

GroupStore(t) ==
    /\ status # "down"
    /\ pc[t] = "groupStore"
    /\ \E e \in pending[t] :
        /\ groups' = [groups EXCEPT ![e[1]] = e[2]]
        /\ pending' = [pending EXCEPT ![t] = @ \ {e}]
        /\ pc' = [pc EXCEPT ![t] = IF pending[t] = {e} THEN "userSearch" ELSE @]
    /\ MarkStore(t)
    /\ synced' = (synced /\ t \in Fresh)
    /\ UNCHANGED <<dirVars, users, status, call, authVars>>

\* With roles from LDAP the search for groups came first.
MarkUserSearch(t) ==
    IF EnableLDAPRoles
    THEN UNCHANGED <<current, overtaken>>
    ELSE /\ current' = current \cup {t}
         /\ overtaken' = overtaken \ {t}

UserSearch(t) ==
    /\ status # "down"
    /\ pc[t] = "userSearch"
    /\ UserSearchResult # {}
    /\ pending' = [pending EXCEPT ![t] = UserSearchResult]
    /\ pc' = [pc EXCEPT ![t] = "userStore"]
    /\ MarkUserSearch(t)
    /\ UNCHANGED <<dirVars, cacheVars, status, call, authVars, synced>>

\* No entry matches: Update returns with the map as it was.
UserSearchEmpty(t) ==
    /\ status # "down"
    /\ pc[t] = "userSearch"
    /\ UserSearchResult = {}
    /\ MarkUserSearch(t)
    /\ synced' = (synced \/ t \in Fresh')
    /\ status' = "serving"
    /\ Return(t)
    /\ UNCHANGED <<dirVars, cacheVars, pending>>

UserStore(t) ==
    /\ status # "down"
    /\ pc[t] = "userStore"
    /\ \E e \in pending[t] :
        /\ users' = [users EXCEPT ![e[1]] = MakeUser(e[2], groups)]
        /\ pending' = [pending EXCEPT ![t] = @ \ {e}]
        /\ IF pending[t] = {e}
           THEN Return(t) /\ status' = "serving"
           ELSE UNCHANGED <<status, pc, call, authVars>>
        /\ synced' = (t \in Fresh /\ (synced \/ pending[t] = {e}))
    /\ MarkStore(t)
    /\ UNCHANGED <<dirVars, groups>>
-----------------------------------------------------------------------------
(* Authenticate and _verify *)

CallAuthenticate(t, k) ==
    /\ status = "serving"
    /\ pc[t] = "idle"
    /\ pc' = [pc EXCEPT ![t] = "range"]
    /\ call' = [call EXCEPT ![t] = "authenticate"]
    /\ key' = [key EXCEPT ![t] = k]
    /\ pass' = [pass EXCEPT ![t] = 1]
    /\ ret' = [ret EXCEPT ![t] = Absent]
    /\ current' = current \ {t}
    /\ UNCHANGED <<dirVars, cacheVars, status, pending, must, seen, overtaken,
                   synced>>

\* The iteration visits every key the map has now; one that is stored while
\* it runs may be visited or not.
Range(t) ==
    /\ status # "down"
    /\ pc[t] = "range"
    /\ must' = [must EXCEPT ![t] = Cached]
    /\ seen' = [seen EXCEPT ![t] = {}]
    /\ pc' = [pc EXCEPT ![t] = "verify"]
    /\ UNCHANGED <<dirVars, cacheVars, status, call, pending, key, pass, ret,
                   histVars>>

\* One user of the map; the first whose key verifies is returned.
Visit(t) ==
    /\ status # "down"
    /\ pc[t] = "verify"
    /\ \E u \in Cached \ seen[t] :
        IF key[t] \in users[u].keys
        THEN /\ ret' = [ret EXCEPT ![t] = u]
             /\ pc' = [pc EXCEPT ![t] = "idle"]
             /\ call' = [call EXCEPT ![t] = "none"]
             /\ must' = [must EXCEPT ![t] = {}]
             /\ seen' = [seen EXCEPT ![t] = {}]
        ELSE /\ seen' = [seen EXCEPT ![t] = @ \cup {u}]
             /\ UNCHANGED <<ret, pc, call, must>>
    /\ UNCHANGED <<dirVars, cacheVars, status, pending, key, pass, histVars>>

\* Mutant of Miss: the first user whose keys do not verify ends the search.
MissAfterOne(t) ==
    /\ status # "down"
    /\ pc[t] = "verify"
    /\ pc' = [pc EXCEPT ![t] = IF pass[t] = 1 THEN UpdateStart ELSE "idle"]
    /\ call' = [call EXCEPT ![t] = IF pass[t] = 1 THEN @ ELSE "none"]
    /\ must' = [must EXCEPT ![t] = {}]
    /\ seen' = [seen EXCEPT ![t] = {}]
    /\ UNCHANGED <<dirVars, cacheVars, status, pending, key, pass, ret, histVars>>

\* No key verifies: update the cache and look again, once.
Miss(t) ==
    /\ status # "down"
    /\ pc[t] = "verify"
    /\ must[t] \subseteq seen[t]
    /\ pc' = [pc EXCEPT ![t] = IF pass[t] = 1 THEN UpdateStart ELSE "idle"]
    /\ call' = [call EXCEPT ![t] = IF pass[t] = 1 THEN @ ELSE "none"]
    /\ must' = [must EXCEPT ![t] = {}]
    /\ seen' = [seen EXCEPT ![t] = {}]
    /\ UNCHANGED <<dirVars, cacheVars, status, pending, key, pass, ret, histVars>>
-----------------------------------------------------------------------------
(* The Go runtime may stop the process when it sees a map written while    *)
(* another goroutine uses it (no lock protects luc.users or luc.groups).   *)

Writes(t) == CASE pc[t] = "groupStore" -> {"groups"}
               [] pc[t] = "userStore" -> {"users"}
               [] OTHER -> {}

Uses(t) == Writes(t) \cup (IF pc[t] \in {"range", "verify"} THEN {"users"} ELSE {})
                     \cup (IF pc[t] = "userStore" /\ EnableLDAPRoles
                           THEN {"groups"} ELSE {})

MapFault ==
    /\ status # "down"
    /\ \E t1, t2 \in Threads : t1 # t2 /\ Writes(t1) \cap Uses(t2) # {}
    /\ status' = "down"
    /\ UNCHANGED <<dirVars, cacheVars, pc, call, pending, authVars, histVars>>

\* The operator starts the server again: NewLDAPUserCache as a step.
Restart ==
    /\ status = "down"
    /\ users' = [u \in Users |-> Absent]
    /\ groups' = [g \in Groups |-> {}]
    /\ status' = "booting"
    /\ pc' = [t \in Threads |-> IF t = Main THEN UpdateStart ELSE "idle"]
    /\ call' = [t \in Threads |-> IF t = Main THEN "new" ELSE "none"]
    /\ pending' = [t \in Threads |-> {}]
    /\ key' = [t \in Threads |-> Absent]
    /\ pass' = [t \in Threads |-> 1]
    /\ must' = [t \in Threads |-> {}]
    /\ seen' = [t \in Threads |-> {}]
    /\ ret' = [t \in Threads |-> Absent]
    /\ current' = {}
    /\ overtaken' = {}
    /\ synced' = FALSE
    /\ UNCHANGED dirVars
-----------------------------------------------------------------------------
Step(t) ==
    \/ SearchFails(t)
    \/ GroupSearch(t)
    \/ GroupStore(t)
    \/ UserSearch(t)
    \/ UserSearchEmpty(t)
    \/ UserStore(t)
    \/ Range(t)
    \/ Visit(t)
    \/ Miss(t)

Next ==
    \/ DirectoryChange
    \/ \E t \in Threads : CallUpdate(t)
    \/ \E t \in Threads, k \in Keys : CallAuthenticate(t, k)
    \/ \E t \in Threads : Step(t)
    \/ MapFault
    \/ Restart

Spec == Init /\ [][Next]_vars

\* Goroutines are scheduled fairly and LDAP answers each search.
FairSpec == Spec /\ \A t \in Threads : WF_vars(Step(t))
-----------------------------------------------------------------------------
(* Properties *)

\* A user is authenticated by a key only if LDAP has listed that key for that
\* user, however the searches, the stores and the iterations interleave.
AuthenticatedOwnsKey ==
    \A t \in Threads : ret[t] # Absent => <<ret[t], key[t]>> \in listed

\* The cache has exactly LDAP's keys, roles and default role of a user.
InSync(u) ==
    users[u] = MakeUser(ldapUsers[u], [g \in Groups |-> IF ldapGroups[g] = Absent
                                                        THEN {} ELSE ldapGroups[g]])

\* After an Update whose results are still those of LDAP, the cache is in sync
\* with LDAP on each user that LDAP has.
UpdateComplete == synced => \A u \in Users : HasKey(u) => InSync(u)

\* The last thing t did was an Authenticate that updated the cache and still
\* returned nil.
TurnedAway(t) == call[t] = "none" /\ pass[t] = 2 /\ ret[t] = Absent

\* Authenticate turns a key away only when its Update failed or was overtaken,
\* or when no user in LDAP has the key.
MissIsGenuine ==
    \A t \in Threads : TurnedAway(t) /\ t \in Fresh
        => \A u \in Users : key[t] \notin ListedKeys(u)

\* Authenticate returns, with or without a user, unless the process stops.
AuthenticateReturns ==
    \A t \in Threads :
        (call[t] = "authenticate") ~> (call[t] # "authenticate" \/ status = "down")
=============================================================================
