-------------------------- MODULE UserCacheProofs ---------------------------
(***************************************************************************)
(* Proofs about UserCache, for any number of goroutines, users, keys,      *)
(* groups and roles, with and without roles from LDAP.                     *)
(*                                                                         *)
(* First come the types and the invariants that need no more; then the     *)
(* argument that an Update that nothing overtakes brings the cache in sync *)
(* with LDAP, so that UpdateComplete and MissIsGenuine always hold.        *)
(***************************************************************************)
EXTENDS UserCache, TLAPS

\* The results being stored are those of the search the goroutine made last.
PendingInv ==
    \A t \in Threads :
        /\ pc[t] = "groupStore" => pending[t] \subseteq Groups \X SUBSET Roles
        /\ pc[t] = "userStore" => pending[t] \subseteq Users \X UserEntries

TypeInv == TypeOK /\ PendingInv

LEMMA MakeUserType ==
    ASSUME NEW e \in UserEntries, NEW rs \in [Groups -> SUBSET Roles]
    PROVE  MakeUser(e, rs) \in UserRecord
<1>1. /\ e.keys \subseteq RawKeys /\ e.memberOf \subseteq Groups
      /\ e.defaultRole \in Roles \cup {NoRole}
  BY Zenon, UserCacheAssumption
<1>2. ParsedKeys(e.keys) \subseteq Keys
  BY Zenon, <1>1, UserCacheAssumption DEF ParsedKeys
<1>3. UNION {rs[g] : g \in e.memberOf} \subseteq Roles
  BY Zenon, <1>1
<1>4. QED
  BY Zenon, <1>1, <1>2, <1>3, UserCacheAssumption DEF MakeUser, UserRecord

LEMMA SearchTypes ==
    ASSUME TypeOK
    PROVE  /\ GroupSearchResult \subseteq Groups \X SUBSET Roles
           /\ UserSearchResult \subseteq Users \X UserEntries
  BY DEF TypeOK, GroupSearchResult, UserSearchResult, HasKey

LEMMA SamePair ==
    ASSUME NEW a, NEW b, NEW x, NEW y, <<a, x>> = <<b, y>>
    PROVE  a = b
  OBVIOUS

LEMMA Passes == 1 \in 1..2 /\ 2 \in 1..2 /\ 1 # 2 /\ \A n \in 1..2 : n = 1 \/ n = 2
  OBVIOUS

Places == {"idle", "groupSearch", "groupStore", "userSearch", "userStore", "range", "verify"}

\* A step of goroutine t leaves the variables of the others alone.
OthersKeep(t) ==
    \A u \in Threads \ {t} :
        /\ pc'[u] = pc[u] /\ call'[u] = call[u] /\ pending'[u] = pending[u]
        /\ key'[u] = key[u] /\ pass'[u] = pass[u] /\ must'[u] = must[u]
        /\ seen'[u] = seen[u] /\ ret'[u] = ret[u]

\* The return from Update.
LEMMA ReturnFrame ==
    ASSUME TypeOK, NEW t \in Threads, Return(t)
    PROVE  /\ pc' \in [Threads -> Places]
           /\ call' \in [Threads -> {"none", "new", "update", "authenticate"}]
           /\ pass' \in [Threads -> 1..2]
           /\ UNCHANGED <<key, must, seen, ret>>
           /\ pc'[t] = IF call[t] = "authenticate" THEN "range" ELSE "idle"
           /\ call'[t] = IF call[t] = "authenticate" THEN "authenticate" ELSE "none"
           /\ \A u \in Threads \ {t} : /\ pc'[u] = pc[u] /\ call'[u] = call[u]
                                       /\ pass'[u] = pass[u]
<1>1. /\ pc \in [Threads -> Places] /\ pass \in [Threads -> 1..2]
      /\ call \in [Threads -> {"none", "new", "update", "authenticate"}]
  BY Zenon DEF TypeOK, Places
<1>2. PICK p \in {"range", "idle"} : /\ p = IF call[t] = "authenticate" THEN "range" ELSE "idle"
                                     /\ pc' = [pc EXCEPT ![t] = p]
  BY Zenon DEF Return
<1>3. p \in Places
  BY Zenon, <1>2 DEF Places
<1>4. /\ pc' \in [Threads -> Places] /\ pc'[t] = p
      /\ \A u \in Threads \ {t} : pc'[u] = pc[u]
  BY Zenon, <1>1, <1>2, <1>3
<1>5. PICK k \in {"none", "authenticate"} :
         /\ k = IF call[t] = "authenticate" THEN "authenticate" ELSE "none"
         /\ call' = [call EXCEPT ![t] = k]
  BY Zenon DEF Return
<1>6. /\ call' \in [Threads -> {"none", "new", "update", "authenticate"}] /\ call'[t] = k
      /\ \A u \in Threads \ {t} : call'[u] = call[u]
  BY Zenon, <1>1, <1>5
<1>7. PICK n \in 1..2 : pass' = [pass EXCEPT ![t] = n]
  BY Zenon, <1>1, Passes DEF Return
<1>8. /\ pass' \in [Threads -> 1..2]
      /\ \A u \in Threads \ {t} : pass'[u] = pass[u]
  BY Zenon, <1>1, <1>7
<1>9. QED
  BY Zenon, <1>2, <1>4, <1>5, <1>6, <1>8 DEF Return

\* A step of Update writes no directory and no other goroutine's variables.
LEMMA UpdateFrame ==
    ASSUME TypeOK, NEW t \in Threads,
           \/ SearchFails(t) \/ GroupSearch(t) \/ GroupStore(t)
           \/ UserSearch(t) \/ UserSearchEmpty(t) \/ UserStore(t)
    PROVE  UNCHANGED <<ldapUsers, ldapGroups>> /\ OthersKeep(t)
<1>0. UNCHANGED <<ldapUsers, ldapGroups>>
  BY Zenon DEF SearchFails, GroupSearch, GroupStore, UserSearch, UserSearchEmpty, UserStore,
     dirVars
<1>1. CASE SearchFails(t) \/ UserSearchEmpty(t)
  BY Zenon, <1>0, <1>1, ReturnFrame DEF SearchFails, UserSearchEmpty, OthersKeep
<1>2. CASE GroupSearch(t) \/ GroupStore(t) \/ UserSearch(t)
  <2>1. \A u \in Threads \ {t} : pc'[u] = pc[u] /\ pending'[u] = pending[u]
    BY Zenon, <1>2 DEF GroupSearch, GroupStore, UserSearch, TypeOK
  <2>2. UNCHANGED <<call, key, pass, must, seen, ret>>
    BY Zenon, <1>2 DEF GroupSearch, GroupStore, UserSearch, authVars
  <2>3. QED
    BY Zenon, <1>0, <2>1, <2>2 DEF OthersKeep
<1>3. CASE UserStore(t)
  <2>1. \A u \in Threads \ {t} : pending'[u] = pending[u]
    BY Zenon, <1>3 DEF UserStore, TypeOK
  <2>2. Return(t) \/ UNCHANGED <<pc, call, key, pass, must, seen, ret>>
    BY Zenon, <1>3 DEF UserStore, authVars
  <2>3. QED
    BY Zenon, <1>0, <2>1, <2>2, ReturnFrame DEF OthersKeep
<1>4. QED
  BY Zenon, <1>1, <1>2, <1>3

\* Neither does a step of Authenticate or the call of Update.
LEMMA AuthenticateFrame ==
    ASSUME TypeOK, NEW t \in Threads,
           \/ CallUpdate(t) \/ (\E k \in Keys : CallAuthenticate(t, k))
           \/ Range(t) \/ Visit(t) \/ Miss(t)
    PROVE  UNCHANGED <<ldapUsers, ldapGroups, users, groups, synced>> /\ OthersKeep(t)
<1>0. UNCHANGED <<ldapUsers, ldapGroups, users, groups, synced, pending>>
  BY Zenon DEF CallUpdate, CallAuthenticate, Range, Visit, Miss, dirVars, cacheVars, histVars
<1>1. \A u \in Threads \ {t} : pc'[u] = pc[u] /\ call'[u] = call[u]
  BY Zenon DEF CallUpdate, CallAuthenticate, Range, Visit, Miss, TypeOK
<1>2. \A u \in Threads \ {t} : key'[u] = key[u] /\ pass'[u] = pass[u] /\ ret'[u] = ret[u]
  BY ZenonT(60) DEF CallUpdate, CallAuthenticate, Range, Visit, Miss, TypeOK
<1>3. \A u \in Threads \ {t} : must'[u] = must[u] /\ seen'[u] = seen[u]
  BY ZenonT(60) DEF CallUpdate, CallAuthenticate, Range, Visit, Miss, TypeOK
<1>4. QED
  BY Zenon, <1>0, <1>1, <1>2, <1>3 DEF OthersKeep

\* What a user search does to the history.
LEMMA MarkUserSearchTypes ==
    ASSUME current \subseteq Threads, overtaken \subseteq Threads, NEW t \in Threads,
           MarkUserSearch(t)
    PROVE  current' \subseteq Threads /\ overtaken' \subseteq Threads
  BY Zenon DEF MarkUserSearch

\* The results of the last search of each goroutine stay so.
LEMMA PendingFrame ==
    ASSUME PendingInv, NEW t \in Threads, OthersKeep(t),
           pc'[t] = "groupStore" => pending'[t] \subseteq Groups \X SUBSET Roles,
           pc'[t] = "userStore" => pending'[t] \subseteq Users \X UserEntries
    PROVE  PendingInv'
  BY Zenon DEF PendingInv, OthersKeep

LEMMA InitTypeInv == Init => TypeInv
<1> SUFFICES ASSUME Init PROVE TypeInv
  BY Zenon
<1> USE UserCacheAssumption
<1>1. changes \in 0..MaxDirChanges
  BY DEF Init
<1>2. pass \in [Threads -> 1..2]
  BY DEF Init, NewLDAPUserCache
<1>3. QED
  BY <1>1, <1>2, Zenon DEF Init, NewLDAPUserCache, TypeInv, TypeOK, PendingInv, UpdateStart

LEMMA TypeStep ==
    ASSUME TypeInv, [Next]_vars
    PROVE  TypeInv'
<1> USE UserCacheAssumption DEF TypeInv
<1>1. CASE DirectoryChange
  <2>1. /\ ldapUsers' \in [Users -> {Absent} \cup UserEntries]
        /\ ldapGroups' \in [Groups -> {Absent} \cup SUBSET Roles]
    <3>1. /\ ldapUsers \in [Users -> {Absent} \cup UserEntries]
          /\ ldapGroups \in [Groups -> {Absent} \cup SUBSET Roles]
      BY Zenon DEF TypeOK
    <3>2. CASE UNCHANGED ldapGroups
      BY Zenon, <1>1, <3>1, <3>2 DEF DirectoryChange
    <3>3. CASE UNCHANGED ldapUsers
      BY ZenonT(60), <1>1, <3>1, <3>3 DEF DirectoryChange
    <3>4. QED
      BY Zenon, <1>1, <3>2, <3>3 DEF DirectoryChange
  <2>2. changes' \in 0..MaxDirChanges
    BY <1>1 DEF DirectoryChange, TypeOK
  <2>3. listed' \subseteq Users \X Keys
    BY Zenon, <1>1 DEF DirectoryChange, TypeOK
  <2>4. QED
    BY <1>1, <2>1, <2>2, <2>3, Zenon DEF DirectoryChange, TypeOK, PendingInv, cacheVars,
       authVars
<1>2. ASSUME NEW t \in Threads, CallUpdate(t) PROVE TypeInv'
  <2>1. /\ UNCHANGED <<dirVars, cacheVars, status, pending, key, must, seen, ret, histVars>>
        /\ pc'[t] \notin {"groupStore", "userStore"}
    BY Zenon, <1>2 DEF CallUpdate, UpdateStart, TypeOK
  <2>2. pc' \in [Threads -> Places] /\ pass' \in [Threads -> 1..2]
    BY Zenon, <1>2, Passes DEF CallUpdate, UpdateStart, TypeOK, Places
  <2>3. call' \in [Threads -> {"none", "new", "update", "authenticate"}]
    BY Zenon, <1>2 DEF CallUpdate, TypeOK
  <2>4. PendingInv'
    BY Zenon, <1>2, <2>1, AuthenticateFrame, PendingFrame
  <2>5. QED
    BY Zenon, <2>1, <2>2, <2>3, <2>4 DEF TypeOK, Places, dirVars, cacheVars, histVars
<1>3. ASSUME NEW t \in Threads, NEW k \in Keys, CallAuthenticate(t, k)
      PROVE  TypeInv'
  <2>1. /\ UNCHANGED <<dirVars, cacheVars, status, pending, must, seen, overtaken, synced>>
        /\ pc'[t] \notin {"groupStore", "userStore"} /\ current' \subseteq Threads
    BY Zenon, <1>3 DEF CallAuthenticate, TypeOK
  <2>2. pc' \in [Threads -> Places] /\ pass' \in [Threads -> 1..2]
    BY Zenon, <1>3, Passes DEF CallAuthenticate, TypeOK, Places
  <2>3. call' \in [Threads -> {"none", "new", "update", "authenticate"}]
    BY Zenon, <1>3 DEF CallAuthenticate, TypeOK
  <2>4. key' \in [Threads -> Keys \cup {Absent}] /\ ret' \in [Threads -> Users \cup {Absent}]
    BY Zenon, <1>3 DEF CallAuthenticate, TypeOK
  <2>5. PendingInv'
    BY Zenon, <1>3, <2>1, AuthenticateFrame, PendingFrame
  <2>6. QED
    BY Zenon, <2>1, <2>2, <2>3, <2>4, <2>5 DEF TypeOK, Places, dirVars, cacheVars
<1>4. ASSUME NEW t \in Threads, Step(t) PROVE TypeInv'
  <2>1. CASE SearchFails(t)
    <3>1. /\ UNCHANGED <<dirVars, cacheVars, pending, overtaken, synced>>
          /\ status' \in {"booting", "serving", "down"} /\ current' \subseteq Threads
          /\ Return(t)
      BY Zenon, <2>1 DEF SearchFails, TypeOK
    <3>2. PendingInv'
      <4>1. pc'[t] \notin {"groupStore", "userStore"}
        BY Zenon, <3>1, ReturnFrame
      <4>2. QED
        BY Zenon, <2>1, <4>1, UpdateFrame, PendingFrame
    <3>3. /\ pc' \in [Threads -> Places] /\ pass' \in [Threads -> 1..2]
          /\ call' \in [Threads -> {"none", "new", "update", "authenticate"}]
          /\ UNCHANGED <<key, must, seen, ret>>
      BY Zenon, <3>1, ReturnFrame
    <3>4. UNCHANGED <<ldapUsers, ldapGroups, changes, listed, users, groups>>
      BY Zenon, <3>1 DEF dirVars, cacheVars
    <3>5. QED
      BY Zenon, <3>1, <3>2, <3>3, <3>4 DEF TypeOK, Places
  <2>2. CASE GroupSearch(t)
    <3>1. /\ UNCHANGED <<dirVars, cacheVars, status, call, authVars, synced>>
          /\ current' \subseteq Threads /\ overtaken' \subseteq Threads
      BY Zenon, <2>2 DEF GroupSearch, TypeOK
    <3>2. /\ pc' \in [Threads -> Places] /\ pc'[t] \in {"userSearch", "groupStore"}
      BY Zenon, <2>2 DEF GroupSearch, TypeOK, Places
    <3>3. /\ pending'[t] = GroupSearchResult
          /\ pending' \in [Threads -> SUBSET ((Groups \X SUBSET Roles)
                                              \cup (Users \X UserEntries))]
      BY Zenon, <2>2, SearchTypes DEF GroupSearch, TypeOK
    <3>4. PendingInv'
      BY Zenon, <2>2, <3>2, <3>3, SearchTypes, UpdateFrame, PendingFrame
    <3>5. QED
      BY Zenon, <3>1, <3>2, <3>3, <3>4 DEF TypeOK, Places, dirVars, cacheVars, authVars
  <2>3. CASE GroupStore(t)
    <3>1. PICK e \in pending[t] :
            /\ groups' = [groups EXCEPT ![e[1]] = e[2]]
            /\ pending' = [pending EXCEPT ![t] = @ \ {e}]
            /\ pc' = [pc EXCEPT ![t] = IF pending[t] = {e} THEN "userSearch" ELSE @]
      BY <2>3, Zenon DEF GroupStore
    <3>2. pending[t] \subseteq Groups \X SUBSET Roles /\ e[1] \in Groups
          /\ e[2] \in SUBSET Roles
      BY Zenon, <2>3 DEF GroupStore, PendingInv
    <3>3. groups' \in [Groups -> SUBSET Roles]
      BY Zenon, <3>1, <3>2 DEF TypeOK
    <3>4. /\ UNCHANGED <<dirVars, users, status, call, authVars, current>>
          /\ overtaken' \subseteq Threads /\ synced' \in BOOLEAN
      BY Zenon, <2>3 DEF GroupStore, MarkStore, TypeOK
    <3>5. pc' \in [Threads -> Places] /\ pc'[t] # "userStore"
      BY Zenon, <2>3, <3>1 DEF GroupStore, TypeOK, Places
    <3>6. /\ pending'[t] \subseteq pending[t]
          /\ pending' \in [Threads -> SUBSET ((Groups \X SUBSET Roles)
                                              \cup (Users \X UserEntries))]
      BY ZenonT(60), <3>1 DEF TypeOK
    <3>7. PendingInv'
      BY Zenon, <2>3, <3>2, <3>5, <3>6, UpdateFrame, PendingFrame
    <3>8. QED
      BY Zenon, <3>3, <3>4, <3>5, <3>6, <3>7 DEF TypeOK, Places, dirVars, authVars
  <2>4. CASE UserSearch(t)
    <3>1. /\ UNCHANGED <<dirVars, cacheVars, status, call, authVars, synced>>
          /\ current' \subseteq Threads /\ overtaken' \subseteq Threads
      BY Zenon, <2>4, MarkUserSearchTypes DEF UserSearch, TypeOK
    <3>2. pc' \in [Threads -> Places] /\ pc'[t] = "userStore"
      BY Zenon, <2>4 DEF UserSearch, TypeOK, Places
    <3>3. /\ pending'[t] = UserSearchResult
          /\ pending' \in [Threads -> SUBSET ((Groups \X SUBSET Roles)
                                              \cup (Users \X UserEntries))]
      BY Zenon, <2>4, SearchTypes DEF UserSearch, TypeOK
    <3>4. PendingInv'
      BY Zenon, <2>4, <3>2, <3>3, SearchTypes, UpdateFrame, PendingFrame
    <3>5. QED
      BY Zenon, <3>1, <3>2, <3>3, <3>4 DEF TypeOK, Places, dirVars, cacheVars, authVars
  <2>5. CASE UserSearchEmpty(t)
    <3>1. /\ UNCHANGED <<dirVars, cacheVars, pending>> /\ status' = "serving"
          /\ current' \subseteq Threads /\ overtaken' \subseteq Threads
          /\ synced' \in BOOLEAN /\ Return(t)
      <4>1. current \subseteq Threads /\ overtaken \subseteq Threads
        BY Zenon DEF TypeOK
      <4>2. QED
        BY Zenon, <2>5, <4>1, MarkUserSearchTypes DEF UserSearchEmpty
    <3>2. PendingInv'
      <4>1. pc'[t] \notin {"groupStore", "userStore"}
        BY Zenon, <3>1, ReturnFrame
      <4>2. QED
        BY Zenon, <2>5, <4>1, UpdateFrame, PendingFrame
    <3>3. /\ pc' \in [Threads -> Places] /\ pass' \in [Threads -> 1..2]
          /\ call' \in [Threads -> {"none", "new", "update", "authenticate"}]
          /\ UNCHANGED <<key, must, seen, ret>>
      BY Zenon, <3>1, ReturnFrame
    <3>4. UNCHANGED <<ldapUsers, ldapGroups, changes, listed, users, groups>>
      BY Zenon, <3>1 DEF dirVars, cacheVars
    <3>5. QED
      BY Zenon, <3>1, <3>2, <3>3, <3>4 DEF TypeOK, Places
  <2>6. CASE UserStore(t)
    <3>1. PICK e \in pending[t] :
            /\ users' = [users EXCEPT ![e[1]] = MakeUser(e[2], groups)]
            /\ pending' = [pending EXCEPT ![t] = @ \ {e}]
            /\ \/ Return(t) /\ status' = "serving"
               \/ UNCHANGED <<status, pc, call, authVars>>
      BY <2>6, Zenon DEF UserStore
    <3>2. /\ pending[t] \subseteq Users \X UserEntries /\ pc[t] = "userStore"
          /\ e[1] \in Users /\ e[2] \in UserEntries
      BY Zenon, <2>6 DEF UserStore, PendingInv
    <3>3. users' \in [Users -> {Absent} \cup UserRecord]
      BY Zenon, <3>1, <3>2, MakeUserType DEF TypeOK
    <3>4. /\ UNCHANGED <<dirVars, groups, current>> /\ overtaken' \subseteq Threads
          /\ synced' \in BOOLEAN
      BY Zenon, <2>6 DEF UserStore, MarkStore, TypeOK
    <3>5. /\ pending'[t] \subseteq pending[t]
          /\ pending' \in [Threads -> SUBSET ((Groups \X SUBSET Roles)
                                              \cup (Users \X UserEntries))]
      BY Zenon, <3>1 DEF TypeOK
    <3>6. /\ pc' \in [Threads -> Places] /\ pc'[t] # "groupStore"
          /\ call' \in [Threads -> {"none", "new", "update", "authenticate"}]
          /\ pass' \in [Threads -> 1..2] /\ UNCHANGED <<key, must, seen, ret>>
          /\ status' \in {"booting", "serving", "down"}
      <4>1. CASE Return(t) /\ status' = "serving"
        BY Zenon, <4>1, ReturnFrame
      <4>2. CASE UNCHANGED <<status, pc, call, authVars>>
        BY Zenon, <3>2, <4>2 DEF TypeOK, Places, authVars
      <4>3. QED
        BY Zenon, <3>1, <4>1, <4>2
    <3>7. PendingInv'
      BY Zenon, <2>6, <3>2, <3>5, <3>6, UpdateFrame, PendingFrame
    <3>8. QED
      BY Zenon, <3>3, <3>4, <3>5, <3>6, <3>7 DEF TypeOK, Places, dirVars
  <2>7. CASE Range(t)
    <3>1. /\ UNCHANGED <<dirVars, cacheVars, status, call, pending, key, pass, ret, histVars>>
          /\ pc' \in [Threads -> Places] /\ pc'[t] = "verify"
      BY Zenon, <2>7 DEF Range, TypeOK, Places
    <3>2. must' \in [Threads -> SUBSET Users] /\ seen' \in [Threads -> SUBSET Users]
      BY Zenon, <2>7 DEF Range, Cached, TypeOK
    <3>3. PendingInv'
      BY Zenon, <2>7, <3>1, AuthenticateFrame, PendingFrame
    <3>4. QED
      BY Zenon, <3>1, <3>2, <3>3 DEF TypeOK, Places, dirVars, cacheVars, histVars
  <2>8. CASE Visit(t)
    <3>1. PICK u \in Cached \ seen[t] :
            \/ /\ ret' = [ret EXCEPT ![t] = u]
               /\ pc' = [pc EXCEPT ![t] = "idle"]
               /\ call' = [call EXCEPT ![t] = "none"]
               /\ must' = [must EXCEPT ![t] = {}]
               /\ seen' = [seen EXCEPT ![t] = {}]
            \/ /\ seen' = [seen EXCEPT ![t] = @ \cup {u}]
               /\ UNCHANGED <<ret, pc, call, must>>
      BY Zenon, <2>8 DEF Visit
    <3>2. /\ UNCHANGED <<dirVars, cacheVars, status, pending, key, pass, histVars>>
          /\ pc[t] = "verify" /\ u \in Users
      BY Zenon, <2>8, <3>1 DEF Visit, Cached
    <3>3. /\ pc' \in [Threads -> Places] /\ pc'[t] \in {"idle", "verify"}
          /\ call' \in [Threads -> {"none", "new", "update", "authenticate"}]
      <4>1. /\ pc \in [Threads -> Places]
            /\ call \in [Threads -> {"none", "new", "update", "authenticate"}]
            /\ "idle" \in Places
        BY Zenon DEF TypeOK, Places
      <4>2. QED
        BY ZenonT(60), <3>1, <3>2, <4>1
    <3>t. /\ ret \in [Threads -> Users \cup {Absent}] /\ must \in [Threads -> SUBSET Users]
          /\ seen \in [Threads -> SUBSET Users]
      BY Zenon DEF TypeOK
    <3>4. ret' \in [Threads -> Users \cup {Absent}] /\ must' \in [Threads -> SUBSET Users]
      <4>1. ret' = ret \/ ret' = [ret EXCEPT ![t] = u]
        BY Zenon, <3>1
      <4>2. must' = must \/ must' = [must EXCEPT ![t] = {}]
        BY Zenon, <3>1
      <4>3. QED
        <5>1. ret' \in [Threads -> Users \cup {Absent}]
          BY Zenon, <3>2, <3>t, <4>1
        <5>2. must' \in [Threads -> SUBSET Users]
          BY Zenon, <3>t, <4>2
        <5>3. QED
          BY Zenon, <5>1, <5>2
    <3>5. seen' \in [Threads -> SUBSET Users]
      <4>1. seen[t] \cup {u} \in SUBSET Users /\ {} \in SUBSET Users
        BY Zenon, <3>2, <3>t
      <4>2. seen' = [seen EXCEPT ![t] = {}] \/ seen' = [seen EXCEPT ![t] = seen[t] \cup {u}]
        BY Zenon, <3>1
      <4>3. QED
        BY Zenon, <3>t, <4>1, <4>2
    <3>6. PendingInv'
      BY Zenon, <2>8, <3>3, AuthenticateFrame, PendingFrame
    <3>7. QED
      BY Zenon, <3>2, <3>3, <3>4, <3>5, <3>6 DEF TypeOK, Places, dirVars, cacheVars, histVars
  <2>9. CASE Miss(t)
    <3>1. UNCHANGED <<dirVars, cacheVars, status, pending, key, pass, ret, histVars>>
      BY Zenon, <2>9 DEF Miss
    <3>2. PICK p \in {"idle", UpdateStart}, k \in {"none", call[t]} :
             pc' = [pc EXCEPT ![t] = p] /\ call' = [call EXCEPT ![t] = k]
      BY Zenon, <2>9 DEF Miss
    <3>3. p \in {"idle", "groupSearch", "userSearch"}
      BY Zenon, <3>2 DEF UpdateStart
    <3>4. /\ pc' \in [Threads -> Places] /\ pc'[t] = p
          /\ call' \in [Threads -> {"none", "new", "update", "authenticate"}]
      BY Zenon, <3>2, <3>3 DEF TypeOK, Places
    <3>5. must' \in [Threads -> SUBSET Users] /\ seen' \in [Threads -> SUBSET Users]
      BY Zenon, <2>9 DEF Miss, TypeOK
    <3>6. PendingInv'
      BY Zenon, <2>9, <3>3, <3>4, AuthenticateFrame, PendingFrame
    <3>7. QED
      BY Zenon, <3>1, <3>4, <3>5, <3>6 DEF TypeOK, Places, dirVars, cacheVars, histVars
  <2>10. QED
    BY Zenon, <1>4, <2>1, <2>2, <2>3, <2>4, <2>5, <2>6, <2>7, <2>8, <2>9 DEF Step
<1>5. CASE MapFault
  BY Zenon, <1>5 DEF MapFault, TypeOK, PendingInv, dirVars, cacheVars, authVars, histVars
<1>6. CASE Restart
  <2>1. pass' \in [Threads -> 1..2]
    BY <1>6 DEF Restart
  <2>2. QED
    BY <1>6, <2>1, Zenon DEF Restart, UpdateStart, TypeOK, PendingInv, dirVars
<1>7. CASE UNCHANGED vars
  BY Zenon, <1>7 DEF vars, dirVars, cacheVars, authVars, histVars, TypeOK, PendingInv
<1>8. QED
  BY Zenon, <1>1, <1>2, <1>3, <1>4, <1>5, <1>6, <1>7 DEF Next

\* The cache, the goroutines' variables and the history keep their types.
THEOREM TypeCorrect == Spec => []TypeOK
<1>1. Spec => []TypeInv
  BY InitTypeInv, TypeStep, PTL DEF Spec
<1>2. QED
  BY <1>1, PTL DEF TypeInv
-----------------------------------------------------------------------------
(* Every key on its way from LDAP to the result of Authenticate is a key     *)
(* that LDAP has listed for the same user.                                   *)

KeyInv ==
    /\ \A u \in Users : \A k \in ListedKeys(u) : <<u, k>> \in listed
    /\ \A t \in Threads : pc[t] = "userStore" =>
           \A e \in pending[t] : \A k \in ParsedKeys(e[2].keys) : <<e[1], k>> \in listed
    /\ \A u \in Users : users[u] # Absent =>
           \A k \in users[u].keys : <<u, k>> \in listed
    /\ AuthenticatedOwnsKey

LEMMA MakeUserKeys ==
    ASSUME NEW e, NEW rs
    PROVE  MakeUser(e, rs).keys = ParsedKeys(e.keys)
  BY Zenon DEF MakeUser

LEMMA ParsedKeysType ==
    ASSUME NEW e \in UserEntries
    PROVE  ParsedKeys(e.keys) \subseteq Keys
<1>1. e.keys \subseteq RawKeys
  BY Zenon, UserCacheAssumption
<1>2. QED
  BY Zenon, <1>1, UserCacheAssumption DEF ParsedKeys

LEMMA InitKeyInv == Init => KeyInv
<1> SUFFICES ASSUME Init PROVE KeyInv
  OBVIOUS
<1>1. TypeOK
  BY Zenon, InitTypeInv DEF TypeInv
<1>2. \A u \in Users : \A k \in ListedKeys(u) : <<u, k>> \in listed
  BY Zenon, <1>1, ParsedKeysType DEF Init, ListedKeys, TypeOK
<1>3. QED
  BY Zenon, <1>2, UserCacheAssumption DEF Init, NewLDAPUserCache, UpdateStart, KeyInv,
     AuthenticatedOwnsKey

\* A goroutine begins no store and returns no other user.
Quiet(s) ==
    /\ pc'[s] = "userStore" => pc[s] = "userStore" /\ pending'[s] \subseteq pending[s]
    /\ ret'[s] = Absent \/ (ret'[s] = ret[s] /\ key'[s] = key[s])

\* A step that changes no entry and no cached user keeps KeyInv if every
\* goroutine is quiet in it.
LEMMA QuietKeys ==
    ASSUME KeyInv, UNCHANGED <<ldapUsers, users, listed>>,
           \A s \in Threads : Quiet(s)
    PROVE  KeyInv'
<1>1. \A u \in Users : ListedKeys(u)' = ListedKeys(u)
  BY Zenon DEF ListedKeys
<1>2. AuthenticatedOwnsKey'
  BY Zenon DEF KeyInv, AuthenticatedOwnsKey, Quiet
<1>3. \A s \in Threads : pc'[s] = "userStore" =>
          \A e \in pending'[s] : \A k \in ParsedKeys(e[2].keys) : <<e[1], k>> \in listed'
  BY Zenon DEF KeyInv, Quiet
<1>4. QED
  BY Zenon, <1>1, <1>2, <1>3 DEF KeyInv

LEMMA KeyStep ==
    ASSUME TypeInv, TypeInv', KeyInv, [Next]_vars
    PROVE  KeyInv'
<1> USE UserCacheAssumption DEF TypeInv
<1>1. CASE DirectoryChange
  <2>1. listed' = listed \cup {p \in Users \X Keys : p[2] \in ListedKeys(p[1])'}
    BY Zenon, <1>1 DEF DirectoryChange
  <2>2. \A u \in Users : ListedKeys(u)' \subseteq Keys
    BY Zenon, ParsedKeysType DEF ListedKeys, TypeOK
  <2>3. \A u \in Users : \A k \in ListedKeys(u)' : <<u, k>> \in listed'
    BY Zenon, <2>1, <2>2
  <2>4. QED
    BY Zenon, <1>1, <2>1, <2>3 DEF DirectoryChange, KeyInv, AuthenticatedOwnsKey, cacheVars,
       authVars
<1>2. ASSUME NEW t \in Threads, CallUpdate(t) PROVE KeyInv'
  <2>1. UNCHANGED <<ldapUsers, users, listed>>
    BY Zenon, <1>2 DEF CallUpdate, dirVars, cacheVars
  <2>2. \A s \in Threads : Quiet(s)
    BY Zenon, <1>2 DEF CallUpdate, UpdateStart, TypeOK, authVars, Quiet
  <2>3. QED
    BY Zenon, <2>1, <2>2, QuietKeys
<1>3. ASSUME NEW t \in Threads, NEW k \in Keys, CallAuthenticate(t, k)
      PROVE  KeyInv'
  <2>1. UNCHANGED <<ldapUsers, users, listed>>
    BY Zenon, <1>3 DEF CallAuthenticate, dirVars, cacheVars
  <2>2. \A s \in Threads : Quiet(s)
    BY ZenonT(60), <1>3 DEF CallAuthenticate, TypeOK, authVars, Quiet
  <2>3. QED
    BY Zenon, <2>1, <2>2, QuietKeys
<1>4. ASSUME NEW t \in Threads, Step(t) PROVE KeyInv'
  <2>1. CASE SearchFails(t)
    <3>1. UNCHANGED <<ldapUsers, users, listed>>
      BY Zenon, <2>1 DEF SearchFails, dirVars, cacheVars
    <3>2. \A s \in Threads : Quiet(s)
      BY Zenon, <2>1, ReturnFrame DEF SearchFails, Quiet
    <3>3. QED
      BY Zenon, <3>1, <3>2, QuietKeys
  <2>2. CASE GroupSearch(t)
    <3>1. UNCHANGED <<ldapUsers, users, listed>>
      BY Zenon, <2>2 DEF GroupSearch, dirVars, cacheVars
    <3>2. \A s \in Threads : Quiet(s)
      BY Zenon, <2>2 DEF GroupSearch, TypeOK, authVars, Quiet
    <3>3. QED
      BY Zenon, <3>1, <3>2, QuietKeys
  <2>3. CASE GroupStore(t)
    <3>1. UNCHANGED <<ldapUsers, users, listed>>
      BY Zenon, <2>3 DEF GroupStore, dirVars
    <3>2. \A s \in Threads : Quiet(s)
      <4>1. UNCHANGED <<key, ret>> /\ pc[t] = "groupStore" /\ OthersKeep(t)
        BY Zenon, <2>3, UpdateFrame DEF GroupStore, authVars
      <4>2. pc'[t] \in {"groupStore", "userSearch"}
        <5>1. PICK e \in pending[t] :
                pc' = [pc EXCEPT ![t] = IF pending[t] = {e} THEN "userSearch" ELSE @]
          BY Zenon, <2>3 DEF GroupStore
        <5>2. pc \in [Threads -> Places]
          BY Zenon DEF TypeOK, Places
        <5>3. QED
          BY Zenon, <4>1, <5>1, <5>2
      <4>3. QED
        BY Zenon, <4>1, <4>2 DEF OthersKeep, Quiet
    <3>3. QED
      BY Zenon, <3>1, <3>2, QuietKeys
  <2>4. CASE UserSearch(t)
    <3>1. \A e \in UserSearchResult : \A k \in ParsedKeys(e[2].keys) :
            <<e[1], k>> \in listed
      <4> SUFFICES ASSUME NEW u \in Users, HasKey(u),
                          NEW k \in ParsedKeys(ldapUsers[u].keys)
                   PROVE  <<u, k>> \in listed
        BY DEF UserSearchResult
      <4> QED
        BY Zenon DEF KeyInv, ListedKeys, HasKey
    <3>2. QED
      BY ZenonT(60), <2>4, <3>1 DEF UserSearch, TypeOK, KeyInv, AuthenticatedOwnsKey, ListedKeys,
         dirVars, cacheVars, authVars
  <2>5. CASE UserSearchEmpty(t)
    <3>1. UNCHANGED <<ldapUsers, users, listed>>
      BY Zenon, <2>5 DEF UserSearchEmpty, dirVars, cacheVars
    <3>2. \A s \in Threads : Quiet(s)
      BY Zenon, <2>5, ReturnFrame DEF UserSearchEmpty, Quiet
    <3>3. QED
      BY Zenon, <3>1, <3>2, QuietKeys
  <2>6. CASE UserStore(t)
    <3>1. PICK e \in pending[t] :
            /\ users' = [users EXCEPT ![e[1]] = MakeUser(e[2], groups)]
            /\ pending' = [pending EXCEPT ![t] = @ \ {e}]
            /\ \/ Return(t)
               \/ UNCHANGED <<status, pc, call, authVars>>
      BY <2>6, Zenon DEF UserStore
    <3>2. e[1] \in Users /\ e[2] \in UserEntries
      BY Zenon, <2>6 DEF UserStore, PendingInv
    <3>3. \A u \in Users : users'[u] # Absent =>
            \A k \in users'[u].keys : <<u, k>> \in listed
      <4> DEFINE v == e[1]
      <4>1. users'[v] = MakeUser(e[2], groups) /\ \A u \in Users \ {v} : users'[u] = users[u]
        BY ZenonT(60), <3>1, <3>2 DEF TypeOK
      <4>2. \A k \in ParsedKeys(e[2].keys) : <<v, k>> \in listed
        BY Zenon, <2>6 DEF UserStore, KeyInv
      <4>3. QED
        <5> HIDE DEF v
        <5>1. \A k \in users'[v].keys : <<v, k>> \in listed
          <6>1. MakeUser(e[2], groups).keys = ParsedKeys(e[2].keys)
            BY Zenon, MakeUserKeys
          <6>2. QED
            BY Zenon, <4>1, <4>2, <6>1
        <5>2. \A u \in Users : users[u] # Absent => \A k \in users[u].keys : <<u, k>> \in listed
          BY Zenon DEF KeyInv
        <5>3. QED
          BY Zenon, <4>1, <5>1, <5>2
    <3>4. UNCHANGED <<ldapUsers, listed, key, ret>>
      <4>1. UNCHANGED <<key, ret>>
        BY Zenon, <3>1, ReturnFrame DEF authVars
      <4>2. QED
        BY Zenon, <2>6, <4>1 DEF UserStore, dirVars
    <3>5. \A s \in Threads : pc'[s] = "userStore" =>
             pc[s] = "userStore" /\ pending'[s] \subseteq pending[s]
      <4>1. OthersKeep(t) /\ pc[t] = "userStore"
        BY Zenon, <2>6, UpdateFrame DEF UserStore
      <4>2. pending'[t] \subseteq pending[t]
        BY Zenon, <3>1 DEF TypeOK
      <4>3. QED
        BY Zenon, <4>1, <4>2 DEF OthersKeep
    <3>6. \A u \in Users : ListedKeys(u)' = ListedKeys(u)
      BY Zenon, <3>4 DEF ListedKeys
    <3>7. QED
      BY Zenon, <3>3, <3>4, <3>5, <3>6 DEF KeyInv, AuthenticatedOwnsKey
  <2>7. CASE Range(t)
    <3>1. UNCHANGED <<ldapUsers, users, listed>>
      BY Zenon, <2>7 DEF Range, dirVars, cacheVars
    <3>2. \A s \in Threads : Quiet(s)
      BY Zenon, <2>7 DEF Range, TypeOK, authVars, Quiet
    <3>3. QED
      BY Zenon, <3>1, <3>2, QuietKeys
  <2>8. CASE Visit(t)
    <3>1. PICK u \in Cached \ seen[t] :
            \/ /\ key[t] \in users[u].keys
               /\ ret' = [ret EXCEPT ![t] = u]
               /\ pc' = [pc EXCEPT ![t] = "idle"]
            \/ UNCHANGED <<ret, pc>>
      BY Zenon, <2>8 DEF Visit
    <3>2. AuthenticatedOwnsKey'
      <4>1. UNCHANGED <<key, listed>> /\ u \in Users /\ users[u] # Absent
        BY Zenon, <2>8, <3>1 DEF Visit, Cached, dirVars
      <4>2. CASE key[t] \in users[u].keys /\ ret' = [ret EXCEPT ![t] = u]
        <5>1. <<u, key[t]>> \in listed
          BY Zenon, <4>1, <4>2 DEF KeyInv
        <5>2. ret'[t] = u /\ \A s \in Threads \ {t} : ret'[s] = ret[s]
          BY Zenon, <4>2 DEF TypeOK
        <5>3. QED
          BY Zenon, <4>1, <5>1, <5>2 DEF KeyInv, AuthenticatedOwnsKey
      <4>3. CASE UNCHANGED ret
        BY Zenon, <4>1, <4>3 DEF KeyInv, AuthenticatedOwnsKey
      <4>4. QED
        BY Zenon, <3>1, <4>2, <4>3
    <3>3. UNCHANGED <<ldapUsers, users, listed, pending>>
      BY Zenon, <2>8 DEF Visit, dirVars, cacheVars
    <3>4. \A s \in Threads : pc'[s] = "userStore" => pc[s] = "userStore"
      <4>1. pc \in [Threads -> Places] /\ "idle" \in Places
        BY Zenon DEF TypeOK, Places
      <4>2. CASE pc' = [pc EXCEPT ![t] = "idle"]
        BY Zenon, <4>1, <4>2
      <4>3. QED
        BY Zenon, <3>1, <4>2
    <3>5. \A v \in Users : ListedKeys(v)' = ListedKeys(v)
      BY Zenon, <3>3 DEF ListedKeys
    <3>6. QED
      BY Zenon, <3>2, <3>3, <3>4, <3>5 DEF KeyInv
  <2>9. CASE Miss(t)
    <3>1. UNCHANGED <<ldapUsers, users, listed>>
      BY Zenon, <2>9 DEF Miss, dirVars, cacheVars
    <3>2. \A s \in Threads : Quiet(s)
      BY ZenonT(60), <2>9 DEF Miss, UpdateStart, TypeOK, authVars, Quiet
    <3>3. QED
      BY Zenon, <3>1, <3>2, QuietKeys
  <2>10. QED
    BY Zenon, <1>4, <2>1, <2>2, <2>3, <2>4, <2>5, <2>6, <2>7, <2>8, <2>9 DEF Step
<1>5. CASE MapFault
  BY Zenon, <1>5 DEF MapFault, KeyInv, AuthenticatedOwnsKey, ListedKeys, dirVars, cacheVars,
     authVars
<1>6. CASE Restart
  BY Zenon, <1>6 DEF Restart, UpdateStart, KeyInv, AuthenticatedOwnsKey, ListedKeys, dirVars
<1>7. CASE UNCHANGED vars
  BY Zenon, <1>7 DEF vars, dirVars, cacheVars, authVars, KeyInv, AuthenticatedOwnsKey,
     ListedKeys
<1>8. QED
  BY Zenon, <1>1, <1>2, <1>3, <1>4, <1>5, <1>6, <1>7 DEF Next

\* Authenticate returns a user only for a key that LDAP has listed for that
\* user, whatever other goroutines store while _verify runs.
THEOREM AuthenticationSound == Spec => []AuthenticatedOwnsKey
<1>1. Spec => []TypeInv
  BY InitTypeInv, TypeStep, PTL DEF Spec
<1>2. Spec => []KeyInv
  BY <1>1, InitKeyInv, KeyStep, PTL DEF Spec
<1>3. QED
  BY <1>2, PTL DEF KeyInv
-----------------------------------------------------------------------------
(* A goroutine whose results are fresh brings the cache in sync with LDAP    *)
(* and, in Authenticate, looks at every user LDAP has.                       *)

GroupDone(g) == ldapGroups[g] # Absent => groups[g] = ldapGroups[g]

AllInSync == \A u \in Users : HasKey(u) => InSync(u)

\* How far a goroutine with fresh results has come.
Progress(t) ==
    /\ pc[t] = "groupStore" =>
           /\ pending[t] \subseteq GroupSearchResult
           /\ \A g \in Groups : GroupDone(g) \/ <<g, ldapGroups[g]>> \in pending[t]
    /\ (EnableLDAPRoles /\ pc[t] \in {"userSearch", "userStore"}) =>
           \A g \in Groups : GroupDone(g)
    /\ pc[t] = "userStore" =>
           /\ pending[t] \subseteq UserSearchResult
           /\ \A u \in Users : HasKey(u) =>
                  InSync(u) \/ <<u, ldapUsers[u]>> \in pending[t]
    /\ (pc[t] \in {"range", "verify"} /\ pass[t] = 2) => AllInSync
    /\ (pc[t] = "verify" /\ pass[t] = 2) =>
           \A u \in Users : HasKey(u) =>
               u \in must[t] /\ (u \in seen[t] => key[t] \notin ListedKeys(u))
    /\ TurnedAway(t) => \A u \in Users : key[t] \notin ListedKeys(u)

\* The method a goroutine is in, told from where it is.
ControlInv ==
    \A t \in Threads :
        /\ call[t] \in {"new", "update"} => pass[t] = 1
        /\ pc[t] \in {"range", "verify"} => call[t] = "authenticate"
        /\ pc[t] = "idle" <=> call[t] = "none"

SyncInv ==
    /\ DirectoryConsistent(ldapUsers, ldapGroups)
    /\ ControlInv
    /\ UpdateComplete
    /\ \A t \in Fresh : Progress(t)

\* Update returns to an Authenticate that has not answered, or to no Authenticate.
LEMMA ReturnNotTurnedAway ==
    ASSUME TypeOK, ControlInv, NEW t \in Threads, pc[t] # "idle", Return(t)
    PROVE  ~TurnedAway(t)'
<1>1. CASE call[t] = "authenticate"
  BY Zenon, <1>1, ReturnFrame DEF TurnedAway
<1>2. CASE call[t] # "authenticate"
  <2>1. pass[t] = 1
    BY Zenon, <1>2 DEF ControlInv, TypeOK
  <2>2. pass'[t] = pass[t]
    BY Zenon, <1>2 DEF Return, TypeOK
  <2>3. QED
    BY Zenon, <2>1, <2>2, Passes DEF TurnedAway
<1>3. QED
  BY Zenon, <1>1, <1>2

\* What an entry gives is the same from the cached groups as from LDAP's, once
\* the groups that the entry names are cached.
LEMMA MakeUserAgrees ==
    ASSUME NEW e, NEW rs, NEW qs,
           EnableLDAPRoles => \A g \in e.memberOf : rs[g] = qs[g]
    PROVE  MakeUser(e, rs) = MakeUser(e, qs)
<1>1. CASE EnableLDAPRoles
  <2>1. {rs[g] : g \in e.memberOf} = {qs[g] : g \in e.memberOf}
    BY Zenon, <1>1
  <2>2. QED
    BY Zenon, <2>1 DEF MakeUser
<1>2. CASE ~EnableLDAPRoles
  BY Zenon, <1>2 DEF MakeUser
<1>3. QED
  BY Zenon, <1>1, <1>2

\* A user without a key has no listed key.
LEMMA NoKeyNotListed ==
    ASSUME NEW u \in Users, ~HasKey(u)
    PROVE  ListedKeys(u) = {}
  BY Zenon DEF HasKey, ListedKeys, ParsedKeys

\* Steps of others leave a goroutine where it is, as long as they do not undo
\* what is in sync.
LEMMA OthersKeepProgress ==
    ASSUME NEW t \in Threads, Progress(t),
           UNCHANGED <<ldapUsers, ldapGroups>>,
           \A g \in Groups : GroupDone(g) => GroupDone(g)',
           \A u \in Users : HasKey(u) /\ InSync(u) => InSync(u)',
           pc'[t] = pc[t], call'[t] = call[t], pending'[t] = pending[t],
           key'[t] = key[t], pass'[t] = pass[t], must'[t] = must[t],
           seen'[t] = seen[t], ret'[t] = ret[t]
    PROVE  Progress(t)'
<1>1. /\ GroupSearchResult' = GroupSearchResult
      /\ UserSearchResult' = UserSearchResult
      /\ \A u \in Users : HasKey(u)' = HasKey(u) /\ ListedKeys(u)' = ListedKeys(u)
  BY Zenon DEF GroupSearchResult, UserSearchResult, HasKey, ListedKeys
<1>2. AllInSync => AllInSync'
  BY Zenon, <1>1 DEF AllInSync
<1>3. TurnedAway(t)' = TurnedAway(t)
  BY Zenon DEF TurnedAway
<1>4. QED
  BY Zenon, <1>1, <1>2, <1>3 DEF Progress

\* The directory stays consistent: DirectoryChange says so, nothing else writes it.
LEMMA ConsistentStep ==
    ASSUME DirectoryConsistent(ldapUsers, ldapGroups), [Next]_vars
    PROVE  DirectoryConsistent(ldapUsers, ldapGroups)'
<1>1. CASE DirectoryChange
  BY Zenon, <1>1 DEF DirectoryChange, DirectoryConsistent
<1>2. CASE UNCHANGED <<ldapUsers, ldapGroups>>
  BY Zenon, <1>2 DEF DirectoryConsistent
<1>3. QED
  BY Zenon, <1>1, <1>2 DEF Next, Step, CallUpdate, CallAuthenticate, SearchFails, GroupSearch,
     GroupStore, UserSearch, UserSearchEmpty, UserStore, Range, Visit, Miss, MapFault,
     Restart, vars, dirVars

LEMMA ControlStep ==
    ASSUME TypeInv, ControlInv, [Next]_vars
    PROVE  ControlInv'
<1> USE UserCacheAssumption DEF TypeInv, TypeOK
<1>1. CASE DirectoryChange
  BY Zenon, <1>1 DEF DirectoryChange, ControlInv, authVars
<1>2. ASSUME NEW t \in Threads, CallUpdate(t) PROVE ControlInv'
  BY Zenon, <1>2 DEF CallUpdate, UpdateStart, ControlInv
<1>3. ASSUME NEW t \in Threads, NEW k \in Keys, CallAuthenticate(t, k)
      PROVE  ControlInv'
  BY Zenon, <1>3 DEF CallAuthenticate, ControlInv
<1>4. ASSUME NEW t \in Threads, Step(t) PROVE ControlInv'
  <2>1. CASE SearchFails(t)
    BY Zenon, <2>1 DEF SearchFails, Return, ControlInv
  <2>2. CASE GroupSearch(t)
    BY Zenon, <2>2 DEF GroupSearch, ControlInv, authVars
  <2>3. CASE GroupStore(t)
    BY ZenonT(60), <2>3 DEF GroupStore, ControlInv, authVars
  <2>4. CASE UserSearch(t)
    BY Zenon, <2>4 DEF UserSearch, ControlInv, authVars
  <2>5. CASE UserSearchEmpty(t)
    BY Zenon, <2>5 DEF UserSearchEmpty, Return, ControlInv
  <2>6. CASE UserStore(t)
    BY <2>6 DEF UserStore, Return, ControlInv, authVars
  <2>7. CASE Range(t)
    BY Zenon, <2>7 DEF Range, ControlInv
  <2>8. CASE Visit(t)
    BY <2>8 DEF Visit, ControlInv
  <2>9. CASE Miss(t)
    BY Zenon, <2>9 DEF Miss, UpdateStart, ControlInv
  <2>10. QED
    BY Zenon, <1>4, <2>1, <2>2, <2>3, <2>4, <2>5, <2>6, <2>7, <2>8, <2>9 DEF Step
<1>5. CASE MapFault
  BY Zenon, <1>5 DEF MapFault, ControlInv, authVars
<1>6. CASE Restart
  BY Zenon, <1>6 DEF Restart, UpdateStart, ControlInv
<1>7. CASE UNCHANGED vars
  BY Zenon, <1>7 DEF vars, authVars, ControlInv
<1>8. QED
  BY Zenon, <1>1, <1>2, <1>3, <1>4, <1>5, <1>6, <1>7 DEF Next

\* A goroutine with fresh results stores only what LDAP has.
LEMMA FreshUserStore ==
    ASSUME TypeInv, SyncInv, NEW t \in Fresh, pc[t] = "userStore",
           NEW e \in pending[t],
           users' = [users EXCEPT ![e[1]] = MakeUser(e[2], groups)],
           UNCHANGED <<ldapUsers, ldapGroups>>
    PROVE  /\ e[1] \in Users /\ HasKey(e[1]) /\ e = <<e[1], ldapUsers[e[1]]>>
           /\ InSync(e[1])'
           /\ \A u \in Users : HasKey(u) /\ InSync(u) => InSync(u)'
<1>1. t \in Threads
  BY Zenon DEF Fresh, TypeInv, TypeOK
<1>2. PICK v \in Users : HasKey(v) /\ e = <<v, ldapUsers[v]>>
  BY Zenon DEF SyncInv, Progress, UserSearchResult
<1>3. e[1] = v /\ e[2] = ldapUsers[v]
  BY Zenon, <1>2
<1> DEFINE rs == [g \in Groups |-> IF ldapGroups[g] = Absent THEN {} ELSE ldapGroups[g]]
<1>4. ldapUsers[v].memberOf \subseteq Groups
  BY SMTT(30), <1>2, UserCacheAssumption DEF HasKey, TypeInv, TypeOK
<1>5. EnableLDAPRoles => \A g \in ldapUsers[v].memberOf : groups[g] = rs[g]
  BY Zenon, <1>2, <1>4 DEF SyncInv, Progress, GroupDone, DirectoryConsistent, HasKey
<1>6. MakeUser(ldapUsers[v], groups) = MakeUser(ldapUsers[v], rs)
  BY Zenon, <1>5, MakeUserAgrees
<1>7. users'[v] = MakeUser(ldapUsers[v], rs)
  BY Zenon, <1>3, <1>6 DEF TypeInv, TypeOK
<1>8. InSync(v)'
  BY Zenon, <1>7 DEF InSync
<1>9. ASSUME NEW u \in Users, InSync(u), u # v PROVE InSync(u)'
  <2>1. users'[u] = users[u]
    BY Zenon, <1>3, <1>9 DEF TypeInv, TypeOK
  <2>2. QED
    BY Zenon, <1>9, <2>1 DEF InSync
<1>10. QED
  BY Zenon, <1>2, <1>3, <1>8, <1>9
-----------------------------------------------------------------------------
(* The group phase of Update, and the failure of a search. *)

\* A goroutine with fresh results that stores a group keeps what is in sync.
LEMMA FreshGroupStoreStep ==
    ASSUME TypeInv, SyncInv, NEW t \in Threads, t \in Fresh, GroupStore(t)
    PROVE  UpdateComplete' /\ \A u \in Fresh' : Progress(u)'
<1> USE UserCacheAssumption DEF TypeInv
<1>0. /\ UNCHANGED <<ldapUsers, ldapGroups>>
      /\ \A u \in Threads \ {t} :
            /\ pc'[u] = pc[u] /\ call'[u] = call[u] /\ pending'[u] = pending[u]
            /\ key'[u] = key[u] /\ pass'[u] = pass[u] /\ must'[u] = must[u]
            /\ seen'[u] = seen[u] /\ ret'[u] = ret[u]
  BY Zenon, UpdateFrame DEF OthersKeep
<1>1. Fresh' = Fresh /\ UNCHANGED users /\ (synced' => synced)
  BY Zenon DEF GroupStore, MarkStore, Fresh
<1>2. PICK e \in pending[t] :
        /\ groups' = [groups EXCEPT ![e[1]] = e[2]]
        /\ pending' = [pending EXCEPT ![t] = @ \ {e}]
        /\ pc' = [pc EXCEPT ![t] = IF pending[t] = {e} THEN "userSearch" ELSE @]
  BY Zenon DEF GroupStore
<1>p. /\ pending[t] \subseteq GroupSearchResult
      /\ \A g \in Groups : GroupDone(g) \/ <<g, ldapGroups[g]>> \in pending[t]
      /\ pending'[t] = pending[t] \ {e}
  BY ZenonT(60), <1>2 DEF GroupStore, SyncInv, Progress, TypeOK
<1>3. PICK h \in Groups : ldapGroups[h] # Absent /\ e = <<h, ldapGroups[h]>>
  BY Zenon, <1>2, <1>p DEF GroupSearchResult
<1>4. \A g \in Groups : (GroupDone(g) => GroupDone(g)') /\ GroupDone(h)'
  BY Zenon, <1>0, <1>2, <1>3 DEF GroupDone, TypeOK
<1>5. UpdateComplete'
  BY Zenon, <1>0, <1>1 DEF SyncInv, UpdateComplete, HasKey, InSync
<1>6. \A u \in Fresh' \ {t} : Progress(u)'
  BY ZenonT(60), <1>0, <1>1, <1>4, OthersKeepProgress DEF SyncInv, InSync, Fresh, TypeOK
<1>7. GroupSearchResult' = GroupSearchResult
  BY Zenon, <1>0 DEF GroupSearchResult
<1>8. \A g \in Groups : GroupDone(g)' \/ <<g, ldapGroups'[g]>> \in pending'[t]
  <2> SUFFICES ASSUME NEW g \in Groups
               PROVE  GroupDone(g)' \/ <<g, ldapGroups'[g]>> \in pending'[t]
    BY Zenon
  <2>1. CASE <<g, ldapGroups[g]>> = e
    BY Zenon, <1>3, <1>4, <2>1, SamePair
  <2>2. CASE <<g, ldapGroups[g]>> # e
    BY Zenon, <1>0, <1>p, <1>4, <2>2
  <2>3. QED
    BY Zenon, <2>1, <2>2
<1>9. pending'[t] \subseteq GroupSearchResult'
  BY Zenon, <1>p, <1>7
<1>10. \/ pc'[t] = "groupStore"
       \/ pc'[t] = "userSearch" /\ \A g \in Groups : GroupDone(g)'
  BY <1>2, <1>8, ZenonT(60) DEF GroupStore, TypeOK
<1>11. ~TurnedAway(t)'
  BY Zenon DEF GroupStore, SyncInv, ControlInv, TurnedAway
<1>12. Progress(t)'
  BY Zenon, <1>8, <1>9, <1>10, <1>11 DEF Progress
<1>13. QED
  BY Zenon, <1>5, <1>6, <1>12

\* The failure of a search and the loop over the groups keep UpdateComplete and
\* the progress of fresh goroutines.
LEMMA GroupPhaseStep ==
    ASSUME TypeInv, SyncInv, NEW t \in Threads,
           SearchFails(t) \/ GroupSearch(t) \/ GroupStore(t)
    PROVE  UpdateComplete' /\ \A u \in Fresh' : Progress(u)'
<1> USE UserCacheAssumption DEF TypeInv
<1>0. /\ UNCHANGED <<ldapUsers, ldapGroups>>
      /\ \A u \in Threads \ {t} :
            /\ pc'[u] = pc[u] /\ call'[u] = call[u] /\ pending'[u] = pending[u]
            /\ key'[u] = key[u] /\ pass'[u] = pass[u] /\ must'[u] = must[u]
            /\ seen'[u] = seen[u] /\ ret'[u] = ret[u]
  BY Zenon, UpdateFrame DEF OthersKeep
<1>1. CASE SearchFails(t)
  <2>1. Fresh' = Fresh \ {t} /\ UNCHANGED <<users, groups, synced>>
    BY Zenon, <1>1 DEF SearchFails, Fresh, cacheVars
  <2>2. UpdateComplete'
    BY Zenon, <1>0, <2>1 DEF SyncInv, UpdateComplete, HasKey, InSync
  <2>3. \A u \in Fresh' : Progress(u)'
    BY Zenon, <1>0, <2>1, OthersKeepProgress DEF SyncInv, GroupDone, InSync, Fresh, TypeOK
  <2>4. QED
    BY Zenon, <2>2, <2>3
<1>2. CASE GroupSearch(t)
  <2>1. Fresh' = Fresh \cup {t} /\ UNCHANGED <<users, groups, synced>>
    BY Zenon, <1>2 DEF GroupSearch, Fresh, cacheVars
  <2>2. UpdateComplete'
    BY Zenon, <1>0, <2>1 DEF SyncInv, UpdateComplete, HasKey, InSync
  <2>3. \A u \in Fresh' \ {t} : Progress(u)'
    BY ZenonT(60), <1>0, <2>1, OthersKeepProgress DEF SyncInv, GroupDone, InSync, Fresh, TypeOK
  <2>4. GroupSearchResult' = GroupSearchResult
    BY Zenon, <1>0 DEF GroupSearchResult
  <2>5. /\ pending'[t] = GroupSearchResult
        /\ pc'[t] = IF GroupSearchResult = {} THEN "userSearch" ELSE "groupStore"
    BY Zenon, <1>2 DEF GroupSearch, TypeOK
  <2>6. \A g \in Groups : GroupDone(g)' \/ <<g, ldapGroups'[g]>> \in GroupSearchResult'
    BY Zenon DEF GroupSearchResult, GroupDone
  <2>7. GroupSearchResult = {} => \A g \in Groups : GroupDone(g)'
    BY Zenon, <2>4, <2>6
  <2>8. ~TurnedAway(t)'
    BY Zenon, <1>2 DEF GroupSearch, SyncInv, ControlInv, TurnedAway
  <2>9. Progress(t)'
    BY Zenon, <2>4, <2>5, <2>6, <2>7, <2>8 DEF Progress
  <2>10. QED
    BY Zenon, <2>1, <2>2, <2>3, <2>9
<1>3. CASE GroupStore(t)
  <2>1. CASE t \notin Fresh
    <3>1. Fresh' = {} /\ synced' = FALSE
      BY <1>3, <2>1, Zenon DEF GroupStore, MarkStore, Fresh, TypeOK
    <3>2. QED
      BY Zenon, <3>1 DEF UpdateComplete
  <2>2. CASE t \in Fresh
    BY Zenon, <1>3, <2>2, FreshGroupStoreStep
  <2>3. QED
    BY Zenon, <2>1, <2>2
<1>4. QED
  BY Zenon, <1>1, <1>2, <1>3
-----------------------------------------------------------------------------
(* The user phase of Update. *)

\* A goroutine with fresh results that stores a user keeps what is in sync.
LEMMA FreshUserStoreStep ==
    ASSUME TypeInv, SyncInv, NEW t \in Threads, t \in Fresh, UserStore(t)
    PROVE  UpdateComplete' /\ \A u \in Fresh' : Progress(u)'
<1> USE UserCacheAssumption DEF TypeInv
<1>0. /\ UNCHANGED <<ldapUsers, ldapGroups>>
      /\ \A u \in Threads \ {t} :
            /\ pc'[u] = pc[u] /\ call'[u] = call[u] /\ pending'[u] = pending[u]
            /\ key'[u] = key[u] /\ pass'[u] = pass[u] /\ must'[u] = must[u]
            /\ seen'[u] = seen[u] /\ ret'[u] = ret[u]
  BY Zenon, UpdateFrame DEF OthersKeep
<1>s. pc[t] = "userStore"
  BY Zenon DEF UserStore
<1>1. Fresh' = Fresh /\ UNCHANGED groups
  BY Zenon DEF UserStore, MarkStore, Fresh
<1>2. PICK e \in pending[t] :
        /\ users' = [users EXCEPT ![e[1]] = MakeUser(e[2], groups)]
        /\ pending' = [pending EXCEPT ![t] = @ \ {e}]
        /\ IF pending[t] = {e} THEN Return(t) ELSE UNCHANGED <<pc, call, authVars>>
        /\ synced' = (t \in Fresh /\ (synced \/ pending[t] = {e}))
  BY Zenon DEF UserStore
<1>3. /\ e[1] \in Users /\ HasKey(e[1]) /\ e = <<e[1], ldapUsers[e[1]]>>
      /\ InSync(e[1])'
      /\ \A u \in Users : HasKey(u) /\ InSync(u) => InSync(u)'
  BY <1>0, <1>s, <1>2, FreshUserStore, Zenon
<1>4. \A u \in Users : HasKey(u)' = HasKey(u)
  BY Zenon, <1>0 DEF HasKey
<1>5. \A u \in Users : HasKey(u)' => InSync(u)' \/ <<u, ldapUsers'[u]>> \in pending'[t]
  <2>1. pending'[t] = pending[t] \ {e}
    BY Zenon, <1>2 DEF TypeOK
  <2>2. \A u \in Users : HasKey(u) => InSync(u) \/ <<u, ldapUsers[u]>> \in pending[t]
    BY Zenon, <1>s DEF SyncInv, Progress
  <2> SUFFICES ASSUME NEW u \in Users, HasKey(u)'
               PROVE  InSync(u)' \/ <<u, ldapUsers'[u]>> \in pending'[t]
    BY Zenon
  <2>3. CASE <<u, ldapUsers[u]>> = e
    BY Zenon, <1>3, <2>3, SamePair
  <2>4. CASE <<u, ldapUsers[u]>> # e
    BY Zenon, <1>0, <1>3, <1>4, <2>1, <2>2, <2>4
  <2>5. QED
    BY Zenon, <2>3, <2>4
<1>6. pending[t] = {e} => AllInSync'
  BY Zenon, <1>2, <1>5 DEF AllInSync, TypeOK
<1>7. UpdateComplete'
  BY <1>2, <1>3, <1>4, <1>6, Zenon DEF SyncInv, UpdateComplete, AllInSync
<1>8. \A u \in Fresh' \ {t} : Progress(u)'
  BY Zenon, <1>0, <1>1, <1>3, OthersKeepProgress DEF SyncInv, GroupDone, Fresh, TypeOK
<1>9. pending'[t] \subseteq UserSearchResult'
  <2>1. UserSearchResult' = UserSearchResult
    BY Zenon, <1>0, <1>4 DEF UserSearchResult
  <2>2. QED
    BY ZenonT(60), <1>s, <1>2, <2>1 DEF SyncInv, Progress, TypeOK
<1>10. EnableLDAPRoles => \A g \in Groups : GroupDone(g)'
  BY Zenon, <1>0, <1>s, <1>1 DEF SyncInv, Progress, GroupDone
<1>11. ~TurnedAway(t)'
  <2>1. CASE Return(t)
    BY Zenon, <1>s, <2>1, ReturnNotTurnedAway DEF SyncInv
  <2>2. CASE UNCHANGED <<pc, call, authVars>>
    BY Zenon, <1>s, <2>2 DEF SyncInv, ControlInv, TurnedAway
  <2>3. QED
    BY Zenon, <1>2, <2>1, <2>2
<1>12. \/ pc'[t] = "userStore"
       \/ pc'[t] \in {"idle", "range"} /\ AllInSync'
  BY ZenonT(60), <1>s, <1>2, <1>6 DEF Return, TypeOK
<1>13. Progress(t)'
  BY Zenon, <1>5, <1>9, <1>10, <1>11, <1>12 DEF Progress
<1>14. QED
  BY Zenon, <1>7, <1>8, <1>13

\* The user search and the loop over its entries keep UpdateComplete and the
\* progress of fresh goroutines.
LEMMA UserPhaseStep ==
    ASSUME TypeInv, SyncInv, NEW t \in Threads,
           UserSearch(t) \/ UserSearchEmpty(t) \/ UserStore(t)
    PROVE  UpdateComplete' /\ \A u \in Fresh' : Progress(u)'
<1> USE UserCacheAssumption DEF TypeInv
<1>0. /\ UNCHANGED <<ldapUsers, ldapGroups>>
      /\ \A u \in Threads \ {t} :
            /\ pc'[u] = pc[u] /\ call'[u] = call[u] /\ pending'[u] = pending[u]
            /\ key'[u] = key[u] /\ pass'[u] = pass[u] /\ must'[u] = must[u]
            /\ seen'[u] = seen[u] /\ ret'[u] = ret[u]
  BY Zenon, UpdateFrame DEF OthersKeep
<1>1. CASE UserSearch(t)
  <2>1. /\ UNCHANGED <<users, groups, synced>> /\ Fresh' \subseteq Fresh \cup {t}
        /\ EnableLDAPRoles => Fresh' = Fresh
    BY Zenon, <1>1 DEF UserSearch, MarkUserSearch, Fresh, cacheVars
  <2>2. UpdateComplete'
    BY Zenon, <1>0, <2>1 DEF SyncInv, UpdateComplete, HasKey, InSync
  <2>3. \A u \in Fresh' \ {t} : Progress(u)'
    BY ZenonT(60), <1>0, <2>1, OthersKeepProgress DEF SyncInv, GroupDone, InSync, Fresh, TypeOK
  <2>4. UserSearchResult' = UserSearchResult
    BY Zenon, <1>0 DEF UserSearchResult, HasKey
  <2>5. pending'[t] = UserSearchResult /\ pc'[t] = "userStore"
    BY ZenonT(60), <1>1 DEF UserSearch, TypeOK
  <2>6. \A u \in Users : HasKey(u)' => <<u, ldapUsers'[u]>> \in UserSearchResult'
    BY Zenon DEF UserSearchResult
  <2>7. ~TurnedAway(t)'
    BY Zenon, <1>1 DEF UserSearch, SyncInv, ControlInv, TurnedAway
  <2>8. t \in Fresh' /\ EnableLDAPRoles => \A g \in Groups : GroupDone(g)'
    BY Zenon, <1>0, <1>1, <2>1 DEF UserSearch, SyncInv, Progress, GroupDone
  <2>9. t \in Fresh' => Progress(t)'
    BY Zenon, <2>4, <2>5, <2>6, <2>7, <2>8 DEF Progress
  <2>10. QED
    BY Zenon, <2>2, <2>3, <2>9
<1>2. CASE UserSearchEmpty(t)
  <2>1. \A u \in Users : ~HasKey(u)'
    <3>1. \A u \in Users : HasKey(u) => <<u, ldapUsers[u]>> \in UserSearchResult
      BY Zenon DEF UserSearchResult
    <3>2. UserSearchResult = {}
      BY Zenon, <1>2 DEF UserSearchEmpty
    <3>3. QED
      BY Zenon, <1>0, <3>1, <3>2 DEF HasKey
  <2>2. UNCHANGED <<users, groups>> /\ Fresh' \subseteq Fresh \cup {t}
    BY Zenon, <1>2 DEF UserSearchEmpty, MarkUserSearch, Fresh, cacheVars
  <2>3. \A u \in Fresh' \ {t} : Progress(u)'
    BY ZenonT(60), <1>0, <2>2, OthersKeepProgress DEF SyncInv, GroupDone, InSync, Fresh, TypeOK
  <2>4. pc'[t] \in {"idle", "range"}
    BY Zenon, <1>2 DEF UserSearchEmpty, Return, TypeOK
  <2>5. ~TurnedAway(t)'
    BY Zenon, <1>2, ReturnNotTurnedAway DEF UserSearchEmpty, SyncInv
  <2>6. UpdateComplete' /\ AllInSync'
    BY Zenon, <2>1 DEF UpdateComplete, AllInSync
  <2>7. Progress(t)'
    BY Zenon, <2>4, <2>5, <2>6 DEF Progress
  <2>8. QED
    BY Zenon, <2>3, <2>6, <2>7
<1>3. CASE UserStore(t)
  <2>0. pc[t] = "userStore"
    BY Zenon, <1>3 DEF UserStore
  <2>1. CASE t \notin Fresh
    <3>1. Fresh' = {}
      <4>1. overtaken' = Threads /\ current' = current
        BY Zenon, <1>3, <2>1 DEF UserStore, MarkStore
      <4>2. current \subseteq Threads
        BY Zenon DEF TypeOK
      <4>3. QED
        BY Zenon, <4>1, <4>2 DEF Fresh
    <3>2. ~synced'
      BY <1>3, <2>1, Zenon DEF UserStore
    <3>3. QED
      BY Zenon, <3>1, <3>2 DEF UpdateComplete
  <2>2. CASE t \in Fresh
    BY Zenon, <1>3, <2>2, FreshUserStoreStep
  <2>3. QED
    BY Zenon, <2>1, <2>2
<1>4. QED
  BY Zenon, <1>1, <1>2, <1>3

\* Together: the steps of Update.
LEMMA UpdateStep ==
    ASSUME TypeInv, SyncInv, NEW t \in Threads,
           \/ SearchFails(t) \/ GroupSearch(t) \/ GroupStore(t)
           \/ UserSearch(t) \/ UserSearchEmpty(t) \/ UserStore(t)
    PROVE  UpdateComplete' /\ \A u \in Fresh' : Progress(u)'
  BY Zenon, GroupPhaseStep, UserPhaseStep
-----------------------------------------------------------------------------
(* The steps of Authenticate. *)

\* So do the steps of Authenticate, which do not write the maps.
LEMMA AuthenticateStep ==
    ASSUME TypeInv, SyncInv, NEW t \in Threads,
           \/ CallUpdate(t) \/ (\E k \in Keys : CallAuthenticate(t, k))
           \/ Range(t) \/ Visit(t) \/ Miss(t)
    PROVE  UpdateComplete' /\ \A u \in Fresh' : Progress(u)'
<1> USE UserCacheAssumption DEF TypeInv
<1>1. /\ UNCHANGED <<ldapUsers, ldapGroups, users, groups, synced>>
      /\ Fresh' \subseteq Fresh
      /\ \A u \in Threads \ {t} :
            /\ pc'[u] = pc[u] /\ call'[u] = call[u] /\ pending'[u] = pending[u]
            /\ key'[u] = key[u] /\ pass'[u] = pass[u] /\ must'[u] = must[u]
            /\ seen'[u] = seen[u] /\ ret'[u] = ret[u]
  <2>1. Fresh' \subseteq Fresh
    BY Zenon DEF CallUpdate, CallAuthenticate, Range, Visit, Miss, Fresh, histVars
  <2>2. QED
    BY Zenon, <2>1, AuthenticateFrame DEF OthersKeep
<1>2. UpdateComplete'
  BY Zenon, <1>1 DEF SyncInv, UpdateComplete, HasKey, InSync
<1>3. \A u \in Fresh' \ {t} : Progress(u)'
  BY ZenonT(60), <1>1, OthersKeepProgress DEF SyncInv, GroupDone, InSync, Fresh, TypeOK
<1>4. \A u \in Users : /\ HasKey(u)' = HasKey(u) /\ ListedKeys(u)' = ListedKeys(u)
                       /\ InSync(u)' = InSync(u)
  BY Zenon, <1>1 DEF HasKey, ListedKeys, InSync
<1>5. AllInSync' = AllInSync
  BY Zenon, <1>4 DEF AllInSync
<1>6. \A u \in Users : HasKey(u) /\ InSync(u) => users[u].keys = ListedKeys(u)
  BY Zenon, MakeUserKeys DEF HasKey, InSync, ListedKeys
<1>7. ASSUME t \in Fresh' PROVE Progress(t)'
  <2>0. t \in Fresh /\ Progress(t)
    BY Zenon, <1>1, <1>7 DEF SyncInv
  <2>1. CASE CallUpdate(t)
    <3>1. pc'[t] = UpdateStart /\ ~TurnedAway(t)'
      BY Zenon, <2>1 DEF CallUpdate, TurnedAway, TypeOK
    <3>2. EnableLDAPRoles => pc'[t] = "groupSearch"
      BY Zenon, <3>1 DEF UpdateStart
    <3>3. QED
      BY Zenon, <3>1, <3>2 DEF Progress, UpdateStart
  <2>2. ASSUME NEW k \in Keys, CallAuthenticate(t, k) PROVE Progress(t)'
    BY Zenon, <1>7, <2>2 DEF CallAuthenticate, Fresh
  <2>3. CASE Range(t)
    <3>1. pc'[t] = "verify" /\ must'[t] = Cached /\ seen'[t] = {} /\ pass'[t] = pass[t]
      BY ZenonT(60), <2>3 DEF Range, TypeOK
    <3>2. ~TurnedAway(t)'
      BY Zenon, <2>3 DEF Range, SyncInv, ControlInv, TurnedAway
    <3>3. pass[t] = 2 => AllInSync
      BY Zenon, <2>0, <2>3 DEF Range, Progress
    <3>4. ASSUME NEW u \in Users, HasKey(u), AllInSync PROVE u \in Cached
      <4> DEFINE rs == [g \in Groups |-> IF ldapGroups[g] = Absent THEN {}
                                                                  ELSE ldapGroups[g]]
      <4>1. ldapUsers[u] \in UserEntries /\ rs \in [Groups -> SUBSET Roles]
        BY Zenon, <3>4 DEF HasKey, TypeOK
      <4>2. MakeUser(ldapUsers[u], rs) \in UserRecord
        BY Zenon, <4>1, MakeUserType
      <4>3. users[u] = MakeUser(ldapUsers[u], rs)
        BY Zenon, <3>4 DEF AllInSync, InSync
      <4>4. users[u] # Absent
        BY Zenon, <4>2, <4>3 DEF UserRecord
      <4>5. QED
        BY Zenon, <4>4 DEF Cached
    <3>5. QED
      BY Zenon, <1>4, <1>5, <3>1, <3>2, <3>3, <3>4 DEF Progress
  <2>4. CASE Visit(t)
    <3>1. PICK u \in Cached \ seen[t] :
            IF key[t] \in users[u].keys
            THEN /\ ret' = [ret EXCEPT ![t] = u]
                 /\ pc' = [pc EXCEPT ![t] = "idle"]
            ELSE /\ seen' = [seen EXCEPT ![t] = @ \cup {u}]
                 /\ UNCHANGED <<ret, pc, call, must>>
      BY Zenon, <2>4 DEF Visit
    <3>2. u \in Users /\ pc[t] = "verify" /\ UNCHANGED <<key, pass>>
      BY Zenon, <2>4, <3>1 DEF Visit, Cached
    <3>3. CASE key[t] \in users[u].keys
      <4>1. pc'[t] = "idle" /\ ~TurnedAway(t)'
        <5>1. pc'[t] = "idle" /\ ret'[t] = u
          BY ZenonT(60), <3>1, <3>3 DEF TypeOK
        <5>2. u # Absent
          BY Zenon, <3>2
        <5>3. QED
          BY Zenon, <5>1, <5>2 DEF TurnedAway
      <4>2. QED
        BY Zenon, <4>1 DEF Progress
    <3>4. CASE key[t] \notin users[u].keys
      <4>1. /\ seen'[t] = seen[t] \cup {u} /\ must'[t] = must[t]
            /\ pc'[t] = "verify" /\ ~TurnedAway(t)'
        BY Zenon, <3>1, <3>2, <3>4 DEF SyncInv, ControlInv, TurnedAway, TypeOK
      <4>2. pass[t] = 2 => (HasKey(u) => key[t] \notin ListedKeys(u))
        BY Zenon, <1>6, <2>0, <3>2, <3>4 DEF Progress, AllInSync
      <4>3. QED
        BY Zenon, <1>4, <1>5, <2>0, <3>2, <4>1, <4>2 DEF Progress
    <3>5. QED
      BY Zenon, <3>3, <3>4
  <2>5. CASE Miss(t)
    <3>1. pc[t] = "verify" /\ must[t] \subseteq seen[t] /\ UNCHANGED <<key, pass, ret>>
      BY Zenon, <2>5 DEF Miss
    <3>2. CASE pass[t] = 1
      <4>1. pc'[t] = UpdateStart /\ pass'[t] = 1
        BY Zenon, <2>5, <3>1, <3>2 DEF Miss, TypeOK
      <4>2. /\ EnableLDAPRoles => pc'[t] = "groupSearch"
            /\ pc'[t] \in {"groupSearch", "userSearch"} /\ ~TurnedAway(t)'
        BY Zenon, <4>1, Passes DEF UpdateStart, TurnedAway
      <4>3. QED
        BY Zenon, <4>2 DEF Progress
    <3>3. CASE pass[t] = 2
      <4>1. pc'[t] = "idle"
        BY Zenon, <2>5, <3>3, Passes DEF Miss, TypeOK
      <4>2. \A u \in Users : key[t] \notin ListedKeys(u)
        BY Zenon, <2>0, <3>1, <3>3, NoKeyNotListed DEF Progress
      <4>3. QED
        BY Zenon, <1>4, <3>1, <4>1, <4>2 DEF Progress
    <3>4. QED
      BY Zenon, <3>2, <3>3, Passes DEF TypeOK
  <2>6. QED
    BY Zenon, <2>1, <2>2, <2>3, <2>4, <2>5
<1>8. QED
  BY Zenon, <1>2, <1>3, <1>7

LEMMA SyncStep ==
    ASSUME TypeInv, SyncInv, [Next]_vars
    PROVE  SyncInv'
<1>1. DirectoryConsistent(ldapUsers, ldapGroups)' /\ ControlInv'
  BY Zenon, ConsistentStep, ControlStep DEF SyncInv
<1>2. UpdateComplete' /\ \A t \in Fresh' : Progress(t)'
  <2>1. CASE DirectoryChange \/ Restart
    <3>1. Fresh' = {} /\ ~synced'
      BY Zenon, <2>1 DEF DirectoryChange, Restart, Fresh
    <3>2. QED
      BY Zenon, <3>1 DEF UpdateComplete
  <2>2. CASE MapFault \/ UNCHANGED vars
    <3>1. UNCHANGED <<ldapUsers, ldapGroups, users, groups, pc, call, pending, key,
                      pass, must, seen, ret, current, overtaken, synced>>
      BY Zenon, <2>2 DEF MapFault, vars, dirVars, cacheVars, authVars, histVars
    <3>2. Fresh' = Fresh /\ Fresh \subseteq Threads
      BY Zenon, <3>1 DEF Fresh, TypeInv, TypeOK
    <3>3. UpdateComplete'
      BY Zenon, <3>1 DEF SyncInv, UpdateComplete, HasKey, InSync
    <3>4. \A t \in Fresh' : Progress(t)'
      BY Zenon, <3>1, <3>2, OthersKeepProgress DEF SyncInv, GroupDone, InSync
    <3>5. QED
      BY Zenon, <3>3, <3>4
  <2>3. QED
    BY Zenon, <2>1, <2>2, UpdateStep, AuthenticateStep DEF Next, Step
<1>3. QED
  BY Zenon, <1>1, <1>2 DEF SyncInv

LEMMA InitSyncInv == Init => SyncInv
  BY Zenon, UserCacheAssumption DEF Init, NewLDAPUserCache, SyncInv, ControlInv, UpdateComplete,
     Fresh, UpdateStart

LEMMA SyncInvariant == Spec => []SyncInv
<1>1. Spec => []TypeInv
  BY InitTypeInv, TypeStep, PTL DEF Spec
<1>2. QED
  BY <1>1, InitSyncInv, SyncStep, PTL DEF Spec

\* An Update that no change of LDAP and no older Update has overtaken leaves the
\* cache with exactly LDAP's record of every user LDAP has.
THEOREM UpdateCompleteAlways == Spec => []UpdateComplete
  BY SyncInvariant, PTL DEF SyncInv

\* Authenticate turns away a key that LDAP has only if its Update has failed or
\* was overtaken.
THEOREM MissIsGenuineAlways == Spec => []MissIsGenuine
<1>1. SyncInv => MissIsGenuine
  BY Zenon DEF SyncInv, Progress, MissIsGenuine
<1>2. QED
  BY <1>1, SyncInvariant, PTL
=============================================================================
