------------------------ MODULE PersistentLDAPProofs ------------------------
(* Proofs about PersistentLDAP, for any number of goroutines, users, keys,   *)
(* requests and connections.                                                 *)
EXTENDS PersistentLDAP, TLAPS

\* In an undisturbed call the connections about to be assigned work, and so
\* does the one the second attempt uses.
NetInv ==
    \A t \in Threads :
        /\ pc[t] # "idle" /\ ~disturbed[t] =>
               \A u \in Threads : pc[u] = "assign" => fresh[u] \in alive
        /\ pc[t] = "call" /\ try[t] = 2 /\ ~disturbed[t] => conn \in alive
        /\ pc[t] \in {"wait", "answer"} /\ try[t] = 2 /\ ~disturbed[t] => via[t] \in alive
        /\ pc[t] = "answer" => result[t] # "network"
        /\ pc[t] = "handle" /\ result[t] = "network" => disturbed[t]

\* A Modify is sent only for a key that was asked for with the password.
GrantInv ==
    /\ KeysGranted
    /\ \A m \in late : <<m.user, m.key>> \in granted
    /\ \A t \in Threads :
        /\ pc[t] = "idle" => entry[t] = None
        /\ op[t] = "modify" => req[t] # None /\ <<req[t].user, SshKey(req[t])>> \in granted
        /\ req[t] # None /\ Allowed(t) => <<req[t].user, SshKey(req[t])>> \in granted

\* Does LDAP list the key that goroutine t is to save?
Listed(t) ==
    dir[req[t].user] # None /\ SshKey(req[t]) \in dir[req[t].user].keys

\* A goroutine that is going to answer with success has seen or added the key.
Saved(t) ==
    /\ pc[t] = "reply" \/ told[t] # "nothing" \/ op[t] = "modify" => req[t] # None
    /\ told[t] = "saved" /\ ~touched[t] => Listed(t)
    /\ pc[t] = "reply" /\ result[t] = "ok" /\ ~touched[t] => Listed(t)
    /\ pc[t] \in {"answer", "handle"} /\ result[t] = "ok" /\ ~touched[t] /\ req[t] # None =>
          /\ op[t] = "modify" => Listed(t)
          /\ entry[t] # None /\ op[t] = "search" /\ SshKey(req[t]) \in entry[t].keys => Listed(t)

SaveInv == \A t \in Threads : Saved(t)
-----------------------------------------------------------------------------
\* A request that was sent names a user and a key.
LEMMA Sendable ==
    ASSUME TypeOK, NEW t \in Threads, req[t] # None
    PROVE  req[t].user \in Users /\ SshKey(req[t]) \in Keys
  BY LDAPAssumption DEF TypeOK

\* Adding a value to an entry that is there gives an entry.
LEMMA AddValueType ==
    ASSUME TypeOK, NEW u \in Users, NEW k \in Keys, CanAdd(u, k)
    PROVE  /\ AddValue(u, k) \in [Users -> Entry \cup {None}]
           /\ AddValue(u, k)[u] # None
           /\ AddValue(u, k)[u].keys = dir[u].keys \cup {k}
           /\ \A v \in Users \ {u} : AddValue(u, k)[v] = dir[v]
<1> DEFINE e == [pass |-> dir[u].pass, keys |-> dir[u].keys \cup {k}]
<1>1. dir[u] \in Entry
  BY DEF TypeOK, CanAdd
<1>2. e \in Entry /\ e.keys = dir[u].keys \cup {k}
  BY Zenon, <1>1 DEF Entry
<1>3. AddValue(u, k) = [dir EXCEPT ![u] = e]
  BY Zenon DEF AddValue, TypeOK
<1> HIDE DEF e
<1>4. QED
  BY <1>2, <1>3, LDAPAssumption DEF TypeOK

\* Every step keeps the types.
LEMMA TypeStep ==
    ASSUME TypeOK, GrantInv, [Next]_vars
    PROVE  TypeOK'
<1> USE LDAPAssumption
<1>o. opened \in Nat /\ opened >= 1 /\ opened <= MaxConns
  BY DEF TypeOK, Conns
<1>1. ASSUME NEW t \in Threads, NEW r \in Requests, AddSSHKey(t, r) PROVE TypeOK'
  BY <1>1 DEF AddSSHKey, StartCall, TypeOK, ldapVars, connVars
<1>2. ASSUME NEW t \in Threads, Update(t) PROVE TypeOK'
  BY <1>2 DEF Update, StartCall, TypeOK, ldapVars, connVars
<1>3. ASSUME NEW t \in Threads, Step(t) PROVE TypeOK'
  <2>1. CASE HandleSearch(t)
    <3>1. CASE Finish(t)
      BY <1>o, <2>1, <3>1 DEF HandleSearch, Finish, TypeOK, ldapVars, connVars
    <3>2. ASSUME NEW x \in {"ok", "refused", "network"}, Answer(t, x), ~Finish(t)
          PROVE  TypeOK'
      BY Zenon, <2>1, <3>2 DEF HandleSearch, Answer, TypeOK, ldapVars, connVars
    <3>3. CASE StartCall(t, "modify") /\ UNCHANGED result /\ ~Finish(t)
      BY <2>1, <3>3 DEF HandleSearch, StartCall, TypeOK, ldapVars, connVars
    <3>4. QED
      BY Zenon, <2>1, <3>1, <3>2, <3>3 DEF HandleSearch, TypeOK
  <2>2. CASE HandleModify(t)
    BY Zenon, <2>2 DEF HandleModify, Answer, TypeOK, ldapVars, connVars
  <2>3. CASE Told(t)
    BY <1>o, <2>3 DEF Told, Finish, TypeOK, ldapVars, connVars
  <2>4. CASE Call(t)
    BY Zenon, <2>4 DEF Call, TypeOK, ldapVars, connVars
  <2>5. CASE Return(t)
    BY <1>o, <2>5 DEF Return, TypeOK, ldapVars, connVars
  <2>6. CASE NetworkError(t)
    BY <1>o, <2>6 DEF NetworkError, TypeOK, ldapVars, connVars
  <2>7. CASE Open(t)
    <3>1. opened' \in Conns /\ 1..opened \subseteq 1..opened' /\ opened' \in 1..opened'
      BY <1>o, <2>7 DEF Open, Conns
    <3>2. /\ alive' \subseteq 1..opened' /\ conn' \in 1..opened'
          /\ via' \in [Threads -> 1..opened'] /\ fresh' \in [Threads -> 1..opened']
      BY Zenon, <2>7, <3>1 DEF Open, TypeOK
    <3>3. QED
      BY Zenon, <2>7, <3>1, <3>2 DEF Open, TypeOK, ldapVars
  <2>8. CASE OpenFails(t)
    BY <2>8 DEF OpenFails, TypeOK, ldapVars, connVars
  <2>9. CASE Assign(t)
    BY <1>o, <2>9 DEF Assign, TypeOK, ldapVars
  <2>10. CASE Serve(t)
    <3>1. req[t] # None => req[t].user \in Users /\ SshKey(req[t]) \in Keys
      BY Zenon, Sendable
    <3>2. dir' \in [Users -> Entry \cup {None}]
      <4>1. CASE UNCHANGED dir
        BY Zenon, <4>1 DEF TypeOK
      <4>2. CASE /\ op[t] = "modify" /\ CanAdd(req[t].user, SshKey(req[t]))
                 /\ dir' = AddValue(req[t].user, SshKey(req[t]))
        BY <3>1, <4>2, AddValueType, Zenon DEF GrantInv
      <4>3. QED
        BY Zenon, <2>10, <4>1, <4>2 DEF Serve
    <3>3. granted' \subseteq Users \X Keys /\ entry' \in [Threads -> Entry \cup {None}]
      BY <2>10, <3>1 DEF Serve, TypeOK
    <3>4. /\ pc' \in [Threads -> {"idle", "call", "wait", "answer", "open", "assign",
                                  "handle", "reply"}]
          /\ result' \in [Threads -> {"ok", "refused", "network"}]
      BY Zenon, <2>10 DEF Serve, TypeOK
    <3>5. UNCHANGED <<late, changes, touched, connVars, op, try, via, fresh, req, told,
                      disturbed>>
      BY Zenon, <2>10 DEF Serve
    <3>6. QED
      BY Zenon, <3>2, <3>3, <3>4, <3>5 DEF TypeOK, connVars
  <2>11. QED
    BY Zenon, <1>3, <2>1, <2>2, <2>3, <2>4, <2>5, <2>6, <2>7, <2>8, <2>9, <2>10 DEF Step
<1>4. ASSUME NEW c \in alive, Break(c) PROVE TypeOK'
  <2>1. PICK T \in SUBSET {t \in Threads : pc[t] = "wait" /\ via[t] = c /\ op[t] = "modify"} :
          late' = late \cup {[by |-> t, try |-> try[t], user |-> req[t].user,
                              key |-> SshKey(req[t])] : t \in T}
    BY Zenon, <1>4 DEF Break
  <2>2. \A t \in T : [by |-> t, try |-> try[t], user |-> req[t].user,
                      key |-> SshKey(req[t])] \in Modifies
    BY <2>1, Sendable, Zenon DEF GrantInv, Modifies, TypeOK
  <2>3. late' \subseteq Modifies
    BY <2>1, <2>2 DEF TypeOK
  <2>4. QED
    BY Zenon, <1>4, <2>3 DEF Break, TypeOK, callVars
<1>5. ASSUME NEW m \in late, ApplyLate(m) PROVE TypeOK'
  <2>1. m.user \in Users /\ m.key \in Keys
    BY Zenon DEF TypeOK, Modifies
  <2>2. dir' \in [Users -> Entry \cup {None}]
    BY Zenon, <1>5, <2>1, AddValueType DEF ApplyLate, TypeOK
  <2>3. QED
    BY Zenon, <1>5, <2>2 DEF ApplyLate, TypeOK, connVars, callVars
<1>6. ASSUME NEW u \in Users, NEW e \in Entries \cup {None}, AdminChange(u, e)
      PROVE  TypeOK'
  <2>1. e \in Entry \cup {None} /\ (e # None => e.keys \subseteq Keys)
    BY Zenon DEF Entry
  <2>2. changes' \in 0..MaxChanges
    BY <1>6 DEF AdminChange, TypeOK
  <2>3. dir' \in [Users -> Entry \cup {None}] /\ granted' \subseteq Users \X Keys
    BY Zenon, <1>6, <2>1 DEF AdminChange, TypeOK
  <2>4. touched' \in [Threads -> BOOLEAN]
    BY <1>6, Zenon DEF AdminChange, TypeOK
  <2>5. QED
    BY Zenon, <1>6, <2>2, <2>3, <2>4 DEF AdminChange, TypeOK, connVars, callVars
<1>7. CASE UNCHANGED vars
  BY Zenon, <1>7 DEF vars, ldapVars, connVars, callVars, TypeOK
<1>8. QED
  BY Zenon, <1>1, <1>2, <1>3, <1>4, <1>5, <1>6, <1>7 DEF Next
-----------------------------------------------------------------------------
\* Every step keeps NetInv.
LEMMA NetStep ==
    ASSUME TypeOK, NetInv, [Next]_vars
    PROVE  NetInv'
<1> USE DEF TypeOK
<1>1. ASSUME NEW t \in Threads, NEW r \in Requests, AddSSHKey(t, r) PROVE NetInv'
  BY <1>1 DEF AddSSHKey, StartCall, NetInv, connVars
<1>2. ASSUME NEW t \in Threads, Update(t) PROVE NetInv'
  BY <1>2 DEF Update, StartCall, NetInv, connVars
<1>3. ASSUME NEW t \in Threads, Step(t) PROVE NetInv'
  <2>1. CASE HandleSearch(t)
    BY <2>1 DEF HandleSearch, Answer, StartCall, Finish, NetInv, connVars
  <2>2. CASE HandleModify(t)
    BY Zenon, <2>2 DEF HandleModify, Answer, NetInv, connVars
  <2>3. CASE Told(t)
    BY Zenon, <2>3 DEF Told, Finish, NetInv, connVars
  <2>4. CASE Call(t)
    BY Zenon, <2>4 DEF Call, NetInv, connVars
  <2>5. CASE Return(t)
    BY Zenon, <2>5 DEF Return, NetInv, connVars
  <2>6. CASE NetworkError(t)
    BY <2>6 DEF NetworkError, NetInv, connVars
  <2>7. CASE Open(t)
    BY Zenon, <2>7 DEF Open, NetInv
  <2>8. CASE OpenFails(t)
    BY Zenon, <2>8 DEF OpenFails, NetInv, connVars
  <2>9. CASE Assign(t)
    BY Zenon, <2>9 DEF Assign, NetInv
  <2>10. CASE Serve(t)
    BY <2>10 DEF Serve, NetInv, connVars
  <2>11. QED
    BY Zenon, <1>3, <2>1, <2>2, <2>3, <2>4, <2>5, <2>6, <2>7, <2>8, <2>9, <2>10 DEF Step
<1>4. ASSUME NEW c \in alive, Break(c) PROVE NetInv'
  BY <1>4, Zenon DEF Break, NetInv, callVars
<1>5. ASSUME NEW m \in late, ApplyLate(m) PROVE NetInv'
  BY Zenon, <1>5 DEF ApplyLate, NetInv, connVars, callVars
<1>6. ASSUME NEW u \in Users, NEW e \in Entries \cup {None}, AdminChange(u, e)
      PROVE  NetInv'
  BY Zenon, <1>6 DEF AdminChange, NetInv, connVars, callVars
<1>7. CASE UNCHANGED vars
  BY Zenon, <1>7 DEF vars, connVars, callVars, NetInv
<1>8. QED
  BY Zenon, <1>1, <1>2, <1>3, <1>4, <1>5, <1>6, <1>7 DEF Next
-----------------------------------------------------------------------------
\* Every step keeps GrantInv.
LEMMA GrantStep ==
    ASSUME TypeOK, GrantInv, [Next]_vars
    PROVE  GrantInv'
<1> USE DEF TypeOK, Allowed
<1>1. ASSUME NEW t \in Threads, NEW r \in Requests, AddSSHKey(t, r) PROVE GrantInv'
  BY Zenon, <1>1 DEF AddSSHKey, StartCall, GrantInv, KeysGranted, ldapVars
<1>2. ASSUME NEW t \in Threads, Update(t) PROVE GrantInv'
  BY Zenon, <1>2 DEF Update, StartCall, GrantInv, KeysGranted, ldapVars
<1>3. ASSUME NEW t \in Threads, Step(t) PROVE GrantInv'
  <2>1. CASE HandleSearch(t)
    BY <2>1 DEF HandleSearch, Answer, StartCall, Finish, GrantInv, KeysGranted, ldapVars
  <2>2. CASE HandleModify(t)
    BY Zenon, <2>2 DEF HandleModify, Answer, GrantInv, KeysGranted, ldapVars
  <2>3. CASE Told(t)
    BY Zenon, <2>3 DEF Told, Finish, GrantInv, KeysGranted, ldapVars
  <2>4. CASE Call(t)
    BY Zenon, <2>4 DEF Call, GrantInv, KeysGranted, ldapVars
  <2>5. CASE Return(t)
    BY Zenon, <2>5 DEF Return, GrantInv, KeysGranted, ldapVars
  <2>6. CASE NetworkError(t)
    BY Zenon, <2>6 DEF NetworkError, GrantInv, KeysGranted, ldapVars
  <2>7. CASE Open(t)
    BY Zenon, <2>7 DEF Open, GrantInv, KeysGranted, ldapVars
  <2>8. CASE OpenFails(t)
    BY Zenon, <2>8 DEF OpenFails, GrantInv, KeysGranted, ldapVars
  <2>9. CASE Assign(t)
    BY Zenon, <2>9 DEF Assign, GrantInv, KeysGranted, ldapVars
  <2>10. CASE Serve(t)
    <3>1. granted \subseteq granted'
      BY Zenon, <2>10 DEF Serve
    <3>2. KeysGranted'
      <4>1. CASE UNCHANGED dir
        BY Zenon, <3>1, <4>1 DEF GrantInv, KeysGranted
      <4>2. CASE /\ op[t] = "modify" /\ CanAdd(req[t].user, SshKey(req[t]))
                 /\ dir' = AddValue(req[t].user, SshKey(req[t]))
        <5>1. /\ req[t].user \in Users /\ SshKey(req[t]) \in Keys
              /\ <<req[t].user, SshKey(req[t])>> \in granted
          BY Zenon, <4>2, Sendable DEF GrantInv
        <5>2. QED
          BY <3>1, <4>2, <5>1, AddValueType DEF GrantInv, KeysGranted, CanAdd
      <4>3. QED
        BY Zenon, <2>10, <4>1, <4>2 DEF Serve
    <3>3. UNCHANGED <<late, op, req>> /\ \A u \in Threads : pc'[u] # "idle" \/ entry'[u] = None
      BY <2>10, ZenonT(60) DEF Serve, GrantInv
    <3>4. \A u \in Threads : req'[u] # None /\ Allowed(u)' =>
              <<req'[u].user, SshKey(req'[u])>> \in granted'
      BY <2>10, <3>1 DEF Serve, GrantInv
    <3>5. QED
      BY Zenon, <3>1, <3>2, <3>3, <3>4 DEF GrantInv
  <2>11. QED
    BY <1>3, <2>1, <2>2, <2>3, <2>4, <2>5, <2>6, <2>7, <2>8, <2>9, <2>10 DEF Step
<1>4. ASSUME NEW c \in alive, Break(c) PROVE GrantInv'
  <2>1. ASSUME NEW m \in late' PROVE <<m.user, m.key>> \in granted
    <3>1. CASE m \in late
      BY Zenon, <3>1 DEF GrantInv
    <3>2. CASE m \notin late
      <4>1. PICK t \in Threads :
              /\ op[t] = "modify"
              /\ m = [by |-> t, try |-> try[t], user |-> req[t].user,
                      key |-> SshKey(req[t])]
        BY <1>4, <3>2 DEF Break
      <4>2. QED
        BY Zenon, <4>1 DEF GrantInv
    <3>3. QED
      BY Zenon, <3>1, <3>2
  <2>2. QED
    BY Zenon, <1>4, <2>1 DEF Break, GrantInv, KeysGranted, callVars
<1>5. ASSUME NEW m \in late, ApplyLate(m) PROVE GrantInv'
  <2>1. m.user \in Users /\ m.key \in Keys /\ <<m.user, m.key>> \in granted
    BY Zenon DEF Modifies, GrantInv
  <2>2. KeysGranted'
    BY <1>5, <2>1, AddValueType DEF ApplyLate, GrantInv, KeysGranted, CanAdd
  <2>3. QED
    BY Zenon, <1>5, <2>2 DEF ApplyLate, GrantInv, callVars
<1>6. ASSUME NEW u \in Users, NEW e \in Entries \cup {None}, AdminChange(u, e)
      PROVE  GrantInv'
  <2>1. granted \subseteq granted'
    BY Zenon, <1>6 DEF AdminChange
  <2>2. KeysGranted'
    BY Zenon, <1>6, <2>1 DEF AdminChange, GrantInv, KeysGranted
  <2>3. QED
    BY Zenon, <1>6, <2>1, <2>2 DEF AdminChange, GrantInv, callVars
<1>7. CASE UNCHANGED vars
  BY Zenon, <1>7 DEF vars, ldapVars, callVars, GrantInv, KeysGranted
<1>8. QED
  BY <1>1, <1>2, <1>3, <1>4, <1>5, <1>6, <1>7 DEF Next
-----------------------------------------------------------------------------
\* LDAP's own steps never drop a key.
LEMMA ListedKept ==
    ASSUME TypeOK, UNCHANGED req,
           \/ UNCHANGED dir
           \/ \E u \in Users, k \in Keys : CanAdd(u, k) /\ dir' = AddValue(u, k)
    PROVE  \A t \in Threads : req[t] # None /\ Listed(t) => Listed(t)'
<1>1. CASE UNCHANGED dir
  BY Zenon, <1>1 DEF Listed
<1>2. ASSUME NEW u \in Users, NEW k \in Keys, CanAdd(u, k), dir' = AddValue(u, k),
             NEW t \in Threads, req[t] # None, Listed(t)
      PROVE  Listed(t)'
  <2>1. req[t].user \in Users
    BY Zenon, <1>2, Sendable
  <2>2. dir'[u] # None /\ dir'[u].keys = dir[u].keys \cup {k}
    BY Zenon, <1>2, AddValueType
  <2>3. req[t].user # u => dir'[req[t].user] = dir[req[t].user]
    BY <1>2, <2>1, AddValueType
  <2>4. QED
    BY Zenon, <1>2, <2>1, <2>2, <2>3 DEF Listed
<1>3. QED
  BY Zenon, <1>1, <1>2

\* A step of one goroutine that changes no entry keeps SaveInv if it keeps what
\* the invariant says of that goroutine.
LEMMA SaveFrame ==
    ASSUME SaveInv, NEW t \in Threads, UNCHANGED <<dir, touched>>,
           \A u \in Threads \ {t} :
               /\ pc'[u] = pc[u] /\ told'[u] = told[u] /\ op'[u] = op[u]
               /\ req'[u] = req[u] /\ result'[u] = result[u] /\ entry'[u] = entry[u],
           Saved(t)'
    PROVE  SaveInv'
<1>1. ASSUME NEW u \in Threads \ {t} PROVE Saved(u)'
  <2>1. Saved(u) /\ Listed(u)' = Listed(u)
    BY Zenon DEF SaveInv, Listed
  <2>2. QED
    BY Zenon, <2>1 DEF Saved
<1>2. QED
  BY Zenon, <1>1 DEF SaveInv

\* The goroutine's variables are functions on Threads.
LEMMA CallTypes ==
    ASSUME TypeOK
    PROVE  /\ pc \in [Threads -> {"idle", "call", "wait", "answer", "open", "assign",
                                  "handle", "reply"}]
           /\ req \in [Threads -> {None} \cup {r \in Requests : SshKey(r) # None}]
           /\ op \in [Threads -> {"search", "modify"}]
           /\ result \in [Threads -> {"ok", "refused", "network"}]
           /\ entry \in [Threads -> Entry \cup {None}]
           /\ told \in [Threads -> {"nothing", "saved", "failed"}]
  BY Zenon DEF TypeOK

\* The steps that only move a call of pl.Search or pl.Modify on.
LEMMA CallKeepsSaved ==
    ASSUME TypeOK, SaveInv, NEW t \in Threads, NEW p,
           UNCHANGED <<dir, touched, op, entry, req, told>>,
           pc' = [pc EXCEPT ![t] = p],
           \/ p \notin {"answer", "handle", "reply"} /\ UNCHANGED result
           \/ p = "handle" /\ pc[t] = "answer" /\ UNCHANGED result
           \/ p \in {"open", "handle"} /\ result' = [result EXCEPT ![t] = "network"]
    PROVE  SaveInv'
<1>1. /\ pc'[t] = p /\ \A u \in Threads \ {t} : pc'[u] = pc[u]
  BY Zenon, CallTypes
<1>2. \A u \in Threads \ {t} : result'[u] = result[u]
  BY Zenon, CallTypes
<1>3. \/ p \notin {"answer", "handle", "reply"}
      \/ p = "handle" /\ result'[t] = "network"
      \/ p = "handle" /\ pc[t] = "answer" /\ result'[t] = result[t]
  <2>1. CASE result' = [result EXCEPT ![t] = "network"] /\ p = "handle"
    BY Zenon, <2>1, CallTypes
  <2>2. QED
    BY Zenon, <2>1
<1>4. Listed(t)' = Listed(t) /\ Saved(t)
  BY Zenon DEF Listed, SaveInv
<1>5. Saved(t)'
  <2>1. CASE p \notin {"answer", "handle", "reply"}
    BY Zenon, <1>1, <1>4, <2>1 DEF Saved
  <2>2. CASE p = "handle" /\ result'[t] = "network"
    BY Zenon, <1>1, <1>4, <2>2 DEF Saved
  <2>3. CASE p = "handle" /\ pc[t] = "answer" /\ result'[t] = result[t]
    BY Zenon, <1>1, <1>4, <2>3 DEF Saved
  <2>4. QED
    BY Zenon, <1>3, <2>1, <2>2, <2>3
<1>6. QED
  BY Zenon, <1>1, <1>2, <1>5, SaveFrame

\* The steps of the handler and of its client.
LEMMA HandlerKeepsSaved ==
    ASSUME TypeOK, SaveInv, NEW t \in Threads,
           HandleSearch(t) \/ HandleModify(t) \/ Told(t)
    PROVE  SaveInv'
<1>0. UNCHANGED <<dir, touched, req>> /\ Listed(t)' = Listed(t) /\ Saved(t)
  BY Zenon DEF HandleSearch, HandleModify, Told, ldapVars, Listed, SaveInv
<1>1. ASSUME Finish(t), told' = told \/ \E x \in {"failed", "saved"} :
                                           told' = [told EXCEPT ![t] = x],
             told'[t] # "nothing" => req[t] # None,
             told'[t] = "saved" => told[t] = "saved" \/ (pc[t] = "reply" /\ result[t] = "ok")
      PROVE  SaveInv'
  <2>1. /\ pc'[t] = "idle" /\ op'[t] = "search"
        /\ \A u \in Threads \ {t} : pc'[u] = pc[u] /\ op'[u] = op[u]
    BY Zenon, <1>1, CallTypes DEF Finish
  <2>2. \A u \in Threads \ {t} : result'[u] = result[u] /\ entry'[u] = entry[u]
    BY Zenon, <1>1, CallTypes DEF Finish
  <2>3. \A u \in Threads \ {t} : told'[u] = told[u]
    BY Zenon, <1>1, CallTypes
  <2>4. Saved(t)'
    BY Zenon, <1>0, <1>1, <2>1 DEF Saved
  <2>5. QED
    BY Zenon, <1>0, <2>1, <2>2, <2>3, <2>4, SaveFrame
<1>2. ASSUME NEW x, Answer(t, x), UNCHANGED told, req[t] # None,
             x = "ok" /\ ~touched[t] => Listed(t),
             \A u \in Threads \ {t} : entry'[u] = entry[u]
      PROVE  SaveInv'
  <2>1. /\ pc'[t] = "reply" /\ result'[t] = x
        /\ \A u \in Threads \ {t} : pc'[u] = pc[u] /\ result'[u] = result[u]
    BY Zenon, <1>2, CallTypes DEF Answer
  <2>2. UNCHANGED op
    BY Zenon, <1>2 DEF Answer
  <2>3. Saved(t)'
    BY Zenon, <1>0, <1>2, <2>1, <2>2 DEF Saved
  <2>4. QED
    BY Zenon, <1>0, <1>2, <2>1, <2>2, <2>3, SaveFrame
<1>3. CASE HandleModify(t)
  <2>1. /\ Answer(t, result[t]) /\ UNCHANGED <<told, entry>>
        /\ op[t] = "modify" /\ pc[t] = "handle"
    BY Zenon, <1>3 DEF HandleModify
  <2>2. req[t] # None /\ (result[t] = "ok" /\ ~touched[t] => Listed(t))
    BY Zenon, <1>0, <2>1 DEF Saved
  <2>3. QED
    BY Zenon, <1>2, <2>1, <2>2
<1>4. CASE Told(t)
  <2>1. pc[t] = "reply" /\ Finish(t)
    BY Zenon, <1>4 DEF Told
  <2>2. PICK x \in {"failed", "saved"} : /\ told' = [told EXCEPT ![t] = x]
                                         /\ x = "saved" => result[t] = "ok"
    BY Zenon, <1>4 DEF Told
  <2>3. told'[t] = x
    BY Zenon, <2>2, CallTypes
  <2>4. req[t] # None
    BY Zenon, <1>0, <2>1 DEF Saved
  <2>5. QED
    BY Zenon, <1>1, <2>1, <2>2, <2>3, <2>4
<1>5. CASE HandleSearch(t)
  <2>0. pc[t] = "handle" /\ op[t] = "search" /\ UNCHANGED told
    BY Zenon, <1>5 DEF HandleSearch
  <2>1. CASE req[t] = None
    <3>1. Finish(t)
      BY Zenon, <1>5, <2>1 DEF HandleSearch
    <3>2. told[t] = "nothing"
      BY Zenon, <1>0, <2>1 DEF Saved
    <3>3. QED
      BY Zenon, <1>1, <2>0, <3>1, <3>2
  <2>2. CASE req[t] # None
    <3>1. /\ \/ Answer(t, result[t]) /\ result[t] # "ok"
             \/ Answer(t, "refused")
             \/ /\ Answer(t, "ok") /\ result[t] = "ok" /\ Allowed(t)
                /\ SshKey(req[t]) \in entry[t].keys
             \/ StartCall(t, "modify") /\ UNCHANGED result
          /\ entry' = [entry EXCEPT ![t] = None]
      BY Zenon, <1>5, <2>2 DEF HandleSearch
    <3>2. \A u \in Threads \ {t} : entry'[u] = entry[u]
      BY Zenon, <3>1, CallTypes
    <3>3. CASE Answer(t, result[t]) /\ result[t] # "ok"
      BY Zenon, <1>2, <2>0, <2>2, <3>2, <3>3
    <3>4. CASE Answer(t, "refused")
      BY Zenon, <1>2, <2>0, <2>2, <3>2, <3>4
    <3>5. CASE /\ Answer(t, "ok") /\ result[t] = "ok" /\ Allowed(t)
               /\ SshKey(req[t]) \in entry[t].keys
      <4>1. ~touched[t] => Listed(t)
        BY Zenon, <1>0, <2>0, <2>2, <3>5 DEF Saved, Allowed
      <4>2. QED
        BY Zenon, <1>2, <2>0, <2>2, <3>2, <3>5, <4>1
    <3>6. CASE StartCall(t, "modify") /\ UNCHANGED result
      <4>1. /\ pc'[t] = "call" /\ op'[t] = "modify"
            /\ \A u \in Threads \ {t} : pc'[u] = pc[u] /\ op'[u] = op[u]
        BY Zenon, <3>6, CallTypes DEF StartCall
      <4>2. Saved(t)'
        BY Zenon, <1>0, <2>0, <2>2, <4>1 DEF Saved
      <4>3. QED
        BY Zenon, <1>0, <2>0, <3>2, <3>6, <4>1, <4>2, SaveFrame
    <3>7. QED
      BY Zenon, <3>1, <3>3, <3>4, <3>5, <3>6
  <2>3. QED
    BY Zenon, <2>1, <2>2
<1>6. QED
  BY Zenon, <1>3, <1>4, <1>5

\* Every step keeps SaveInv.
LEMMA SaveStep ==
    ASSUME TypeOK, SaveInv, [Next]_vars
    PROVE  SaveInv'
<1>0. ASSUME NEW t \in Threads, StartCall(t, "search"), UNCHANGED <<ldapVars, result, entry, told>>,
             \A u \in Threads \ {t} : req'[u] = req[u],
             req'[t] # None => told[t] = "nothing",
             req'[t] = None => req[t] = None
      PROVE  SaveInv'
  <2>1. /\ pc'[t] = "call" /\ op'[t] = "search"
        /\ \A u \in Threads \ {t} : pc'[u] = pc[u] /\ op'[u] = op[u]
    BY Zenon, <1>0, CallTypes DEF StartCall
  <2>2. Saved(t)'
    BY Zenon, <1>0, <2>1 DEF SaveInv, Saved
  <2>3. UNCHANGED <<dir, touched>>
    BY Zenon, <1>0 DEF ldapVars
  <2>4. QED
    BY Zenon, <1>0, <2>1, <2>2, <2>3, SaveFrame
<1>1. ASSUME NEW t \in Threads, NEW r \in Requests, AddSSHKey(t, r) PROVE SaveInv'
  <2>1. req'[t] = r /\ \A u \in Threads \ {t} : req'[u] = req[u]
    BY Zenon, <1>1, CallTypes DEF AddSSHKey
  <2>2. r # None
    BY Zenon, LDAPAssumption
  <2>3. QED
    BY Zenon, <1>0, <1>1, <2>1, <2>2 DEF AddSSHKey
<1>2. ASSUME NEW t \in Threads, Update(t) PROVE SaveInv'
  BY Zenon, <1>0, <1>2 DEF Update
<1>3. ASSUME NEW t \in Threads, Step(t) PROVE SaveInv'
  <2>1. CASE HandleSearch(t) \/ HandleModify(t) \/ Told(t)
    BY Zenon, <2>1, HandlerKeepsSaved
  <2>2. CASE Call(t)
    BY Zenon, <2>2, CallKeepsSaved DEF Call, ldapVars
  <2>3. CASE Return(t)
    BY Zenon, <2>3, CallKeepsSaved DEF Return, ldapVars
  <2>4. CASE NetworkError(t)
    BY Zenon, <2>4, CallKeepsSaved DEF NetworkError, ldapVars
  <2>5. CASE Open(t) \/ OpenFails(t) \/ Assign(t)
    BY Zenon, <2>5, CallKeepsSaved DEF Open, OpenFails, Assign, ldapVars
  <2>6. CASE Serve(t)
    <3>1. op[t] = "modify" => /\ req[t] # None /\ req[t].user \in Users
                              /\ SshKey(req[t]) \in Keys
      BY Zenon, Sendable DEF SaveInv, Saved
    <3>2. \A u \in Threads : req[u] # None /\ Listed(u) => Listed(u)'
      BY Zenon, <2>6, <3>1, ListedKept DEF Serve
    <3>3. op[t] = "modify" /\ result'[t] = "ok" => Listed(t)'
      BY <2>6, <3>1, AddValueType DEF Serve, Listed, TypeOK
    <3>4. /\ op[t] = "search" /\ result'[t] = "ok" /\ req[t] # None
          /\ entry'[t] # None /\ SshKey(req[t]) \in entry'[t].keys
          => Listed(t)'
      BY <2>6 DEF Serve, Listed, TypeOK
    <3>5. /\ UNCHANGED <<touched, told, op, req>>
          /\ pc' = [pc EXCEPT ![t] = "answer"]
          /\ \A u \in Threads \ {t} : result'[u] = result[u] /\ entry'[u] = entry[u]
      BY Zenon, <2>6, CallTypes DEF Serve
    <3>6. QED
      <4>1. pc'[t] = "answer" /\ \A u \in Threads \ {t} : pc'[u] = pc[u]
        BY Zenon, <3>5, CallTypes
      <4>2. Saved(t)'
        BY Zenon, <3>2, <3>3, <3>4, <3>5, <4>1, CallTypes DEF SaveInv, Saved
      <4>3. ASSUME NEW u \in Threads \ {t} PROVE Saved(u)'
        BY Zenon, <3>2, <3>5, <4>1 DEF SaveInv, Saved
      <4>4. QED
        BY Zenon, <4>2, <4>3 DEF SaveInv
  <2>7. QED
    BY Zenon, <1>3, <2>1, <2>2, <2>3, <2>4, <2>5, <2>6 DEF Step
<1>4. ASSUME NEW c \in alive, Break(c) PROVE SaveInv'
  BY ZenonT(60), <1>4 DEF Break, SaveInv, Saved, Listed, callVars
<1>5. ASSUME NEW m \in late, ApplyLate(m) PROVE SaveInv'
  <2>1. m.user \in Users /\ m.key \in Keys
    BY Zenon DEF TypeOK, Modifies
  <2>2. \A u \in Threads : req[u] # None /\ Listed(u) => Listed(u)'
    BY Zenon, <1>5, <2>1, ListedKept DEF ApplyLate
  <2>3. QED
    BY Zenon, <1>5, <2>2 DEF ApplyLate, SaveInv, Saved, callVars
<1>6. ASSUME NEW u \in Users, NEW e \in Entries \cup {None}, AdminChange(u, e)
      PROVE  SaveInv'
  <2>1. \A t \in Threads : req[t] # None /\ ~touched'[t] =>
            ~touched[t] /\ (Listed(t) => Listed(t)')
    BY <1>6, Sendable, Zenon DEF AdminChange, Listed, TypeOK
  <2>2. QED
    BY Zenon, <1>6, <2>1 DEF AdminChange, SaveInv, Saved, callVars
<1>7. CASE UNCHANGED vars
  BY Zenon, <1>7 DEF vars, ldapVars, callVars, SaveInv, Saved, Listed
<1>8. QED
  BY Zenon, <1>1, <1>2, <1>3, <1>4, <1>5, <1>6, <1>7 DEF Next
-----------------------------------------------------------------------------
LEMMA InitInv ==
    ASSUME Init
    PROVE  TypeOK /\ NetInv /\ GrantInv /\ SaveInv
<1> USE LDAPAssumption DEF Init
<1>1. opened \in Conns /\ 1 \in 1..opened /\ 1 \in 1..2 /\ changes \in 0..MaxChanges
  BY DEF Conns
<1>2. dir \in [Users -> Entry \cup {None}]
  BY Zenon
<1>3. TypeOK
  BY Zenon, <1>1, <1>2 DEF TypeOK
<1>4. GrantInv
  <2>1. KeysGranted
    BY Zenon, <1>2 DEF KeysGranted, Entry
  <2>2. QED
    BY Zenon, <2>1 DEF GrantInv
<1>5. QED
  BY Zenon, <1>3, <1>4 DEF NetInv, SaveInv, Saved

LEMMA Invariant == Spec => [](TypeOK /\ NetInv /\ GrantInv /\ SaveInv)
  BY InitInv, TypeStep, NetStep, GrantStep, SaveStep, PTL DEF Spec

\* The variables of the connection and of its callers keep their types.
THEOREM TypeCorrect == Spec => []TypeOK
  BY Invariant, PTL

\* Search and Modify return a network error only if Refresh failed or a broken
\* connection was in play.
THEOREM NetworkErrorExplainedAlways == Spec => []NetworkErrorExplained
<1>1. NetInv => NetworkErrorExplained
  BY Zenon DEF NetInv, NetworkErrorExplained
<1>2. QED
  BY <1>1, Invariant, PTL

\* No key gets into LDAP that was not asked for with the user's password.
THEOREM KeysGrantedAlways == Spec => []KeysGranted
<1>1. GrantInv => KeysGranted
  BY Zenon DEF GrantInv
<1>2. QED
  BY <1>1, Invariant, PTL

\* When hologram-authorize reports success, LDAP lists the key.
THEOREM SavedKeyListedAlways == Spec => []SavedKeyListed
<1>1. SaveInv => SavedKeyListed
  BY Zenon DEF SaveInv, Saved, SavedKeyListed, Listed
<1>2. QED
  BY <1>1, Invariant, PTL
=============================================================================
