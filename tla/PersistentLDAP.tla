--------------------------- MODULE PersistentLDAP ---------------------------
(***************************************************************************)
(* The connection to LDAP that all goroutines of the server share without  *)
(* a lock (server/persistent_ldap.go), and its users: the handlers of      *)
(* AddSSHKey requests (server/server.go), which hologram-authorize sends,  *)
(* and Updates of the user cache, which only search.  A connection breaks  *)
(* at any time; a request on it may then have been applied, be applied     *)
(* later, or be lost.  Refresh opens a connection and assigns it in two    *)
(* steps.                                                                  *)
(***************************************************************************)
EXTENDS Naturals, Sequences

CONSTANTS
    Threads,     \* goroutines of the server
    Users, Keys, Passwords,
    Requests,    \* runs of hologram-authorize
    Entries,     \* entries that others make
    None,
    MaxConns,    \* bound on the connections opened
    MaxChanges   \* bound on changes of LDAP by others

Entry == [pass : Passwords, keys : SUBSET Keys]

Conns == 1..MaxConns

\* hologram-authorize: the first key of the SSH agent, else the first file of
\* ~/.ssh that holds a key (None is a file that does not).
SshKey(r) ==
    LET good == {i \in DOMAIN r.files : r.files[i] # None}
    IN  IF r.agent # <<>> THEN r.agent[1]
        ELSE IF good = {} THEN None
        ELSE r.files[CHOOSE i \in good : \A j \in good : i <= j]

ASSUME LDAPAssumption ==
    /\ MaxConns \in Nat \ {0} /\ MaxChanges \in Nat
    /\ Entries \subseteq Entry
    /\ None \notin Entry /\ None \notin Keys
    /\ None \notin Requests
    /\ \A r \in Requests : r.user \in Users /\ SshKey(r) \in Keys \cup {None}

VARIABLES
    dir,         \* LDAP: the entry of each user, or None
    late,        \* LDAP: Modify requests of broken connections, still to be applied
    alive,       \* the connections that work
    opened,      \* how many have been opened
    conn,        \* pl.conn
    pc, req,     \* where each goroutine is, and its AddSSHKey request (or None)
    op, try,     \* its call of the persistentLDAP, and which attempt it is at
    via,         \* the connection of this attempt, 1 outside it
    fresh,       \* the connection Refresh has opened, 1 outside it
    result,      \* how the call, and then the request, ended
    entry,       \* what the search found
    told,        \* what hologram-authorize has printed
    changes,     \* number of changes by others
    granted,     \* history: keys listed by others, or asked for with the password
    touched,     \* history: has someone else changed the entry since the request?
    disturbed    \* history: did a connection break, or Refresh fail, in the call?

ldapVars == <<dir, late, changes, granted, touched>>
connVars == <<alive, opened, conn>>
callVars == <<op, try, via, fresh, result, entry>>
vars == <<ldapVars, connVars, callVars, pc, req, told, disturbed>>

Modifies == [by : Threads, try : 1..2, user : Users, key : Keys]

TypeOK ==
    /\ dir \in [Users -> Entry \cup {None}]
    /\ late \subseteq Modifies
    /\ opened \in Conns /\ alive \subseteq 1..opened /\ conn \in 1..opened
    /\ pc \in [Threads -> {"idle", "call", "wait", "answer", "open", "assign",
                           "handle", "reply"}]
    /\ req \in [Threads -> {None} \cup {r \in Requests : SshKey(r) # None}]
    /\ op \in [Threads -> {"search", "modify"}]
    /\ try \in [Threads -> 1..2]
    /\ via \in [Threads -> 1..opened]
    /\ fresh \in [Threads -> 1..opened]
    /\ result \in [Threads -> {"ok", "refused", "network"}]
    /\ entry \in [Threads -> Entry \cup {None}]
    /\ told \in [Threads -> {"nothing", "saved", "failed"}]
    /\ changes \in 0..MaxChanges
    /\ granted \subseteq Users \X Keys
    /\ touched \in [Threads -> BOOLEAN]
    /\ disturbed \in [Threads -> BOOLEAN]

\* NewPersistentLDAP has opened a connection; otherwise the server exits.
Init ==
    /\ dir \in [Users -> Entries \cup {None}]
    /\ late = {}
    /\ alive = {1} /\ opened = 1 /\ conn = 1
    /\ pc = [t \in Threads |-> "idle"]
    /\ req = [t \in Threads |-> None]
    /\ op = [t \in Threads |-> "search"]
    /\ try = [t \in Threads |-> 1]
    /\ via = [t \in Threads |-> 1]
    /\ fresh = [t \in Threads |-> 1]
    /\ result = [t \in Threads |-> "ok"]
    /\ entry = [t \in Threads |-> None]
    /\ told = [t \in Threads |-> "nothing"]
    /\ changes = 0
    /\ granted = {x \in Users \X Keys : dir[x[1]] # None /\ x[2] \in dir[x[1]].keys}
    /\ touched = [t \in Threads |-> FALSE]
    /\ disturbed = [t \in Threads |-> FALSE]
-----------------------------------------------------------------------------
(* The callers: AddSSHKey and Update. *)

\* A call of pl.Search or pl.Modify begins.
StartCall(t, o) ==
    /\ pc' = [pc EXCEPT ![t] = "call"]
    /\ op' = [op EXCEPT ![t] = o]
    /\ try' = [try EXCEPT ![t] = 1]
    /\ disturbed' = [disturbed EXCEPT ![t] =
                       \E u \in Threads : pc[u] = "assign" /\ fresh[u] \notin alive]

\* hologram-authorize has found a key and sends it, once per connection; the
\* handler searches.
AddSSHKey(t, r) ==
    /\ pc[t] = "idle" /\ told[t] = "nothing"
    /\ SshKey(r) # None
    /\ req' = [req EXCEPT ![t] = r]
    /\ StartCall(t, "search")
    /\ UNCHANGED <<ldapVars, connVars, via, fresh, result, entry, told>>

\* An Update of the user cache searches.
Update(t) ==
    /\ pc[t] = "idle" /\ req[t] = None
    /\ StartCall(t, "search")
    /\ UNCHANGED <<ldapVars, connVars, via, fresh, result, entry, req, told>>

\* The handler writes its answer: Success if x is "ok", an error otherwise.
Answer(t, x) ==
    /\ pc' = [pc EXCEPT ![t] = "reply"]
    /\ result' = [result EXCEPT ![t] = x]
    /\ UNCHANGED <<op, try, disturbed>>

\* Mutant of Allowed: the password is not compared.
AllowedAnyone(t) == entry[t] # None

\* The user exists and the password is the one LDAP has.
Allowed(t) == entry[t] # None /\ entry[t].pass = req[t].pass

\* The call's variables are gone when the goroutine has finished.
Finish(t) ==
    /\ pc' = [pc EXCEPT ![t] = "idle"]
    /\ op' = [op EXCEPT ![t] = "search"]
    /\ try' = [try EXCEPT ![t] = 1]
    /\ via' = [via EXCEPT ![t] = 1]
    /\ fresh' = [fresh EXCEPT ![t] = 1]
    /\ result' = [result EXCEPT ![t] = "ok"]
    /\ entry' = [entry EXCEPT ![t] = None]
    /\ disturbed' = [disturbed EXCEPT ![t] = FALSE]

\* The search has ended: an error, a wrong password, a key that is there
\* already, or else the Modify.  An Update goes on with what it found.
HandleSearch(t) ==
    /\ pc[t] = "handle" /\ op[t] = "search"
    /\ IF req[t] = None THEN Finish(t)
       ELSE /\ IF result[t] # "ok" THEN Answer(t, result[t])
               ELSE IF ~Allowed(t) THEN Answer(t, "refused")
               ELSE IF SshKey(req[t]) \in entry[t].keys THEN Answer(t, "ok")
               ELSE StartCall(t, "modify") /\ UNCHANGED result
            /\ entry' = [entry EXCEPT ![t] = None]
            /\ UNCHANGED <<via, fresh>>
    /\ UNCHANGED <<ldapVars, connVars, req, told>>

\* Mutant of HandleModify: the error of Modify is dropped.
HandleModifyDropsError(t) ==
    /\ pc[t] = "handle" /\ op[t] = "modify"
    /\ Answer(t, "ok")
    /\ UNCHANGED <<ldapVars, connVars, req, via, fresh, entry, told>>

\* The Modify has ended.
HandleModify(t) ==
    /\ pc[t] = "handle" /\ op[t] = "modify"
    /\ Answer(t, result[t])
    /\ UNCHANGED <<ldapVars, connVars, req, via, fresh, entry, told>>

\* hologram-authorize reads the answer, or fails to.
Told(t) ==
    /\ pc[t] = "reply"
    /\ \E x \in {"failed"} \cup (IF result[t] = "ok" THEN {"saved"} ELSE {}) :
          told' = [told EXCEPT ![t] = x]
    /\ Finish(t)
    /\ UNCHANGED <<ldapVars, connVars, req>>
-----------------------------------------------------------------------------
(* persistentLDAP: Search and Modify, which differ only in the request. *)

\* pl.conn is read and the request sent on it.
Call(t) ==
    /\ pc[t] = "call"
    /\ via' = [via EXCEPT ![t] = conn]
    /\ pc' = [pc EXCEPT ![t] = "wait"]
    /\ UNCHANGED <<ldapVars, connVars, op, try, fresh, result, entry, req, told,
                   disturbed>>

\* The answer of LDAP arrives, and is returned unless it is a network error.
Return(t) ==
    /\ pc[t] = "answer"
    /\ via[t] \in alive
    /\ pc' = [pc EXCEPT ![t] = "handle"]
    /\ via' = [via EXCEPT ![t] = 1]
    /\ UNCHANGED <<ldapVars, connVars, op, try, fresh, result, entry, req, told,
                   disturbed>>

\* The connection is broken: after the first attempt Refresh is called, the
\* error of the second is returned.
NetworkError(t) ==
    /\ pc[t] \in {"wait", "answer"}
    /\ via[t] \notin alive
    /\ pc' = [pc EXCEPT ![t] = IF try[t] = 1 THEN "open" ELSE "handle"]
    /\ result' = [result EXCEPT ![t] = "network"]
    /\ via' = [via EXCEPT ![t] = 1]
    /\ UNCHANGED <<ldapVars, connVars, op, try, fresh, entry, req, told,
                   disturbed>>

\* Refresh: a new connection is dialled and bound.
Open(t) ==
    /\ pc[t] = "open"
    /\ opened < MaxConns
    /\ opened' = opened + 1
    /\ alive' = alive \cup {opened + 1}
    /\ fresh' = [fresh EXCEPT ![t] = opened + 1]
    /\ pc' = [pc EXCEPT ![t] = "assign"]
    /\ UNCHANGED <<ldapVars, conn, op, try, via, result, entry, req, told,
                   disturbed>>

\* Mutant of OpenFails: the nil connection is assigned.
OpenFailsAssigned(t) ==
    /\ pc[t] = "open"
    /\ conn' = 0
    /\ pc' = [pc EXCEPT ![t] = "call"]
    /\ try' = [try EXCEPT ![t] = 2]
    /\ disturbed' = [disturbed EXCEPT ![t] = TRUE]
    /\ UNCHANGED <<ldapVars, alive, opened, op, via, fresh, result, entry, req, told>>

\* Refresh returns an error, which is dropped: the second attempt goes to pl.conn.
OpenFails(t) ==
    /\ pc[t] = "open"
    /\ pc' = [pc EXCEPT ![t] = "call"]
    /\ try' = [try EXCEPT ![t] = 2]
    /\ disturbed' = [disturbed EXCEPT ![t] = TRUE]
    /\ UNCHANGED <<ldapVars, connVars, op, via, fresh, result, entry, req, told>>

\* Mutant of Assign: the new connection is not stored.
AssignNothing(t) ==
    /\ pc[t] = "assign"
    /\ pc' = [pc EXCEPT ![t] = "call"]
    /\ try' = [try EXCEPT ![t] = 2]
    /\ UNCHANGED <<ldapVars, connVars, op, via, fresh, result, entry, req, told,
                   disturbed>>

\* Refresh assigns pl.conn; the second attempt reads it again.
Assign(t) ==
    /\ pc[t] = "assign"
    /\ conn' = fresh[t]
    /\ pc' = [pc EXCEPT ![t] = "call"]
    /\ try' = [try EXCEPT ![t] = 2]
    /\ fresh' = [fresh EXCEPT ![t] = 1]
    /\ UNCHANGED <<ldapVars, alive, opened, op, via, result, entry, req, told,
                   disturbed>>
-----------------------------------------------------------------------------
(* LDAP and the network, as the server meets them. *)

\* What adding a key to an entry does: sshPublicKey is a set of values.
AddValue(u, k) == [dir EXCEPT ![u] = [pass |-> @.pass, keys |-> @.keys \cup {k}]]

\* LDAP refuses to add a value that is there, or to an entry that is not.
CanAdd(u, k) == dir[u] # None /\ k \notin dir[u].keys

\* LDAP works on the request of goroutine t.  It may refuse any.
Serve(t) ==
    /\ pc[t] = "wait"
    /\ via[t] \in alive
    /\ pc' = [pc EXCEPT ![t] = "answer"]
    /\ \/ /\ result' = [result EXCEPT ![t] = "refused"]
          /\ UNCHANGED <<dir, granted, entry>>
       \/ /\ op[t] = "search"
          /\ result' = [result EXCEPT ![t] = "ok"]
          /\ IF req[t] = None THEN UNCHANGED <<entry, granted>>
             ELSE LET u == req[t].user IN
                  /\ entry' = [entry EXCEPT ![t] = dir[u]]
                  /\ granted' = IF dir[u] # None /\ dir[u].pass = req[t].pass
                                THEN granted \cup {<<u, SshKey(req[t])>>} ELSE granted
          /\ UNCHANGED dir
       \/ /\ op[t] = "modify"
          /\ CanAdd(req[t].user, SshKey(req[t]))
          /\ result' = [result EXCEPT ![t] = "ok"]
          /\ dir' = AddValue(req[t].user, SshKey(req[t]))
          /\ UNCHANGED <<granted, entry>>
    /\ UNCHANGED <<late, changes, touched, connVars, op, try, via, fresh, req, told,
                   disturbed>>

\* A connection breaks.  LDAP may have received some of the Modify requests sent
\* on it, which it has not yet worked on.
Break(c) ==
    /\ c \in alive
    /\ alive' = alive \ {c}
    /\ \E T \in SUBSET {t \in Threads : pc[t] = "wait" /\ via[t] = c /\ op[t] = "modify"} :
          late' = late \cup {[by |-> t, try |-> try[t], user |-> req[t].user,
                              key |-> SshKey(req[t])] : t \in T}
    /\ disturbed' = [t \in Threads |-> pc[t] # "idle"]
    /\ UNCHANGED <<dir, changes, granted, touched, opened, conn, callVars, pc, req, told>>

\* LDAP applies a request whose sender has given up on the connection.
ApplyLate(m) ==
    /\ m \in late
    /\ late' = late \ {m}
    /\ dir' = IF CanAdd(m.user, m.key) THEN AddValue(m.user, m.key) ELSE dir
    /\ UNCHANGED <<changes, granted, touched, connVars, callVars, pc, req, told,
                   disturbed>>

\* An administrator changes, adds or deletes an entry.
AdminChange(u, e) ==
    /\ changes < MaxChanges
    /\ changes' = changes + 1
    /\ dir' = [dir EXCEPT ![u] = e]
    /\ granted' = IF e = None THEN granted ELSE granted \cup ({u} \X e.keys)
    /\ touched' = [t \in Threads |-> touched[t] \/ (req[t] # None /\ req[t].user = u)]
    /\ UNCHANGED <<late, connVars, callVars, pc, req, told, disturbed>>
-----------------------------------------------------------------------------
Step(t) ==
    \/ HandleSearch(t) \/ HandleModify(t) \/ Told(t)
    \/ Call(t) \/ Return(t) \/ NetworkError(t)
    \/ Open(t) \/ OpenFails(t) \/ Assign(t)
    \/ Serve(t)

Next ==
    \/ \E t \in Threads : Step(t) \/ Update(t) \/ \E r \in Requests : AddSSHKey(t, r)
    \/ \E c \in alive : Break(c)
    \/ \E m \in late : ApplyLate(m)
    \/ \E u \in Users, e \in Entries \cup {None} : AdminChange(u, e)

Spec == Init /\ [][Next]_vars
-----------------------------------------------------------------------------
\* hologram-authorize prints "Successfully saved key!" only if LDAP lists the
\* key, unless someone else has changed the entry: whichever attempt succeeded,
\* and however many goroutines replaced the connection meanwhile.
SavedKeyListed ==
    \A t \in Threads :
        told[t] = "saved" /\ ~touched[t] =>
            /\ dir[req[t].user] # None
            /\ SshKey(req[t]) \in dir[req[t].user].keys

\* Every key LDAP lists was listed by others, or asked for with the password
\* that LDAP had at the time of the search: no retry, late Modify or answer
\* meant for another request adds a key for anyone else.
KeysGranted ==
    \A u \in Users : dir[u] # None => \A k \in dir[u].keys : <<u, k>> \in granted

\* Search and Modify recover: they return a network error only if Refresh
\* failed, or a connection broke during the call or was about to be assigned,
\* broken, by another goroutine when the call began.
NetworkErrorExplained ==
    \A t \in Threads :
        pc[t] = "handle" /\ result[t] = "network" => disturbed[t]
=============================================================================
