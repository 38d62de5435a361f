------------------------------- MODULE Session -------------------------------
(***************************************************************************)
(* A request for credentials, from the agent (agent/client.go) to the      *)
(* server (server/server.go), one connection per request.  The handlers of *)
(* all connections share the user cache; STS and LDAP are external and may *)
(* fail at any call.  A connection is a pair of FIFO queues that either    *)
(* end may close and that the network may break.                           *)
(*                                                                         *)
(* Update of the user cache is called by any handler, with no lock: its    *)
(* two searches and each store into a map are steps, between which LDAP    *)
(* and the maps may change.  The reload goroutine makes the same steps as  *)
(* the handler of one more connection, and is not a process here.  A pass  *)
(* of _verify over the users is one step; module UserCache has its steps.  *)
(***************************************************************************)
EXTENDS Arn, FiniteSets, Functions

CONSTANTS
    Conns,            \* the connections
    Users, Groups,    \* LDAP users and groups
    Keys,             \* SSH keys
    RoleNames,        \* what users and LDAP write for a role
    Keyring,          \* the keys the SSH agent behind a connection offers
    Directories,      \* the contents LDAP can have
    Requests,         \* the requests made: [kind, role]
    EnableLDAPRoles,  \* configuration: do roles come from LDAP?
    DefaultRole,      \* configuration: role of a user who has none in LDAP
    None,             \* no value
    MaxDirChanges     \* bound on the changes of LDAP

Arns == {BuildARN(r) : r \in RoleNames}

\* A User of the cache.
UserRecord == [keys : SUBSET Keys, arns : SUBSET RoleNames, defaultRole : RoleNames]

\* What the search for users finds of one.
UserEntry == [keys : SUBSET Keys, memberOf : SUBSET Groups,
              defaultRole : RoleNames \cup {None}]

\* What a user or a server's operator can ask for.
Request == [kind : {"use"}, role : RoleNames] \cup [kind : {"me", "ping"}, role : {None}]

ASSUME SessionAssumption ==
    /\ \A r \in RoleNames : IsRoleName(r)
    /\ Keyring \in [Conns -> Seq(Keys)]
    /\ Directories \subseteq [users : [Users -> {None} \cup UserEntry],
                              groups : [Groups -> {None} \cup SUBSET RoleNames]]
    /\ Requests \subseteq Request
    /\ EnableLDAPRoles \in BOOLEAN
    /\ DefaultRole \in RoleNames
    /\ None \notin RoleNames /\ None \notin Users
    /\ \A rs \in SUBSET RoleNames : rs # None
    /\ \A r \in UserRecord \cup UserEntry \cup Directories : r # None
    /\ MaxDirChanges \in Nat

VARIABLES
    ldap,       \* the content of LDAP: [users, groups]
    changes,    \* how often LDAP has changed
    users,      \* luc.users, the server's user cache
    groups,     \* luc.groups, the roles of each group
    upd,        \* what the handler's Update searched for last: "none", "groups", "users"
    found,      \* the content of LDAP that search met, or None
    todo,       \* the entries it found that are still to be stored
    serverUp,   \* is the server process running?
    net,        \* each connection: "none", "up" or "broken"
    toServer, toClient,  \* messages in flight
    serverEnd,  \* the server's end: "none", "open" or "closed"
    clientEnd,  \* the agent's end: as above, or "dropped", not yet collected
    spc,        \* where the handler of the connection is
    req,        \* what the connection asks for: [kind, role]
    challenge,  \* how many challenges the server has sent
    sig,        \* the response being verified
    user,       \* the authenticated user: [name, rec], or None
    cpc,        \* where requestCredentials is
    skip,       \* how many keys the agent has given up on
    stored,     \* what SetCredentials was given: [creds, role], or None
    rejected,   \* history: the keys the server has rejected
    seen        \* history: the contents LDAP has had

ldapVars == <<ldap, changes, seen>>
cacheVars == <<users, groups, upd, found, todo>>
netVars == <<net, toServer, toClient, serverEnd, clientEnd>>
serverVars == <<spc, challenge, sig, user, rejected>>
clientVars == <<cpc, req, skip, stored>>
vars == <<ldapVars, cacheVars, serverUp, netVars, serverVars, clientVars>>
-----------------------------------------------------------------------------
(* Messages *)

Credentials == [name : Users, arn : Arns]

ToServer == [type : {"request"}, req : Request]
            \cup [type : {"response"}, key : Keys, challenge : Nat]
ToClient == [type : {"challenge"}, challenge : Nat]
            \cup [type : {"credentials"}, creds : Credentials]
            \cup [type : {"verificationFailure", "error", "pong"}]

TypeOK ==
    /\ ldap \in Directories
    /\ changes \in 0..MaxDirChanges
    /\ users \in [Users -> {None} \cup UserRecord]
    /\ groups \in [Groups -> SUBSET RoleNames]
    /\ upd \in [Conns -> {"none", "groups", "users"}]
    /\ found \in [Conns -> {None} \cup Directories]
    /\ todo \in [Conns -> SUBSET (Users \cup Groups)]
    /\ serverUp \in BOOLEAN
    /\ net \in [Conns -> {"none", "up", "broken"}]
    /\ toServer \in [Conns -> Seq(ToServer)]
    /\ toClient \in [Conns -> Seq(ToClient)]
    /\ serverEnd \in [Conns -> {"none", "open", "closed"}]
    /\ clientEnd \in [Conns -> {"none", "open", "dropped", "closed"}]
    /\ spc \in [Conns -> {"none", "read", "challenge", "response", "verify",
                          "authUpdate", "verifyAgain", "failure", "assume",
                          "update", "retry", "fallback", "exited"}]
    /\ req \in [Conns -> {None} \cup Request]
    /\ challenge \in [Conns -> Nat]
    /\ sig \in [Conns -> {None} \cup [key : Keys, challenge : Nat]]
    /\ user \in [Conns -> {None} \cup [name : Users, rec : UserRecord]]
    /\ cpc \in [Conns -> {"idle", "reading", "ok", "error", "noKeys"}]
    /\ skip \in [Conns -> Nat]
    /\ \A c \in Conns : skip[c] <= Len(Keyring[c])
    /\ stored \in [Conns -> {None} \cup [creds : Credentials,
                                         role : RoleNames \cup {None}]]
    /\ rejected \in [Conns -> SUBSET Keys]
    /\ seen \in SUBSET Directories

\* The role of a user who asks for none.
DefaultFor(entry) == IF EnableLDAPRoles /\ entry.defaultRole # None
                     THEN entry.defaultRole ELSE DefaultRole

\* The User that Update makes of an entry, with the roles luc.groups has.
MakeUser(entry, roles) ==
    [keys |-> entry.keys,
     arns |-> IF EnableLDAPRoles THEN UNION {roles[g] : g \in entry.memberOf} ELSE {},
     defaultRole |-> DefaultFor(entry)]

\* The server has filled its cache when it begins to listen.
Init ==
    /\ ldap \in Directories
    /\ changes = 0
    /\ groups = [g \in Groups |-> IF ~EnableLDAPRoles \/ ldap.groups[g] = None
                                  THEN {} ELSE ldap.groups[g]]
    /\ users = [u \in Users |-> IF ldap.users[u] = None THEN None
                                ELSE MakeUser(ldap.users[u], groups)]
    /\ upd = [c \in Conns |-> "none"]
    /\ found = [c \in Conns |-> None]
    /\ todo = [c \in Conns |-> {}]
    /\ serverUp = TRUE
    /\ net = [c \in Conns |-> "none"]
    /\ toServer = [c \in Conns |-> <<>>]
    /\ toClient = [c \in Conns |-> <<>>]
    /\ serverEnd = [c \in Conns |-> "none"]
    /\ clientEnd = [c \in Conns |-> "none"]
    /\ spc = [c \in Conns |-> "none"]
    /\ req = [c \in Conns |-> None]
    /\ challenge = [c \in Conns |-> 0]
    /\ sig = [c \in Conns |-> None]
    /\ user = [c \in Conns |-> None]
    /\ cpc = [c \in Conns |-> "idle"]
    /\ skip = [c \in Conns |-> 0]
    /\ stored = [c \in Conns |-> None]
    /\ rejected = [c \in Conns |-> {}]
    /\ seen = {ldap}
-----------------------------------------------------------------------------
(* The environment *)

DirectoryChange ==
    /\ changes < MaxDirChanges
    /\ ldap' \in Directories \ {ldap}
    /\ changes' = changes + 1
    /\ seen' = seen \cup {ldap'}
    /\ UNCHANGED <<cacheVars, serverUp, netVars, serverVars, clientVars>>

\* The network loses the connection and what is in flight on it.
Break(c) ==
    /\ net[c] = "up"
    /\ net' = [net EXCEPT ![c] = "broken"]
    /\ toServer' = [toServer EXCEPT ![c] = <<>>]
    /\ toClient' = [toClient EXCEPT ![c] = <<>>]
    /\ UNCHANGED <<ldapVars, cacheVars, serverUp, serverEnd, clientEnd, serverVars,
                   clientVars>>

\* The garbage collector finds the connection the agent has let go of.
Finalize(c) ==
    /\ clientEnd[c] = "dropped"
    /\ clientEnd' = [clientEnd EXCEPT ![c] = "closed"]
    /\ UNCHANGED <<ldapVars, cacheVars, serverUp, net, toServer, toClient, serverEnd,
                   serverVars, clientVars>>

\* A message written to a connection that works is queued.
Works(c) == net[c] = "up" /\ serverEnd[c] = "open" /\ clientEnd[c] # "closed"

Send(q, c, m) == [q EXCEPT ![c] = IF Works(c) THEN Append(@, m) ELSE @]
-----------------------------------------------------------------------------
(* The server: HandleConnection, HandleServerRequest, SSHChallenge *)

ServerReads(c, type) ==
    /\ net[c] = "up"
    /\ serverEnd[c] = "open"
    /\ toServer[c] # <<>>
    /\ Head(toServer[c]).type = type
    /\ toServer' = [toServer EXCEPT ![c] = Tail(@)]

ServerReadFails(c) ==
    \/ net[c] = "broken"
    \/ serverEnd[c] = "closed"
    \/ clientEnd[c] = "closed" /\ Len(toServer[c]) <= 1

HandlePing(c) ==
    /\ spc[c] = "read"
    /\ ServerReads(c, "request")
    /\ Head(toServer[c]).req.kind = "ping"
    /\ toClient' = Send(toClient, c, [type |-> "pong"])
    /\ UNCHANGED <<ldapVars, cacheVars, serverUp, net, serverEnd, clientEnd,
                   serverVars, clientVars>>

HandleServerRequest(c) ==
    /\ spc[c] = "read"
    /\ ServerReads(c, "request")
    /\ Head(toServer[c]).req.kind # "ping"
    /\ spc' = [spc EXCEPT ![c] = "challenge"]
    /\ UNCHANGED <<ldapVars, cacheVars, serverUp, net, toClient, serverEnd, clientEnd,
                   challenge, sig, user, rejected, clientVars>>

\* Mutant of HandlerExits: after a failed read the loop goes on.
HandlerContinues(c) ==
    /\ spc[c] = "read"
    /\ ServerReadFails(c)
    /\ UNCHANGED vars

\* HandleConnection leaves its loop, without closing the connection.
HandlerExits(c) ==
    /\ spc[c] = "read"
    /\ ServerReadFails(c)
    /\ spc' = [spc EXCEPT ![c] = "exited"]
    /\ UNCHANGED <<ldapVars, cacheVars, serverUp, netVars, challenge, sig, user,
                   rejected, clientVars>>

\* A write of SSHChallenge: an error, which only a connection that does not
\* work can give, closes the connection.
WriteInChallenge(c, m, next) ==
    \/ /\ toClient' = Send(toClient, c, m)
       /\ spc' = [spc EXCEPT ![c] = next]
       /\ UNCHANGED serverEnd
    \/ /\ ~Works(c)
       /\ serverEnd' = [serverEnd EXCEPT ![c] = "closed"]
       /\ spc' = [spc EXCEPT ![c] = "read"]
       /\ UNCHANGED toClient

\* Mutant of SendChallenge: the challenge is drawn after the message is made.
SendOldChallenge(c) ==
    /\ spc[c] = "challenge"
    /\ challenge' = [challenge EXCEPT ![c] = @ + 1]
    /\ WriteInChallenge(c, [type |-> "challenge", challenge |-> challenge[c]],
                        "response")
    /\ UNCHANGED <<ldapVars, cacheVars, serverUp, net, toServer, clientEnd, sig, user,
                   rejected, clientVars>>

SendChallenge(c) ==
    /\ spc[c] = "challenge"
    /\ challenge' = [challenge EXCEPT ![c] = @ + 1]
    /\ WriteInChallenge(c, [type |-> "challenge", challenge |-> challenge[c] + 1],
                        "response")
    /\ UNCHANGED <<ldapVars, cacheVars, serverUp, net, toServer, clientEnd, sig, user,
                   rejected, clientVars>>

ReadResponse(c) ==
    /\ spc[c] = "response"
    /\ ServerReads(c, "response")
    /\ LET m == Head(toServer[c])
       IN  sig' = [sig EXCEPT ![c] = [key |-> m.key, challenge |-> m.challenge]]
    /\ spc' = [spc EXCEPT ![c] = "verify"]
    /\ UNCHANGED <<ldapVars, cacheVars, serverUp, net, toClient, serverEnd, clientEnd,
                   challenge, user, rejected, clientVars>>

ReadResponseFails(c) ==
    /\ spc[c] = "response"
    /\ ServerReadFails(c)
    /\ serverEnd' = [serverEnd EXCEPT ![c] = "closed"]
    /\ spc' = [spc EXCEPT ![c] = "read"]
    /\ UNCHANGED <<ldapVars, cacheVars, serverUp, net, toServer, toClient, clientEnd,
                   challenge, sig, user, rejected, clientVars>>

\* The cached users one of whose keys verifies the response.
Verified(c) == {u \in Users : /\ users[u] # None
                              /\ sig[c].key \in users[u].keys
                              /\ sig[c].challenge = challenge[c]}

\* Authenticate: _verify, and on a miss Update and _verify again.
Authenticate(c) ==
    /\ \/ /\ spc[c] \in {"verify", "verifyAgain"}
          /\ \E u \in Verified(c) :
                user' = [user EXCEPT ![c] = [name |-> u, rec |-> users[u]]]
          /\ spc' = [spc EXCEPT ![c] = "assume"]
          /\ UNCHANGED rejected
       \/ /\ spc[c] = "verify"
          /\ Verified(c) = {}
          /\ spc' = [spc EXCEPT ![c] = "authUpdate"]
          /\ UNCHANGED <<user, rejected>>
       \/ /\ spc[c] = "verifyAgain"
          /\ Verified(c) = {}
          /\ rejected' = [rejected EXCEPT ![c] = @ \cup {sig[c].key}]
          /\ spc' = [spc EXCEPT ![c] = "failure"]
          /\ UNCHANGED user
    /\ UNCHANGED <<ldapVars, cacheVars, serverUp, netVars, challenge, sig, clientVars>>

SendFailure(c) ==
    /\ spc[c] = "failure"
    /\ WriteInChallenge(c, [type |-> "verificationFailure"], "challenge")
    /\ UNCHANGED <<ldapVars, cacheVars, serverUp, net, toServer, clientEnd, challenge,
                   sig, user, rejected, clientVars>>
-----------------------------------------------------------------------------
(* The server: HandleServerRequest once the user is known *)

\* The role the handler asks for first.
WantedRole(c) == IF req[c].kind = "use" THEN req[c].role ELSE user[c].rec.defaultRole

\* Mutant of MayAssume: a user who has some role may assume any.
MayAssumeAny(c, role) == EnableLDAPRoles => user[c].rec.arns # {}

\* AssumeRole refuses a role the user does not have; STS may refuse any.
MayAssume(c, role) ==
    EnableLDAPRoles => \E a \in user[c].rec.arns : BuildARN(a) = BuildARN(role)

CredentialsMsg(c, role) ==
    [type |-> "credentials",
     creds |-> [name |-> user[c].name, arn |-> BuildARN(role)]]

\* Mutant of AssumeRole: the connection is closed behind the answer.
AssumeRoleAndClose(c) ==
    /\ spc[c] = "assume"
    /\ MayAssume(c, WantedRole(c))
    /\ toClient' = Send(toClient, c, CredentialsMsg(c, WantedRole(c)))
    /\ serverEnd' = [serverEnd EXCEPT ![c] = "closed"]
    /\ spc' = [spc EXCEPT ![c] = "read"]
    /\ UNCHANGED <<ldapVars, cacheVars, serverUp, net, toServer, clientEnd, challenge, sig,
                   user, rejected, clientVars>>

AssumeRole(c) ==
    /\ spc[c] = "assume"
    /\ \/ /\ MayAssume(c, WantedRole(c))
          /\ toClient' = Send(toClient, c, CredentialsMsg(c, WantedRole(c)))
          /\ spc' = [spc EXCEPT ![c] = "read"]
       \/ /\ spc' = [spc EXCEPT ![c] = "update"]
          /\ UNCHANGED toClient
    /\ UNCHANGED <<ldapVars, cacheVars, serverUp, net, toServer, serverEnd, clientEnd,
                   challenge, sig, user, rejected, clientVars>>

\* The retry uses the user found before the Update.
RetryFails(c) ==
    /\ spc[c] = "retry"
    /\ toClient' = Send(toClient, c, [type |-> "error"])
    /\ IF req[c].kind = "use"
       THEN /\ spc' = [spc EXCEPT ![c] = "fallback"]
            /\ UNCHANGED serverEnd
       ELSE /\ spc' = [spc EXCEPT ![c] = "read"]
            /\ serverEnd' = [serverEnd EXCEPT ![c] = "closed"]
    /\ UNCHANGED <<ldapVars, cacheVars, serverUp, net, toServer, clientEnd, challenge,
                   sig, user, rejected, clientVars>>

\* Mutant of RetrySucceedsForMe: the connection is not closed.
RetryLeavesOpen(c) ==
    /\ spc[c] = "retry"
    /\ req[c].kind = "me"
    /\ MayAssume(c, WantedRole(c))
    /\ spc' = [spc EXCEPT ![c] = "read"]
    /\ UNCHANGED <<ldapVars, cacheVars, serverUp, netVars, challenge, sig, user,
                   rejected, clientVars>>

\* For "me" the connection is closed and the credentials are dropped.
RetrySucceedsForMe(c) ==
    /\ spc[c] = "retry"
    /\ req[c].kind = "me"
    /\ MayAssume(c, WantedRole(c))
    /\ serverEnd' = [serverEnd EXCEPT ![c] = "closed"]
    /\ spc' = [spc EXCEPT ![c] = "read"]
    /\ UNCHANGED <<ldapVars, cacheVars, serverUp, net, toServer, toClient, clientEnd,
                   challenge, sig, user, rejected, clientVars>>

\* The process ends, with all handlers and their ends of the connections.
Dies ==
    /\ serverUp' = FALSE
    /\ spc' = [d \in Conns |-> IF spc[d] = "none" THEN "none" ELSE "exited"]
    /\ serverEnd' = [d \in Conns |-> IF serverEnd[d] = "none" THEN "none" ELSE "closed"]
    /\ UNCHANGED <<ldapVars, cacheVars, net, toServer, toClient, clientEnd, challenge,
                   sig, user, rejected, clientVars>>

\* For "use" the retry's credentials are in a variable of the inner block, and
\* makeCredsResponse dereferences the nil of the outer one: the process dies.
RetrySucceedsForUse(c) ==
    /\ spc[c] = "retry"
    /\ req[c].kind = "use"
    /\ MayAssume(c, WantedRole(c))
    /\ Dies

Fallback(c) ==
    /\ spc[c] = "fallback"
    /\ \/ /\ MayAssume(c, user[c].rec.defaultRole)
          /\ toClient' = Send(toClient, c, CredentialsMsg(c, user[c].rec.defaultRole))
       \/ UNCHANGED toClient
    /\ spc' = [spc EXCEPT ![c] = "read"]
    /\ UNCHANGED <<ldapVars, cacheVars, serverUp, net, toServer, serverEnd, clientEnd,
                   challenge, sig, user, rejected, clientVars>>
-----------------------------------------------------------------------------
(* The server: Update, in Authenticate and before a retry *)

Updating(c) == spc[c] \in {"authUpdate", "update"}

AfterUpdate(c) == IF spc[c] = "authUpdate" THEN "verifyAgain" ELSE "retry"

\* What Update searches for next: groups come first if roles come from LDAP.
SearchesGroups(c) == EnableLDAPRoles /\ upd[c] = "none"

SearchesUsers(c) == IF EnableLDAPRoles THEN upd[c] = "groups" /\ todo[c] = {}
                                       ELSE upd[c] = "none"

Search(c) ==
    /\ \/ /\ SearchesGroups(c)
          /\ upd' = [upd EXCEPT ![c] = "groups"]
          /\ todo' = [todo EXCEPT ![c] = {g \in Groups : ldap.groups[g] # None}]
       \/ /\ SearchesUsers(c)
          /\ upd' = [upd EXCEPT ![c] = "users"]
          /\ todo' = [todo EXCEPT ![c] = {u \in Users : ldap.users[u] # None}]
    /\ found' = [found EXCEPT ![c] = ldap]
    /\ UNCHANGED <<users, groups, spc>>

StoreGroup(c) ==
    /\ upd[c] = "groups"
    /\ \E g \in todo[c] :
          /\ groups' = [groups EXCEPT ![g] = found[c].groups[g]]
          /\ todo' = [todo EXCEPT ![c] = @ \ {g}]
    /\ UNCHANGED <<users, upd, found, spc>>

\* Mutant of UserFrom: the roles of a user are added to those it had.
UserFromBoth(c, u) ==
    [MakeUser(found[c].users[u], groups)
        EXCEPT !.arns = @ \cup IF users[u] = None THEN {} ELSE users[u].arns]

UserFrom(c, u) == MakeUser(found[c].users[u], groups)

\* A user found replaces the cached one; none leaves the cache.
StoreUser(c) ==
    /\ upd[c] = "users"
    /\ \E u \in todo[c] :
          /\ users' = [users EXCEPT ![u] = UserFrom(c, u)]
          /\ todo' = [todo EXCEPT ![c] = @ \ {u}]
    /\ UNCHANGED <<groups, upd, found, spc>>

\* Update has stored all, or a search of it fails; its error is not looked at.
UpdateReturns(c) ==
    /\ SearchesGroups(c) \/ SearchesUsers(c) \/ (upd[c] = "users" /\ todo[c] = {})
    /\ upd' = [upd EXCEPT ![c] = "none"]
    /\ found' = [found EXCEPT ![c] = None]
    /\ todo' = [todo EXCEPT ![c] = {}]
    /\ spc' = [spc EXCEPT ![c] = AfterUpdate(c)]
    /\ UNCHANGED <<users, groups>>

Update(c) ==
    /\ Updating(c)
    /\ Search(c) \/ StoreGroup(c) \/ StoreUser(c) \/ UpdateReturns(c)
    /\ UNCHANGED <<ldapVars, serverUp, netVars, challenge, sig, user, rejected, clientVars>>

Stores(c, kind) == Updating(c) /\ upd[c] = kind /\ todo[c] # {}

\* A handler is about to store into a map of the cache that another stores into
\* or reads: the runtime may see it and end the process.
MapFault(c, d) ==
    /\ c # d
    /\ \/ Stores(c, "users") /\ (Stores(d, "users") \/ spc[d] \in {"verify", "verifyAgain"})
       \/ Stores(c, "groups") /\ (Stores(d, "groups") \/ Stores(d, "users"))
    /\ Dies
-----------------------------------------------------------------------------
(* The agent: requestCredentials and SSHSign; hologram-ping *)

\* NewClient connects and the request is sent, or it fails.
Dial(c, r) ==
    /\ cpc[c] = "idle"
    /\ req' = [req EXCEPT ![c] = r]
    /\ \/ /\ serverUp
          /\ net' = [net EXCEPT ![c] = "up"]
          /\ serverEnd' = [serverEnd EXCEPT ![c] = "open"]
          /\ clientEnd' = [clientEnd EXCEPT ![c] = "open"]
          /\ toServer' = [toServer EXCEPT ![c] = <<[type |-> "request", req |-> r]>>]
          /\ spc' = [spc EXCEPT ![c] = "read"]
          /\ cpc' = [cpc EXCEPT ![c] = "reading"]
       \/ /\ cpc' = [cpc EXCEPT ![c] = "error"]
          /\ UNCHANGED <<net, serverEnd, clientEnd, toServer, spc>>
    /\ UNCHANGED <<ldapVars, cacheVars, serverUp, toClient, challenge, sig, user,
                   rejected, skip, stored>>

\* requestCredentials returns; nothing closes the connection.
ClientReturns(c, outcome) ==
    /\ cpc' = [cpc EXCEPT ![c] = outcome]
    /\ clientEnd' = [clientEnd EXCEPT ![c] = "dropped"]

ClientReads(c, types) ==
    /\ cpc[c] = "reading"
    /\ net[c] = "up"
    /\ toClient[c] # <<>>
    /\ Head(toClient[c]).type \in types
    /\ toClient' = [toClient EXCEPT ![c] = Tail(@)]

\* A read fails on a broken or closed connection; protocol.Read also gives up
\* the last message when its bytes and the end of the stream come together.
ClientReadFails(c) ==
    /\ cpc[c] = "reading"
    /\ \/ net[c] = "broken"
       \/ serverEnd[c] = "closed" /\ Len(toClient[c]) <= 1
    /\ ClientReturns(c, "error")
    /\ UNCHANGED <<ldapVars, cacheVars, serverUp, net, toServer, toClient, serverEnd,
                   serverVars, req, skip, stored>>

\* Mutant of AnswerChallenge: after the last key comes the first.
AnswerAround(c) ==
    /\ ClientReads(c, {"challenge"})
    /\ toServer' = Send(toServer, c,
                        [type |-> "response",
                         key |-> Keyring[c][(skip[c] % Len(Keyring[c])) + 1],
                         challenge |-> Head(toClient[c]).challenge])
    /\ UNCHANGED <<ldapVars, cacheVars, serverUp, net, serverEnd, clientEnd, serverVars,
                   clientVars>>

AnswerChallenge(c) ==
    /\ ClientReads(c, {"challenge"})
    /\ skip[c] < Len(Keyring[c])
    /\ toServer' = Send(toServer, c,
                        [type |-> "response", key |-> Keyring[c][skip[c] + 1],
                         challenge |-> Head(toClient[c]).challenge])
    /\ UNCHANGED <<ldapVars, cacheVars, serverUp, net, serverEnd, clientEnd, serverVars,
                   clientVars>>

\* Mutant of NoAnswer: the last key is not tried.
NoAnswerBeforeLast(c) ==
    /\ ClientReads(c, {"challenge"})
    /\ skip[c] + 1 >= Len(Keyring[c])
    /\ ClientReturns(c, "noKeys")
    /\ UNCHANGED <<ldapVars, cacheVars, serverUp, net, toServer, serverEnd, serverVars,
                   req, skip, stored>>

\* SSHSign has no key left, or fails, or the response cannot be written.
NoAnswer(c) ==
    /\ ClientReads(c, {"challenge"})
    /\ \/ /\ skip[c] >= Len(Keyring[c])
          /\ Len(Keyring[c]) > 0
          /\ ClientReturns(c, "noKeys")
       \/ ClientReturns(c, "error")
    /\ UNCHANGED <<ldapVars, cacheVars, serverUp, net, toServer, serverEnd, serverVars,
                   req, skip, stored>>

NextKey(c) ==
    /\ ClientReads(c, {"verificationFailure"})
    /\ skip' = [skip EXCEPT ![c] = @ + 1]
    /\ UNCHANGED <<ldapVars, cacheVars, serverUp, net, toServer, serverEnd, clientEnd,
                   serverVars, cpc, req, stored>>

ReceiveCredentials(c) ==
    /\ ClientReads(c, {"credentials"})
    /\ stored' = [stored EXCEPT ![c] = [creds |-> Head(toClient[c]).creds,
                                        role |-> req[c].role]]
    /\ ClientReturns(c, "ok")
    /\ UNCHANGED <<ldapVars, cacheVars, serverUp, net, toServer, serverEnd, serverVars,
                   req, skip>>

ReceivePong(c) ==
    /\ ClientReads(c, {"pong"})
    /\ ClientReturns(c, "ok")
    /\ UNCHANGED <<ldapVars, cacheVars, serverUp, net, toServer, serverEnd, serverVars,
                   req, skip, stored>>

ReceiveError(c) ==
    /\ ClientReads(c, {"error"})
    /\ ClientReturns(c, "error")
    /\ UNCHANGED <<ldapVars, cacheVars, serverUp, net, toServer, serverEnd, serverVars,
                   req, skip, stored>>
-----------------------------------------------------------------------------
Server(c) ==
    \/ HandlePing(c)
    \/ HandleServerRequest(c)
    \/ HandlerExits(c)
    \/ SendChallenge(c)
    \/ ReadResponse(c)
    \/ ReadResponseFails(c)
    \/ Authenticate(c)
    \/ SendFailure(c)
    \/ AssumeRole(c)
    \/ RetryFails(c)
    \/ RetrySucceedsForMe(c)
    \/ RetrySucceedsForUse(c)
    \/ Fallback(c)
    \/ Update(c)

Client(c) ==
    \/ ClientReadFails(c)
    \/ AnswerChallenge(c)
    \/ NoAnswer(c)
    \/ NextKey(c)
    \/ ReceiveCredentials(c)
    \/ ReceivePong(c)
    \/ ReceiveError(c)

Next ==
    \/ DirectoryChange
    \/ \E c \in Conns : \/ Break(c)
                        \/ Finalize(c)
                        \/ \E r \in Requests : Dial(c, r)
                        \/ Server(c)
                        \/ Client(c)
    \/ \E c, d \in Conns : MapFault(c, d)

Spec == Init /\ [][Next]_vars

\* Goroutines are scheduled fairly, LDAP and STS answer each call, and the
\* garbage collector runs (Go forces a collection every two minutes).
FairSpec == Spec /\ \A c \in Conns : /\ WF_vars(Server(c))
                                     /\ WF_vars(Client(c))
                                     /\ WF_vars(Finalize(c))
-----------------------------------------------------------------------------
(* Properties *)

\* Credentials that are in flight or stored on a connection.
Received(c) == {toClient[c][i].creds : i \in {j \in DOMAIN toClient[c] :
                                               toClient[c][j].type = "credentials"}}
               \cup {s.creds : s \in {stored[c]} \ {None}}

\* Credentials go only to a connection whose agent holds a key of the user they
\* are for, and, when roles come from LDAP, only for a role that user has.
CredentialsEarned ==
    \A c \in Conns : \A cr \in Received(c) :
        /\ cr.name = user[c].name
        /\ Range(Keyring[c]) \cap user[c].rec.keys # {}
        /\ EnableLDAPRoles => cr.arn \in {BuildARN(a) : a \in user[c].rec.arns}

\* The response being verified answers the challenge it is verified against,
\* whatever failures came before it.
ResponseIsCurrent ==
    \A c \in Conns : spc[c] \in {"verify", "authUpdate", "verifyAgain"} =>
        sig[c].challenge = challenge[c]

\* The agent says that no key worked only after the server has rejected each.
KeyringExhausted ==
    \A c \in Conns : cpc[c] = "noKeys" => Range(Keyring[c]) \subseteq rejected[c]

\* Every request the agent makes comes to an end.
RequestEnds == \A c \in Conns : (cpc[c] = "reading") ~> (cpc[c] # "reading")

\* Every connection handler comes to an end.
HandlerEnds == \A c \in Conns : (spc[c] = "read") ~> (spc[c] = "exited")

\* "Update user cache and try again" (server.go:124): a retry that succeeds
\* serves the request; it does not end the server process.
RetryKeepsServing == serverUp

\* Credentials granted at the first attempt reach the agent, which stores them,
\* unless the network breaks the connection or the server dies: the handler
\* leaves the connection open behind its answer.
GrantArrives ==
    \A c \in Conns :
        /\ cpc[c] = "reading"
        /\ toClient[c] # <<>>
        /\ Head(toClient[c]).type = "credentials"
        ~> stored[c] # None \/ net[c] = "broken" \/ ~serverUp

Service == INSTANCE CredentialService WITH asked <- req, given <- stored

\* Agents and server together implement the service: what an agent stores is
\* issued, under the role it was asked for, to a user who had one of its keys and
\* was in a group with that role.  The searches of Update, the copies of groups
\* and users that other handlers overwrite, the copy each handler keeps across an
\* Update, and the fallback, which answers a request for one role with
\* credentials for another, could each break it.
IsService == Service!Spec
=============================================================================
