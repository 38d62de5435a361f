--------------------------- MODULE SessionProofs ----------------------------
(***************************************************************************)
(* Proofs about Session, for any number of connections, users, keys and    *)
(* roles and any changes of LDAP.  First: agents and server implement      *)
(* CredentialService.  Then the protocol between the two ends of a         *)
(* connection, and what follows from it: responses are current, keyrings   *)
(* exhausted, credentials earned.                                          *)
(***************************************************************************)
EXTENDS Session, TLAPS

HasError(q) == \E j \in 1..Len(q) : q[j].type = "error"

\* Credentials that are not among the good ones come after an error.
Ordered(q, good) ==
    \A i \in 1..Len(q) :
        q[i].type = "credentials" =>
            \/ q[i].creds \in good
            \/ \E j \in 1..(i - 1) : q[j].type = "error"

\* LDAP has listed the role, under this very name, for the group.
Listed(g, role) == \E e \in seen : e.groups[g] # None /\ role \in e.groups[g]

\* A record made of an entry some content of LDAP had, and of roles that the
\* groups of the entry have had.
MadeFrom(u, rec) ==
    \E d \in seen :
        /\ d.users[u] # None
        /\ rec.keys = d.users[u].keys
        /\ rec.defaultRole = DefaultFor(d.users[u])
        /\ \A a \in rec.arns : \E g \in d.users[u].memberOf : Listed(g, a)

\* Such a record, one of whose keys the agent holds.
Known(c, u, rec) == MadeFrom(u, rec) /\ Range(Keyring[c]) \cap rec.keys # {}

\* What an entry entitles the request of a connection to.
CredsFor(c, u, entry) ==
    [name |-> u, arn |-> BuildARN(Service!RoleFor(req[c], entry))]

Good(c) ==
    {cr \in Credentials :
        \E d \in seen, u \in Users :
            /\ req[c].kind # "ping"
            /\ d.users[u] # None
            /\ Service!Entitles(d.users[u], c, Service!RoleFor(req[c], d.users[u]))
            /\ cr = CredsFor(c, u, d.users[u])}

CacheShape ==
    /\ ldap \in Directories
    /\ seen \in SUBSET Directories
    /\ users \in [Users -> {None} \cup UserRecord]
    /\ groups \in [Groups -> SUBSET RoleNames]
    /\ upd \in [Conns -> {"none", "groups", "users"}]
    /\ found \in [Conns -> {None} \cup Directories]
    /\ todo \in [Conns -> SUBSET (Users \cup Groups)]

\* An Update works off what it found in a content LDAP has had.
UpdateInv(c) ==
    /\ upd[c] # "none" => found[c] \in seen
    /\ upd[c] = "groups" => todo[c] \subseteq {g \in Groups : found[c].groups[g] # None}
    /\ upd[c] = "users" => todo[c] \subseteq {u \in Users : found[c].users[u] # None}

\* What the cache holds, and what is about to be stored there, comes from LDAP.
CacheInv ==
    /\ CacheShape
    /\ ldap \in seen
    /\ \A u \in Users, rec \in UserRecord : users[u] = rec => MadeFrom(u, rec)
    /\ \A g \in Groups, a \in RoleNames : a \in groups[g] => Listed(g, a)
    /\ \A c \in Conns : UpdateInv(c)

\* What holds of the agent's end of a connection, and of what flies to the server.
AgentInv(c) ==
    /\ IF cpc[c] = "idle" THEN req[c] = None ELSE req[c] \in Request
    /\ cpc[c] = "idle" => toServer[c] = <<>> /\ toClient[c] = <<>> /\ spc[c] = "none"
    /\ cpc[c] \in {"idle", "reading"} => stored[c] = None
    /\ \A i \in 1..Len(toServer[c]) :
          /\ toServer[c][i].type = "request" => toServer[c][i].req = req[c]
          /\ toServer[c][i].type = "response" => toServer[c][i].key \in Range(Keyring[c])

\* What holds of the handler of a connection.
HandlerInv(c) ==
    /\ spc[c] # "none" => req[c] \in Request
    /\ spc[c] \notin {"none", "read", "exited"} => req[c].kind # "ping"
    /\ spc[c] \in {"verify", "authUpdate", "verifyAgain"} =>
          sig[c].key \in Range(Keyring[c])
    /\ spc[c] \in {"assume", "update", "retry", "fallback"} =>
          /\ user[c] \in [name : Users, rec : UserRecord]
          /\ Known(c, user[c].name, user[c].rec)

\* What holds of what flies to the agent, while it reads.
AnswerInv(c) ==
    cpc[c] = "reading" =>
        /\ Ordered(toClient[c], Good(c))
        /\ spc[c] = "fallback" /\ Works(c) => HasError(toClient[c])

ServiceInv == CacheInv /\ \A c \in Conns : AgentInv(c) /\ HandlerInv(c) /\ AnswerInv(c)

Places == {"none", "read", "challenge", "response", "verify", "authUpdate", "verifyAgain",
           "failure", "assume", "update", "retry", "fallback", "exited"}

\* The types of the variables the invariants speak of.
Shape ==
    /\ net \in [Conns -> {"none", "up", "broken"}]
    /\ toServer \in [Conns -> Seq(ToServer)]
    /\ toClient \in [Conns -> Seq(ToClient)]
    /\ serverEnd \in [Conns -> {"none", "open", "closed"}]
    /\ clientEnd \in [Conns -> {"none", "open", "dropped", "closed"}]
    /\ spc \in [Conns -> Places]
    /\ req \in [Conns -> {None} \cup Request]
    /\ challenge \in [Conns -> Nat]
    /\ sig \in [Conns -> {None} \cup [key : Keys, challenge : Nat]]
    /\ user \in [Conns -> {None} \cup [name : Users, rec : UserRecord]]
    /\ cpc \in [Conns -> {"idle", "reading", "ok", "error", "noKeys"}]
    /\ skip \in [Conns -> Nat]
    /\ stored \in [Conns -> {None} \cup [creds : Credentials,
                                         role : RoleNames \cup {None}]]
-----------------------------------------------------------------------------
(* Names of roles *)

\* BuildARN makes a full ARN of every name, and leaves a full ARN as it is: the
\* names of a role in LDAP and in requests can be compared by their ARNs.
THEOREM ArnIsCanonical ==
    ASSUME NEW r, IsRoleName(r)
    PROVE  IsArn(BuildARN(r)) /\ BuildARN(BuildARN(r)) = BuildARN(r)
<1>1. ASSUME NEW x \in Accounts PROVE RoleOf(x) \in AccountPart /\ RoleOf(x).arn
  BY Zenon DEF RoleOf, AccountPart
<1>2. IsArn(BuildARN(r))
  <2>1. CASE IsAlias(r)
    <3>1. r[2] \in Words
      <4>1. Len(r) = 2 /\ (r \in Seq(Words) \/ \A i \in 2..Len(r) : r[i] \in Words)
        BY Zenon, <2>1 DEF IsRoleName, IsAlias
      <4>2. QED
        BY <4>1
    <3>2. BuildARN(r) = <<RoleOf(AccountAliases[r[1]]), r[2]>>
      BY Zenon, <2>1 DEF BuildARN
    <3>3. RoleOf(AccountAliases[r[1]]) \in AccountPart /\ RoleOf(AccountAliases[r[1]]).arn
      BY Zenon, <1>1, <2>1, ArnAssumption DEF IsAlias
    <3>4. QED
      BY <3>1, <3>2, <3>3 DEF IsArn, IsRoleName
  <2>2. CASE ~IsAlias(r) /\ r[1] \in AccountPart
    <3>1. r \in Seq(Words \cup AccountPart) /\ Len(r) > 1
          /\ \A i \in 2..Len(r) : r[i] \in Words
      BY <2>2, ArnAssumption DEF IsRoleName
    <3>2. BuildARN(r) = [r EXCEPT ![1] = RoleOf(r[1].account)]
      BY Zenon, <2>2 DEF BuildARN
    <3>3. r[1].account \in Accounts
      BY Zenon, <2>2 DEF AccountPart
    <3>4. QED
      BY <1>1, <3>1, <3>2, <3>3 DEF IsArn, IsRoleName
  <2>3. CASE ~IsAlias(r) /\ r[1] \notin AccountPart
    <3>1. r \in Seq(Words) /\ Len(r) > 0
      BY Zenon, <2>3 DEF IsRoleName
    <3>2. BuildARN(r) = <<RoleOf(DefaultAccount)>> \o r
      BY Zenon, <2>3 DEF BuildARN
    <3>3. RoleOf(DefaultAccount) \in AccountPart /\ RoleOf(DefaultAccount).arn
      BY Zenon, <1>1, ArnAssumption
    <3>4. QED
      BY <3>1, <3>2, <3>3 DEF IsArn, IsRoleName
  <2>4. QED
    BY Zenon, <2>1, <2>2, <2>3
<1>3. ASSUME NEW t, IsArn(t) PROVE BuildARN(t) = t
  <2>1. t[1] \in AccountPart /\ t[1] = RoleOf(t[1].account)
    BY Zenon, <1>3 DEF IsArn, AccountPart, RoleOf
  <2>2. ~IsAlias(t)
    BY Zenon, <2>1, ArnAssumption DEF IsAlias
  <2>3. t \in Seq(Words \cup AccountPart) /\ Len(t) > 0
    BY <1>3 DEF IsArn, IsRoleName
  <2>4. QED
    BY <2>1, <2>2, <2>3 DEF BuildARN
<1>4. QED
  BY Zenon, <1>2, <1>3

\* "If you run `hologram use key/rolename`, it will expand it out to the full
\* arn" (README.md): the alias and the ARN it stands for name one role.
THEOREM AliasExpands ==
    ASSUME NEW a \in DOMAIN AccountAliases, NEW w \in Words
    PROVE  BuildARN(<<a, w>>) = BuildARN(<<RoleOf(AccountAliases[a]), w>>)
<1> DEFINE full == RoleOf(AccountAliases[a])
<1>1. BuildARN(<<a, w>>) = <<full, w>>
  BY Zenon DEF BuildARN, IsAlias
<1>2. full \in AccountPart /\ full \notin Words
  <2>1. full \in AccountPart
    BY Zenon, ArnAssumption DEF RoleOf, AccountPart
  <2>2. QED
    BY Zenon, <2>1, ArnAssumption
<1>3. RoleOf(full.account) = full
  BY Zenon DEF RoleOf
<1> HIDE DEF full
<1>4. BuildARN(<<full, w>>) = <<full, w>>
  <2>1. ~IsAlias(<<full, w>>)
    BY Zenon, <1>2, ArnAssumption DEF IsAlias
  <2>2. BuildARN(<<full, w>>) = [<<full, w>> EXCEPT ![1] = full]
    BY Zenon, <1>2, <1>3, <2>1 DEF BuildARN
  <2>3. QED
    BY <2>2
<1>5. QED
  BY Zenon, <1>1, <1>4 DEF full

\* The service expands names with the same BuildARN.
LEMMA SameBuildARN == ASSUME NEW r PROVE Service!BuildARN(r) = BuildARN(r)
  BY Zenon DEF BuildARN, IsAlias, RoleOf, AccountPart, Service!BuildARN, Service!IsAlias,
         Service!RoleOf, Service!AccountPart

\* Range is the same operator in the service and here.
LEMMA SameRange == ASSUME NEW f PROVE Service!Range(f) = Range(f)
  BY Zenon DEF Range, Service!Range
-----------------------------------------------------------------------------
(* Queues *)

\* A message added at the end leaves those before it, and the order, in place.
LEMMA OrderedAppend ==
    ASSUME NEW q \in Seq(ToClient), NEW m \in ToClient, NEW good,
           Ordered(q, good),
           m.type = "credentials" => m.creds \in good \/ HasError(q)
    PROVE  Ordered(Append(q, m), good)
  BY DEF Ordered, HasError

\* A queue to the agent that holds an error still does when a message is
\* added.
LEMMA ErrorAppend ==
    ASSUME NEW q \in Seq(ToClient), NEW m \in ToClient,
           HasError(q) \/ m.type = "error"
    PROVE  HasError(Append(q, m))
  BY DEF HasError

\* Whoever reads a queue up to its first error meets only good credentials.
LEMMA OrderedTail ==
    ASSUME NEW q \in Seq(ToClient), NEW good, q # <<>>, Ordered(q, good),
           Head(q).type # "error"
    PROVE  /\ Ordered(Tail(q), good)
           /\ HasError(q) => HasError(Tail(q))
           /\ Head(q).type = "credentials" => Head(q).creds \in good
<1>1. /\ Head(q) = q[1] /\ Len(q) \in Nat \ {0}
      /\ Len(Tail(q)) = Len(q) - 1
      /\ \A i \in 1..(Len(q) - 1) : Tail(q)[i] = q[i + 1]
  OBVIOUS
<1>2. ASSUME NEW i \in 1..(Len(q) - 1), Tail(q)[i].type = "credentials",
             Tail(q)[i].creds \notin good
      PROVE  \E j \in 1..(i - 1) : Tail(q)[j].type = "error"
  <2>1. PICK k \in 1..i : q[k].type = "error"
    BY <1>1, <1>2 DEF Ordered
  <2>2. k # 1 /\ k - 1 \in 1..(i - 1) /\ Tail(q)[k - 1] = q[k]
    BY <1>1, <2>1
  <2>3. QED
    BY Zenon, <2>1, <2>2
<1>3. ASSUME NEW k \in 1..Len(q), q[k].type = "error" PROVE HasError(Tail(q))
  <2>1. k # 1 /\ k - 1 \in 1..(Len(q) - 1) /\ Tail(q)[k - 1] = q[k]
    BY <1>1, <1>3
  <2>2. QED
    BY Zenon, <1>1, <1>3, <2>1 DEF HasError
<1>4. Head(q).type = "credentials" => Head(q).creds \in good
  BY <1>1 DEF Ordered
<1>5. QED
  BY Zenon, <1>1, <1>2, <1>3, <1>4 DEF Ordered, HasError

\* Order is kept when more credentials become good.
LEMMA OrderedMore ==
    ASSUME NEW q, NEW good, NEW more, Ordered(q, good), good \subseteq more
    PROVE  Ordered(q, more)
  BY Zenon DEF Ordered
-----------------------------------------------------------------------------
(* Messages *)

\* What the messages of each type carry.
LEMMA MessageTypes ==
    /\ \A m \in ToClient : m.type = "credentials" => m.creds \in Credentials
    /\ \A m \in ToServer :
          /\ m.type = "request" => m.req \in Request
          /\ m.type = "response" => m.key \in Keys /\ m.challenge \in Nat
  BY Zenon DEF ToClient, ToServer

\* A write of the handler adds its message to the agent's queue, or changes
\* nothing.
LEMMA SendToClient ==
    ASSUME Shape, NEW c \in Conns, NEW m \in ToClient
    PROVE  /\ Send(toClient, c, m) \in [Conns -> Seq(ToClient)]
           /\ Send(toClient, c, m)[c] = IF Works(c) THEN Append(toClient[c], m)
                                                   ELSE toClient[c]
           /\ \A d \in Conns \ {c} : Send(toClient, c, m)[d] = toClient[d]
  BY DEF Shape, Send

\* A write of the agent adds its message to the handler's queue, or changes
\* nothing.
LEMMA SendToServer ==
    ASSUME Shape, NEW c \in Conns, NEW m \in ToServer
    PROVE  /\ Send(toServer, c, m) \in [Conns -> Seq(ToServer)]
           /\ Send(toServer, c, m)[c] = IF Works(c) THEN Append(toServer[c], m)
                                                   ELSE toServer[c]
           /\ \A d \in Conns \ {c} : Send(toServer, c, m)[d] = toServer[d]
  BY DEF Shape, Send

\* The messages of the handler that carry no credentials.
LEMMA PlainMessages ==
    /\ [type |-> "pong"] \in ToClient /\ [type |-> "pong"].type = "pong"
    /\ [type |-> "error"] \in ToClient /\ [type |-> "error"].type = "error"
    /\ [type |-> "verificationFailure"] \in ToClient
    /\ [type |-> "verificationFailure"].type = "verificationFailure"
    /\ \A n \in Nat : /\ [type |-> "challenge", challenge |-> n] \in ToClient
                      /\ [type |-> "challenge", challenge |-> n].type = "challenge"
  BY Zenon DEF ToClient

\* The record the handler works with entitles its agent to the role it may assume.
LEMMA GrantIsGood ==
    ASSUME Shape, NEW c \in Conns, HandlerInv(c),
           spc[c] \in {"assume", "update", "retry", "fallback"}
    PROVE  /\ \A r \in {WantedRole(c), user[c].rec.defaultRole} :
                 /\ CredentialsMsg(c, r) \in ToClient
                 /\ CredentialsMsg(c, r).type = "credentials"
           /\ MayAssume(c, WantedRole(c)) =>
                 CredentialsMsg(c, WantedRole(c)).creds \in Good(c)
<1> DEFINE u == user[c].name
           rec == user[c].rec
<1>1. /\ u \in Users /\ rec \in UserRecord
      /\ Range(Keyring[c]) \cap rec.keys # {}
      /\ req[c] \in Request /\ req[c].kind # "ping"
  BY Zenon DEF Shape, HandlerInv, Known
<1>2. PICK d \in seen :
          /\ d.users[u] # None
          /\ rec.keys = d.users[u].keys
          /\ rec.defaultRole = DefaultFor(d.users[u])
          /\ \A a \in rec.arns : \E g \in d.users[u].memberOf : Listed(g, a)
  BY Zenon DEF HandlerInv, Known, MadeFrom
<1> DEFINE entry == d.users[u]
<1>3. WantedRole(c) = Service!RoleFor(req[c], entry) /\ WantedRole(c) \in RoleNames
      /\ rec.defaultRole \in RoleNames
  BY Zenon, <1>1, <1>2 DEF WantedRole, Service!RoleFor, DefaultFor, Request, UserRecord
<1>4. ASSUME NEW r \in RoleNames
      PROVE  /\ CredentialsMsg(c, r) \in ToClient
             /\ CredentialsMsg(c, r).type = "credentials"
             /\ CredentialsMsg(c, r).creds = [name |-> u, arn |-> BuildARN(r)]
             /\ CredentialsMsg(c, r).creds \in Credentials
  BY Zenon, <1>1 DEF CredentialsMsg, ToClient, Credentials, Arns
<1>5. ASSUME MayAssume(c, WantedRole(c))
      PROVE  CredentialsMsg(c, WantedRole(c)).creds \in Good(c)
  <2>1. Service!Entitles(entry, c, Service!RoleFor(req[c], entry))
    <3>1. EnableLDAPRoles => \E g \in entry.memberOf : Service!HadRole(g, WantedRole(c))
      BY Zenon, <1>2, <1>5, SameBuildARN DEF MayAssume, Service!HadRole, Listed
    <3>2. QED
      BY Zenon, <1>1, <1>2, <1>3, <3>1, SameRange DEF Service!Entitles
  <2>2. CredentialsMsg(c, WantedRole(c)).creds = CredsFor(c, u, entry)
    BY Zenon, <1>3, <1>4 DEF CredsFor
  <2>3. QED
    BY Zenon, <1>1, <1>2, <1>3, <1>4, <2>1, <2>2 DEF Good
<1>6. QED
  BY Zenon, <1>3, <1>4, <1>5
-----------------------------------------------------------------------------
(* What a step of one connection leaves alone *)

Same(c) ==
    /\ toServer'[c] = toServer[c] /\ toClient'[c] = toClient[c]
    /\ net'[c] = net[c] /\ serverEnd'[c] = serverEnd[c] /\ clientEnd'[c] = clientEnd[c]
    /\ spc'[c] = spc[c] /\ sig'[c] = sig[c] /\ user'[c] = user[c]
    /\ req'[c] = req[c] /\ cpc'[c] = cpc[c] /\ stored'[c] = stored[c]

\* What is good for a request stays good while LDAP changes.
LEMMA GoodGrows ==
    ASSUME NEW c \in Conns, req'[c] = req[c], seen \subseteq seen'
    PROVE  Good(c) \subseteq Good(c)'
<1>1. ASSUME NEW g, NEW role, Service!HadRole(g, role) PROVE Service!HadRole(g, role)'
  BY Zenon, <1>1 DEF Service!HadRole
<1>2. ASSUME NEW entry
      PROVE  /\ Service!RoleFor(req[c], entry)' = Service!RoleFor(req[c], entry)
             /\ CredsFor(c, entry, entry)' = CredsFor(c, entry, entry)
  BY Zenon DEF Service!RoleFor, CredsFor
<1>3. ASSUME NEW entry, Service!Entitles(entry, c, Service!RoleFor(req[c], entry))
      PROVE  Service!Entitles(entry, c, Service!RoleFor(req[c], entry))'
  BY Zenon, <1>1, <1>2, <1>3 DEF Service!Entitles
<1>4. QED
  BY Zenon, <1>2, <1>3 DEF Good, CredsFor

\* The invariants of a connection hold on if its state does.
LEMMA SameKeeps ==
    ASSUME NEW c \in Conns, AgentInv(c), HandlerInv(c), AnswerInv(c),
           Same(c), seen \subseteq seen'
    PROVE  AgentInv(c)' /\ HandlerInv(c)' /\ AnswerInv(c)'
<1>1. AgentInv(c)'
  BY Zenon DEF AgentInv, Same
<1>2. HandlerInv(c)'
  BY Zenon DEF HandlerInv, Same, Known, MadeFrom, Listed
<1>3. AnswerInv(c)'
  <2>1. Works(c)' = Works(c)
    BY Zenon DEF Works, Same
  <2>2. cpc'[c] = "reading" => Ordered(toClient'[c], Good(c)')
    BY Zenon, GoodGrows, OrderedMore DEF AnswerInv, Same
  <2>3. QED
    BY Zenon, <2>1, <2>2 DEF AnswerInv, Same
<1>4. QED
  BY Zenon, <1>1, <1>2, <1>3

\* A step of one connection keeps the invariant if it keeps that of its own
\* connection.
LEMMA Compose ==
    ASSUME ServiceInv, NEW c \in Conns, \A d \in Conns \ {c} : Same(d),
           seen \subseteq seen', CacheInv', AgentInv(c)', HandlerInv(c)', AnswerInv(c)'
    PROVE  ServiceInv'
  BY Zenon, SameKeeps DEF ServiceInv

\* Nothing is sent, and the handler comes no nearer to the fallback.
LEMMA AnswerKept ==
    ASSUME NEW c \in Conns, AnswerInv(c), req'[c] = req[c], seen \subseteq seen',
           toClient'[c] = toClient[c], cpc'[c] = "reading" => cpc[c] = "reading",
           spc'[c] = "fallback" /\ Works(c)' => spc[c] = "fallback" /\ Works(c)
    PROVE  AnswerInv(c)'
  BY Zenon, GoodGrows, OrderedMore DEF AnswerInv

\* The handler of one connection moves; the others stay.
LEMMA Goto ==
    ASSUME Shape, NEW c \in Conns, NEW p \in Places, spc' = [spc EXCEPT ![c] = p]
    PROVE  /\ spc' \in [Conns -> Places] /\ spc'[c] = p
           /\ \A d \in Conns \ {c} : spc'[d] = spc[d]
  BY Zenon DEF Shape

\* A message is sent: good credentials, any behind an error, or no credentials.
LEMMA AnswerSent ==
    ASSUME Shape, NEW c \in Conns, AnswerInv(c), NEW m \in ToClient,
           toClient' = Send(toClient, c, m),
           req'[c] = req[c], seen \subseteq seen', cpc'[c] = cpc[c],
           m.type = "credentials" =>
               \/ m.creds \in Good(c)
               \/ cpc[c] = "reading" /\ Works(c) => HasError(toClient[c]),
           spc'[c] = "fallback" /\ Works(c)' => Works(c) /\ m.type = "error"
    PROVE  AnswerInv(c)'
<1>1. cpc[c] = "reading" => Ordered(toClient'[c], Good(c))
  BY SendToClient, OrderedAppend DEF AnswerInv, Shape
<1>2. spc'[c] = "fallback" /\ Works(c)' => HasError(toClient'[c])
  BY SendToClient, ErrorAppend DEF Shape
<1>3. QED
  BY Zenon, <1>1, <1>2, GoodGrows, OrderedMore DEF AnswerInv

\* What came from LDAP did so for ever.
LEMMA StillFrom ==
    ASSUME seen \subseteq seen'
    PROVE  /\ \A g, a : Listed(g, a) => Listed(g, a)'
           /\ \A u, rec : MadeFrom(u, rec) => MadeFrom(u, rec)'
<1>1. \A g, a : Listed(g, a) => Listed(g, a)'
  BY Zenon DEF Listed
<1>2. \A u, rec : MadeFrom(u, rec) => MadeFrom(u, rec)'
  BY Zenon, <1>1 DEF MadeFrom
<1>3. QED
  BY Zenon, <1>1, <1>2

\* The cache stays as it is.
LEMMA CacheKept ==
    ASSUME CacheInv, UNCHANGED <<ldapVars, cacheVars>>
    PROVE  CacheInv' /\ seen' = seen
<1>1. UNCHANGED <<ldap, seen, users, groups, upd, found, todo>>
  BY Zenon DEF ldapVars, cacheVars
<1>2. QED
  BY Zenon, <1>1, StillFrom DEF CacheInv, CacheShape, UpdateInv
-----------------------------------------------------------------------------
(* Steps of the server *)

\* Reading a request or a response takes the first message away.
LEMMA ServerTail ==
    ASSUME Shape, NEW c \in Conns, AgentInv(c), NEW type, ServerReads(c, type)
    PROVE  /\ Head(toServer[c]) \in ToServer /\ Head(toServer[c]).type = type
           /\ type = "request" => Head(toServer[c]).req = req[c]
           /\ type = "response" => Head(toServer[c]).key \in Range(Keyring[c])
           /\ toServer' \in [Conns -> Seq(ToServer)]
           /\ \A d \in Conns \ {c} : toServer'[d] = toServer[d]
           /\ \A i \in 1..Len(toServer'[c]) :
                 /\ toServer'[c][i].type = "request" => toServer'[c][i].req = req[c]
                 /\ toServer'[c][i].type = "response" =>
                       toServer'[c][i].key \in Range(Keyring[c])
<1> DEFINE q == toServer[c]
<1>1. q \in Seq(ToServer) /\ q # <<>> /\ toServer' = [toServer EXCEPT ![c] = Tail(q)]
  BY Zenon DEF Shape, ServerReads
<1>2. Head(q) = q[1] /\ 1 \in 1..Len(q) /\ Head(q) \in ToServer
  BY <1>1
<1>3. Tail(q) \in Seq(ToServer) /\ Len(Tail(q)) = Len(q) - 1
      /\ \A i \in 1..(Len(q) - 1) : Tail(q)[i] = q[i + 1] /\ i + 1 \in 1..Len(q)
  BY <1>1
<1>4. toServer'[c] = Tail(q)
  BY Zenon, <1>1 DEF Shape
<1>5. ASSUME NEW i \in 1..Len(toServer'[c])
      PROVE  /\ toServer'[c][i].type = "request" => toServer'[c][i].req = req[c]
             /\ toServer'[c][i].type = "response" =>
                   toServer'[c][i].key \in Range(Keyring[c])
  <2>1. i \in 1..(Len(q) - 1) /\ toServer'[c][i] = q[i + 1] /\ i + 1 \in 1..Len(q)
    BY Zenon, <1>1, <1>3, <1>4
  <2>2. QED
    BY Zenon, <2>1 DEF AgentInv
<1>6. /\ type = "request" => Head(q).req = req[c]
      /\ type = "response" => Head(q).key \in Range(Keyring[c])
      /\ Head(q).type = type
  BY Zenon, <1>2 DEF AgentInv, ServerReads
<1>7. /\ toServer' \in [Conns -> Seq(ToServer)]
      /\ \A d \in Conns \ {c} : toServer'[d] = toServer[d]
  BY Zenon, <1>1, <1>3 DEF Shape
<1>8. QED
  BY Zenon, <1>2, <1>5, <1>6, <1>7

\* The handler's reading of a request, its pong and its end keep the
\* invariant.
LEMMA ReadSteps ==
    ASSUME Shape, ServiceInv, NEW c \in Conns,
           HandlePing(c) \/ HandleServerRequest(c) \/ HandlerExits(c)
    PROVE  Shape' /\ ServiceInv'
<1>0. AgentInv(c) /\ HandlerInv(c) /\ AnswerInv(c) /\ CacheInv
  BY Zenon DEF ServiceInv
<1>1. CASE HandlePing(c)
  <2> DEFINE m == [type |-> "pong"]
  <2>1. ServerReads(c, "request") /\ toClient' = Send(toClient, c, m)
    BY Zenon, <1>1 DEF HandlePing
  <2>2. m \in ToClient /\ m.type = "pong"
    BY Zenon, PlainMessages
  <2> HIDE DEF m
  <2>3. Shape'
    <3>1. toClient' \in [Conns -> Seq(ToClient)] /\ toServer' \in [Conns -> Seq(ToServer)]
      BY Zenon, <1>0, <2>1, <2>2, ServerTail, SendToClient
    <3>2. QED
      BY Zenon, <1>1, <3>1 DEF HandlePing, Shape, serverVars, clientVars
  <2>4. CacheInv' /\ seen' = seen
    BY Zenon, <1>0, <1>1, CacheKept DEF HandlePing
  <2>5. AgentInv(c)' /\ HandlerInv(c)'
    BY ZenonT(60), <1>0, <1>1, <2>1, <2>2, ServerTail, SendToClient
       DEF HandlePing, AgentInv, HandlerInv, Known, MadeFrom, Listed, ldapVars, serverVars,
           clientVars
  <2>6. AnswerInv(c)'
    BY Zenon, <1>0, <1>1, <2>1, <2>2, <2>4, AnswerSent
       DEF HandlePing, clientVars, serverVars
  <2>7. \A d \in Conns \ {c} : Same(d)
    BY SMTT(30), <1>0, <1>1, <2>1, <2>2, ServerTail, SendToClient
       DEF HandlePing, Same, serverVars, clientVars
  <2>8. QED
    BY Zenon, <2>3, <2>4, <2>5, <2>6, <2>7, Compose
<1>2. CASE HandleServerRequest(c)
  <2>1. ServerReads(c, "request")
    BY Zenon, <1>2 DEF HandleServerRequest
  <2>2. Shape'
    <3>1. spc' \in [Conns -> Places]
      BY Zenon, <1>2, Goto DEF HandleServerRequest, Places
    <3>2. QED
      BY Zenon, <1>0, <1>2, <2>1, <3>1, ServerTail
         DEF HandleServerRequest, Shape, clientVars
  <2>3. CacheInv' /\ seen' = seen
    BY Zenon, <1>0, <1>2, CacheKept DEF HandleServerRequest
  <2>4. AgentInv(c)' /\ HandlerInv(c)'
    BY ZenonT(60), <1>0, <1>2, <2>1, ServerTail
       DEF HandleServerRequest, AgentInv, HandlerInv, Shape, clientVars
  <2>5. AnswerInv(c)'
    BY Zenon, <1>0, <1>2, <2>3, AnswerKept DEF HandleServerRequest, Shape, clientVars
  <2>6. \A d \in Conns \ {c} : Same(d)
    BY SMTT(30), <1>0, <1>2, <2>1, ServerTail
       DEF HandleServerRequest, Same, clientVars, Shape
  <2>7. QED
    BY <2>2, <2>3, <2>4, <2>5, <2>6, Compose
<1>3. CASE HandlerExits(c)
  <2>1. Shape'
    BY Zenon, <1>3 DEF HandlerExits, Shape, Places, netVars, clientVars
  <2>2. CacheInv' /\ seen' = seen
    BY Zenon, <1>0, <1>3, CacheKept DEF HandlerExits
  <2>3. AgentInv(c)' /\ HandlerInv(c)'
    BY Zenon, <1>0, <1>3 DEF HandlerExits, AgentInv, HandlerInv, Shape, netVars, clientVars
  <2>4. AnswerInv(c)'
    BY Zenon, <1>0, <1>3, <2>2, AnswerKept DEF HandlerExits, Shape, netVars, clientVars
  <2>5. \A d \in Conns \ {c} : Same(d)
    BY Zenon, <1>3 DEF HandlerExits, Same, netVars, clientVars, Shape
  <2>6. QED
    BY <2>1, <2>2, <2>3, <2>4, <2>5, Compose
<1>4. QED
  BY Zenon, <1>1, <1>2, <1>3

\* A write of SSHChallenge sends a message that holds no credentials, or closes
\* the connection.
LEMMA ChallengeSteps ==
    ASSUME Shape, ServiceInv, NEW c \in Conns, SendChallenge(c) \/ SendFailure(c)
    PROVE  Shape' /\ ServiceInv'
<1>0. AgentInv(c) /\ HandlerInv(c) /\ AnswerInv(c) /\ CacheInv
  BY Zenon DEF ServiceInv
<1>1. PICK m \in ToClient, next \in {"response", "challenge"} :
          m.type # "credentials" /\ WriteInChallenge(c, m, next)
  <2>1. challenge[c] + 1 \in Nat
    BY DEF Shape
  <2>2. QED
    BY Zenon, <2>1, PlainMessages DEF SendChallenge, SendFailure
<1>2. /\ spc[c] \in {"challenge", "failure"}
      /\ UNCHANGED <<ldapVars, cacheVars, net, toServer, clientEnd, sig, user, cpc, req,
                     skip, stored>>
      /\ challenge' \in [Conns -> Nat]
  <2>1. CASE SendChallenge(c)
    <3>1. challenge[c] + 1 \in Nat /\ challenge' = [challenge EXCEPT ![c] = challenge[c] + 1]
      BY <2>1 DEF SendChallenge, Shape
    <3>2. QED
      BY <2>1, <3>1 DEF SendChallenge, Shape, clientVars
  <2>2. CASE SendFailure(c)
    BY Zenon, <2>2 DEF SendFailure, Shape, clientVars
  <2>3. QED
    BY Zenon, <2>1, <2>2
<1>3. /\ toClient' \in [Conns -> Seq(ToClient)]
      /\ \A d \in Conns \ {c} : toClient'[d] = toClient[d]
  <2>1. toClient' = Send(toClient, c, m) \/ toClient' = toClient
    BY Zenon, <1>1 DEF WriteInChallenge
  <2>2. QED
    BY <2>1, SendToClient DEF Shape
<1>3a. /\ serverEnd' \in [Conns -> {"none", "open", "closed"}]
       /\ \A d \in Conns \ {c} : serverEnd'[d] = serverEnd[d]
  BY Zenon, <1>1 DEF WriteInChallenge, Shape
<1>3b. /\ spc'[c] \in {"response", "challenge", "read"}
       /\ spc' \in [Conns -> Places]
       /\ \A d \in Conns \ {c} : spc'[d] = spc[d]
  <2>1. PICK p \in {"response", "challenge", "read"} : spc' = [spc EXCEPT ![c] = p]
    BY Zenon, <1>1 DEF WriteInChallenge
  <2>2. p \in Places
    BY Zenon DEF Places
  <2>3. QED
    BY Zenon, <2>1, <2>2, Goto
<1>4. Shape'
  BY Zenon, <1>2, <1>3, <1>3a, <1>3b DEF Shape
<1>5. CacheInv' /\ seen' = seen
  BY Zenon, <1>0, <1>2, CacheKept
<1>6. AgentInv(c)' /\ HandlerInv(c)'
  BY Zenon, <1>0, <1>2, <1>3, <1>3b DEF AgentInv, HandlerInv
<1>7. AnswerInv(c)'
  <2>1. req' = req /\ cpc' = cpc /\ seen \subseteq seen' /\ spc'[c] # "fallback"
    BY Zenon, <1>2, <1>3b, <1>5
  <2>2. CASE toClient' = Send(toClient, c, m)
    BY Zenon, <1>0, <1>1, <2>1, <2>2, AnswerSent
  <2>3. CASE toClient' = toClient
    BY Zenon, <1>0, <2>1, <2>3, AnswerKept
  <2>4. QED
    BY Zenon, <1>1, <2>2, <2>3 DEF WriteInChallenge
<1>8. \A d \in Conns \ {c} : Same(d)
  BY Zenon, <1>2, <1>3, <1>3a, <1>3b DEF Same
<1>9. QED
  BY Zenon, <1>4, <1>5, <1>6, <1>7, <1>8, Compose

\* Reading the answer to a challenge, or failing to, keeps the invariant.
LEMMA ReadResponseSteps ==
    ASSUME Shape, ServiceInv, NEW c \in Conns, ReadResponse(c) \/ ReadResponseFails(c)
    PROVE  Shape' /\ ServiceInv'
<1>0. AgentInv(c) /\ HandlerInv(c) /\ AnswerInv(c) /\ CacheInv
  BY DEF ServiceInv
<1>1. CASE ReadResponse(c)
  <2> DEFINE m == Head(toServer[c])
             sg == [key |-> m.key, challenge |-> m.challenge]
  <2>1. ServerReads(c, "response") /\ sig' = [sig EXCEPT ![c] = sg]
    BY Zenon, <1>1 DEF ReadResponse
  <2>2. sg \in [key : Keys, challenge : Nat] /\ sg.key \in Range(Keyring[c])
    BY ZenonT(60), <1>0, <2>1, ServerTail, MessageTypes
  <2> HIDE DEF sg
  <2>3. Shape'
    <3>1. spc' \in [Conns -> Places]
      BY Zenon, <1>1, Goto DEF ReadResponse, Places
    <3>2. toServer' \in [Conns -> Seq(ToServer)]
      BY Zenon, <1>0, <2>1, ServerTail
    <3>3. sig' \in [Conns -> {None} \cup [key : Keys, challenge : Nat]]
      BY Zenon, <2>1, <2>2 DEF Shape
    <3>4. QED
      BY Zenon, <1>1, <3>1, <3>2, <3>3 DEF ReadResponse, Shape, clientVars
  <2>4. CacheInv' /\ seen' = seen
    BY Zenon, <1>0, <1>1, CacheKept DEF ReadResponse
  <2>5. AgentInv(c)'
    BY Zenon, <1>0, <1>1, <2>1, ServerTail DEF ReadResponse, AgentInv, Shape, clientVars
  <2>6. HandlerInv(c)'
    <3>1. sig'[c] = sg
      BY Zenon, <2>1 DEF Shape
    <3>2. QED
      BY Zenon, <1>0, <1>1, <2>2, <3>1 DEF ReadResponse, HandlerInv, Shape, clientVars
  <2>7. AnswerInv(c)'
    BY ZenonT(60), <1>0, <1>1, <2>4, AnswerKept DEF ReadResponse, Shape, clientVars
  <2>8. \A d \in Conns \ {c} : Same(d)
    BY SMTT(30), <1>0, <1>1, <2>1, ServerTail DEF ReadResponse, Same, clientVars, Shape
  <2>9. QED
    BY Zenon, <2>3, <2>4, <2>5, <2>6, <2>7, <2>8, Compose
<1>2. CASE ReadResponseFails(c)
  <2>1. Shape'
    BY Zenon, <1>2 DEF ReadResponseFails, Shape, Places, clientVars
  <2>2. CacheInv' /\ seen' = seen
    BY Zenon, <1>0, <1>2, CacheKept DEF ReadResponseFails
  <2>3. AgentInv(c)' /\ HandlerInv(c)'
    BY Zenon, <1>0, <1>2 DEF ReadResponseFails, AgentInv, HandlerInv, Shape, clientVars
  <2>4. AnswerInv(c)'
    BY Zenon, <1>0, <1>2, <2>2, AnswerKept DEF ReadResponseFails, Shape, clientVars
  <2>5. \A d \in Conns \ {c} : Same(d)
    BY Zenon, <1>2 DEF ReadResponseFails, Same, clientVars, Shape
  <2>6. QED
    BY Zenon, <2>1, <2>2, <2>3, <2>4, <2>5, Compose
<1>3. QED
  BY Zenon, <1>1, <1>2

\* A user is found in the cache, whose records some content of LDAP had.
LEMMA AuthenticateStep ==
    ASSUME Shape, ServiceInv, NEW c \in Conns, Authenticate(c)
    PROVE  Shape' /\ ServiceInv'
<1>0. AgentInv(c) /\ HandlerInv(c) /\ AnswerInv(c) /\ CacheInv
  BY Zenon DEF ServiceInv
<1>1. /\ UNCHANGED <<ldapVars, cacheVars, net, toServer, toClient, serverEnd, clientEnd,
                     challenge, sig, cpc, req, skip, stored>>
      /\ spc[c] \in {"verify", "verifyAgain"}
  BY Zenon DEF Authenticate, netVars, clientVars
<1>2. PICK p \in {"assume", "authUpdate", "failure"} :
          spc' = [spc EXCEPT ![c] = p]
  BY Zenon DEF Authenticate
<1>3. spc' \in [Conns -> Places] /\ spc'[c] = p /\ \A d \in Conns \ {c} : spc'[d] = spc[d]
  <2>1. p \in Places
    BY Zenon DEF Places
  <2>2. QED
    BY Zenon, <1>2, <2>1, Goto
<1>4. CacheInv' /\ seen' = seen
  BY Zenon, <1>0, <1>1, CacheKept
<1>5. /\ user' \in [Conns -> {None} \cup [name : Users, rec : UserRecord]]
      /\ \A d \in Conns \ {c} : user'[d] = user[d]
      /\ p = "assume" => user'[c] \in [name : Users, rec : UserRecord]
      /\ p = "assume" => Known(c, user[c].name, user[c].rec)'
  <2>1. CASE p = "assume"
    <3>1. PICK u \in Verified(c) :
              user' = [user EXCEPT ![c] = [name |-> u, rec |-> users[u]]]
      BY <1>2, <2>1 DEF Authenticate, Shape
    <3>2. u \in Users /\ users[u] # None /\ users[u] \in UserRecord
          /\ sig[c].key \in users[u].keys
      BY Zenon, <1>0, <3>1 DEF Verified, CacheInv, CacheShape
    <3>3. [name |-> u, rec |-> users[u]] \in [name : Users, rec : UserRecord]
      BY Zenon, <3>2
    <3>4. user'[c] = [name |-> u, rec |-> users[u]]
      BY Zenon, <3>1 DEF Shape
    <3>5. Known(c, u, users[u])'
      <4>1. users' = users
        BY Zenon, <1>1 DEF cacheVars
      <4>2. sig[c].key \in Range(Keyring[c])
        BY Zenon, <1>0, <1>1 DEF HandlerInv
      <4>3. MadeFrom(u, users[u])
        BY Zenon, <1>0, <3>2 DEF CacheInv
      <4>4. QED
        BY Zenon, <1>4, <3>2, <4>1, <4>2, <4>3 DEF Known, MadeFrom, Listed
    <3>6. Known(c, user[c].name, user[c].rec)'
      <4>1. user'[c].name = u /\ user'[c].rec = users[u] /\ users' = users
        BY <1>1, <3>4 DEF cacheVars
      <4>2. QED
        BY Zenon, <3>5, <4>1 DEF Known, MadeFrom, Listed
    <3>7. /\ user' \in [Conns -> {None} \cup [name : Users, rec : UserRecord]]
          /\ \A d \in Conns \ {c} : user'[d] = user[d]
      BY Zenon, <3>1, <3>3 DEF Shape
    <3>8. QED
      BY Zenon, <3>3, <3>4, <3>6, <3>7
  <2>2. CASE p # "assume"
    <3>1. user' = user
      BY Zenon, <1>2, <2>2 DEF Authenticate, Shape
    <3>2. QED
      BY Zenon, <2>2, <3>1 DEF Shape
  <2>3. QED
    BY Zenon, <2>1, <2>2
<1>6. Shape'
  BY Zenon, <1>1, <1>3, <1>5 DEF Shape
<1>7. AgentInv(c)' /\ HandlerInv(c)'
  <2>1. AgentInv(c)'
    BY Zenon, <1>0, <1>1, <1>3 DEF AgentInv
  <2>2. HandlerInv(c)'
    BY Zenon, <1>0, <1>1, <1>3, <1>5 DEF HandlerInv
  <2>3. QED
    BY Zenon, <2>1, <2>2
<1>8. AnswerInv(c)'
  BY Zenon, <1>0, <1>1, <1>3, <1>4, AnswerKept
<1>9. \A d \in Conns \ {c} : Same(d)
  BY Zenon, <1>1, <1>3, <1>5 DEF Same
<1>10. QED
  BY Zenon, <1>4, <1>6, <1>7, <1>8, <1>9, Compose

\* The steps once the user is known; RetrySucceedsForUse is apart.
LEMMA AssumeSteps ==
    ASSUME Shape, ServiceInv, NEW c \in Conns,
           AssumeRole(c) \/ RetryFails(c) \/ RetrySucceedsForMe(c) \/ Fallback(c)
    PROVE  Shape' /\ ServiceInv'
<1>0. AgentInv(c) /\ HandlerInv(c) /\ AnswerInv(c) /\ CacheInv
  BY Zenon DEF ServiceInv
<1>1. /\ UNCHANGED <<ldapVars, cacheVars, net, toServer, clientEnd, challenge, sig, user,
                     cpc, req, skip, stored>>
      /\ spc[c] \in {"assume", "retry", "fallback"}
  BY Zenon DEF AssumeRole, RetryFails, RetrySucceedsForMe, Fallback, clientVars
<1>2. PICK p \in {"read", "update", "fallback"} : spc' = [spc EXCEPT ![c] = p]
  BY Zenon DEF AssumeRole, RetryFails, RetrySucceedsForMe, Fallback
<1>3. spc' \in [Conns -> Places] /\ spc'[c] = p /\ \A d \in Conns \ {c} : spc'[d] = spc[d]
  <2>1. p \in Places
    BY Zenon DEF Places
  <2>2. QED
    BY Zenon, <1>2, <2>1, Goto
<1>4. CacheInv' /\ seen' = seen
  BY Zenon, <1>0, <1>1, CacheKept
<1>5. /\ serverEnd' \in [Conns -> {"none", "open", "closed"}]
      /\ \A d \in Conns \ {c} : serverEnd'[d] = serverEnd[d]
      /\ Works(c)' => Works(c)
  <2>1. serverEnd' = serverEnd \/ serverEnd' = [serverEnd EXCEPT ![c] = "closed"]
    BY Zenon DEF AssumeRole, RetryFails, RetrySucceedsForMe, Fallback
  <2>2. QED
    BY Zenon, <1>1, <2>1 DEF Shape, Works
<1>6. \/ toClient' = toClient /\ p # "fallback"
      \/ \E m \in ToClient :
            /\ toClient' = Send(toClient, c, m)
            /\ p = "fallback" => m.type = "error"
            /\ m.type = "credentials" => m.creds \in Good(c) \/ spc[c] = "fallback"
  <2>1. CASE AssumeRole(c)
    BY Zenon, <1>0, <1>2, <2>1, GrantIsGood DEF AssumeRole, Shape
  <2>2. CASE RetrySucceedsForMe(c)
    BY ZenonT(60), <1>2, <2>2 DEF RetrySucceedsForMe, Shape
  <2>3. CASE RetryFails(c)
    BY Zenon, <2>3, PlainMessages DEF RetryFails
  <2>4. CASE Fallback(c)
    <3>1. p # "fallback" /\ spc[c] = "fallback"
      BY Zenon, <1>2, <2>4 DEF Fallback, Shape
    <3>2. QED
      BY Zenon, <1>0, <2>4, <3>1, GrantIsGood DEF Fallback
  <2>5. QED
    BY Zenon, <2>1, <2>2, <2>3, <2>4
<1>7. /\ toClient' \in [Conns -> Seq(ToClient)]
      /\ \A d \in Conns \ {c} : toClient'[d] = toClient[d]
  BY SMTT(30), <1>6, SendToClient DEF Shape
<1>8. Shape'
  BY Zenon, <1>1, <1>3, <1>5, <1>7 DEF Shape
<1>9. AgentInv(c)' /\ HandlerInv(c)'
  <2>1. AgentInv(c)'
    BY Zenon, <1>0, <1>1, <1>3 DEF AgentInv, HandlerInv
  <2>2. HandlerInv(c)'
    BY Zenon, <1>0, <1>1, <1>3, <1>4 DEF HandlerInv, Known, MadeFrom, Listed
  <2>3. QED
    BY Zenon, <2>1, <2>2
<1>10. AnswerInv(c)'
  <2>1. CASE toClient' = toClient /\ p # "fallback"
    BY Zenon, <1>0, <1>1, <1>3, <1>4, <2>1, AnswerKept
  <2>2. ASSUME NEW m \in ToClient, toClient' = Send(toClient, c, m),
               p = "fallback" => m.type = "error",
               m.type = "credentials" => m.creds \in Good(c) \/ spc[c] = "fallback"
        PROVE  AnswerInv(c)'
    <3>1. m.type = "credentials" =>
              \/ m.creds \in Good(c)
              \/ cpc[c] = "reading" /\ Works(c) => HasError(toClient[c])
      BY Zenon, <1>0, <2>2 DEF AnswerInv
    <3>2. QED
      BY Zenon, <1>0, <1>1, <1>3, <1>4, <1>5, <2>2, <3>1, AnswerSent
  <2>3. QED
    BY Zenon, <1>6, <2>1, <2>2
<1>11. \A d \in Conns \ {c} : Same(d)
  BY Zenon, <1>1, <1>3, <1>5, <1>7 DEF Same
<1>12. QED
  BY Zenon, <1>4, <1>8, <1>9, <1>10, <1>11, Compose

\* What an entry and the groups make is a record made from LDAP.
LEMMA UserFromLDAP ==
    ASSUME CacheInv, NEW c \in Conns, upd[c] = "users", NEW u \in todo[c]
    PROVE  u \in Users /\ UserFrom(c, u) \in UserRecord /\ MadeFrom(u, UserFrom(c, u))
<1> DEFINE entry == found[c].users[u]
           roles == UNION {groups[g] : g \in entry.memberOf}
<1>1. u \in Users /\ found[c] \in seen /\ entry # None
  BY Zenon DEF CacheInv, UpdateInv
<1>2. found[c].users \in [Users -> {None} \cup UserEntry]
  BY Zenon, <1>1, SessionAssumption DEF CacheInv, CacheShape
<1>3. entry \in UserEntry
  BY Zenon, <1>1, <1>2
<1>4. entry.keys \in SUBSET Keys /\ entry.memberOf \in SUBSET Groups
      /\ DefaultFor(entry) \in RoleNames
  BY Zenon, <1>3, SessionAssumption DEF UserEntry, DefaultFor
<1>5. /\ roles \in SUBSET RoleNames
      /\ \A a \in roles : \E g \in entry.memberOf : Listed(g, a)
  <2>1. ASSUME NEW g \in Groups
        PROVE  groups[g] \in SUBSET RoleNames /\ \A a \in groups[g] : Listed(g, a)
    BY Zenon DEF CacheInv, CacheShape
  <2>2. QED
    BY Zenon, <1>4, <2>1
<1> HIDE DEF roles
<1>6. /\ UserFrom(c, u).keys = entry.keys
      /\ UserFrom(c, u).defaultRole = DefaultFor(entry)
      /\ UserFrom(c, u).arns \subseteq roles
      /\ UserFrom(c, u) \in UserRecord
  BY Zenon, <1>4, <1>5 DEF UserFrom, MakeUser, UserRecord, roles
<1>7. QED
  BY Zenon, <1>1, <1>5, <1>6 DEF MadeFrom

\* Whatever other handlers have stored since, an Update stores only what comes
\* from LDAP.
LEMMA UpdateCache ==
    ASSUME CacheInv, NEW c \in Conns, Update(c)
    PROVE  CacheInv' /\ seen' = seen
<1>0. UNCHANGED <<ldap, seen>> /\ CacheShape /\ ldap \in seen /\ UpdateInv(c)
  BY Zenon DEF Update, ldapVars, CacheInv
<1>1. SUFFICES /\ CacheShape'
               /\ \A u \in Users, rec \in UserRecord : users'[u] = rec => MadeFrom(u, rec)
               /\ \A g \in Groups, a \in RoleNames : a \in groups'[g] => Listed(g, a)
               /\ UpdateInv(c)'
               /\ \A d \in Conns \ {c} : UNCHANGED <<upd[d], found[d], todo[d]>>
  <2>1. ASSUME NEW d \in Conns, UNCHANGED <<upd[d], found[d], todo[d]>> PROVE UpdateInv(d)'
    <3>1. UpdateInv(d) /\ upd'[d] = upd[d] /\ found'[d] = found[d] /\ todo'[d] = todo[d]
      BY Zenon, <2>1 DEF CacheInv
    <3>2. QED
      BY Zenon, <1>0, <3>1 DEF UpdateInv
  <2>2. QED
    BY Zenon, <1>0, <2>1, StillFrom DEF CacheInv
<1>2. CASE Search(c)
  <2>1. UNCHANGED <<users, groups>> /\ found' = [found EXCEPT ![c] = ldap]
        /\ \E p \in {"groups", "users"} : upd' = [upd EXCEPT ![c] = p]
        /\ \E S \in SUBSET (Users \cup Groups) : todo' = [todo EXCEPT ![c] = S]
    BY Zenon, <1>2 DEF Search
  <2>2. CacheShape' /\ found'[c] = ldap
        /\ \A d \in Conns \ {c} : UNCHANGED <<upd[d], found[d], todo[d]>>
    BY ZenonT(60), <1>0, <2>1 DEF CacheShape
  <2>3. \/ upd'[c] = "groups" /\ todo'[c] = {g \in Groups : ldap.groups[g] # None}
        \/ upd'[c] = "users" /\ todo'[c] = {u \in Users : ldap.users[u] # None}
    BY Zenon, <1>0, <1>2 DEF Search, CacheShape
  <2>4. UpdateInv(c)'
    BY Zenon, <1>0, <2>2, <2>3 DEF UpdateInv
  <2>5. QED
    BY Zenon, <2>1, <2>2, <2>4 DEF CacheInv
<1>3. CASE StoreGroup(c)
  <2>1. PICK g \in todo[c] : /\ groups' = [groups EXCEPT ![g] = found[c].groups[g]]
                             /\ todo' = [todo EXCEPT ![c] = @ \ {g}]
    BY Zenon, <1>3 DEF StoreGroup
  <2>2. UNCHANGED <<users, upd, found>> /\ upd[c] = "groups"
    BY Zenon, <1>3 DEF StoreGroup
  <2>3. g \in Groups /\ found[c] \in seen /\ found[c].groups[g] # None
    BY Zenon, <1>0, <2>2 DEF UpdateInv
  <2>4. found[c].groups[g] \in SUBSET RoleNames
    <3>1. found[c].groups \in [Groups -> {None} \cup SUBSET RoleNames]
      BY Zenon, <1>0, <2>3, SessionAssumption DEF CacheShape
    <3>2. QED
      BY Zenon, <2>3, <3>1
  <2>5. CacheShape' /\ todo'[c] \subseteq todo[c]
        /\ \A d \in Conns \ {c} : UNCHANGED <<upd[d], found[d], todo[d]>>
    BY Zenon, <1>0, <2>1, <2>2, <2>4 DEF CacheShape
  <2>6. ASSUME NEW h \in Groups, NEW a \in RoleNames, a \in groups'[h] PROVE Listed(h, a)
    BY Zenon, <1>0, <2>1, <2>3, <2>6 DEF CacheInv, CacheShape, Listed
  <2>7. UpdateInv(c)'
    BY Zenon, <1>0, <2>2, <2>5 DEF UpdateInv
  <2>8. QED
    BY Zenon, <2>2, <2>5, <2>6, <2>7 DEF CacheInv
<1>4. CASE StoreUser(c)
  <2>1. PICK u \in todo[c] : /\ users' = [users EXCEPT ![u] = UserFrom(c, u)]
                             /\ todo' = [todo EXCEPT ![c] = @ \ {u}]
    BY Zenon, <1>4 DEF StoreUser
  <2>2. UNCHANGED <<groups, upd, found>> /\ upd[c] = "users"
    BY Zenon, <1>4 DEF StoreUser
  <2>3. u \in Users /\ UserFrom(c, u) \in UserRecord /\ MadeFrom(u, UserFrom(c, u))
    BY Zenon, <2>2, UserFromLDAP
  <2>4. CacheShape' /\ todo'[c] \subseteq todo[c]
        /\ \A d \in Conns \ {c} : UNCHANGED <<upd[d], found[d], todo[d]>>
    BY Zenon, <1>0, <2>1, <2>2, <2>3 DEF CacheShape
  <2>5. ASSUME NEW v \in Users, NEW rec \in UserRecord, users'[v] = rec PROVE MadeFrom(v, rec)
    BY Zenon, <1>0, <2>1, <2>3, <2>5 DEF CacheInv, CacheShape
  <2>6. UpdateInv(c)'
    BY Zenon, <1>0, <2>2, <2>4 DEF UpdateInv
  <2>7. QED
    BY Zenon, <2>2, <2>4, <2>5, <2>6 DEF CacheInv
<1>5. CASE UpdateReturns(c)
  <2>1. /\ UNCHANGED <<users, groups>>
        /\ upd' = [upd EXCEPT ![c] = "none"]
        /\ found' = [found EXCEPT ![c] = None]
        /\ todo' = [todo EXCEPT ![c] = {}]
    BY Zenon, <1>5 DEF UpdateReturns
  <2>2. CacheShape' /\ upd'[c] = "none"
        /\ \A d \in Conns \ {c} : UNCHANGED <<upd[d], found[d], todo[d]>>
    BY Zenon, <1>0, <2>1 DEF CacheShape
  <2>3. UpdateInv(c)'
    BY Zenon, <2>2 DEF UpdateInv
  <2>4. QED
    BY Zenon, <2>1, <2>2, <2>3 DEF CacheInv
<1>6. QED
  BY Zenon, <1>2, <1>3, <1>4, <1>5 DEF Update

\* A step of an Update changes the cache, and at its end the handler goes on.
LEMMA UpdateMoves ==
    ASSUME Shape, NEW c \in Conns, Update(c)
    PROVE  /\ UNCHANGED <<net, toServer, toClient, serverEnd, clientEnd, challenge, sig,
                          user, rejected, cpc, req, skip, stored>>
           /\ spc' \in [Conns -> Places]
           /\ \A d \in Conns \ {c} : spc'[d] = spc[d]
           /\ \/ spc[c] = "authUpdate" /\ spc'[c] \in {"authUpdate", "verifyAgain"}
              \/ spc[c] = "update" /\ spc'[c] \in {"update", "retry"}
<1>1. UNCHANGED <<net, toServer, toClient, serverEnd, clientEnd, challenge, sig, user,
                  rejected, cpc, req, skip, stored>>
  BY Zenon DEF Update, netVars, clientVars
<1>2. spc' = spc \/ spc' = [spc EXCEPT ![c] = AfterUpdate(c)]
  BY Zenon DEF Update, Search, StoreGroup, StoreUser, UpdateReturns
<1>3. spc[c] \in {"authUpdate", "update"} /\ AfterUpdate(c) \in Places
      /\ AfterUpdate(c) = IF spc[c] = "authUpdate" THEN "verifyAgain" ELSE "retry"
  BY Zenon DEF Update, Updating, AfterUpdate, Places
<1>4. CASE spc' = spc
  BY Zenon, <1>1, <1>3, <1>4 DEF Shape
<1>5. CASE spc' = [spc EXCEPT ![c] = AfterUpdate(c)]
  BY Zenon, <1>1, <1>3, <1>5, Goto
<1>6. QED
  BY Zenon, <1>2, <1>4, <1>5

\* An Update keeps the invariant: the handler keeps the user it has found.
LEMMA UpdateStep ==
    ASSUME Shape, ServiceInv, NEW c \in Conns, Update(c)
    PROVE  Shape' /\ ServiceInv'
<1>0. AgentInv(c) /\ HandlerInv(c) /\ AnswerInv(c) /\ CacheInv
  BY Zenon DEF ServiceInv
<1>1. CacheInv' /\ seen' = seen
  BY Zenon, <1>0, UpdateCache
<1>2. Shape'
  <2>1. /\ UNCHANGED <<net, toServer, toClient, serverEnd, clientEnd, challenge, sig, user,
                       cpc, req, skip, stored>>
        /\ spc' \in [Conns -> Places]
    BY Zenon, UpdateMoves
  <2>2. QED
    BY Zenon, <2>1 DEF Shape
<1>3. AgentInv(c)' /\ HandlerInv(c)'
  <2>1. AgentInv(c)'
    BY Zenon, <1>0, UpdateMoves DEF AgentInv
  <2>2. HandlerInv(c)'
    <3>1. /\ UNCHANGED <<sig, user, req>>
          /\ \/ spc[c] = "authUpdate" /\ spc'[c] \in {"authUpdate", "verifyAgain"}
             \/ spc[c] = "update" /\ spc'[c] \in {"update", "retry"}
      BY Zenon, UpdateMoves
    <3>2. QED
      BY Zenon, <1>0, <1>1, <3>1 DEF HandlerInv, Known, MadeFrom, Listed
  <2>3. QED
    BY Zenon, <2>1, <2>2
<1>4. AnswerInv(c)'
  BY Zenon, <1>0, <1>1, UpdateMoves, AnswerKept
<1>5. \A d \in Conns \ {c} : Same(d)
  BY Zenon, UpdateMoves DEF Same
<1>6. QED
  BY Zenon, <1>1, <1>2, <1>3, <1>4, <1>5, Compose

\* The server dies: every handler ends, and no connection works any longer.
LEMMA DeathStep ==
    ASSUME Shape, ServiceInv, Dies
    PROVE  Shape' /\ ServiceInv'
<1>1. UNCHANGED <<ldapVars, cacheVars, net, toServer, toClient, clientEnd, challenge, sig,
                  user, cpc, req, skip, stored>>
  BY Zenon DEF Dies, clientVars
<1>2. /\ spc' \in [Conns -> Places]
      /\ serverEnd' \in [Conns -> {"none", "open", "closed"}]
      /\ \A d \in Conns : spc'[d] \in {"none", "exited"} /\ (spc'[d] = "none" <=> spc[d] = "none")
  BY Zenon DEF Dies, Shape, Places
<1>3. Shape'
  BY Zenon, <1>1, <1>2 DEF Shape
<1>4. CacheInv' /\ seen' = seen
  BY Zenon, <1>1, CacheKept DEF ServiceInv
<1>5. ASSUME NEW d \in Conns PROVE AgentInv(d)' /\ HandlerInv(d)' /\ AnswerInv(d)'
  <2>0. AgentInv(d) /\ HandlerInv(d) /\ AnswerInv(d)
    BY Zenon DEF ServiceInv
  <2>1. AgentInv(d)'
    BY Zenon, <1>1, <1>2, <2>0 DEF AgentInv
  <2>2. HandlerInv(d)'
    BY Zenon, <1>1, <1>2, <2>0 DEF HandlerInv
  <2>3. AnswerInv(d)'
    BY Zenon, <1>1, <1>2, <1>4, <2>0, AnswerKept
  <2>4. QED
    BY Zenon, <2>1, <2>2, <2>3
<1>6. QED
  BY Zenon, <1>3, <1>4, <1>5 DEF ServiceInv

\* Every step of a handler keeps the invariant.
LEMMA ServerStep ==
    ASSUME Shape, ServiceInv, NEW c \in Conns, Server(c)
    PROVE  Shape' /\ ServiceInv'
  BY Zenon, ReadSteps, ChallengeSteps, ReadResponseSteps, AuthenticateStep, AssumeSteps, UpdateStep,
     DeathStep DEF Server, RetrySucceedsForUse
-----------------------------------------------------------------------------
(* Steps of the environment and of the agent *)

\* A change of LDAP keeps the invariant.
LEMMA DirectoryStep ==
    ASSUME Shape, ServiceInv, DirectoryChange
    PROVE  Shape' /\ ServiceInv'
<1>1. /\ UNCHANGED <<users, groups, upd, found, todo, net, toServer, toClient, serverEnd, clientEnd, spc, challenge,
                     sig, user, cpc, req, skip, stored>>
      /\ ldap' \in Directories /\ seen' = seen \cup {ldap'}
  BY Zenon DEF DirectoryChange, cacheVars, netVars, serverVars, clientVars
<1>2. Shape'
  BY Zenon, <1>1 DEF Shape
<1>3. CacheInv'
  <2>1. CacheShape' /\ \A c \in Conns : UpdateInv(c)'
    BY Zenon, <1>1 DEF ServiceInv, CacheInv, CacheShape, UpdateInv
  <2>2. QED
    BY Zenon, <1>1, <2>1, StillFrom DEF ServiceInv, CacheInv
<1>4. \A c \in Conns : Same(c)
  BY Zenon, <1>1 DEF Same
<1>5. QED
  BY Zenon, <1>1, <1>2, <1>3, <1>4, SameKeeps DEF ServiceInv

\* The end of a connection, by the network or the collector, keeps the
\* invariant.
LEMMA NetworkSteps ==
    ASSUME Shape, ServiceInv, NEW c \in Conns, Break(c) \/ Finalize(c)
    PROVE  Shape' /\ ServiceInv'
<1>0. AgentInv(c) /\ HandlerInv(c) /\ AnswerInv(c) /\ CacheInv
  BY Zenon DEF ServiceInv
<1>1. UNCHANGED <<ldapVars, cacheVars, serverEnd, spc, challenge, sig, user, cpc, req, skip,
                  stored>>
  BY Zenon DEF Break, Finalize, serverVars, clientVars
<1>2. /\ net' \in [Conns -> {"none", "up", "broken"}]
      /\ clientEnd' \in [Conns -> {"none", "open", "dropped", "closed"}]
      /\ \A d \in Conns \ {c} : net'[d] = net[d] /\ clientEnd'[d] = clientEnd[d]
      /\ Works(c)' => Works(c) /\ toClient'[c] = toClient[c]
  BY ZenonT(60) DEF Break, Finalize, Shape, Works
<1>3. /\ toServer' \in [Conns -> Seq(ToServer)] /\ toClient' \in [Conns -> Seq(ToClient)]
      /\ \A d \in Conns \ {c} : toServer'[d] = toServer[d] /\ toClient'[d] = toClient[d]
      /\ toServer'[c] \in {<<>>, toServer[c]} /\ toClient'[c] \in {<<>>, toClient[c]}
  <2>1. <<>> \in Seq(ToServer) /\ <<>> \in Seq(ToClient)
    OBVIOUS
  <2>2. CASE Break(c)
    BY Zenon, <2>1, <2>2 DEF Break, Shape
  <2>3. CASE Finalize(c)
    BY Zenon, <2>3 DEF Finalize, Shape
  <2>4. QED
    BY Zenon, <2>2, <2>3
<1>4. Shape'
  BY Zenon, <1>1, <1>2, <1>3 DEF Shape
<1>5. CacheInv' /\ seen' = seen
  BY Zenon, <1>0, <1>1, CacheKept
<1>6. AgentInv(c)' /\ HandlerInv(c)'
  <2>1. AgentInv(c)'
    BY <1>0, <1>1, <1>3 DEF AgentInv
  <2>2. HandlerInv(c)'
    BY Zenon, <1>0, <1>1, <1>5 DEF HandlerInv, Known, MadeFrom, Listed
  <2>3. QED
    BY ZenonT(60), <2>1, <2>2
<1>7. AnswerInv(c)'
  <2>1. Ordered(<<>>, Good(c)')
    BY SMTT(30) DEF Ordered
  <2>2. cpc[c] = "reading" => Ordered(toClient'[c], Good(c)')
    BY Zenon, <1>0, <1>1, <1>3, <1>5, <2>1, GoodGrows, OrderedMore DEF AnswerInv
  <2>3. QED
    BY Zenon, <1>0, <1>1, <1>2, <2>2 DEF AnswerInv
<1>8. \A d \in Conns \ {c} : Same(d)
  BY Zenon, <1>1, <1>2, <1>3 DEF Same
<1>9. QED
  BY Zenon, <1>1, <1>4, <1>5, <1>6, <1>7, <1>8, Compose

\* When the agent reads, it takes the first message of its queue, and order is
\* kept.
LEMMA ClientTail ==
    ASSUME Shape, NEW c \in Conns, AnswerInv(c), NEW types, ClientReads(c, types)
    PROVE  /\ Head(toClient[c]) \in ToClient /\ Head(toClient[c]).type \in types
           /\ cpc[c] = "reading"
           /\ toClient' \in [Conns -> Seq(ToClient)]
           /\ \A d \in Conns \ {c} : toClient'[d] = toClient[d]
           /\ "error" \notin types =>
                 /\ Ordered(toClient'[c], Good(c))
                 /\ HasError(toClient[c]) => HasError(toClient'[c])
                 /\ Head(toClient[c]).type = "credentials" =>
                       Head(toClient[c]).creds \in Good(c)
<1> DEFINE q == toClient[c]
<1>1. q \in Seq(ToClient) /\ q # <<>> /\ toClient' = [toClient EXCEPT ![c] = Tail(q)]
      /\ Head(q).type \in types /\ cpc[c] = "reading"
  BY Zenon DEF Shape, ClientReads
<1>2. Head(q) \in ToClient /\ Tail(q) \in Seq(ToClient)
  BY <1>1
<1>3. toClient'[c] = Tail(q) /\ toClient' \in [Conns -> Seq(ToClient)]
      /\ \A d \in Conns \ {c} : toClient'[d] = toClient[d]
  BY Zenon, <1>1, <1>2 DEF Shape
<1>4. Ordered(q, Good(c))
  BY Zenon, <1>1 DEF AnswerInv
<1>5. QED
  BY Zenon, <1>1, <1>2, <1>3, <1>4, OrderedTail

\* The connection is made and the request is on its way, or there is none.
LEMMA DialStep ==
    ASSUME Shape, ServiceInv, NEW c \in Conns, NEW r \in Request, Dial(c, r)
    PROVE  Shape' /\ ServiceInv'
<1>0. AgentInv(c) /\ HandlerInv(c) /\ AnswerInv(c) /\ CacheInv
  BY Zenon DEF ServiceInv
<1>1. /\ UNCHANGED <<ldapVars, cacheVars, toClient, challenge, sig, user, skip, stored>>
      /\ cpc[c] = "idle" /\ req' = [req EXCEPT ![c] = r]
  BY Zenon DEF Dial
<1>2. /\ req' \in [Conns -> {None} \cup Request] /\ req'[c] = r
      /\ \A d \in Conns \ {c} : req'[d] = req[d]
  BY Zenon, <1>1 DEF Shape
<1>3. /\ net' \in [Conns -> {"none", "up", "broken"}]
      /\ serverEnd' \in [Conns -> {"none", "open", "closed"}]
      /\ clientEnd' \in [Conns -> {"none", "open", "dropped", "closed"}]
      /\ \A d \in Conns \ {c} : net'[d] = net[d] /\ serverEnd'[d] = serverEnd[d]
                                /\ clientEnd'[d] = clientEnd[d]
  BY ZenonT(60) DEF Dial, Shape
<1>4. /\ cpc' \in [Conns -> {"idle", "reading", "ok", "error", "noKeys"}]
      /\ cpc'[c] \in {"reading", "error"}
      /\ \A d \in Conns \ {c} : cpc'[d] = cpc[d]
  BY ZenonT(60) DEF Dial, Shape
<1>5. /\ spc' \in [Conns -> Places] /\ spc'[c] \in {"none", "read"}
      /\ \A d \in Conns \ {c} : spc'[d] = spc[d]
  <2>1. spc[c] = "none"
    BY Zenon, <1>0, <1>1 DEF AgentInv
  <2>2. CASE spc' = spc
    BY Zenon, <2>1, <2>2 DEF Shape
  <2>3. CASE spc' = [spc EXCEPT ![c] = "read"]
    <3>1. "read" \in Places
      BY Zenon DEF Places
    <3>2. QED
      BY Zenon, <2>3, <3>1, Goto
  <2>4. QED
    BY Zenon, <2>2, <2>3 DEF Dial
<1>6. /\ toServer' \in [Conns -> Seq(ToServer)]
      /\ \A d \in Conns \ {c} : toServer'[d] = toServer[d]
      /\ \A i \in 1..Len(toServer'[c]) :
            /\ toServer'[c][i].type = "request" => toServer'[c][i].req = r
            /\ toServer'[c][i].type = "response" =>
                  toServer'[c][i].key \in Range(Keyring[c])
  <2> DEFINE m == [type |-> "request", req |-> r]
  <2>1. m \in ToServer /\ m.type = "request" /\ m.req = r
    BY Zenon DEF ToServer
  <2>2. CASE toServer' = [toServer EXCEPT ![c] = <<m>>]
    <3> HIDE DEF m
    <3>1. <<m>> \in Seq(ToServer) /\ Len(<<m>>) = 1 /\ <<m>>[1] = m
      BY <2>1
    <3>2. toServer'[c] = <<m>>
      BY Zenon, <2>2 DEF Shape
    <3>3. QED
      BY <2>1, <2>2, <3>1, <3>2 DEF Shape
  <2>3. CASE toServer' = toServer
    BY SMTT(30), <1>0, <1>1, <2>3 DEF Shape, AgentInv
  <2>4. QED
    BY Zenon, <2>2, <2>3 DEF Dial
<1>7. Shape'
  BY Zenon, <1>1, <1>2, <1>3, <1>4, <1>5, <1>6 DEF Shape
<1>8. CacheInv' /\ seen' = seen
  BY Zenon, <1>0, <1>1, CacheKept
<1>9. AgentInv(c)' /\ HandlerInv(c)'
  <2>1. AgentInv(c)'
    BY Zenon, <1>0, <1>1, <1>2, <1>4, <1>6 DEF AgentInv
  <2>2. HandlerInv(c)'
    BY Zenon, <1>2, <1>5 DEF HandlerInv
  <2>3. QED
    BY Zenon, <2>1, <2>2
<1>10. AnswerInv(c)'
  <2>1. toClient'[c] = <<>>
    BY ZenonT(60), <1>0, <1>1 DEF AgentInv
  <2>2. QED
    BY SMTT(30), <1>5, <2>1 DEF AnswerInv, Ordered
<1>11. \A d \in Conns \ {c} : Same(d)
  BY <1>1, <1>2, <1>3, <1>4, <1>5, <1>6 DEF Same
<1>12. QED
  BY Zenon, <1>1, <1>7, <1>8, <1>9, <1>10, <1>11, Compose

\* The agent goes on reading: it answers a challenge with a key of its own, or
\* turns to the next key.
LEMMA ReadOnSteps ==
    ASSUME Shape, ServiceInv, NEW c \in Conns, AnswerChallenge(c) \/ NextKey(c)
    PROVE  Shape' /\ ServiceInv'
<1>0. AgentInv(c) /\ HandlerInv(c) /\ AnswerInv(c) /\ CacheInv
  BY DEF ServiceInv
<1>1. /\ UNCHANGED <<ldapVars, cacheVars, net, serverEnd, clientEnd, spc, challenge, sig, user,
                     cpc, req, stored>>
      /\ skip' \in [Conns -> Nat]
  <2>1. CASE AnswerChallenge(c)
    BY Zenon, <2>1 DEF AnswerChallenge, serverVars, clientVars, Shape
  <2>2. CASE NextKey(c)
    <3>1. skip[c] + 1 \in Nat /\ skip' = [skip EXCEPT ![c] = skip[c] + 1]
      BY SMTT(30), <2>2 DEF NextKey, Shape
    <3>2. QED
      BY <2>2, <3>1 DEF NextKey, serverVars, Shape
  <2>3. QED
    BY Zenon, <2>1, <2>2
<1>2. PICK types : ClientReads(c, types) /\ "error" \notin types
  <2>1. "error" \notin {"challenge"} /\ "error" \notin {"verificationFailure"}
    BY Zenon
  <2>2. QED
    BY Zenon, <2>1 DEF AnswerChallenge, NextKey
<1>3. /\ toServer' \in [Conns -> Seq(ToServer)]
      /\ \A d \in Conns \ {c} : toServer'[d] = toServer[d]
      /\ \A i \in 1..Len(toServer'[c]) :
            /\ toServer'[c][i].type = "request" => toServer'[c][i].req = req[c]
            /\ toServer'[c][i].type = "response" =>
                  toServer'[c][i].key \in Range(Keyring[c])
  <2>1. CASE AnswerChallenge(c)
    <3> DEFINE k == Keyring[c][skip[c] + 1]
               n == Head(toClient[c]).challenge
               m == [type |-> "response", key |-> k, challenge |-> n]
    <3>1. k \in Keys /\ k \in Range(Keyring[c])
      <4>1. Keyring[c] \in Seq(Keys) /\ skip[c] \in Nat /\ skip[c] < Len(Keyring[c])
        BY Zenon, <2>1, SessionAssumption DEF AnswerChallenge, Shape
      <4>2. skip[c] + 1 \in 1..Len(Keyring[c]) /\ DOMAIN Keyring[c] = 1..Len(Keyring[c])
        BY <4>1
      <4>3. QED
        BY <4>1, <4>2 DEF Range
    <3>2. n \in Nat
      <4>1. Head(toClient[c]) \in ToClient /\ Head(toClient[c]).type = "challenge"
        BY <1>0, <2>1, ClientTail DEF AnswerChallenge
      <4>2. QED
        BY Zenon, <4>1 DEF ToClient
    <3>3. toServer' = Send(toServer, c, m)
      BY Zenon, <2>1 DEF AnswerChallenge
    <3> HIDE DEF k, n
    <3>4. m \in ToServer /\ m.type = "response" /\ m.key = k
      BY Zenon, <3>1, <3>2 DEF ToServer
    <3> HIDE DEF m
    <3>5. toServer'[c] = toServer[c] \/ toServer'[c] = Append(toServer[c], m)
      BY Zenon, <3>3, <3>4, SendToServer
    <3>6. toServer[c] \in Seq(ToServer)
      BY Zenon DEF Shape
    <3>7. ASSUME NEW i \in 1..Len(toServer'[c])
          PROVE  \/ toServer'[c][i] = m
                 \/ i \in 1..Len(toServer[c]) /\ toServer'[c][i] = toServer[c][i]
      BY SMTT(30), <3>4, <3>5, <3>6
    <3>8. QED
      BY ZenonT(60), <1>0, <3>1, <3>3, <3>4, <3>7, SendToServer DEF AgentInv
  <2>2. CASE NextKey(c)
    BY Zenon, <1>0, <2>2 DEF NextKey, AgentInv, Shape
  <2>3. QED
    BY Zenon, <2>1, <2>2
<1>4. Shape'
  <2>1. toClient' \in [Conns -> Seq(ToClient)]
    BY Zenon, <1>0, <1>2, ClientTail
  <2>2. QED
    BY Zenon, <1>1, <1>3, <2>1 DEF Shape
<1>5. CacheInv' /\ seen' = seen
  BY Zenon, <1>0, <1>1, CacheKept
<1>6. AgentInv(c)' /\ HandlerInv(c)'
  <2>1. AgentInv(c)'
    BY Zenon, <1>0, <1>1, <1>2, <1>3, ClientTail DEF AgentInv
  <2>2. HandlerInv(c)'
    BY Zenon, <1>0, <1>1, <1>5 DEF HandlerInv, Known, MadeFrom, Listed
  <2>3. QED
    BY <2>1, <2>2
<1>7. AnswerInv(c)'
  <2>1. Ordered(toClient'[c], Good(c)) /\ (HasError(toClient[c]) => HasError(toClient'[c]))
        /\ cpc[c] = "reading"
    BY Zenon, <1>0, <1>2, ClientTail
  <2>2. Ordered(toClient'[c], Good(c)')
    BY Zenon, <1>1, <1>5, <2>1, GoodGrows, OrderedMore
  <2>3. Works(c)' = Works(c)
    BY Zenon, <1>1 DEF Works
  <2>4. QED
    BY Zenon, <1>0, <1>1, <2>1, <2>2, <2>3 DEF AnswerInv
<1>8. \A d \in Conns \ {c} : Same(d)
  BY Zenon, <1>0, <1>1, <1>2, <1>3, ClientTail DEF Same
<1>9. QED
  BY Zenon, <1>1, <1>4, <1>5, <1>6, <1>7, <1>8, Compose

Returns(c) ==
    \/ ClientReadFails(c)
    \/ NoAnswer(c)
    \/ ReceiveCredentials(c)
    \/ ReceivePong(c)
    \/ ReceiveError(c)

\* requestCredentials returns; what is still in flight is never read.
LEMMA ReturnSteps ==
    ASSUME Shape, ServiceInv, NEW c \in Conns, Returns(c)
    PROVE  Shape' /\ ServiceInv'
<1>0. AgentInv(c) /\ HandlerInv(c) /\ AnswerInv(c) /\ CacheInv
  BY Zenon DEF ServiceInv
<1>1. /\ UNCHANGED <<ldapVars, cacheVars, net, toServer, serverEnd, spc, challenge, sig, user,
                     req, skip>>
      /\ cpc[c] = "reading"
  BY Zenon DEF Returns, ClientReadFails, NoAnswer, ReceiveCredentials, ReceivePong, ReceiveError,
         ClientReads, serverVars
<1>2. PICK outcome \in {"ok", "error", "noKeys"} : ClientReturns(c, outcome)
  BY Zenon DEF Returns, ClientReadFails, NoAnswer, ReceiveCredentials, ReceivePong, ReceiveError
<1>3. /\ cpc' \in [Conns -> {"idle", "reading", "ok", "error", "noKeys"}]
      /\ cpc'[c] \in {"ok", "error", "noKeys"}
      /\ clientEnd' \in [Conns -> {"none", "open", "dropped", "closed"}]
      /\ \A d \in Conns \ {c} : cpc'[d] = cpc[d] /\ clientEnd'[d] = clientEnd[d]
  BY Zenon, <1>2 DEF ClientReturns, Shape
<1>4. /\ toClient' \in [Conns -> Seq(ToClient)]
      /\ \A d \in Conns \ {c} : toClient'[d] = toClient[d]
  <2>1. toClient' = toClient \/ \E types : ClientReads(c, types)
    BY Zenon DEF Returns, ClientReadFails, NoAnswer, ReceiveCredentials, ReceivePong, ReceiveError
  <2>2. QED
    BY Zenon, <1>0, <2>1, ClientTail DEF Shape
<1>5. /\ stored' \in [Conns -> {None} \cup [creds : Credentials,
                                            role : RoleNames \cup {None}]]
      /\ \A d \in Conns \ {c} : stored'[d] = stored[d]
  <2>1. CASE ReceiveCredentials(c)
    <3> DEFINE s == [creds |-> Head(toClient[c]).creds, role |-> req[c].role]
    <3>1. Head(toClient[c]).creds \in Credentials
      BY SMTT(30), <1>0, <2>1, ClientTail, MessageTypes DEF ReceiveCredentials
    <3>2. req[c].role \in RoleNames \cup {None}
      BY Zenon, <1>0, <1>1 DEF AgentInv, Request
    <3>3. stored' = [stored EXCEPT ![c] = s]
      BY Zenon, <2>1 DEF ReceiveCredentials
    <3>4. s \in [creds : Credentials, role : RoleNames \cup {None}]
      BY Zenon, <3>1, <3>2
    <3> HIDE DEF s
    <3>5. QED
      BY ZenonT(60), <3>3, <3>4 DEF Shape
  <2>2. CASE ~ReceiveCredentials(c)
    BY Zenon, <2>2 DEF Returns, ClientReadFails, NoAnswer, ReceivePong, ReceiveError, Shape
  <2>3. QED
    BY Zenon, <2>1, <2>2
<1>6. Shape'
  BY Zenon, <1>1, <1>3, <1>4, <1>5 DEF Shape
<1>7. CacheInv' /\ seen' = seen
  BY Zenon, <1>0, <1>1, CacheKept
<1>8. AgentInv(c)' /\ HandlerInv(c)'
  <2>1. AgentInv(c)'
    BY Zenon, <1>0, <1>1, <1>3 DEF AgentInv
  <2>2. HandlerInv(c)'
    BY Zenon, <1>0, <1>1, <1>7 DEF HandlerInv, Known, MadeFrom, Listed
  <2>3. QED
    BY Zenon, <2>1, <2>2
<1>9. AnswerInv(c)'
  BY Zenon, <1>3 DEF AnswerInv
<1>10. \A d \in Conns \ {c} : Same(d)
  BY Zenon, <1>1, <1>3, <1>4, <1>5 DEF Same
<1>11. QED
  BY Zenon, <1>1, <1>6, <1>7, <1>8, <1>9, <1>10, Compose
-----------------------------------------------------------------------------
(* The invariant, and the refinement *)

\* The server has filled its cache from LDAP.
LEMMA InitCache == Init => CacheInv
<1> SUFFICES ASSUME Init PROVE CacheInv
  BY Zenon
<1>1. /\ ldap \in Directories /\ seen = {ldap}
      /\ ldap.users \in [Users -> {None} \cup UserEntry]
      /\ ldap.groups \in [Groups -> {None} \cup SUBSET RoleNames]
  BY Zenon, SessionAssumption DEF Init
<1>2. ASSUME NEW g \in Groups
      PROVE  groups[g] \in SUBSET RoleNames /\ \A a \in groups[g] : Listed(g, a)
  BY Zenon, <1>1 DEF Init, Listed
<1>3. groups \in [Groups -> SUBSET RoleNames]
  <2>1. groups = [g \in Groups |-> groups[g]]
    BY Zenon DEF Init
  <2>2. QED
    BY Zenon, <1>2, <2>1
<1>4. ASSUME NEW u \in Users, ldap.users[u] # None
      PROVE  /\ MakeUser(ldap.users[u], groups) \in UserRecord
             /\ MadeFrom(u, MakeUser(ldap.users[u], groups))
  <2> DEFINE entry == ldap.users[u]
             roles == UNION {groups[g] : g \in entry.memberOf}
             rec == MakeUser(entry, groups)
  <2>1. entry \in UserEntry
    BY Zenon, <1>1, <1>4
  <2>2. entry.keys \in SUBSET Keys /\ entry.memberOf \in SUBSET Groups
        /\ DefaultFor(entry) \in RoleNames
    BY Zenon, <2>1, SessionAssumption DEF UserEntry, DefaultFor
  <2>3. /\ roles \in SUBSET RoleNames
        /\ \A a \in roles : \E g \in entry.memberOf : Listed(g, a)
    BY Zenon, <1>2, <2>2
  <2> HIDE DEF roles
  <2>4. /\ rec.keys = entry.keys
        /\ rec.defaultRole = DefaultFor(entry)
        /\ rec.arns \subseteq roles
        /\ rec \in UserRecord
    BY Zenon, <2>2, <2>3 DEF MakeUser, UserRecord, roles
  <2>5. QED
    BY Zenon, <1>1, <1>4, <2>3, <2>4 DEF MadeFrom
<1>5. ASSUME NEW u \in Users
      PROVE  users[u] \in {None} \cup UserRecord /\ (users[u] # None => MadeFrom(u, users[u]))
  BY Zenon, <1>4 DEF Init
<1>6. users \in [Users -> {None} \cup UserRecord]
  <2>1. users = [u \in Users |-> users[u]]
    BY Zenon DEF Init
  <2>2. QED
    BY Zenon, <1>5, <2>1
<1>7. CacheShape /\ \A c \in Conns : UpdateInv(c)
  BY Zenon, <1>1, <1>3, <1>6 DEF Init, CacheShape, UpdateInv
<1>8. \A rec \in UserRecord : rec # None
  BY Zenon, SessionAssumption
<1>9. QED
  BY Zenon, <1>1, <1>2, <1>5, <1>7, <1>8 DEF CacheInv

\* The invariant holds initially.
LEMMA InitService == Init => Shape /\ ServiceInv
<1> SUFFICES ASSUME Init PROVE Shape /\ ServiceInv
  BY Zenon
<1>1. <<>> \in Seq(ToServer) /\ <<>> \in Seq(ToClient)
  OBVIOUS
<1>2. Shape
  BY Zenon, <1>1 DEF Init, Shape, Places
<1>3. CacheInv
  BY Zenon, InitCache
<1>4. ASSUME NEW c \in Conns PROVE AgentInv(c) /\ HandlerInv(c) /\ AnswerInv(c)
  <2>1. AgentInv(c)
    BY DEF Init, AgentInv
  <2>2. HandlerInv(c)
    BY Zenon DEF Init, HandlerInv
  <2>3. AnswerInv(c)
    BY Zenon DEF Init, AnswerInv
  <2>4. QED
    BY Zenon, <2>1, <2>2, <2>3
<1>5. QED
  BY Zenon, <1>2, <1>3, <1>4 DEF ServiceInv

\* Every step keeps the invariant.
LEMMA ServiceStep ==
    ASSUME Shape, ServiceInv, [Next]_vars
    PROVE  Shape' /\ ServiceInv'
<1>1. CASE UNCHANGED vars
  <2>1. UNCHANGED <<ldapVars, cacheVars, net, toServer, toClient, serverEnd, clientEnd, spc,
                    challenge, sig, user, cpc, req, skip, stored>>
    BY Zenon, <1>1 DEF vars, netVars, serverVars, clientVars
  <2>2. Shape' /\ (\A c \in Conns : Same(c)) /\ CacheInv' /\ seen' = seen
    BY Zenon, <2>1, CacheKept DEF Shape, ServiceInv, Same
  <2>3. QED
    BY Zenon, <2>1, <2>2, SameKeeps DEF ServiceInv
<1>2. ASSUME NEW c \in Conns, Client(c) PROVE Shape' /\ ServiceInv'
  BY Zenon, <1>2, ReadOnSteps, ReturnSteps DEF Client, Returns
<1>3. QED
  BY Zenon, <1>1, <1>2, DirectoryStep, NetworkSteps, DialStep, ServerStep, DeathStep,
     SessionAssumption DEF Next, MapFault

\* The invariant that the refinement rests on holds always.
LEMMA ServiceInvariance == Spec => [](Shape /\ ServiceInv)
  BY InitService, ServiceStep, PTL DEF Spec

\* What the agent stores is what some content of LDAP entitles it to.
LEMMA RefinesGive ==
    ASSUME Shape, ServiceInv, NEW c \in Conns, ReceiveCredentials(c)
    PROVE  Service!Next
<1> DEFINE cr == Head(toClient[c]).creds
<1>0. AgentInv(c) /\ AnswerInv(c)
  BY Zenon DEF ServiceInv
<1>1. ClientReads(c, {"credentials"}) /\ "error" \notin {"credentials"}
      /\ UNCHANGED <<seen, req>>
  BY Zenon DEF ReceiveCredentials, ldapVars
<1>2. cr \in Good(c) /\ cpc[c] = "reading"
  BY Zenon, <1>0, <1>1, ClientTail
<1>3. req[c] \in Request /\ stored[c] = None
  BY Zenon, <1>0, <1>2 DEF AgentInv
<1>4. PICK d \in seen, u \in Users :
          /\ req[c].kind # "ping"
          /\ d.users[u] # None
          /\ Service!Entitles(d.users[u], c, Service!RoleFor(req[c], d.users[u]))
          /\ cr = CredsFor(c, u, d.users[u])
  BY Zenon, <1>2 DEF Good
<1>5. Service!Give(c, d, u)
  <2>1. Service!Request = Request
    BY Zenon DEF Service!Request, Request
  <2>2. stored' = [stored EXCEPT ![c] =
                      [creds |-> [name |-> u,
                                  arn |-> Service!BuildARN(Service!RoleFor(req[c], d.users[u]))],
                       role |-> req[c].role]]
    BY Zenon, <1>4, SameBuildARN DEF ReceiveCredentials, CredsFor
  <2>3. QED
    BY Zenon, <1>1, <1>3, <1>4, <2>1, <2>2 DEF Service!Give
<1>6. QED
  BY Zenon, <1>5 DEF Service!Next

\* Every step of agents and server is a step of the service or changes nothing
\* of it.
LEMMA Refines ==
    ASSUME Shape, ServiceInv, [Next]_vars
    PROVE  [Service!Next]_(Service!vars)
<1>1. CASE DirectoryChange
  <2>1. seen' = seen \cup {ldap'} /\ ldap' \in Directories /\ UNCHANGED <<req, stored>>
    BY Zenon, <1>1 DEF DirectoryChange, clientVars
  <2>2. QED
    BY Zenon, <2>1 DEF Service!Next, Service!DirectoryChange
<1>2. ASSUME NEW c \in Conns, NEW r \in Request, Dial(c, r) PROVE Service!Next
  <2>1. req[c] = None /\ req' = [req EXCEPT ![c] = r] /\ UNCHANGED <<seen, stored>>
    BY Zenon, <1>2 DEF Dial, ldapVars, ServiceInv, AgentInv
  <2>2. Service!Request = Request
    BY Zenon DEF Service!Request, Request
  <2>3. QED
    BY Zenon, <2>1, <2>2 DEF Service!Next, Service!Ask
<1>3. ASSUME NEW c \in Conns, Server(c) PROVE UNCHANGED <<seen, req, stored>>
  BY Zenon, <1>3 DEF Server, HandlePing, HandleServerRequest, HandlerExits, SendChallenge,
     ReadResponse, ReadResponseFails, Authenticate, SendFailure, AssumeRole,
     RetryFails, RetrySucceedsForMe, RetrySucceedsForUse, Dies, Fallback, Update, ldapVars,
     clientVars
<1>4. ASSUME NEW c \in Conns, Client(c), ~ReceiveCredentials(c)
      PROVE  UNCHANGED <<seen, req, stored>>
  BY Zenon, <1>4 DEF Client, ClientReadFails, AnswerChallenge, NoAnswer, NextKey, ReceivePong,
     ReceiveError, ldapVars, clientVars
<1>5. ASSUME NEW c \in Conns, Break(c) \/ Finalize(c) PROVE UNCHANGED <<seen, req, stored>>
  BY Zenon, <1>5 DEF Break, Finalize, ldapVars, clientVars
<1>6. CASE UNCHANGED vars
  BY Zenon, <1>6 DEF vars, ldapVars, clientVars, Service!vars
<1>7. ASSUME NEW c \in Conns, NEW d \in Conns, MapFault(c, d)
      PROVE  UNCHANGED <<seen, req, stored>>
  BY Zenon, <1>7 DEF MapFault, Dies, ldapVars, clientVars
<1>8. QED
  BY Zenon, <1>1, <1>2, <1>3, <1>4, <1>5, <1>6, <1>7, RefinesGive, SessionAssumption
     DEF Next, Service!vars

\* Agents and server implement CredentialService, whatever connections break,
\* calls fail and changes LDAP undergoes: a grant travels before any error on
\* its connection, and rests on an entry that one content of LDAP had and on the
\* roles its groups have had, however the Updates of several handlers interleave.
THEOREM ImplementsService == Spec => IsService
<1>1. Init => Service!Init
  BY Zenon DEF Init, Service!Init
<1>2. QED
  BY <1>1, Refines, ServiceInvariance, PTL DEF Spec, IsService, Service!Spec
-----------------------------------------------------------------------------
(* The protocol: what the two ends of a connection know of each other *)

Failure == [type |-> "verificationFailure"]

Challenge(n) == [type |-> "challenge", challenge |-> n]

\* The response the agent makes to the current challenge, with its next key.
Response(c) == [type |-> "response", key |-> Keyring[c][skip[c] + 1],
                challenge |-> challenge[c]]

\* The server has rejected the key the agent has offered last.
NextRejected(c) ==
    skip[c] < Len(Keyring[c]) /\ Keyring[c][skip[c] + 1] \in rejected[c]

\* No challenge and no failure is in a queue.
NoPrompt(q) == \A i \in 1..Len(q) : q[i].type \notin {"challenge", "verificationFailure"}

\* A failure in a queue is followed by at most the next challenge.
Failures(n) == {<<Failure>>, <<Failure, Challenge(n)>>}

Challenges(n) == {<<Challenge(n)>>, <<Failure, Challenge(n)>>}

Verifying == {"verify", "authUpdate", "verifyAgain"}

\* What flies to the server: the request until it is read, or the response to
\* the challenge the handler waits on, and then nothing flies to the agent.
FlightInv(c) ==
    /\ net[c] # "up" => toServer[c] = <<>> /\ toClient[c] = <<>>
    /\ serverEnd[c] # "open" => spc[c] \in {"none", "read", "exited"}
    /\ serverEnd[c] = "open" =>
          \/ toServer[c] = <<>>
          \/ /\ \E r \in Request : toServer[c] = <<[type |-> "request", req |-> r]>>
             /\ spc[c] \in {"read", "exited"} /\ toClient[c] = <<>>
          \/ /\ toServer[c] = <<Response(c)>> /\ skip[c] < Len(Keyring[c])
             /\ spc[c] = "response" /\ toClient[c] = <<>> /\ cpc[c] = "reading"

\* The keys the agent has given up on were rejected; its next one is being
\* verified against the current challenge, or has just been rejected.
KeysInv(c) ==
    /\ skip[c] <= Len(Keyring[c])
    /\ \A i \in 1..skip[c] : Keyring[c][i] \in rejected[c]
    /\ spc[c] \in Verifying =>
          /\ skip[c] < Len(Keyring[c])
          /\ sig[c].key = Keyring[c][skip[c] + 1]
          /\ sig[c].challenge = challenge[c]
    /\ spc[c] = "failure" => NextRejected(c)
    /\ cpc[c] = "noKeys" => skip[c] >= Len(Keyring[c])

\* What flies to an agent that reads: at most one failure, for its last key, and
\* at most one challenge, the current one, on which the handler waits.
PromptInv(c) ==
    cpc[c] = "reading" =>
        /\ clientEnd[c] = "open"
        /\ \/ toClient[c] \in Failures(challenge[c]) \cup Challenges(challenge[c])
           \/ NoPrompt(toClient[c])
        /\ toClient[c] \in Failures(challenge[c]) => NextRejected(c)
        /\ serverEnd[c] = "open" =>
              /\ toClient[c] = <<Failure>> => spc[c] = "challenge"
              /\ toClient[c] \in Challenges(challenge[c]) => spc[c] = "response"
              /\ spc[c] \in {"challenge", "response", "failure"} \cup Verifying =>
                    \/ toClient[c] = <<>>
                    \/ toClient[c] \in Failures(challenge[c]) \cup Challenges(challenge[c])

\* The user of a connection has a key of its agent, and the role of the credentials.
Earned(c, cr) ==
    /\ cr.name = user[c].name
    /\ Range(Keyring[c]) \cap user[c].rec.keys # {}
    /\ EnableLDAPRoles => cr.arn \in {BuildARN(a) : a \in user[c].rec.arns}

\* Credentials are given only when the handler is done with the request, after
\* which it authenticates nobody.
EarnedInv(c) ==
    Received(c) # {} =>
        /\ spc[c] \in {"read", "exited"}
        /\ serverEnd[c] = "open" => toServer[c] = <<>>
        /\ \A cr \in Received(c) : Earned(c, cr)

ProtocolInv(c) == FlightInv(c) /\ KeysInv(c) /\ PromptInv(c) /\ EarnedInv(c)

\* The types of the other variables.
Counters ==
    /\ changes \in 0..MaxDirChanges
    /\ serverUp \in BOOLEAN
    /\ rejected \in [Conns -> SUBSET Keys]
-----------------------------------------------------------------------------
\* A queue of one message.
LEMMA OneMessage ==
    ASSUME NEW a
    PROVE  /\ Head(<<a>>) = a /\ Tail(<<a>>) = <<>> /\ <<a>> # <<>>
           /\ Append(<<>>, a) = <<a>>
<1>1. <<a>> \in Seq({a}) /\ <<>> \in Seq({a})
  OBVIOUS
<1>2. Head(<<a>>) = a /\ <<a>> # <<>>
  OBVIOUS
<1>3. Tail(<<a>>) = <<>> /\ Append(<<>>, a) = <<a>>
  BY <1>1
<1>4. QED
  BY Zenon, <1>2, <1>3

\* A queue of two messages.
LEMMA TwoMessages ==
    ASSUME NEW a, NEW b
    PROVE  /\ Head(<<a, b>>) = a /\ Tail(<<a, b>>) = <<b>> /\ <<a, b>> # <<>>
           /\ Append(<<a>>, b) = <<a, b>>
           /\ \A d : <<a, b>> # <<d>>
<1> DEFINE S == {a, b}
           q == <<a>>
           p == <<a, b>>
<1>1. /\ q \in Seq(S) /\ Len(q) = 1 /\ q[1] = a /\ b \in S
      /\ p \in Seq(S) /\ Len(p) = 2 /\ p[1] = a /\ p[2] = b
  OBVIOUS
<1>2. Head(p) = a /\ p # <<>>
  OBVIOUS
<1>3. Tail(p) = <<b>>
  <2>1. /\ Tail(p) \in Seq(S) /\ Len(Tail(p)) = 1 /\ Tail(p)[1] = b
    BY <1>1
  <2>2. <<b>> \in Seq(S) /\ Len(<<b>>) = 1 /\ <<b>>[1] = b
    OBVIOUS
  <2>3. QED
    BY <2>1, <2>2
<1>4. Append(q, b) = p
  <2>1. ASSUME NEW T, NEW s \in Seq(T), NEW x \in T, NEW t \in Seq(T),
               Len(s) = 1, Len(t) = 2, t[1] = s[1], t[2] = x
        PROVE  Append(s, x) = t
    <3> DEFINE r == Append(s, x)
    <3>1. /\ r \in Seq(T) /\ Len(r) = Len(s) + 1
          /\ \A i \in 1..Len(s) : r[i] = s[i]
          /\ r[Len(s) + 1] = x
      OBVIOUS
    <3> HIDE DEF r
    <3>2. Len(r) = 2 /\ r[1] = t[1] /\ r[2] = t[2]
      <4>1. Len(s) + 1 = 2 /\ 1 \in 1..Len(s)
        BY <2>1
      <4>2. QED
        BY Zenon, <2>1, <3>1, <4>1
    <3>3. Len(r) = Len(t) /\ \A i \in 1..Len(r) : r[i] = t[i]
      <4>1. \A i \in 1..2 : i = 1 \/ i = 2
        OBVIOUS
      <4>2. QED
        BY Zenon, <2>1, <3>2, <4>1
    <3>4. r = t
      BY <2>1, <3>1, <3>3
    <3>5. QED
      BY Zenon, <3>4 DEF r
  <2> HIDE DEF S, q, p
  <2>2. QED
    BY <1>1, <2>1
<1>5. ASSUME NEW d PROVE <<a, b>> # <<d>>
  <2>1. Len(<<a, b>>) = 2 /\ Len(<<d>>) = 1
    OBVIOUS
  <2>2. QED
    BY <2>1
<1>6. QED
  BY Zenon, <1>2, <1>3, <1>4, <1>5

\* The queues that hold a prompt are different ones.
LEMMA PromptQueues ==
    ASSUME NEW n
    PROVE  /\ <<Failure>> \notin Challenges(n)
           /\ <<Challenge(n)>> \notin Failures(n)
           /\ \A q \in Failures(n) \cup Challenges(n) :
                 /\ q # <<>> /\ ~NoPrompt(q)
                 /\ q \in Failures(n) <=> Head(q).type = "verificationFailure"
                 /\ q \notin Failures(n) <=> Head(q).type = "challenge"
                 /\ q \in Failures(n) => Tail(q) = <<>> \/ Tail(q) = <<Challenge(n)>>
                 /\ q \notin Failures(n) =>
                       Head(q) = Challenge(n) /\ Tail(q) = <<>>
<1>1. Failure.type = "verificationFailure" /\ Challenge(n).type = "challenge"
  BY Zenon DEF Failure, Challenge
<1>2. Failure # Challenge(n) /\ "challenge" # "verificationFailure"
  BY Zenon, <1>1
<1>3. ASSUME NEW q \in Failures(n) \cup Challenges(n) PROVE ~NoPrompt(q)
  <2>1. 1 \in 1..Len(q) /\ q[1] \in {Failure, Challenge(n)}
    BY <1>3 DEF Failures, Challenges
  <2>2. QED
    BY Zenon, <1>1, <2>1 DEF NoPrompt
<1> DEFINE f == Failure
           ch == Challenge(n)
<1>4. /\ Head(<<f>>) = f /\ Tail(<<f>>) = <<>> /\ <<f>> # <<>>
      /\ Head(<<ch>>) = ch /\ Tail(<<ch>>) = <<>> /\ <<ch>> # <<>>
  BY Zenon, OneMessage
<1>5. /\ Head(<<f, ch>>) = f /\ Tail(<<f, ch>>) = <<ch>> /\ <<f, ch>> # <<>>
      /\ <<f, ch>> # <<f>> /\ <<f, ch>> # <<ch>>
  BY Zenon, TwoMessages
<1>6. /\ <<f>> \in Failures(n) /\ <<f, ch>> \in Failures(n) /\ <<ch>> \notin Failures(n)
      /\ <<f>> \notin Challenges(n)
  <2>1. <<f>> # <<ch>>
    BY Zenon, <1>2, <1>4
  <2>2. QED
    BY Zenon, <1>5, <2>1 DEF Failures, Challenges
<1>7. ASSUME NEW q \in Failures(n) \cup Challenges(n)
      PROVE  q = <<f>> \/ q = <<f, ch>> \/ q = <<ch>>
  BY Zenon, <1>7 DEF Failures, Challenges
<1> HIDE DEF f, ch
<1>8. ASSUME NEW q \in Failures(n) \cup Challenges(n)
      PROVE  /\ q # <<>> /\ ~NoPrompt(q)
             /\ q \in Failures(n) <=> Head(q).type = "verificationFailure"
             /\ q \notin Failures(n) <=> Head(q).type = "challenge"
             /\ q \in Failures(n) => Tail(q) = <<>> \/ Tail(q) = <<ch>>
             /\ q \notin Failures(n) => Head(q) = ch /\ Tail(q) = <<>>
  <2>0. f.type = "verificationFailure" /\ ch.type = "challenge"
    BY Zenon, <1>1 DEF f, ch
  <2>1. CASE q = <<f>>
    BY Zenon, <1>2, <1>3, <1>4, <1>5, <1>6, <2>0, <2>1
  <2>2. CASE q = <<f, ch>>
    BY Zenon, <1>2, <1>3, <1>4, <1>5, <1>6, <2>0, <2>2
  <2>3. CASE q = <<ch>>
    BY Zenon, <1>2, <1>3, <1>4, <1>5, <1>6, <2>0, <2>3
  <2>4. QED
    BY Zenon, <1>7, <2>1, <2>2, <2>3
<1>9. QED
  BY Zenon, <1>6, <1>8 DEF f, ch

\* What is sent and read where no prompt is.
LEMMA NoPromptQueues ==
    /\ NoPrompt(<<>>)
    /\ \A q \in Seq(ToClient) : NoPrompt(q) /\ q # <<>> =>
          /\ NoPrompt(Tail(q))
          /\ Head(q).type \notin {"challenge", "verificationFailure"}
    /\ \A q \in Seq(ToClient), m \in ToClient :
          NoPrompt(q) /\ m.type \notin {"challenge", "verificationFailure"} =>
              NoPrompt(Append(q, m))
<1>1. NoPrompt(<<>>)
  BY DEF NoPrompt
<1>2. ASSUME NEW q \in Seq(ToClient), NoPrompt(q), q # <<>>
      PROVE  NoPrompt(Tail(q)) /\ Head(q).type \notin {"challenge", "verificationFailure"}
  <2>1. /\ Head(q) = q[1] /\ 1 \in 1..Len(q) /\ Len(Tail(q)) = Len(q) - 1
        /\ \A i \in 1..(Len(q) - 1) : Tail(q)[i] = q[i + 1] /\ i + 1 \in 1..Len(q)
    BY <1>2
  <2>2. QED
    BY Zenon, <1>2, <2>1 DEF NoPrompt
<1>3. ASSUME NEW q \in Seq(ToClient), NEW m \in ToClient, NoPrompt(q),
             m.type \notin {"challenge", "verificationFailure"}
      PROVE  NoPrompt(Append(q, m))
  <2> DEFINE r == Append(q, m)
  <2>1. /\ Len(r) = Len(q) + 1 /\ Len(q) \in Nat
        /\ \A i \in 1..Len(q) : r[i] = q[i]
        /\ r[Len(q) + 1] = m
    OBVIOUS
  <2> HIDE DEF r
  <2>2. \A i \in 1..Len(r) : i \in 1..Len(q) \/ i = Len(q) + 1
    BY <2>1
  <2>3. NoPrompt(r)
    BY Zenon, <1>3, <2>1, <2>2 DEF NoPrompt
  <2>4. QED
    BY Zenon, <2>3 DEF r
<1>4. QED
  BY Zenon, <1>1, <1>2, <1>3
-----------------------------------------------------------------------------
(* Credentials in flight *)

InFlight(q) == {q[i].creds : i \in {j \in DOMAIN q : q[j].type = "credentials"}}

\* What is in flight when a message is sent or read.
LEMMA InFlightQueues ==
    /\ InFlight(<<>>) = {}
    /\ \A q \in Seq(ToClient) : q # <<>> =>
          /\ InFlight(Tail(q)) \subseteq InFlight(q)
          /\ Head(q).type = "credentials" => Head(q).creds \in InFlight(q)
    /\ \A q \in Seq(ToClient), m \in ToClient :
          InFlight(Append(q, m)) \subseteq
              InFlight(q) \cup {x.creds : x \in {y \in {m} : y.type = "credentials"}}
<1>1. InFlight(<<>>) = {}
  BY DEF InFlight
<1>2. ASSUME NEW q \in Seq(ToClient), q # <<>>
      PROVE  /\ InFlight(Tail(q)) \subseteq InFlight(q)
             /\ Head(q).type = "credentials" => Head(q).creds \in InFlight(q)
  <2>1. /\ Head(q) = q[1] /\ 1 \in DOMAIN q
        /\ \A i \in DOMAIN Tail(q) : Tail(q)[i] = q[i + 1] /\ i + 1 \in DOMAIN q
    BY <1>2
  <2>2. QED
    BY ZenonT(60), <2>1 DEF InFlight
<1>3. ASSUME NEW q \in Seq(ToClient), NEW m \in ToClient
      PROVE  InFlight(Append(q, m)) \subseteq
                 InFlight(q) \cup {x.creds : x \in {y \in {m} : y.type = "credentials"}}
  <2> DEFINE r == Append(q, m)
  <2>1. /\ r \in Seq(ToClient) /\ Len(r) = Len(q) + 1
        /\ \A i \in 1..Len(q) : r[i] = q[i]
        /\ r[Len(q) + 1] = m
    OBVIOUS
  <2>2. DOMAIN q = 1..Len(q) /\ Len(q) \in Nat
    OBVIOUS
  <2> HIDE DEF r
  <2>3. DOMAIN r = 1..Len(r)
    BY <2>1
  <2>4. \A i \in DOMAIN r : i \in DOMAIN q \/ i = Len(q) + 1
    BY <2>1, <2>2, <2>3
  <2>5. \A i \in DOMAIN r : r[i] = m \/ (i \in DOMAIN q /\ r[i] = q[i])
    <3>1. ASSUME NEW i \in DOMAIN r PROVE r[i] = m \/ (i \in DOMAIN q /\ r[i] = q[i])
      <4>1. CASE i = Len(q) + 1
        BY Zenon, <2>1, <4>1
      <4>2. CASE i \in DOMAIN q
        BY Zenon, <2>1, <2>2, <4>2
      <4>3. QED
        BY Zenon, <2>4, <4>1, <4>2
    <3>2. QED
      BY Zenon, <3>1
  <2>6. InFlight(r) \subseteq
            InFlight(q) \cup {x.creds : x \in {y \in {m} : y.type = "credentials"}}
    BY Zenon, <2>5 DEF InFlight
  <2>7. QED
    BY Zenon, <2>6 DEF r
<1>4. QED
  BY Zenon, <1>1, <1>2, <1>3

\* Credentials stay received as long as nothing is added to them.
LEMMA ReceivedKept ==
    ASSUME NEW c \in Conns, stored'[c] = stored[c],
           InFlight(toClient'[c]) \subseteq InFlight(toClient[c])
    PROVE  Received(c)' \subseteq Received(c)
  BY Zenon DEF Received, InFlight

\* Credentials stay earned while their user stays.
LEMMA EarnedKept ==
    ASSUME NEW c \in Conns, EarnedInv(c), Received(c)' \subseteq Received(c),
           Received(c) # {} =>
               /\ user'[c] = user[c]
               /\ spc'[c] \in {"read", "exited"}
               /\ serverEnd'[c] = "open" => toServer'[c] = <<>>
    PROVE  EarnedInv(c)'
<1> SUFFICES ASSUME Received(c)' # {}
             PROVE  /\ spc'[c] \in {"read", "exited"}
                    /\ serverEnd'[c] = "open" => toServer'[c] = <<>>
                    /\ \A cr \in Received(c)' : Earned(c, cr)'
  BY Zenon DEF EarnedInv
<1>1. Received(c) # {}
  BY Zenon
<1>2. ASSUME NEW cr \in Received(c)' PROVE Earned(c, cr)'
  <2>1. Earned(c, cr)
    BY Zenon, <1>1 DEF EarnedInv
  <2>2. QED
    BY Zenon, <1>1, <2>1 DEF Earned
<1>3. QED
  BY Zenon, <1>1, <1>2

\* The agent's keys stand as they did while the handler verifies nothing new.
LEMMA KeysKept ==
    ASSUME NEW c \in Conns, KeysInv(c), skip'[c] = skip[c], rejected'[c] = rejected[c],
           spc'[c] \in Verifying =>
               spc[c] \in Verifying /\ sig'[c] = sig[c] /\ challenge'[c] = challenge[c],
           spc'[c] = "failure" => spc[c] = "failure",
           cpc'[c] = "noKeys" => cpc[c] = "noKeys"
    PROVE  KeysInv(c)'
  BY Zenon DEF KeysInv, NextRejected

\* Nothing is asked of the agent, or it does not read.
LEMMA NothingAsked ==
    ASSUME NEW c \in Conns,
           cpc'[c] = "reading" =>
               /\ NoPrompt(toClient'[c]) /\ clientEnd'[c] = "open"
               /\ \/ toClient'[c] = <<>>
                  \/ serverEnd'[c] # "open"
                  \/ spc'[c] \notin {"challenge", "response", "failure"} \cup Verifying
    PROVE  PromptInv(c)'
<1> DEFINE n == challenge'[c]
<1>1. NoPrompt(toClient'[c]) => toClient'[c] \notin Failures(n) \cup Challenges(n)
  BY Zenon, PromptQueues
<1>2. NoPrompt(toClient'[c]) => toClient'[c] # <<Failure>>
  BY Zenon, <1>1 DEF Failures
<1>3. QED
  BY Zenon, <1>1, <1>2 DEF PromptInv
-----------------------------------------------------------------------------
(* The other connections *)

Still(c) ==
    /\ Same(c)
    /\ challenge'[c] = challenge[c] /\ skip'[c] = skip[c] /\ rejected'[c] = rejected[c]

\* The protocol of a connection stands while its state does.
LEMMA StillKeeps ==
    ASSUME NEW c \in Conns, ProtocolInv(c), Still(c)
    PROVE  ProtocolInv(c)'
<1>0. FlightInv(c) /\ KeysInv(c) /\ PromptInv(c) /\ EarnedInv(c)
  BY Zenon DEF ProtocolInv
<1>1. FlightInv(c)'
  BY Zenon, <1>0 DEF FlightInv, Still, Same, Response
<1>2. KeysInv(c)'
  BY Zenon, <1>0, KeysKept DEF Still, Same
<1>3. PromptInv(c)'
  BY Zenon, <1>0 DEF PromptInv, NextRejected, Still, Same
<1>4. EarnedInv(c)'
  BY Zenon, <1>0, ReceivedKept, EarnedKept DEF Still, Same, EarnedInv
<1>5. QED
  BY Zenon, <1>1, <1>2, <1>3, <1>4 DEF ProtocolInv

\* What the handler has asked of the agent tells where it is.
LEMMA AskedWhen ==
    ASSUME NEW c \in Conns, FlightInv(c), PromptInv(c), cpc[c] = "reading",
           spc[c] \notin {"none", "read", "response", "exited"}
    PROVE  /\ clientEnd[c] = "open" /\ serverEnd[c] = "open"
           /\ ~Works(c) => toClient[c] = <<>>
           /\ IF spc[c] = "challenge" THEN toClient[c] \in {<<>>, <<Failure>>}
              ELSE /\ NoPrompt(toClient[c])
                   /\ spc[c] \in {"failure"} \cup Verifying => toClient[c] = <<>>
<1> DEFINE n == challenge[c]
<1>1. serverEnd[c] = "open" /\ clientEnd[c] = "open"
  BY Zenon DEF FlightInv, PromptInv
<1>2. ~Works(c) => toClient[c] = <<>>
  BY Zenon, <1>1 DEF FlightInv, Works
<1>3. /\ toClient[c] \in Failures(n) \cup Challenges(n) \/ NoPrompt(toClient[c])
      /\ toClient[c] \notin Challenges(n)
      /\ toClient[c] = <<Failure>> => spc[c] = "challenge"
      /\ spc[c] \in {"challenge", "response", "failure"} \cup Verifying =>
            toClient[c] = <<>> \/ toClient[c] \in Failures(n) \cup Challenges(n)
  BY Zenon, <1>1 DEF PromptInv
<1>4. toClient[c] \in Failures(n) => toClient[c] = <<Failure>>
  BY Zenon, <1>3 DEF Failures, Challenges
<1>5. QED
  BY Zenon, <1>1, <1>2, <1>3, <1>4

\* While the handler is at work nothing flies to it, and nothing is given.
LEMMA AtWork ==
    ASSUME NEW c \in Conns, FlightInv(c), EarnedInv(c),
           spc[c] \notin {"none", "read", "response", "exited"}
    PROVE  toServer[c] = <<>> /\ Received(c) = {} /\ serverEnd[c] = "open"
  BY Zenon DEF FlightInv, EarnedInv

\* Reading the request empties the queue to the server.
LEMMA TakesRequest ==
    ASSUME Shape, NEW c \in Conns, FlightInv(c), EarnedInv(c), spc[c] = "read",
           ServerReads(c, "request")
    PROVE  /\ net[c] = "up" /\ serverEnd[c] = "open"
           /\ toServer'[c] = <<>> /\ toClient[c] = <<>> /\ Received(c) = {}
<1>1. /\ net[c] = "up" /\ serverEnd[c] = "open" /\ toServer[c] # <<>>
      /\ toServer'[c] = Tail(toServer[c])
  BY Zenon DEF ServerReads, Shape
<1>2. PICK m : toServer[c] = <<m>> /\ toClient[c] = <<>>
  BY Zenon, <1>1 DEF FlightInv
<1>3. QED
  BY Zenon, <1>1, <1>2, OneMessage DEF EarnedInv

\* The response the handler reads is to its last challenge, with the agent's
\* next key.
LEMMA TakesResponse ==
    ASSUME Shape, NEW c \in Conns, FlightInv(c), spc[c] = "response",
           ServerReads(c, "response")
    PROVE  /\ net[c] = "up" /\ serverEnd[c] = "open"
           /\ toServer'[c] = <<>> /\ toClient[c] = <<>>
           /\ Head(toServer[c]) = Response(c) /\ skip[c] < Len(Keyring[c])
<1>1. /\ net[c] = "up" /\ serverEnd[c] = "open" /\ toServer[c] # <<>>
      /\ toServer'[c] = Tail(toServer[c])
  BY Zenon DEF ServerReads, Shape
<1>2. toServer[c] = <<Response(c)>> /\ toClient[c] = <<>> /\ skip[c] < Len(Keyring[c])
  BY Zenon, <1>1 DEF FlightInv
<1> DEFINE m == Response(c)
<1> HIDE DEF m
<1>3. Head(<<m>>) = m /\ Tail(<<m>>) = <<>>
  BY Zenon, OneMessage
<1>4. QED
  BY Zenon, <1>1, <1>2, <1>3 DEF m
-----------------------------------------------------------------------------
(* The protocol under the steps of the server *)

\* Reading the request, and the end of the handler.
LEMMA RequestProtocol ==
    ASSUME Shape, NEW c \in Conns, ProtocolInv(c),
           HandlePing(c) \/ HandleServerRequest(c) \/ HandlerExits(c)
    PROVE  ProtocolInv(c)'
<1>0. FlightInv(c) /\ KeysInv(c) /\ PromptInv(c) /\ EarnedInv(c)
  BY Zenon DEF ProtocolInv
<1>1. /\ UNCHANGED <<net, serverEnd, clientEnd, challenge, sig, user, rejected, cpc, skip,
                     stored>>
      /\ spc[c] = "read" /\ spc'[c] \in {"read", "challenge", "exited"}
  BY Zenon DEF HandlePing, HandleServerRequest, HandlerExits, netVars, serverVars, clientVars,
         Shape
<1>2. KeysInv(c)'
  BY Zenon, <1>0, <1>1, KeysKept DEF Verifying
<1>3. cpc[c] = "reading" => clientEnd[c] = "open"
  BY Zenon, <1>0 DEF PromptInv
<1>4. CASE HandlerExits(c)
  <2>1. UNCHANGED <<toServer, toClient>> /\ spc'[c] = "exited"
    BY Zenon, <1>4 DEF HandlerExits, netVars, Shape
  <2>2. FlightInv(c)'
    BY Zenon, <1>0, <1>1, <2>1 DEF FlightInv
  <2>3. PromptInv(c)'
    BY Zenon, <1>0, <1>1, <2>1 DEF PromptInv, NextRejected, Verifying
  <2>4. EarnedInv(c)'
    BY Zenon, <1>0, <1>1, <2>1, ReceivedKept, EarnedKept DEF EarnedInv
  <2>5. QED
    BY Zenon, <1>2, <2>2, <2>3, <2>4 DEF ProtocolInv
<1>5. CASE HandlePing(c) \/ HandleServerRequest(c)
  <2>1. /\ net[c] = "up" /\ serverEnd[c] = "open"
        /\ toServer'[c] = <<>> /\ toClient[c] = <<>> /\ Received(c) = {}
    BY Zenon, <1>0, <1>1, <1>5, TakesRequest DEF HandlePing, HandleServerRequest
  <2>2. /\ NoPrompt(toClient'[c]) /\ InFlight(toClient'[c]) = {}
        /\ toClient'[c] = <<>> \/ spc'[c] = "read"
    <3>1. CASE HandlePing(c)
      <4> DEFINE m == [type |-> "pong"]
      <4>1. m \in ToClient /\ m.type = "pong"
        BY Zenon, PlainMessages
      <4>2. toClient' = Send(toClient, c, m) /\ spc' = spc
        BY Zenon, <3>1 DEF HandlePing, serverVars
      <4> HIDE DEF m
      <4>3. toClient'[c] = Append(<<>>, m) \/ toClient'[c] = <<>>
        BY Zenon, <2>1, <4>1, <4>2, SendToClient
      <4>4. <<>> \in Seq(ToClient) /\ {x.creds : x \in {y \in {m} : y.type = "credentials"}} = {}
        BY <4>1
      <4>5. NoPrompt(Append(<<>>, m)) /\ InFlight(Append(<<>>, m)) = {}
        BY Zenon, <4>1, <4>4, NoPromptQueues, InFlightQueues
      <4>6. QED
        BY Zenon, <1>1, <4>2, <4>3, <4>5, NoPromptQueues, InFlightQueues
    <3>2. CASE HandleServerRequest(c)
      <4>1. toClient'[c] = <<>>
        BY Zenon, <2>1, <3>2 DEF HandleServerRequest
      <4>2. QED
        BY Zenon, <4>1, NoPromptQueues, InFlightQueues
    <3>3. QED
      BY Zenon, <1>5, <3>1, <3>2
  <2>3. FlightInv(c)'
    BY Zenon, <1>1, <2>1 DEF FlightInv
  <2>4. PromptInv(c)'
    BY Zenon, <1>1, <1>3, <2>2, NothingAsked DEF Verifying
  <2>5. EarnedInv(c)'
    BY Zenon, <1>0, <1>1, <2>1, <2>2, ReceivedKept, EarnedKept
  <2>6. QED
    BY Zenon, <1>2, <2>3, <2>4, <2>5 DEF ProtocolInv
<1>6. QED
  BY Zenon, <1>4, <1>5

\* A write of SSHChallenge reaches the agent behind what it may still have to
\* read, or ends the connection.
LEMMA WriteProtocol ==
    ASSUME Shape, NEW c \in Conns, ProtocolInv(c), NEW m \in ToClient,
           NEW next \in {"challenge", "response"}, WriteInChallenge(c, m, next),
           m.type # "credentials",
           spc[c] \in {"challenge", "failure"},
           UNCHANGED <<net, toServer, clientEnd, sig, user, rejected, cpc, skip, stored>>,
           ASSUME cpc[c] = "reading", Works(c), toClient'[c] = Append(toClient[c], m),
                  serverEnd'[c] = "open", spc'[c] = next
           PROVE  PromptInv(c)'
    PROVE  ProtocolInv(c)'
<1>0. FlightInv(c) /\ KeysInv(c) /\ PromptInv(c) /\ EarnedInv(c)
  BY Zenon DEF ProtocolInv
<1>1. toServer[c] = <<>> /\ Received(c) = {} /\ serverEnd[c] = "open"
  BY Zenon, <1>0, AtWork
<1>2. /\ spc'[c] \in {"read", "challenge", "response"}
      /\ \/ serverEnd'[c] = "open" /\ spc'[c] = next
            /\ toClient'[c] = IF Works(c) THEN Append(toClient[c], m) ELSE toClient[c]
         \/ serverEnd'[c] = "closed" /\ spc'[c] = "read" /\ ~Works(c)
            /\ toClient'[c] = toClient[c]
  <2>1. CASE toClient' = Send(toClient, c, m) /\ spc' = [spc EXCEPT ![c] = next]
             /\ UNCHANGED serverEnd
    BY Zenon, <1>1, <2>1, SendToClient DEF Shape
  <2>2. CASE ~Works(c) /\ serverEnd' = [serverEnd EXCEPT ![c] = "closed"]
             /\ spc' = [spc EXCEPT ![c] = "read"] /\ UNCHANGED toClient
    BY Zenon, <2>2 DEF Shape
  <2>3. QED
    BY Zenon, <2>1, <2>2 DEF WriteInChallenge
<1>3. FlightInv(c)'
  BY Zenon, <1>0, <1>1, <1>2 DEF FlightInv, Works
<1>4. KeysInv(c)'
  BY Zenon, <1>0, <1>2, KeysKept DEF Verifying
<1>5. PromptInv(c)'
  <2>1. CASE cpc[c] = "reading" /\ Works(c)
    BY Zenon, <1>2, <2>1
  <2>2. CASE cpc[c] = "reading" /\ ~Works(c)
    <3>1. toClient'[c] = <<>> /\ clientEnd[c] = "open"
      BY Zenon, <1>0, <1>2, <2>2, AskedWhen
    <3>2. QED
      BY Zenon, <3>1, NothingAsked, NoPromptQueues
  <2>3. CASE cpc[c] # "reading"
    BY Zenon, <2>3, NothingAsked
  <2>4. QED
    BY Zenon, <2>1, <2>2, <2>3
<1>6. EarnedInv(c)'
  <2>1. InFlight(toClient'[c]) \subseteq InFlight(toClient[c])
    <3>1. toClient[c] \in Seq(ToClient)
      BY Zenon DEF Shape
    <3>2. {x.creds : x \in {y \in {m} : y.type = "credentials"}} = {}
      BY Zenon
    <3>3. QED
      BY Zenon, <1>2, <3>1, <3>2, InFlightQueues
  <2>2. QED
    BY Zenon, <1>0, <1>1, <2>1, ReceivedKept, EarnedKept
<1>7. QED
  BY Zenon, <1>3, <1>4, <1>5, <1>6 DEF ProtocolInv

\* A new challenge, alone or behind the failure of the key before.
LEMMA ChallengeProtocol ==
    ASSUME Shape, NEW c \in Conns, ProtocolInv(c), SendChallenge(c)
    PROVE  ProtocolInv(c)'
<1>0. FlightInv(c) /\ KeysInv(c) /\ PromptInv(c) /\ EarnedInv(c)
  BY Zenon DEF ProtocolInv
<1> DEFINE n == challenge[c] + 1
           m == Challenge(n)
<1>1. n \in Nat /\ challenge' = [challenge EXCEPT ![c] = n]
  BY DEF SendChallenge, Shape
<1>2. challenge'[c] = n
  BY Zenon, <1>1 DEF Shape
<1>3. /\ WriteInChallenge(c, m, "response") /\ spc[c] = "challenge"
      /\ UNCHANGED <<net, toServer, clientEnd, sig, user, rejected, cpc, skip, stored>>
  BY Zenon DEF SendChallenge, Challenge, clientVars
<1>4. m \in ToClient /\ m.type = "challenge"
  BY Zenon, <1>1, PlainMessages DEF Challenge
<1> HIDE DEF n
<1>5. ASSUME cpc[c] = "reading", Works(c), toClient'[c] = Append(toClient[c], m),
             serverEnd'[c] = "open", spc'[c] = "response"
      PROVE  PromptInv(c)'
  <2>1. clientEnd[c] = "open" /\ toClient[c] \in {<<>>, <<Failure>>}
    BY Zenon, <1>0, <1>3, <1>5, AskedWhen
  <2>2. toClient[c] = <<Failure>> => NextRejected(c)
    BY Zenon, <1>0, <1>5 DEF PromptInv, Failures
  <2>3. \/ toClient'[c] = <<m>>
        \/ toClient'[c] = <<Failure, m>> /\ NextRejected(c)
    <3> HIDE DEF m
    <3>1. Append(<<>>, m) = <<m>> /\ Append(<<Failure>>, m) = <<Failure, m>>
      BY Zenon, OneMessage, TwoMessages
    <3>2. QED
      BY Zenon, <1>5, <2>1, <2>2, <3>1
  <2>4. toClient'[c] \in Challenges(n) /\ (toClient'[c] \in Failures(n) => NextRejected(c))
    BY Zenon, <2>3, PromptQueues DEF Challenges
  <2>5. NextRejected(c) => NextRejected(c)'
    BY Zenon, <1>3 DEF NextRejected
  <2>6. toClient'[c] # <<Failure>>
    BY Zenon, <2>4, PromptQueues
  <2>7. QED
    BY Zenon, <1>2, <1>3, <1>5, <2>1, <2>4, <2>5, <2>6 DEF PromptInv
<1> HIDE DEF m
<1>6. QED
  BY Zenon, <1>3, <1>4, <1>5, WriteProtocol

\* A failure is sent for the key that has just been rejected.
LEMMA FailureProtocol ==
    ASSUME Shape, NEW c \in Conns, ProtocolInv(c), SendFailure(c)
    PROVE  ProtocolInv(c)'
<1>0. FlightInv(c) /\ KeysInv(c) /\ PromptInv(c) /\ EarnedInv(c)
  BY Zenon DEF ProtocolInv
<1>1. /\ WriteInChallenge(c, Failure, "challenge") /\ spc[c] = "failure"
      /\ UNCHANGED <<net, toServer, clientEnd, challenge, sig, user, rejected, cpc, skip, stored>>
  BY Zenon DEF SendFailure, Failure, clientVars
<1>2. Failure \in ToClient /\ Failure.type = "verificationFailure"
  BY Zenon, PlainMessages DEF Failure
<1>3. ASSUME cpc[c] = "reading", Works(c), toClient'[c] = Append(toClient[c], Failure),
             serverEnd'[c] = "open", spc'[c] = "challenge"
      PROVE  PromptInv(c)'
  <2> DEFINE n == challenge'[c]
  <2>1. clientEnd[c] = "open" /\ toClient[c] = <<>>
    BY Zenon, <1>0, <1>1, <1>3, AskedWhen
  <2>2. toClient'[c] = <<Failure>>
    BY Zenon, <1>3, <2>1, OneMessage
  <2>3. toClient'[c] \in Failures(n) /\ toClient'[c] \notin Challenges(n)
    BY Zenon, <2>2, PromptQueues DEF Failures
  <2>4. NextRejected(c)'
    BY Zenon, <1>0, <1>1 DEF KeysInv, NextRejected
  <2>5. QED
    BY Zenon, <1>1, <1>3, <2>1, <2>3, <2>4 DEF PromptInv
<1>4. QED
  BY Zenon, <1>1, <1>2, <1>3, WriteProtocol

\* The response that is read answers the last challenge; a failed read closes
\* the connection.
LEMMA ResponseProtocol ==
    ASSUME Shape, NEW c \in Conns, ProtocolInv(c), ReadResponse(c) \/ ReadResponseFails(c)
    PROVE  ProtocolInv(c)'
<1>0. FlightInv(c) /\ KeysInv(c) /\ PromptInv(c) /\ EarnedInv(c)
  BY Zenon DEF ProtocolInv
<1>1. /\ UNCHANGED <<net, toClient, clientEnd, challenge, user, rejected, cpc, skip, stored>>
      /\ spc[c] = "response"
  BY Zenon DEF ReadResponse, ReadResponseFails, clientVars
<1>2. Received(c) = {}
  BY Zenon, <1>0, <1>1 DEF EarnedInv
<1>3. EarnedInv(c)'
  BY Zenon, <1>0, <1>1, <1>2, ReceivedKept, EarnedKept
<1>4. CASE ReadResponse(c)
  <2> DEFINE m == Head(toServer[c])
  <2>1. /\ net[c] = "up" /\ serverEnd[c] = "open"
        /\ toServer'[c] = <<>> /\ toClient[c] = <<>>
        /\ m = Response(c) /\ skip[c] < Len(Keyring[c])
    BY Zenon, <1>0, <1>1, <1>4, TakesResponse DEF ReadResponse
  <2>2. /\ sig'[c] = [key |-> m.key, challenge |-> m.challenge]
        /\ spc'[c] = "verify" /\ serverEnd' = serverEnd
    BY Zenon, <1>4 DEF ReadResponse, Shape
  <2> HIDE DEF m
  <2>3. sig'[c].key = Keyring[c][skip[c] + 1] /\ sig'[c].challenge = challenge[c]
    <3>1. m.key = Keyring[c][skip[c] + 1] /\ m.challenge = challenge[c]
      BY Zenon, <2>1 DEF Response
    <3>2. sig'[c].key = m.key /\ sig'[c].challenge = m.challenge
      BY <2>2
    <3>3. QED
      BY Zenon, <3>1, <3>2
  <2>4. FlightInv(c)'
    BY Zenon, <1>1, <2>1, <2>2 DEF FlightInv
  <2>5. KeysInv(c)'
    BY Zenon, <1>0, <1>1, <2>1, <2>2, <2>3 DEF KeysInv
  <2>6. PromptInv(c)'
    <3>1. cpc[c] = "reading" => clientEnd[c] = "open"
      BY Zenon, <1>0 DEF PromptInv
    <3>2. QED
      BY Zenon, <1>1, <2>1, <3>1, NothingAsked, NoPromptQueues
  <2>7. QED
    BY Zenon, <1>3, <2>4, <2>5, <2>6 DEF ProtocolInv
<1>5. CASE ReadResponseFails(c)
  <2>1. UNCHANGED <<toServer, sig>> /\ serverEnd'[c] = "closed" /\ spc'[c] = "read"
    BY Zenon, <1>5 DEF ReadResponseFails, Shape
  <2>2. FlightInv(c)'
    BY Zenon, <1>0, <1>1, <2>1 DEF FlightInv
  <2>3. KeysInv(c)'
    BY Zenon, <1>0, <1>1, <2>1, KeysKept DEF Verifying
  <2>4. PromptInv(c)'
    BY Zenon, <1>0, <1>1, <2>1 DEF PromptInv, NextRejected
  <2>5. QED
    BY Zenon, <1>3, <2>2, <2>3, <2>4 DEF ProtocolInv
<1>6. QED
  BY Zenon, <1>4, <1>5

\* The key of the response is accepted, or rejected after a second look.
LEMMA VerifyProtocol ==
    ASSUME Shape, Counters, NEW c \in Conns, ProtocolInv(c), Authenticate(c)
    PROVE  ProtocolInv(c)'
<1>0. FlightInv(c) /\ KeysInv(c) /\ PromptInv(c) /\ EarnedInv(c)
  BY Zenon DEF ProtocolInv
<1>1. /\ UNCHANGED <<net, toServer, toClient, serverEnd, clientEnd, challenge, sig, cpc, skip,
                     stored>>
      /\ spc[c] \in Verifying
  BY Zenon DEF Authenticate, netVars, clientVars, Verifying
<1>2. toServer[c] = <<>> /\ Received(c) = {} /\ serverEnd[c] = "open"
  BY Zenon, <1>0, <1>1, AtWork DEF Verifying
<1>3. FlightInv(c)'
  BY Zenon, <1>0, <1>1, <1>2 DEF FlightInv
<1>4. KeysInv(c)'
  <2>1. CASE rejected' = rejected /\ spc'[c] # "failure"
    BY Zenon, <1>0, <1>1, <2>1 DEF KeysInv
  <2>2. CASE rejected' = [rejected EXCEPT ![c] = @ \cup {sig[c].key}] /\ spc'[c] = "failure"
    <3>1. rejected'[c] = rejected[c] \cup {sig[c].key}
      BY Zenon, <2>2 DEF Counters
    <3>2. sig[c].key = Keyring[c][skip[c] + 1] /\ skip[c] < Len(Keyring[c])
      BY Zenon, <1>0, <1>1 DEF KeysInv
    <3>3. NextRejected(c)'
      BY Zenon, <1>1, <3>1, <3>2 DEF NextRejected
    <3>4. QED
      BY Zenon, <1>0, <1>1, <2>2, <3>1, <3>3 DEF KeysInv, Verifying
  <2>3. QED
    BY ZenonT(60), <2>1, <2>2 DEF Authenticate, Shape
<1>5. PromptInv(c)'
  <2>1. cpc[c] = "reading" => clientEnd[c] = "open" /\ toClient[c] = <<>>
    BY Zenon, <1>0, <1>1, AskedWhen DEF Verifying
  <2>2. QED
    BY Zenon, <1>1, <2>1, NothingAsked, NoPromptQueues
<1>6. EarnedInv(c)'
  BY Zenon, <1>0, <1>1, <1>2, ReceivedKept, EarnedKept
<1>7. QED
  BY Zenon, <1>3, <1>4, <1>5, <1>6 DEF ProtocolInv

\* A role the handler may assume is one of the user it has authenticated.
LEMMA GrantIsEarned ==
    ASSUME NEW c \in Conns, HandlerInv(c), spc[c] \in {"assume", "fallback"},
           NEW role, MayAssume(c, role)
    PROVE  Earned(c, CredentialsMsg(c, role).creds)
<1>1. Range(Keyring[c]) \cap user[c].rec.keys # {}
  BY Zenon DEF HandlerInv, Known
<1>2. /\ CredentialsMsg(c, role).creds.name = user[c].name
      /\ CredentialsMsg(c, role).creds.arn = BuildARN(role)
  BY Zenon DEF CredentialsMsg
<1>3. EnableLDAPRoles => BuildARN(role) \in {BuildARN(a) : a \in user[c].rec.arns}
  BY Zenon DEF MayAssume
<1>4. QED
  BY Zenon, <1>1, <1>2, <1>3 DEF Earned

\* Once the user is known: an answer is sent last, and credentials are earned.
LEMMA AssumeProtocol ==
    ASSUME Shape, NEW c \in Conns, HandlerInv(c), ProtocolInv(c),
           AssumeRole(c) \/ RetryFails(c) \/ RetrySucceedsForMe(c) \/ Fallback(c)
    PROVE  ProtocolInv(c)'
<1>0. FlightInv(c) /\ KeysInv(c) /\ PromptInv(c) /\ EarnedInv(c)
  BY Zenon DEF ProtocolInv
<1>1. /\ UNCHANGED <<net, toServer, clientEnd, challenge, sig, user, rejected, cpc, skip,
                     stored>>
      /\ spc[c] \in {"assume", "retry", "fallback"}
  BY Zenon DEF AssumeRole, RetryFails, RetrySucceedsForMe, Fallback, clientVars
<1>2. toServer[c] = <<>> /\ Received(c) = {} /\ serverEnd[c] = "open"
  BY Zenon, <1>0, <1>1, AtWork
<1>3. /\ spc'[c] \in {"read", "update", "fallback"}
      /\ serverEnd'[c] = "open" \/ spc'[c] = "read"
  <2>1. CASE AssumeRole(c) \/ Fallback(c)
    BY Zenon, <1>2, <2>1 DEF AssumeRole, Fallback, Shape
  <2>2. CASE RetryFails(c) \/ RetrySucceedsForMe(c)
    BY Zenon, <1>2, <2>2 DEF RetryFails, RetrySucceedsForMe, Shape
  <2>3. QED
    BY Zenon, <2>1, <2>2
<1>4. \/ toClient' = toClient
      \/ \E m \in ToClient :
            /\ toClient' = Send(toClient, c, m)
            /\ m.type \in {"credentials", "error"}
            /\ m.type = "credentials" => spc'[c] = "read" /\ Earned(c, m.creds)
  <2>1. CASE AssumeRole(c)
    BY Zenon, <2>1, GrantIsGood, GrantIsEarned DEF AssumeRole, Shape
  <2>2. CASE RetrySucceedsForMe(c)
    BY Zenon, <2>2 DEF RetrySucceedsForMe
  <2>3. CASE RetryFails(c)
    BY Zenon, <2>3, PlainMessages DEF RetryFails
  <2>4. CASE Fallback(c)
    BY Zenon, <2>4, GrantIsGood, GrantIsEarned DEF Fallback, Shape
  <2>5. QED
    BY Zenon, <2>1, <2>2, <2>3, <2>4
<1>5. FlightInv(c)'
  <2>1. net[c] # "up" => toClient'[c] = toClient[c]
    BY Zenon, <1>4, SendToClient DEF Works
  <2>2. QED
    BY Zenon, <1>0, <1>1, <1>2, <1>3, <2>1 DEF FlightInv
<1>6. KeysInv(c)'
  BY Zenon, <1>0, <1>1, <1>3, KeysKept DEF Verifying
<1>7. PromptInv(c)'
  <2>1. cpc[c] = "reading" => clientEnd[c] = "open" /\ NoPrompt(toClient[c])
    BY Zenon, <1>0, <1>1, AskedWhen
  <2>2. cpc[c] = "reading" => NoPrompt(toClient'[c])
    <3>1. toClient[c] \in Seq(ToClient)
      BY Zenon DEF Shape
    <3>2. ASSUME NEW m \in ToClient, m.type \in {"credentials", "error"}, NoPrompt(toClient[c])
          PROVE  NoPrompt(Append(toClient[c], m))
      BY Zenon, <3>1, <3>2, NoPromptQueues
    <3>3. QED
      BY Zenon, <1>4, <2>1, <3>2, SendToClient
  <2>3. QED
    BY Zenon, <1>1, <1>3, <2>1, <2>2, NothingAsked DEF Verifying
<1>8. EarnedInv(c)'
  <2>1. CASE toClient' = toClient
    BY Zenon, <1>0, <1>1, <1>2, <2>1, ReceivedKept, EarnedKept
  <2>2. ASSUME NEW m \in ToClient, toClient' = Send(toClient, c, m),
               m.type = "credentials" => spc'[c] = "read" /\ Earned(c, m.creds)
        PROVE  EarnedInv(c)'
    <3>1. toClient[c] \in Seq(ToClient)
      BY Zenon DEF Shape
    <3>2. InFlight(toClient'[c]) \subseteq
              InFlight(toClient[c]) \cup {x.creds : x \in {y \in {m} : y.type = "credentials"}}
      BY Zenon, <2>2, <3>1, SendToClient, InFlightQueues
    <3>3. \A cr \in Received(c)' : m.type = "credentials" /\ cr = m.creds
      BY Zenon, <1>1, <1>2, <3>2 DEF Received, InFlight
    <3>4. m.type = "credentials" => Earned(c, m.creds)'
      BY Zenon, <1>1, <2>2 DEF Earned
    <3>5. QED
      BY Zenon, <1>1, <1>2, <2>2, <3>3, <3>4 DEF EarnedInv
  <2>3. QED
    BY Zenon, <1>4, <2>1, <2>2
<1>9. QED
  BY Zenon, <1>5, <1>6, <1>7, <1>8 DEF ProtocolInv

\* An Update says nothing to the agent.
LEMMA UpdateProtocol ==
    ASSUME Shape, NEW c \in Conns, ProtocolInv(c), Update(c)
    PROVE  ProtocolInv(c)'
<1>0. FlightInv(c) /\ KeysInv(c) /\ PromptInv(c) /\ EarnedInv(c)
  BY Zenon DEF ProtocolInv
<1>1. toServer[c] = <<>> /\ Received(c) = {} /\ serverEnd[c] = "open"
  BY Zenon, <1>0, UpdateMoves, AtWork
<1>2. FlightInv(c)'
  BY Zenon, <1>0, <1>1, UpdateMoves DEF FlightInv
<1>3. KeysInv(c)'
  BY Zenon, <1>0, UpdateMoves, KeysKept DEF Verifying
<1>4. PromptInv(c)'
  <2>1. cpc[c] = "reading" => /\ clientEnd[c] = "open" /\ NoPrompt(toClient[c])
                              /\ spc[c] \in Verifying => toClient[c] = <<>>
    BY Zenon, <1>0, UpdateMoves, AskedWhen
  <2>2. QED
    BY Zenon, <2>1, UpdateMoves, NothingAsked DEF Verifying
<1>5. EarnedInv(c)'
  BY Zenon, <1>0, <1>1, UpdateMoves, ReceivedKept, EarnedKept
<1>6. QED
  BY Zenon, <1>2, <1>3, <1>4, <1>5 DEF ProtocolInv

\* The server dies: what is in flight stays so, and no handler acts again.
LEMMA DeathProtocol ==
    ASSUME Shape, Dies, NEW d \in Conns, ProtocolInv(d)
    PROVE  ProtocolInv(d)'
<1>0. FlightInv(d) /\ KeysInv(d) /\ PromptInv(d) /\ EarnedInv(d)
  BY Zenon DEF ProtocolInv
<1>1. /\ UNCHANGED <<net, toServer, toClient, clientEnd, challenge, sig, user, rejected, cpc,
                     skip, stored>>
      /\ spc'[d] = IF spc[d] = "none" THEN "none" ELSE "exited"
      /\ serverEnd'[d] # "open"
  BY Zenon DEF Dies, clientVars
<1>2. FlightInv(d)'
  BY Zenon, <1>0, <1>1 DEF FlightInv
<1>3. KeysInv(d)'
  BY Zenon, <1>0, <1>1, KeysKept DEF Verifying
<1>4. PromptInv(d)'
  BY Zenon, <1>0, <1>1 DEF PromptInv, NextRejected
<1>5. EarnedInv(d)'
  BY Zenon, <1>0, <1>1, ReceivedKept, EarnedKept DEF EarnedInv
<1>6. QED
  BY Zenon, <1>2, <1>3, <1>4, <1>5 DEF ProtocolInv
-----------------------------------------------------------------------------
(* The protocol under the steps of the environment and of the agent *)

\* A connection that breaks loses what is in flight; the collector only meets
\* connections on which nobody reads.
LEMMA NetworkProtocol ==
    ASSUME Shape, NEW c \in Conns, ProtocolInv(c), Break(c) \/ Finalize(c)
    PROVE  ProtocolInv(c)'
<1>0. FlightInv(c) /\ KeysInv(c) /\ PromptInv(c) /\ EarnedInv(c)
  BY Zenon DEF ProtocolInv
<1>1. UNCHANGED <<serverEnd, spc, challenge, sig, user, rejected, cpc, skip, stored>>
  BY Zenon DEF Break, Finalize, serverVars, clientVars
<1>2. KeysInv(c)'
  BY Zenon, <1>0, <1>1, KeysKept
<1>3. CASE Break(c)
  <2>1. toServer'[c] = <<>> /\ toClient'[c] = <<>> /\ clientEnd' = clientEnd
    BY Zenon, <1>3 DEF Break, Shape
  <2>2. FlightInv(c)'
    BY Zenon, <1>0, <1>1, <2>1 DEF FlightInv
  <2>3. PromptInv(c)'
    <3>1. cpc[c] = "reading" => clientEnd[c] = "open"
      BY Zenon, <1>0 DEF PromptInv
    <3>2. QED
      BY Zenon, <1>1, <2>1, <3>1, NothingAsked, NoPromptQueues
  <2>4. EarnedInv(c)'
    <3>1. InFlight(toClient'[c]) \subseteq InFlight(toClient[c])
      BY Zenon, <2>1, InFlightQueues
    <3>2. QED
      BY Zenon, <1>0, <1>1, <2>1, <3>1, ReceivedKept, EarnedKept DEF EarnedInv
  <2>5. QED
    BY Zenon, <1>2, <2>2, <2>3, <2>4 DEF ProtocolInv
<1>4. CASE Finalize(c)
  <2>1. UNCHANGED <<net, toServer, toClient>> /\ cpc[c] # "reading"
    BY Zenon, <1>0, <1>4 DEF Finalize, PromptInv
  <2>2. FlightInv(c)'
    BY Zenon, <1>0, <1>1, <2>1 DEF FlightInv
  <2>3. PromptInv(c)'
    BY Zenon, <1>1, <2>1 DEF PromptInv
  <2>4. EarnedInv(c)'
    BY Zenon, <1>0, <1>1, <2>1, ReceivedKept, EarnedKept DEF EarnedInv
  <2>5. QED
    BY Zenon, <1>2, <2>2, <2>3, <2>4 DEF ProtocolInv
<1>5. QED
  BY Zenon, <1>3, <1>4

\* A connection begins with the request in flight.
LEMMA DialProtocol ==
    ASSUME Shape, NEW c \in Conns, AgentInv(c), ProtocolInv(c), NEW r \in Request, Dial(c, r)
    PROVE  ProtocolInv(c)'
<1>0. FlightInv(c) /\ KeysInv(c) /\ PromptInv(c) /\ EarnedInv(c)
  BY Zenon DEF ProtocolInv
<1>1. UNCHANGED <<toClient, challenge, sig, user, rejected, skip, stored>> /\ cpc[c] = "idle"
  BY Zenon DEF Dial
<1>2. toServer[c] = <<>> /\ toClient[c] = <<>> /\ spc[c] = "none" /\ stored[c] = None
  BY Zenon, <1>1 DEF AgentInv
<1>3. Received(c) = {}
  BY Zenon, <1>0, <1>2 DEF EarnedInv
<1>4. \/ /\ net'[c] = "up" /\ serverEnd'[c] = "open" /\ clientEnd'[c] = "open"
         /\ toServer'[c] = <<[type |-> "request", req |-> r]>>
         /\ spc'[c] = "read" /\ cpc'[c] = "reading"
      \/ cpc'[c] = "error" /\ UNCHANGED <<net, serverEnd, clientEnd, toServer, spc>>
  BY ZenonT(60) DEF Dial, Shape
<1>5. FlightInv(c)'
  BY Zenon, <1>0, <1>1, <1>2, <1>4 DEF FlightInv
<1>6. KeysInv(c)'
  BY Zenon, <1>0, <1>1, <1>2, <1>4, KeysKept DEF Verifying
<1>7. PromptInv(c)'
  BY Zenon, <1>1, <1>2, <1>4, NothingAsked, NoPromptQueues
<1>8. EarnedInv(c)'
  BY Zenon, <1>0, <1>1, <1>3, ReceivedKept, EarnedKept
<1>9. QED
  BY Zenon, <1>5, <1>6, <1>7, <1>8 DEF ProtocolInv

\* A prompt the agent reads is the first of those that can be in flight.
LEMMA ReadsPrompt ==
    ASSUME Shape, NEW c \in Conns, PromptInv(c), NEW type \in {"challenge", "verificationFailure"},
           ClientReads(c, {type})
    PROVE  /\ toClient[c] \in Failures(challenge[c]) \cup Challenges(challenge[c])
           /\ Head(toClient[c]).type = type
           /\ toClient'[c] = Tail(toClient[c])
           /\ toClient[c] # <<>> /\ cpc[c] = "reading" /\ net[c] = "up" /\ clientEnd[c] = "open"
           /\ InFlight(toClient'[c]) \subseteq InFlight(toClient[c])
<1>1. /\ toClient[c] \in Seq(ToClient) /\ toClient[c] # <<>> /\ Head(toClient[c]).type = type
      /\ toClient'[c] = Tail(toClient[c]) /\ cpc[c] = "reading" /\ net[c] = "up"
  BY Zenon DEF ClientReads, Shape
<1>2. ~NoPrompt(toClient[c])
  BY Zenon, <1>1, NoPromptQueues
<1>3. QED
  BY Zenon, <1>1, <1>2, InFlightQueues DEF PromptInv

\* The response to the only challenge in flight goes to a handler that waits for it.
LEMMA AnswerProtocol ==
    ASSUME Shape, NEW c \in Conns, AgentInv(c), ProtocolInv(c), AnswerChallenge(c)
    PROVE  ProtocolInv(c)'
<1>0. FlightInv(c) /\ KeysInv(c) /\ PromptInv(c) /\ EarnedInv(c)
  BY Zenon DEF ProtocolInv
<1> DEFINE n == challenge[c]
           q == toClient[c]
<1>1. /\ UNCHANGED <<net, serverEnd, clientEnd, spc, challenge, sig, user, rejected, cpc, skip,
                     stored>>
      /\ ClientReads(c, {"challenge"}) /\ skip[c] < Len(Keyring[c])
  BY Zenon DEF AnswerChallenge, serverVars, clientVars
<1>2. /\ q \in Failures(n) \cup Challenges(n) /\ Head(q).type = "challenge"
      /\ toClient'[c] = Tail(q) /\ q # <<>>
      /\ cpc[c] = "reading" /\ net[c] = "up" /\ clientEnd[c] = "open"
      /\ InFlight(toClient'[c]) \subseteq InFlight(toClient[c])
  BY Zenon, <1>0, <1>1, ReadsPrompt
<1>3. q \notin Failures(n) /\ q \in Challenges(n) /\ Head(q) = Challenge(n) /\ Tail(q) = <<>>
  <2> HIDE DEF q, n
  <2>1. q \notin Failures(n)
    BY Zenon, <1>2, PromptQueues
  <2>2. QED
    BY Zenon, <1>2, <2>1, PromptQueues
<1>4. Head(q).challenge = n
  BY <1>3 DEF Challenge
<1>5. KeysInv(c)'
  BY Zenon, <1>0, <1>1, KeysKept
<1>6. PromptInv(c)'
  BY Zenon, <1>1, <1>2, <1>3, NothingAsked, NoPromptQueues
<1>7. CASE serverEnd[c] = "open"
  <2>1. spc[c] = "response" /\ toServer[c] = <<>>
    BY Zenon, <1>0, <1>2, <1>3, <1>7 DEF PromptInv, FlightInv
  <2>2. toServer'[c] = <<Response(c)>>
    <3> DEFINE m == Response(c)
    <3>1. Works(c)
      BY Zenon, <1>2, <1>7 DEF Works
    <3>2. toServer' = Send(toServer, c, m)
      BY Zenon, <1>4 DEF AnswerChallenge, Response
    <3>3. m \in ToServer
      <4>1. Keyring[c] \in Seq(Keys) /\ skip[c] \in Nat /\ skip[c] < Len(Keyring[c])
        BY Zenon, <1>1, SessionAssumption DEF Shape
      <4>2. Keyring[c][skip[c] + 1] \in Keys
        BY <4>1
      <4>3. challenge[c] \in Nat
        BY Zenon DEF Shape
      <4>4. QED
        BY Zenon, <4>2, <4>3 DEF Response, ToServer
    <3> HIDE DEF m
    <3>4. toServer'[c] = Append(<<>>, m)
      BY Zenon, <2>1, <3>1, <3>2, <3>3, SendToServer
    <3>5. QED
      BY Zenon, <3>4, OneMessage DEF m
  <2>3. FlightInv(c)'
    <3>1. Response(c)' = Response(c)
      BY Zenon, <1>1 DEF Response
    <3>2. QED
      BY Zenon, <1>1, <1>2, <1>3, <1>7, <2>1, <2>2, <3>1 DEF FlightInv
  <2>4. EarnedInv(c)'
    BY Zenon, <1>0, <1>1, <1>2, <2>1, ReceivedKept, EarnedKept DEF EarnedInv
  <2>5. QED
    BY Zenon, <1>5, <1>6, <2>3, <2>4 DEF ProtocolInv
<1>8. CASE serverEnd[c] # "open"
  <2>1. FlightInv(c)'
    BY Zenon, <1>0, <1>1, <1>2, <1>8 DEF FlightInv
  <2>2. EarnedInv(c)'
    BY Zenon, <1>0, <1>1, <1>2, <1>8, ReceivedKept, EarnedKept DEF EarnedInv
  <2>3. QED
    BY Zenon, <1>5, <1>6, <2>1, <2>2 DEF ProtocolInv
<1>9. QED
  BY Zenon, <1>7, <1>8

\* The agent gives up a key only when the server has rejected it.
LEMMA NextKeyProtocol ==
    ASSUME Shape, NEW c \in Conns, ProtocolInv(c), NextKey(c)
    PROVE  ProtocolInv(c)'
<1>0. FlightInv(c) /\ KeysInv(c) /\ PromptInv(c) /\ EarnedInv(c)
  BY Zenon DEF ProtocolInv
<1> DEFINE n == challenge[c]
           q == toClient[c]
<1>1. /\ UNCHANGED <<net, toServer, serverEnd, clientEnd, spc, challenge, sig, user, rejected,
                     cpc, stored>>
      /\ ClientReads(c, {"verificationFailure"}) /\ skip'[c] = skip[c] + 1
  BY Zenon DEF NextKey, serverVars, Shape
<1>2. /\ q \in Failures(n) \cup Challenges(n) /\ Head(q).type = "verificationFailure"
      /\ toClient'[c] = Tail(q) /\ q # <<>>
      /\ cpc[c] = "reading" /\ net[c] = "up" /\ clientEnd[c] = "open"
      /\ InFlight(toClient'[c]) \subseteq InFlight(toClient[c])
  BY Zenon, <1>0, <1>1, ReadsPrompt
<1>3. q \in Failures(n) /\ NextRejected(c)
  <2>1. q \in Failures(n)
    <3> HIDE DEF q, n
    <3>1. QED
      BY Zenon, <1>2, PromptQueues
  <2>2. QED
    BY Zenon, <1>0, <1>2, <2>1 DEF PromptInv
<1>4. spc[c] \notin {"failure"} \cup Verifying
  BY Zenon, <1>0, <1>2, <1>3 DEF PromptInv, FlightInv, Failures, Challenges, Verifying
<1>5. FlightInv(c)'
  BY Zenon, <1>0, <1>1, <1>2 DEF FlightInv
<1>6. KeysInv(c)'
  <2>1. /\ skip[c] \in Nat /\ Len(Keyring[c]) \in Nat
    BY SessionAssumption DEF Shape
  <2>2. skip[c] < Len(Keyring[c]) /\ Keyring[c][skip[c] + 1] \in rejected[c]
    BY Zenon, <1>3 DEF NextRejected
  <2>3. skip'[c] <= Len(Keyring[c]) /\ \A i \in 1..skip'[c] : i \in 1..skip[c] \/ i = skip[c] + 1
    BY <1>1, <2>1, <2>2
  <2>4. \A i \in 1..skip'[c] : Keyring[c][i] \in rejected'[c]
    BY Zenon, <1>0, <1>1, <2>2, <2>3 DEF KeysInv
  <2>5. QED
    BY ZenonT(60), <1>1, <1>2, <1>4, <2>3, <2>4 DEF KeysInv
<1>7. PromptInv(c)'
  <2>1. CASE q = <<Failure>>
    <3>1. toClient'[c] = <<>>
      BY Zenon, <1>2, <2>1, OneMessage
    <3>2. QED
      BY Zenon, <1>1, <1>2, <3>1, NothingAsked, NoPromptQueues
  <2>2. CASE q = <<Failure, Challenge(n)>>
    <3>1. toClient'[c] = <<Challenge(n)>>
      BY Zenon, <1>2, <2>2, TwoMessages
    <3>2. q \in Challenges(n) /\ toClient'[c] \in Challenges(n) /\ toClient'[c] \notin Failures(n)
      BY Zenon, <2>2, <3>1, PromptQueues DEF Challenges
    <3>3. toClient'[c] # <<Failure>>
      BY Zenon, <3>2 DEF Failures
    <3>4. serverEnd[c] = "open" => spc[c] = "response"
      BY Zenon, <1>0, <1>2, <3>2 DEF PromptInv
    <3>5. QED
      BY Zenon, <1>1, <1>2, <3>2, <3>3, <3>4 DEF PromptInv
  <2>3. QED
    BY Zenon, <1>3, <2>1, <2>2 DEF Failures
<1>8. EarnedInv(c)'
  BY Zenon, <1>0, <1>1, <1>2, ReceivedKept, EarnedKept DEF EarnedInv
<1>9. QED
  BY Zenon, <1>5, <1>6, <1>7, <1>8 DEF ProtocolInv

\* requestCredentials returns: no response is in flight then, and credentials
\* only go from the queue to what is stored.
LEMMA ReturnProtocol ==
    ASSUME Shape, NEW c \in Conns, AgentInv(c), ProtocolInv(c), Returns(c)
    PROVE  ProtocolInv(c)'
<1>0. FlightInv(c) /\ KeysInv(c) /\ PromptInv(c) /\ EarnedInv(c)
  BY Zenon DEF ProtocolInv
<1>1. UNCHANGED <<net, toServer, serverEnd, spc, challenge, sig, user, rejected, skip>>
      /\ cpc[c] = "reading"
  BY Zenon DEF Returns, ClientReadFails, NoAnswer, ReceiveCredentials, ReceivePong, ReceiveError,
         ClientReads, serverVars
<1>2. /\ cpc'[c] \in {"ok", "error", "noKeys"}
      /\ cpc'[c] = "noKeys" => skip[c] >= Len(Keyring[c])
  <2>1. PICK outcome \in {"ok", "error", "noKeys"} :
            ClientReturns(c, outcome) /\ (outcome = "noKeys" => skip[c] >= Len(Keyring[c]))
    BY Zenon DEF Returns, ClientReadFails, NoAnswer, ReceiveCredentials, ReceivePong, ReceiveError
  <2>2. QED
    BY Zenon, <2>1 DEF ClientReturns, Shape
<1>3. \/ /\ toClient' = toClient
         /\ net[c] = "broken" \/ serverEnd[c] = "closed"
      \/ /\ toClient'[c] = Tail(toClient[c]) /\ toClient[c] # <<>> /\ net[c] = "up"
  <2>1. CASE ClientReadFails(c)
    BY Zenon, <2>1 DEF ClientReadFails
  <2>2. CASE \E types : ClientReads(c, types)
    BY Zenon, <2>2 DEF ClientReads, Shape
  <2>3. QED
    BY Zenon, <2>1, <2>2 DEF Returns, NoAnswer, ReceiveCredentials, ReceivePong, ReceiveError
<1>4. FlightInv(c)'
  BY Zenon, <1>0, <1>1, <1>3 DEF FlightInv
<1>5. KeysInv(c)'
  BY Zenon, <1>0, <1>1, <1>2 DEF KeysInv, NextRejected
<1>6. PromptInv(c)'
  BY Zenon, <1>2 DEF PromptInv
<1>7. Received(c)' \subseteq Received(c)
  <2>0. toClient[c] \in Seq(ToClient)
    BY Zenon DEF Shape
  <2>1. InFlight(toClient'[c]) \subseteq InFlight(toClient[c])
    BY Zenon, <1>3, <2>0, InFlightQueues
  <2>2. CASE stored' = stored
    BY Zenon, <2>1, <2>2, ReceivedKept
  <2>3. CASE ReceiveCredentials(c)
    <3> DEFINE cr == Head(toClient[c]).creds
    <3>1. /\ Head(toClient[c]).type = "credentials" /\ toClient[c] # <<>>
          /\ stored'[c] = [creds |-> cr, role |-> req[c].role]
      BY Zenon, <2>3 DEF ReceiveCredentials, ClientReads, Shape
    <3>2. cr \in InFlight(toClient[c])
      BY ZenonT(60), <2>0, <3>1, InFlightQueues
    <3> HIDE DEF cr
    <3>3. stored'[c].creds = cr
      BY <3>1
    <3>4. QED
      BY Zenon, <2>1, <3>2, <3>3 DEF Received, InFlight
  <2>4. QED
    BY Zenon, <2>2, <2>3 DEF Returns, ClientReadFails, NoAnswer, ReceivePong, ReceiveError
<1>8. EarnedInv(c)'
  BY Zenon, <1>0, <1>1, <1>7, EarnedKept DEF EarnedInv
<1>9. QED
  BY Zenon, <1>4, <1>5, <1>6, <1>8 DEF ProtocolInv
-----------------------------------------------------------------------------
(* The protocol holds always *)

\* A step of the agent or the network on one connection leaves the others alone.
LEMMA AgentOthers ==
    ASSUME Shape, Counters, NEW c \in Conns, NEW d \in Conns, d # c,
           \/ Break(c) \/ Finalize(c) \/ Client(c)
           \/ \E r \in Request : Dial(c, r)
    PROVE  Still(d)
<1>1. UNCHANGED <<challenge, sig, user, rejected>>
  BY Zenon DEF Break, Finalize, Client, Dial, ClientReadFails, AnswerChallenge, NoAnswer, NextKey,
         ReceiveCredentials, ReceivePong, ReceiveError, serverVars
<1>2. CASE Break(c) \/ Finalize(c)
  BY Zenon, <1>1, <1>2 DEF Break, Finalize, Shape, Still, Same, serverVars, clientVars
<1>3. ASSUME NEW r \in Request, Dial(c, r) PROVE Still(d)
  <2>1. UNCHANGED <<toClient, skip, stored>> /\ req' = [req EXCEPT ![c] = r]
    BY Zenon, <1>3 DEF Dial
  <2>2. /\ UNCHANGED net \/ net' = [net EXCEPT ![c] = "up"]
        /\ UNCHANGED serverEnd \/ serverEnd' = [serverEnd EXCEPT ![c] = "open"]
        /\ UNCHANGED clientEnd \/ clientEnd' = [clientEnd EXCEPT ![c] = "open"]
        /\ UNCHANGED toServer \/ \E q : toServer' = [toServer EXCEPT ![c] = q]
        /\ UNCHANGED spc \/ spc' = [spc EXCEPT ![c] = "read"]
        /\ \E p : cpc' = [cpc EXCEPT ![c] = p]
    BY Zenon, <1>3 DEF Dial
  <2>3. net'[d] = net[d] /\ serverEnd'[d] = serverEnd[d] /\ clientEnd'[d] = clientEnd[d]
    BY Zenon, <2>2 DEF Shape
  <2>4. toServer'[d] = toServer[d] /\ spc'[d] = spc[d] /\ cpc'[d] = cpc[d] /\ req'[d] = req[d]
    BY ZenonT(60), <2>1, <2>2 DEF Shape
  <2>5. QED
    BY Zenon, <1>1, <2>1, <2>3, <2>4 DEF Still, Same
<1>4. CASE Client(c)
  <2>1. UNCHANGED <<net, serverEnd, spc, req>>
    BY Zenon, <1>4 DEF Client, ClientReadFails, AnswerChallenge, NoAnswer, NextKey,
           ReceiveCredentials, ReceivePong, ReceiveError, serverVars, clientVars
  <2>2. toClient'[d] = toClient[d]
    <3>1. UNCHANGED toClient \/ \E types : ClientReads(c, types)
      BY Zenon, <1>4 DEF Client, ClientReadFails, AnswerChallenge, NoAnswer, NextKey,
             ReceiveCredentials, ReceivePong, ReceiveError
    <3>2. QED
      BY Zenon, <3>1 DEF ClientReads, Shape
  <2>3. clientEnd'[d] = clientEnd[d] /\ cpc'[d] = cpc[d]
    <3>1. UNCHANGED <<clientEnd, cpc>> \/ \E outcome : ClientReturns(c, outcome)
      BY Zenon, <1>4 DEF Client, ClientReadFails, AnswerChallenge, NoAnswer, NextKey,
             ReceiveCredentials, ReceivePong, ReceiveError, clientVars
    <3>2. QED
      BY ZenonT(60), <3>1 DEF ClientReturns, Shape
  <2>4. toServer'[d] = toServer[d]
    <3>1. UNCHANGED toServer \/ \E m : toServer' = Send(toServer, c, m)
      BY Zenon, <1>4 DEF Client, ClientReadFails, AnswerChallenge, NoAnswer, NextKey,
             ReceiveCredentials, ReceivePong, ReceiveError
    <3>2. QED
      BY Zenon, <3>1 DEF Send, Shape
  <2>5. skip'[d] = skip[d] /\ stored'[d] = stored[d]
    <3>1. /\ UNCHANGED skip \/ \E n : skip' = [skip EXCEPT ![c] = n]
          /\ UNCHANGED stored \/ \E s : stored' = [stored EXCEPT ![c] = s]
      BY Zenon, <1>4 DEF Client, ClientReadFails, AnswerChallenge, NoAnswer, NextKey,
             ReceiveCredentials, ReceivePong, ReceiveError, clientVars
    <3>2. QED
      BY Zenon, <3>1 DEF Shape
  <2>6. QED
    BY Zenon, <1>1, <2>1, <2>2, <2>3, <2>4, <2>5 DEF Still, Same
<1>5. QED
  BY Zenon, <1>2, <1>3, <1>4

\* A step of one handler leaves the other connections alone, unless the server
\* dies; Update is apart.
LEMMA ServerOthers ==
    ASSUME Shape, Counters, NEW c \in Conns, NEW d \in Conns, d # c,
           Server(c), ~RetrySucceedsForUse(c), ~Update(c)
    PROVE  Still(d)
<1> USE DEF Server, HandlePing, HandleServerRequest, HandlerExits, SendChallenge, ReadResponse,
            ReadResponseFails, Authenticate, SendFailure, AssumeRole, RetryFails,
            RetrySucceedsForMe, Fallback, WriteInChallenge, netVars, serverVars,
            clientVars
<1>1. UNCHANGED <<net, clientEnd, cpc, req, skip, stored>>
  BY Zenon
<1>2. UNCHANGED toServer \/ \E type : ServerReads(c, type)
  BY Zenon
<1>3. UNCHANGED toClient \/ \E m : toClient' = Send(toClient, c, m)
  BY Zenon
<1>4. UNCHANGED serverEnd \/ \E e : serverEnd' = [serverEnd EXCEPT ![c] = e]
  BY Zenon
<1>5. UNCHANGED spc \/ \E p : spc' = [spc EXCEPT ![c] = p]
  BY Zenon
<1>6. /\ UNCHANGED challenge \/ \E n : challenge' = [challenge EXCEPT ![c] = n]
      /\ UNCHANGED sig \/ \E s : sig' = [sig EXCEPT ![c] = s]
  BY Zenon
<1>7. /\ UNCHANGED user \/ \E u : user' = [user EXCEPT ![c] = u]
      /\ UNCHANGED rejected \/ \E k : rejected' = [rejected EXCEPT ![c] = k]
  BY Zenon
<1>8. toServer'[d] = toServer[d] /\ toClient'[d] = toClient[d]
  BY Zenon, <1>2, <1>3 DEF ServerReads, Send, Shape
<1>9. serverEnd'[d] = serverEnd[d] /\ spc'[d] = spc[d]
  BY ZenonT(60), <1>4, <1>5 DEF Shape
<1>10. challenge'[d] = challenge[d] /\ sig'[d] = sig[d]
  BY ZenonT(60), <1>6 DEF Shape
<1>11. user'[d] = user[d] /\ rejected'[d] = rejected[d]
  BY ZenonT(60), <1>7 DEF Shape, Counters
<1>12. QED
  BY Zenon, <1>1, <1>8, <1>9, <1>10, <1>11 DEF Still, Same

\* Only keys are rejected, and LDAP changes no more often than the bound says.
LEMMA CountersStep ==
    ASSUME Shape, ServiceInv, Counters, [Next]_vars
    PROVE  Counters'
<1>1. changes' \in 0..MaxDirChanges
  <2>1. changes' = changes \/ (changes < MaxDirChanges /\ changes' = changes + 1)
    BY ZenonT(60) DEF Next, vars, DirectoryChange, Break, Finalize, Dial, Server, HandlePing,
           HandleServerRequest, HandlerExits, SendChallenge, ReadResponse, ReadResponseFails,
           Authenticate, SendFailure, AssumeRole, RetryFails, RetrySucceedsForMe,
           RetrySucceedsForUse, MapFault, Dies, Fallback, Update, Client, ClientReadFails,
           AnswerChallenge, NoAnswer, NextKey, ReceiveCredentials, ReceivePong, ReceiveError,
           ldapVars
  <2>2. changes \in 0..MaxDirChanges /\ MaxDirChanges \in Nat
    BY Zenon, SessionAssumption DEF Counters
  <2>3. QED
    BY <2>1, <2>2
<1>2. serverUp' \in BOOLEAN
  <2>1. serverUp' = serverUp \/ serverUp' = FALSE
    BY ZenonT(60) DEF Next, vars, DirectoryChange, Break, Finalize, Dial, Server, HandlePing,
           HandleServerRequest, HandlerExits, SendChallenge, ReadResponse, ReadResponseFails,
           Authenticate, SendFailure, AssumeRole, RetryFails, RetrySucceedsForMe,
           RetrySucceedsForUse, MapFault, Dies, Fallback, Update, Client, ClientReadFails,
           AnswerChallenge, NoAnswer, NextKey, ReceiveCredentials, ReceivePong, ReceiveError
  <2>2. QED
    BY Zenon, <2>1 DEF Counters
<1>3. rejected' \in [Conns -> SUBSET Keys]
  <2>1. \/ rejected' = rejected
        \/ \E c \in Conns : /\ spc[c] = "verifyAgain"
                            /\ rejected' = [rejected EXCEPT ![c] = @ \cup {sig[c].key}]
    BY ZenonT(60) DEF Next, vars, DirectoryChange, Break, Finalize, Dial, Server, HandlePing,
           HandleServerRequest, HandlerExits, SendChallenge, ReadResponse, ReadResponseFails,
           Authenticate, SendFailure, AssumeRole, RetryFails, RetrySucceedsForMe,
           RetrySucceedsForUse, MapFault, Dies, Fallback, Update, Client, ClientReadFails,
           AnswerChallenge, NoAnswer, NextKey, ReceiveCredentials, ReceivePong, ReceiveError,
           serverVars
  <2>2. ASSUME NEW c \in Conns, spc[c] = "verifyAgain" PROVE sig[c].key \in Keys
    <3>1. sig[c].key \in Range(Keyring[c]) /\ Keyring[c] \in Seq(Keys)
      BY Zenon, <2>2, SessionAssumption DEF ServiceInv, HandlerInv
    <3>2. QED
      BY <3>1 DEF Range
  <2>3. QED
    BY ZenonT(60), <2>1, <2>2 DEF Counters
<1>4. QED
  BY Zenon, <1>1, <1>2, <1>3 DEF Counters

\* No connection has been made yet.
LEMMA InitProtocol == Init => Counters /\ \A c \in Conns : ProtocolInv(c)
<1> SUFFICES ASSUME Init PROVE Counters /\ \A c \in Conns : ProtocolInv(c)
  BY Zenon
<1>1. Counters
  <2>1. 0 \in 0..MaxDirChanges
    BY SessionAssumption
  <2>2. QED
    BY Zenon, <2>1 DEF Init, Counters
<1>2. ASSUME NEW c \in Conns PROVE ProtocolInv(c)
  <2>1. FlightInv(c) /\ PromptInv(c)
    BY Zenon, <1>2 DEF Init, FlightInv, PromptInv
  <2>2. KeysInv(c)
    <3>1. /\ skip[c] = 0 /\ spc[c] = "none" /\ cpc[c] = "idle" /\ Keyring[c] \in Seq(Keys)
      BY Zenon, <1>2, SessionAssumption DEF Init
    <3>2. skip[c] <= Len(Keyring[c]) /\ \A i \in 1..skip[c] : FALSE
      BY <3>1
    <3>3. QED
      BY Zenon, <3>1, <3>2 DEF KeysInv, Verifying
  <2>3. EarnedInv(c)
    <3>1. InFlight(toClient[c]) = {} /\ stored[c] = None
      BY Zenon, <1>2, InFlightQueues DEF Init
    <3>2. Received(c) = {}
      BY Zenon, <3>1 DEF Received, InFlight
    <3>3. QED
      BY Zenon, <3>2 DEF EarnedInv
  <2>4. QED
    BY Zenon, <2>1, <2>2, <2>3 DEF ProtocolInv
<1>3. QED
  BY Zenon, <1>1, <1>2

\* Every step keeps the protocol of every connection.
LEMMA ProtocolStep ==
    ASSUME Shape, ServiceInv, Counters, \A c \in Conns : ProtocolInv(c), [Next]_vars,
           NEW d \in Conns
    PROVE  ProtocolInv(d)'
<1>0. ProtocolInv(d) /\ \A c \in Conns : AgentInv(c) /\ HandlerInv(c)
  BY Zenon DEF ServiceInv
<1>1. CASE DirectoryChange \/ UNCHANGED vars
  <2>1. Still(d)
    BY Zenon, <1>1 DEF DirectoryChange, vars, netVars, serverVars, clientVars, Still, Same
  <2>2. QED
    BY Zenon, <1>0, <2>1, StillKeeps
<1>2. ASSUME NEW c \in Conns, Server(c) PROVE ProtocolInv(d)'
  <2>1. CASE RetrySucceedsForUse(c)
    BY Zenon, <1>0, <2>1, DeathProtocol DEF RetrySucceedsForUse
  <2>2. CASE ~RetrySucceedsForUse(c) /\ d = c
    BY Zenon, <1>0, <1>2, <2>2, RequestProtocol, ChallengeProtocol, FailureProtocol,
       ResponseProtocol, VerifyProtocol, AssumeProtocol, UpdateProtocol DEF Server
  <2>3. CASE ~RetrySucceedsForUse(c) /\ d # c
    <3>1. Update(c) => Still(d)
      BY Zenon, <2>3, UpdateMoves DEF Still, Same
    <3>2. QED
      BY Zenon, <1>0, <1>2, <2>3, <3>1, ServerOthers, StillKeeps
  <2>4. QED
    BY Zenon, <2>1, <2>2, <2>3
<1>3. ASSUME NEW c \in Conns,
             \/ Break(c) \/ Finalize(c) \/ Client(c)
             \/ \E r \in Request : Dial(c, r)
      PROVE  ProtocolInv(d)'
  <2>1. CASE d = c
    BY Zenon, <1>0, <1>3, <2>1, NetworkProtocol, DialProtocol, AnswerProtocol, NextKeyProtocol,
       ReturnProtocol DEF Client, Returns
  <2>2. CASE d # c
    BY Zenon, <1>0, <1>3, <2>2, AgentOthers, StillKeeps
  <2>3. QED
    BY Zenon, <2>1, <2>2
<1>4. ASSUME NEW c \in Conns, NEW e \in Conns, MapFault(c, e) PROVE ProtocolInv(d)'
  BY Zenon, <1>0, <1>4, DeathProtocol DEF MapFault
<1>5. QED
  BY Zenon, <1>1, <1>2, <1>3, <1>4, SessionAssumption DEF Next

\* The two ends of every connection keep step: at most one response and one
\* challenge are in flight, both the current ones, a failure is for the key the
\* agent has offered last, and credentials come when nothing else will.
THEOREM ProtocolInvariance ==
    Spec => [](Shape /\ ServiceInv /\ Counters /\ \A c \in Conns : ProtocolInv(c))
<1> DEFINE P == Counters /\ \A c \in Conns : ProtocolInv(c)
<1>1. Init => P
  BY Zenon, InitProtocol
<1>2. Shape /\ ServiceInv /\ P /\ [Next]_vars => P'
  BY Zenon, CountersStep, ProtocolStep
<1>3. Spec => []P
  <2> HIDE DEF P
  <2>1. QED
    BY <1>1, <1>2, ServiceInvariance, PTL DEF Spec
<1>4. QED
  BY <1>3, ServiceInvariance, PTL

\* Type correctness of agents and server; the agent never skips past the end of
\* its keyring.
THEOREM SessionTypeCorrect == Spec => []TypeOK
<1>1. Shape /\ ServiceInv /\ Counters /\ (\A c \in Conns : ProtocolInv(c)) => TypeOK
  BY Zenon DEF Shape, ServiceInv, CacheInv, CacheShape, Counters, Places, ProtocolInv, KeysInv, TypeOK
<1>2. QED
  BY <1>1, ProtocolInvariance, PTL

\* SSHChallenge verifies a response against the challenge it answers, however
\* many failures it has sent before.
THEOREM ResponsesAreCurrent == Spec => []ResponseIsCurrent
<1>1. (\A c \in Conns : ProtocolInv(c)) => ResponseIsCurrent
  BY Zenon DEF ProtocolInv, KeysInv, Verifying, ResponseIsCurrent
<1>2. QED
  BY <1>1, ProtocolInvariance, PTL

\* The agent says that no key worked only when the server has rejected every
\* key of its keyring, however long that is.
THEOREM KeyringIsExhausted == Spec => []KeyringExhausted
<1>1. Shape /\ (\A c \in Conns : ProtocolInv(c)) => KeyringExhausted
  <2> SUFFICES ASSUME Shape, \A c \in Conns : ProtocolInv(c),
                      NEW c \in Conns, cpc[c] = "noKeys", NEW k \in Range(Keyring[c])
               PROVE  k \in rejected[c]
    BY Zenon DEF KeyringExhausted
  <2>1. /\ Keyring[c] \in Seq(Keys) /\ skip[c] \in Nat /\ skip[c] >= Len(Keyring[c])
        /\ \A i \in 1..skip[c] : Keyring[c][i] \in rejected[c]
    BY ZenonT(60), SessionAssumption DEF Shape, ProtocolInv, KeysInv
  <2>2. PICK i \in DOMAIN Keyring[c] : k = Keyring[c][i]
    BY Zenon DEF Range
  <2>3. i \in 1..skip[c]
    BY <2>1, <2>2
  <2>4. QED
    BY Zenon, <2>1, <2>2, <2>3
<1>2. QED
  BY <1>1, ProtocolInvariance, PTL

\* Credentials in flight or stored are for a user one of whose keys the agent
\* holds and, when roles come from LDAP, for a role of that user: AssumeRole and
\* the fallback grant nothing else, and no handler turns to another user once it
\* has answered.
THEOREM CredentialsAreEarned == Spec => []CredentialsEarned
<1>1. (\A c \in Conns : ProtocolInv(c)) => CredentialsEarned
  BY Zenon DEF ProtocolInv, EarnedInv, Earned, CredentialsEarned
<1>2. QED
  BY <1>1, ProtocolInvariance, PTL
=============================================================================
