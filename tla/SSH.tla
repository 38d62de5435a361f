--------------------------------- MODULE SSH ---------------------------------
(***************************************************************************)
(* Whose keys the agent signs with (agent/ssh.go).  Every CLI request sets *)
(* two package variables, and every challenge of the server makes the      *)
(* goroutine that asked read them again; goroutines of other CLI requests  *)
(* (agent/cli_handler.go), and of refreshes for HTTP clients, which set    *)
(* nothing, share them without a lock.  The SSH agents and the server are  *)
(* external.                                                               *)
(***************************************************************************)
EXTENDS Naturals, Sequences, Functions

CONSTANTS
    Threads,        \* goroutines of the agent
    Socks, NoSock,  \* addresses of SSH agents, and the empty one
    Garbage,        \* a string read or left while two are written
    Keys, BadKey,   \* keys, and a key file that does not parse
    None,           \* nil
    Requests,       \* what CLIs send: [sock, key]
    Rings,          \* what the SSH agents can hold
    Registered,     \* the keys the server accepts
    MaxRingChanges  \* bound on the changes of what they hold

ASSUME SSHAssumption ==
    /\ Requests \subseteq [sock : Socks \cup {NoSock}, key : Keys \cup {BadKey, None}]
    /\ Rings \subseteq [Socks -> Seq(Keys)]
    /\ Registered \subseteq Keys
    /\ NoSock \notin Socks /\ Garbage \notin Socks \cup {NoSock}
    /\ None \notin Requests /\ None \notin Keys /\ BadKey \notin Keys
    /\ None \notin Threads
    /\ \E r \in Rings, s \in Socks : \A q \in Rings, u \in Socks : Len(q[u]) <= Len(r[s])
    /\ MaxRingChanges \in Nat

VARIABLES
    socketAddress, providedSSHKey,  \* the package variables
    ring, ringChanges,  \* what the SSH agents hold, and how often it has changed
    up,         \* is the agent running?
    pc,         \* where each goroutine is
    mine,       \* the CLI request it handles, None for a refresh
    skip,       \* how many of its signatures were rejected
    addr,       \* the SSH agent it is connected to
    signed,     \* the key of its last signature
    tried,      \* history: the keys rejected for this request
    brought,    \* history: the keys that came in key files
    disturbed,  \* history: were the variables or the keys changed by others?
    cause       \* history: has a variable been read or left half assigned, or a
                \* keyring become shorter between List and Signers?

\* The package variables, with what the second has been given.
shared == <<socketAddress, providedSSHKey, brought>>
env == <<ring, ringChanges, up, cause>>
vars == <<shared, env, pc, mine, skip, addr, signed, tried, disturbed>>

LongestRing == CHOOSE n \in {Len(r[s]) : r \in Rings, s \in Socks} :
                   \A r \in Rings, s \in Socks : Len(r[s]) <= n

TypeOK ==
    /\ socketAddress \in Socks \cup {NoSock, Garbage}
    /\ providedSSHKey \in Keys \cup {None}
    /\ ring \in Rings
    /\ ringChanges \in 0..MaxRingChanges
    /\ up \in BOOLEAN
    /\ pc \in [Threads -> {"idle", "setSock", "setKey", "ask", "sign", "dial", "signers",
                           "sent", "ok", "noKeys", "error"}]
    /\ mine \in [Threads -> Requests \cup {None}]
    /\ skip \in [Threads -> 0..(LongestRing + 1)]
    /\ addr \in [Threads -> Socks \cup {NoSock}]
    /\ signed \in [Threads -> Keys \cup {None}]
    /\ tried \in [Threads -> SUBSET Keys]
    /\ brought \subseteq Keys
    /\ disturbed \in [Threads -> BOOLEAN]
    /\ cause \in BOOLEAN

Init ==
    /\ socketAddress = NoSock
    /\ providedSSHKey = None
    /\ ring \in Rings
    /\ ringChanges = 0
    /\ up = TRUE
    /\ pc = [t \in Threads |-> "idle"]
    /\ mine = [t \in Threads |-> None]
    /\ skip = [t \in Threads |-> 0]
    /\ addr = [t \in Threads |-> NoSock]
    /\ signed = [t \in Threads |-> None]
    /\ tried = [t \in Threads |-> {}]
    /\ brought = {}
    /\ disturbed = [t \in Threads |-> FALSE]
    /\ cause = FALSE

Goto(t, place) == up /\ pc' = [pc EXCEPT ![t] = place]

\* All requests that are being handled, except one, are disturbed.
DisturbAllBut(t) ==
    disturbed' = [u \in Threads |-> u # t /\ (disturbed[u] \/ pc[u] # "idle")]
-----------------------------------------------------------------------------
(* Requests and the package variables *)

\* HandleConnection reads a request of the CLI and calls SSHSetAgentSock.
HandleConnection(t, r) ==
    /\ pc[t] = "idle"
    /\ Goto(t, "setSock")
    /\ mine' = [mine EXCEPT ![t] = r]
    /\ UNCHANGED <<shared, env, skip, addr, signed, tried, disturbed>>

\* An HTTP client makes the metadata service refresh the credentials.
Refresh(t) ==
    /\ pc[t] = "idle"
    /\ Goto(t, "ask")
    /\ UNCHANGED <<shared, env, mine, skip, addr, signed, tried, disturbed>>

\* Mutant of NewSock: an empty address does not replace another.
NewSockIfAny(t) == IF mine[t].sock = NoSock THEN socketAddress ELSE mine[t].sock

NewSock(t) == mine[t].sock

\* SSHSetAgentSock, its first assignment.
SetSock(t) ==
    /\ pc[t] = "setSock"
    /\ socketAddress' = NewSock(t)
    /\ Goto(t, IF mine[t].key = None THEN "ask" ELSE "setKey")
    /\ DisturbAllBut(t)
    /\ UNCHANGED <<providedSSHKey, brought, env, mine, skip, addr, signed, tried>>

\* Two goroutines assign it at once: a string is two words, one from each.
SetSockRace(t, u) ==
    /\ pc[t] = "setSock" /\ pc[u] = "setSock"
    /\ mine[t].sock # mine[u].sock
    /\ up
    /\ socketAddress' = Garbage
    /\ pc' = [v \in Threads |-> IF v \notin {t, u} THEN pc[v]
                                ELSE IF mine[v].key = None THEN "ask" ELSE "setKey"]
    /\ DisturbAllBut(None)
    /\ cause' = TRUE
    /\ UNCHANGED <<providedSSHKey, brought, ring, ringChanges, up, mine, skip, addr, signed, tried>>

\* SSHSetAgentSock, its second assignment: a key file that does not parse
\* leaves the key of an earlier request.
SetKey(t) ==
    /\ pc[t] = "setKey"
    /\ Goto(t, "ask")
    /\ IF mine[t].key = BadKey
       THEN UNCHANGED <<providedSSHKey, brought, disturbed>>
       ELSE /\ providedSSHKey' = mine[t].key
            /\ brought' = brought \cup {mine[t].key}
            /\ disturbed' = [u \in Threads |-> disturbed[u] \/ (u # t /\ pc[u] # "idle")]
    /\ UNCHANGED <<socketAddress, env, mine, skip, addr, signed, tried>>
-----------------------------------------------------------------------------
(* requestCredentials and SSHSign *)

\* The server is asked, and sends a challenge; or it cannot be reached.
Ask(t) ==
    /\ pc[t] = "ask"
    /\ Goto(t, "sign") \/ Goto(t, "error")
    /\ UNCHANGED <<shared, env, mine, skip, addr, signed, tried, disturbed>>

\* What a read of socketAddress can give while another goroutine assigns it.
SockReads ==
    {socketAddress} \cup
    (IF \E t \in Threads : pc[t] = "setSock" /\ mine[t].sock # socketAddress
     THEN {Garbage} ELSE {})

\* Mutant of MayUseProvided: the provided key is used again and again.
MayUseProvidedAgain(t) == providedSSHKey # None

MayUseProvided(t) == skip[t] = 0 /\ providedSSHKey # None

\* SSHSign without a socket: the provided key, once.  The first key is two
\* words as well; one that is half assigned is not nil and ends the process.
ChooseSigner(t) ==
    /\ pc[t] = "sign"
    /\ \E a \in SockReads :
        \/ /\ a # NoSock
           /\ Goto(t, "dial")
           /\ UNCHANGED <<signed, up, cause>>
        \/ /\ a = NoSock /\ ~MayUseProvided(t)
           /\ Goto(t, "error")
           /\ UNCHANGED <<signed, up, cause>>
        \/ /\ a = NoSock /\ MayUseProvided(t)
           /\ signed' = [signed EXCEPT ![t] = providedSSHKey]
           /\ Goto(t, "sent")
           /\ UNCHANGED <<up, cause>>
        \/ /\ a = NoSock /\ skip[t] = 0 /\ providedSSHKey = None
           /\ \E u \in Threads : pc[u] = "setKey" /\ mine[u].key \in Keys
           /\ up' = FALSE /\ up
           /\ cause' = TRUE
           /\ UNCHANGED <<pc, signed>>
    /\ UNCHANGED <<shared, ring, ringChanges, mine, skip, addr, tried, disturbed>>

\* Mutants of Exhausted: the last key is not tried; one key too many is.
ExhaustedEarly(t) == skip[t] + 1 >= Len(ring[socketAddress])
ExhaustedLate(t) == skip[t] > Len(ring[socketAddress])

Exhausted(t) == skip[t] >= Len(ring[socketAddress])

\* SSHSign with a socket: Dial reads the variable again; List.  A string with
\* the length of one address and no bytes ends the process.
DialAndList(t) ==
    /\ pc[t] = "dial"
    /\ \/ /\ socketAddress \in Socks
          /\ ring[socketAddress] # <<>>
          /\ addr' = [addr EXCEPT ![t] = socketAddress]
          /\ Goto(t, IF Exhausted(t) THEN "noKeys" ELSE "signers")
          /\ UNCHANGED <<up, cause>>
       \/ Goto(t, "error") /\ UNCHANGED <<up, addr, cause>>
       \/ /\ Garbage \in SockReads
          /\ up' = FALSE /\ up
          /\ cause' = TRUE
          /\ UNCHANGED <<pc, addr>>
    /\ UNCHANGED <<shared, ring, ringChanges, mine, skip, signed, tried, disturbed>>

\* Signers asks the SSH agent again; an index beyond its answer is a panic.
Sign(t) ==
    /\ pc[t] = "signers"
    /\ LET keys == ring[addr[t]]
       IN  \/ /\ skip[t] < Len(keys)
              /\ signed' = [signed EXCEPT ![t] = keys[skip[t] + 1]]
              /\ Goto(t, "sent") /\ UNCHANGED up
           \/ /\ skip[t] >= Len(keys)
              /\ up' = FALSE /\ up
              /\ UNCHANGED <<pc, signed>>
           \/ Goto(t, "error") /\ UNCHANGED <<up, signed>>
    /\ UNCHANGED <<shared, ring, ringChanges, cause, mine, skip, addr, tried, disturbed>>

\* Mutant of NextSkip: the same key is tried again.
SameSkip(t) == skip[t]

NextSkip(t) == skip[t] + 1

\* The server accepts the signature, or rejects it and sends a new challenge.
Verdict(t) ==
    /\ pc[t] = "sent"
    /\ \/ /\ signed[t] \in Registered
          /\ Goto(t, "ok")
          /\ UNCHANGED <<skip, tried>>
       \/ /\ signed[t] \notin Registered
          /\ tried' = [tried EXCEPT ![t] = @ \cup {signed[t]}]
          /\ skip' = [skip EXCEPT ![t] = NextSkip(t)]
          /\ Goto(t, "sign")
       \/ Goto(t, "error") /\ UNCHANGED <<skip, tried>>
    /\ UNCHANGED <<shared, env, mine, addr, signed, disturbed>>

\* The CLI or the HTTP client is answered; the handler waits for a request.
Reply(t) ==
    /\ pc[t] \in {"ok", "noKeys", "error"}
    /\ Goto(t, "idle")
    /\ mine' = [mine EXCEPT ![t] = None]
    /\ skip' = [skip EXCEPT ![t] = 0]
    /\ addr' = [addr EXCEPT ![t] = NoSock]
    /\ signed' = [signed EXCEPT ![t] = None]
    /\ tried' = [tried EXCEPT ![t] = {}]
    /\ disturbed' = [disturbed EXCEPT ![t] = FALSE]
    /\ UNCHANGED <<shared, env>>

\* Users add keys to their SSH agents, and remove them.
KeyringChange ==
    /\ up
    /\ ringChanges < MaxRingChanges
    /\ ring' \in Rings \ {ring}
    /\ ringChanges' = ringChanges + 1
    /\ cause' = (cause \/ \E t \in Threads : pc[t] = "signers"
                              /\ Len(ring'[addr[t]]) < Len(ring[addr[t]]))
    /\ DisturbAllBut(None)
    /\ UNCHANGED <<shared, up, pc, mine, skip, addr, signed, tried>>
-----------------------------------------------------------------------------
Step(t) ==
    \/ SetSock(t)
    \/ SetKey(t)
    \/ Ask(t)
    \/ ChooseSigner(t)
    \/ DialAndList(t)
    \/ Sign(t)
    \/ Verdict(t)
    \/ Reply(t)

Next ==
    \/ \E t \in Threads, r \in Requests : HandleConnection(t, r)
    \/ \E t \in Threads : Refresh(t) \/ Step(t)
    \/ \E t, u \in Threads : SetSockRace(t, u)
    \/ KeyringChange

Spec == Init /\ [][Next]_vars

\* Goroutines are scheduled; SSH agents and the server answer or fail.
FairSpec == Spec /\ \A t \in Threads : WF_vars(Step(t))
-----------------------------------------------------------------------------
(* Properties *)

\* Does a request name an SSH agent or bring a key file that parses?
BringsKeys(r) == r.sock # NoSock \/ r.key \in Keys

\* The keys a request brings: those of the SSH agent it names, or else the key
\* of its key file.
OwnKeys(r) ==
    IF r.sock # NoSock THEN Range(ring[r.sock])
    ELSE IF r.key \in Keys THEN {r.key} ELSE {}

\* A request that no other request and no change of the keyrings has disturbed
\* is signed with a key it brings, if it brings any, whatever requests were
\* handled before it.  A request that brings none is not refused: it is signed
\* with what an earlier request left in providedSSHKey, so with a key that came
\* in a key file, and never with a key of an SSH agent named before.
UndisturbedSignsOwn ==
    \A t \in Threads : mine[t] # None /\ ~disturbed[t] /\ pc[t] = "sent"
        => signed[t] \in IF BringsKeys(mine[t]) THEN OwnKeys(mine[t]) ELSE brought

\* Such a request is told that no key worked only after every key of its SSH
\* agent was rejected: skip counts keys of one keyring.
UndisturbedTriesAll ==
    \A t \in Threads : mine[t] # None /\ ~disturbed[t] /\ pc[t] = "noKeys"
                           => Range(ring[mine[t].sock]) \subseteq tried[t]

\* The agent dies in SSHSign only if a keyring became shorter between List and
\* Signers or a package variable was used while it was assigned.
DiesOnlyForCause == ~up => cause

\* "Do not infinitely loop" (ssh.go:55): every request ends, even if other
\* requests change the variables between two challenges.
SigningEnds == \A t \in Threads : (pc[t] # "idle") ~> (pc[t] = "idle" \/ ~up)

\* "Not sure if this needs a mutex around it. Probably not, because it only gets
\* written once by one thing." (ssh.go:28): what one request has written is not
\* overwritten while it is in use, so a request is signed with its own keys.
SignsOwn ==
    \A t \in Threads : mine[t] # None /\ pc[t] = "sent" => signed[t] \in OwnKeys(mine[t])
=============================================================================
