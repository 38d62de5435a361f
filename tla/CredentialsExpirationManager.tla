-------------------- MODULE CredentialsExpirationManager --------------------
(***************************************************************************)
(* The agent's store of the current credentials                            *)
(* (agent/credentials_expiration_manager.go), shared without a lock by the *)
(* handlers of CLI connections (agent/cli_handler.go), which replace the   *)
(* credentials, and the HTTP handlers of the metadata service              *)
(* (agent/metadata_service.go), which serve and refresh them.  Every read  *)
(* or write of a field is a step.  What the server answers to a request is *)
(* the subject of module Session; here it grants or refuses.               *)
(***************************************************************************)
EXTENDS Naturals

CONSTANTS
    Threads,   \* goroutines of the agent
    Roles,     \* names of roles
    NoRole,    \* the empty role: the user's own credentials
    Garbage,   \* a string no role has, read while the field is written
    None,      \* nil
    Lifetime,  \* for how long credentials are valid
    MaxTime    \* bound on the clock

ASSUME ManagerAssumption ==
    /\ NoRole \notin Roles
    /\ Garbage \notin Roles \cup {NoRole}
    /\ Lifetime \in Nat \ {0}
    /\ MaxTime \in Nat

RoleOrNone == Roles \cup {NoRole}

Creds == [role : RoleOrNone, exp : 0..(MaxTime + Lifetime)]

ASSUME NoneAssumption == \A c \in Creds : None # c

VARIABLES
    now,       \* the clock
    creds,     \* m.creds
    role,      \* m.role
    pc, kind,  \* where each goroutine is, and whom it answers
    want,      \* the role it asks the server for
    got,       \* the credentials it has received
    arrived,   \* when its HTTP request arrived
    served,    \* what its HTTP request was last answered: credentials or None
    overlap,   \* history: was m.creds last written inside another SetCredentials?
    since      \* history: has there been news since the goroutine read m.role?

localVars == <<pc, kind, want, got, arrived, served>>
vars == <<now, creds, role, localVars, overlap, since>>

TypeOK ==
    /\ now \in 0..MaxTime
    /\ creds \in {None} \cup Creds
    /\ role \in RoleOrNone \cup {Garbage}
    /\ pc \in [Threads -> {"idle", "get", "expiry", "role1", "role2", "request",
                           "setCreds", "setRole", "return", "reply"}]
    /\ kind \in [Threads -> {"cli", "http"}]
    /\ want \in [Threads -> RoleOrNone \cup {Garbage}]
    /\ got \in [Threads -> {None} \cup Creds]
    /\ arrived \in [Threads -> 0..MaxTime]
    /\ served \in [Threads -> {None} \cup Creds]
    /\ overlap \in BOOLEAN
    /\ since \in [Threads -> BOOLEAN]

Init ==
    /\ now = 0
    /\ creds = None
    /\ role = NoRole
    /\ pc = [t \in Threads |-> "idle"]
    /\ kind = [t \in Threads |-> "cli"]
    /\ want = [t \in Threads |-> NoRole]
    /\ got = [t \in Threads |-> None]
    /\ arrived = [t \in Threads |-> 0]
    /\ served = [t \in Threads |-> None]
    /\ overlap = FALSE
    /\ since = [t \in Threads |-> FALSE]
-----------------------------------------------------------------------------
\* Time passes, but credentials reach the agent, and are set, before they expire.
Tick ==
    /\ now < MaxTime
    /\ \A t \in Threads : pc[t] \in {"setCreds", "setRole"} => now < got[t].exp
    /\ now' = now + 1
    /\ UNCHANGED <<creds, role, localVars, overlap, since>>

\* What the CLI sends: hologram use names a role, hologram me asks for none.
AgentRequests == RoleOrNone

\* The CLI handler reads the request and calls the client.
CliRequest(t, r) ==
    /\ pc[t] = "idle"
    /\ pc' = [pc EXCEPT ![t] = "request"]
    /\ kind' = [kind EXCEPT ![t] = "cli"]
    /\ want' = [want EXCEPT ![t] = r]
    /\ UNCHANGED <<now, creds, role, got, arrived, served, overlap, since>>

\* A program asks the metadata service for credentials.
HttpRequest(t) ==
    /\ pc[t] = "idle"
    /\ pc' = [pc EXCEPT ![t] = "get"]
    /\ kind' = [kind EXCEPT ![t] = "http"]
    /\ arrived' = [arrived EXCEPT ![t] = now]
    /\ UNCHANGED <<now, creds, role, want, got, served, overlap, since>>

\* GetCredentials: an error when nothing has been set.
GetCredentials(t) ==
    /\ pc[t] = "get"
    /\ pc' = [pc EXCEPT ![t] = IF creds = None THEN "reply" ELSE "expiry"]
    /\ UNCHANGED <<now, creds, role, kind, want, got, arrived, served, overlap, since>>

\* Mutant of CheckExpiration: credentials live one unit too long.
CheckExpirationLate(t) ==
    /\ pc[t] = "expiry"
    /\ pc' = [pc EXCEPT ![t] = IF creds.exp + 1 < now THEN "role1" ELSE "return"]
    /\ UNCHANGED <<now, creds, role, kind, want, got, arrived, served, overlap, since>>

\* maybeRefreshCredentials: Expiration.Before(time.Now()).
CheckExpiration(t) ==
    /\ pc[t] = "expiry"
    /\ pc' = [pc EXCEPT ![t] = IF creds.exp < now THEN "role1" ELSE "return"]
    /\ UNCHANGED <<now, creds, role, kind, want, got, arrived, served, overlap, since>>

\* What a read of m.role can give: a string is two words, and a read while
\* another goroutine writes them may mix the old and the new.
RoleReads ==
    {role} \cup (IF \E t \in Threads : pc[t] = "setRole" /\ want[t] # role
                 THEN {Garbage} ELSE {})

\* Mutant of ChooseRefresh: a refresh always asks for the user's own credentials.
RefreshOwn(t) ==
    /\ pc[t] = "role1"
    /\ want' = [want EXCEPT ![t] = NoRole]
    /\ pc' = [pc EXCEPT ![t] = "request"]
    /\ since' = [since EXCEPT ![t] = FALSE]
    /\ UNCHANGED <<now, creds, role, kind, got, arrived, served, overlap>>

\* m.role is read once to choose the call and once more as its argument;
\* AssumeRole of the empty role is a role no server grants.
ChooseRefresh(t) ==
    /\ \/ /\ pc[t] = "role1"
          /\ \E r \in RoleReads :
               IF r = NoRole
               THEN /\ want' = [want EXCEPT ![t] = NoRole]
                    /\ pc' = [pc EXCEPT ![t] = "request"]
               ELSE /\ pc' = [pc EXCEPT ![t] = "role2"]
                    /\ UNCHANGED want
       \/ /\ pc[t] = "role2"
          /\ \E r \in RoleReads :
               want' = [want EXCEPT ![t] = IF r = NoRole THEN Garbage ELSE r]
          /\ pc' = [pc EXCEPT ![t] = "request"]
    /\ since' = [since EXCEPT ![t] = FALSE]
    /\ UNCHANGED <<now, creds, role, kind, got, arrived, served, overlap>>

\* Mutant of Granted: a string that is no role is granted too.
GrantedUnchecked(t) ==
    /\ pc[t] = "request"
    /\ got' = [got EXCEPT ![t] = [role |-> want[t], exp |-> now + Lifetime]]
    /\ pc' = [pc EXCEPT ![t] = "setCreds"]
    /\ UNCHANGED <<now, creds, role, kind, want, arrived, served, overlap, since>>

\* The server grants the role; the credentials travel to the agent.
Granted(t) ==
    /\ pc[t] = "request"
    /\ want[t] # Garbage
    /\ got' = [got EXCEPT ![t] = [role |-> want[t], exp |-> now + Lifetime]]
    /\ pc' = [pc EXCEPT ![t] = "setCreds"]
    /\ UNCHANGED <<now, creds, role, kind, want, arrived, served, overlap, since>>

\* Mutant of Refused: a refresh is tried until it is granted.
RefusedRefreshAgain(t) ==
    /\ pc[t] = "request"
    /\ pc' = [pc EXCEPT ![t] = IF kind[t] = "http" THEN "role1" ELSE "reply"]
    /\ UNCHANGED <<now, creds, role, kind, want, got, arrived, served, overlap, since>>

\* The server refuses, or cannot be reached.
Refused(t) ==
    /\ pc[t] = "request"
    /\ pc' = [pc EXCEPT ![t] = "reply"]
    /\ UNCHANGED <<now, creds, role, kind, want, got, arrived, served, overlap, since>>

\* News to a refresh: a command of the CLI, or a refresh it overtook, writes.
News(t) == kind[t] = "cli" \/ since[t]

\* SetCredentials, its first assignment.
SetCreds(t) ==
    /\ pc[t] = "setCreds"
    /\ creds' = got[t]
    /\ overlap' = \E u \in Threads \ {t} : pc[u] = "setRole"
    /\ since' = [u \in Threads |-> since[u] \/ News(t)]
    /\ pc' = [pc EXCEPT ![t] = "setRole"]
    /\ UNCHANGED <<now, role, kind, want, got, arrived, served>>

\* Where the goroutine goes after SetCredentials.
AfterSet(t) == IF kind[t] = "cli" THEN "reply" ELSE "return"

\* Mutant of SetRole: an empty role does not replace the recorded one.
SetRoleIfAny(t) ==
    /\ pc[t] = "setRole"
    /\ role' = IF want[t] = NoRole THEN role ELSE want[t]
    /\ since' = [u \in Threads |-> since[u] \/ News(t)]
    /\ pc' = [pc EXCEPT ![t] = AfterSet(t)]
    /\ got' = [got EXCEPT ![t] = None]
    /\ UNCHANGED <<now, creds, kind, want, arrived, served, overlap>>

\* SetCredentials, its second assignment.
SetRole(t) ==
    /\ pc[t] = "setRole"
    /\ role' = want[t]
    /\ since' = [u \in Threads |-> since[u] \/ News(t)]
    /\ pc' = [pc EXCEPT ![t] = AfterSet(t)]
    /\ got' = [got EXCEPT ![t] = None]
    /\ UNCHANGED <<now, creds, kind, want, arrived, served, overlap>>

\* Two goroutines assign m.role at once: one word from each.
SetRoleRace(t, u) ==
    /\ pc[t] = "setRole" /\ pc[u] = "setRole"
    /\ want[t] # want[u]
    /\ role' = Garbage
    /\ since' = [v \in Threads |-> since[v] \/ News(t) \/ News(u)]
    /\ pc' = [pc EXCEPT ![t] = AfterSet(t), ![u] = AfterSet(u)]
    /\ got' = [got EXCEPT ![t] = None, ![u] = None]
    /\ UNCHANGED <<now, creds, kind, want, arrived, served, overlap>>

\* GetCredentials returns m.creds, read again.
ReturnCreds(t) ==
    /\ pc[t] = "return"
    /\ served' = [served EXCEPT ![t] = creds]
    /\ pc' = [pc EXCEPT ![t] = "reply"]
    /\ UNCHANGED <<now, creds, role, kind, want, got, arrived, overlap, since>>

\* The CLI is told Success or Failure.
ReplyCli(t) ==
    /\ pc[t] = "reply" /\ kind[t] = "cli"
    /\ pc' = [pc EXCEPT ![t] = "idle"]
    /\ want' = [want EXCEPT ![t] = NoRole]
    /\ UNCHANGED <<now, creds, role, kind, got, arrived, served, overlap, since>>

\* An HTTP client gets the credentials in served, or status 500.
ReplyHttp(t) ==
    /\ pc[t] = "reply" /\ kind[t] = "http"
    /\ pc' = [pc EXCEPT ![t] = "idle"]
    /\ kind' = [kind EXCEPT ![t] = "cli"]
    /\ want' = [want EXCEPT ![t] = NoRole]
    /\ arrived' = [arrived EXCEPT ![t] = 0]
    /\ served' = [served EXCEPT ![t] = None]
    /\ UNCHANGED <<now, creds, role, got, overlap, since>>
-----------------------------------------------------------------------------
Step(t) ==
    \/ GetCredentials(t)
    \/ CheckExpiration(t)
    \/ ChooseRefresh(t)
    \/ Granted(t)
    \/ Refused(t)
    \/ SetCreds(t)
    \/ SetRole(t)
    \/ ReturnCreds(t)
    \/ ReplyCli(t)
    \/ ReplyHttp(t)

Next ==
    \/ Tick
    \/ \E t \in Threads, r \in AgentRequests : CliRequest(t, r)
    \/ \E t \in Threads : HttpRequest(t)
    \/ \E t \in Threads : Step(t)
    \/ \E t, u \in Threads : SetRoleRace(t, u)

Spec == Init /\ [][Next]_vars

\* Goroutines are scheduled fairly and every request to the server ends
\* (RequestEnds of module Session).
FairSpec == Spec /\ \A t \in Threads : WF_vars(Step(t))
-----------------------------------------------------------------------------
(* Properties *)

\* The metadata service never serves credentials that had expired when the
\* request arrived, whichever goroutine refreshes or replaces them meanwhile.
ServedFresh == \A t \in Threads : served[t] # None => served[t].exp >= arrived[t]

\* The recorded role is the one the current credentials are for, so that a
\* refresh asks for the same role, unless two SetCredentials have overlapped.
CoherentUnlessOverlap ==
    (creds # None /\ ~overlap /\ \A t \in Threads : pc[t] # "setRole")
        => creds.role = role

\* Every HTTP request and every CLI command is answered.
Answered == \A t \in Threads : (pc[t] # "idle") ~> (pc[t] = "idle")

\* "until it is reset or another role is assumed" (README.md:137): what refreshes
\* the credentials for an HTTP client changes their role only if a command of
\* the CLI, or a refresh that such a command overtook, has written the manager
\* since the refresh read m.role, or if two SetCredentials have overlapped.
RefreshKeepsRole ==
    [][\A t \in Threads :
        (SetCreds(t) /\ kind[t] = "http" /\ ~since[t] /\ ~overlap /\ ~overlap')
            => creds'.role = creds.role]_vars
=============================================================================
