-------------------------- MODULE CredentialService --------------------------
(***************************************************************************)
(* What Hologram promises to those who ask for credentials, whatever       *)
(* happens on the way: an agent is given credentials at most once per      *)
(* request, for the role it asked for, of a user one of whose keys it      *)
(* holds.  The key, the groups of the user and the default role are those  *)
(* of one content LDAP has had; the role is one that such a group has had, *)
(* perhaps in another content, for groups and users are searched one after *)
(* the other.                                                              *)
(***************************************************************************)
EXTENDS Arn, Functions

CONSTANTS Conns, Users, RoleNames, Keyring, Directories, EnableLDAPRoles, DefaultRole, None

VARIABLES
    seen,   \* the contents LDAP has had so far
    asked,  \* what each connection asks for: [kind, role], or None
    given   \* what its agent was given: [creds, role], or None

vars == <<seen, asked, given>>

Request == [kind : {"use"}, role : RoleNames] \cup [kind : {"me", "ping"}, role : {None}]

Init ==
    /\ \E d \in Directories : seen = {d}
    /\ asked = [c \in Conns |-> None]
    /\ given = [c \in Conns |-> None]

DirectoryChange ==
    /\ \E d \in Directories : seen' = seen \cup {d}
    /\ UNCHANGED <<asked, given>>

Ask(c, r) ==
    /\ asked[c] = None
    /\ asked' = [asked EXCEPT ![c] = r]
    /\ UNCHANGED <<seen, given>>

\* LDAP has listed the role for the group.
HadRole(g, role) ==
    \E e \in seen : /\ e.groups[g] # None
                   /\ \E a \in e.groups[g] : BuildARN(a) = BuildARN(role)

\* The user has a key of the agent and, if roles come from LDAP, is in a group
\* that has had the role.
Entitles(entry, c, role) ==
    /\ Range(Keyring[c]) \cap entry.keys # {}
    /\ EnableLDAPRoles => \E g \in entry.memberOf : HadRole(g, role)

RoleFor(r, entry) ==
    IF r.kind = "use" THEN r.role
    ELSE IF EnableLDAPRoles /\ entry.defaultRole # None THEN entry.defaultRole
    ELSE DefaultRole

Give(c, d, u) ==
    /\ asked[c] \in Request
    /\ asked[c].kind # "ping"
    /\ given[c] = None
    /\ d.users[u] # None
    /\ LET role == RoleFor(asked[c], d.users[u])
       IN  /\ Entitles(d.users[u], c, role)
           /\ given' = [given EXCEPT ![c] =
                           [creds |-> [name |-> u, arn |-> BuildARN(role)],
                            role |-> asked[c].role]]
    /\ UNCHANGED <<seen, asked>>

Next ==
    \/ DirectoryChange
    \/ \E c \in Conns : \/ \E r \in Request : Ask(c, r)
                        \/ \E d \in seen, u \in Users : Give(c, d, u)

Spec == Init /\ [][Next]_vars
=============================================================================
