--------------------------------- MODULE Arn ---------------------------------
(***************************************************************************)
(* The names of roles (BuildARN of server/credentials.go).  A name is what *)
(* strings.Split makes of it at its slashes: words, of which the first may *)
(* be the text "account:role", with or without "arn:aws:iam::" before it.  *)
(***************************************************************************)
EXTENDS Naturals, Sequences

CONSTANTS
    Words,           \* the parts of a name that say nothing of an account
    Accounts,        \* AWS accounts
    DefaultAccount,  \* the account of the server
    AccountAliases   \* configuration: words that stand for accounts

AccountPart == [arn : BOOLEAN, account : Accounts]

ASSUME ArnAssumption ==
    /\ DefaultAccount \in Accounts
    /\ DOMAIN AccountAliases \subseteq Words
    /\ \A w \in DOMAIN AccountAliases : AccountAliases[w] \in Accounts
    /\ Words \cap AccountPart = {}

\* A name as users and LDAP write it.
IsRoleName(t) ==
    \/ t \in Seq(Words) /\ Len(t) > 0
    \/ /\ t \in Seq(Words \cup AccountPart)
       /\ Len(t) > 1
       /\ t[1] \in AccountPart
       /\ \A i \in 2..Len(t) : t[i] \in Words

\* A name that starts with "arn:aws:iam".
IsArn(t) == IsRoleName(t) /\ t[1] \in AccountPart /\ t[1].arn

RoleOf(account) == [arn |-> TRUE, account |-> account]

IsAlias(role) == Len(role) = 2 /\ role[1] \in DOMAIN AccountAliases

BuildARN(role) ==
    IF IsAlias(role) THEN <<RoleOf(AccountAliases[role[1]]), role[2]>>
    ELSE IF role[1] \in AccountPart THEN [role EXCEPT ![1] = RoleOf(@.account)]
    ELSE <<RoleOf(DefaultAccount)>> \o role
=============================================================================
