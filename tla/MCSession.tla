------------------------------ MODULE MCSession ------------------------------
(* Instances of Session for TLC. *)
EXTENDS Session, TLC

CONSTANTS c1, c2, u1, u2, k1, k2, k3, g1, devWord, opsWord, prod, here, there

\* "dev", "there:role/ops", and "prod/ops", another name of the same role.
dev == <<devWord>>
ops == <<[arn |-> FALSE, account |-> there], opsWord>>
opsAlias == <<prod, opsWord>>

MCRoles == {dev, ops, opsAlias}
MCAliases == prod :> there

\* One agent offers a key nobody has registered before its own; the other has
\* one key.
MCKeyring == c1 :> <<k3, k1>> @@ c2 :> <<k2>>

Entry(ks, gs) == [keys |-> ks, memberOf |-> gs, defaultRole |-> None]

\* u1 has another key and is no longer in the group, which loses ops, and u2, now
\* in the group, has u1's old key; or the reverse.
MCDirectories ==
    {[users |-> u1 :> Entry({k2}, {g1}) @@ u2 :> None,
      groups |-> g1 :> {dev, opsAlias}],
     [users |-> u1 :> [Entry({k1}, {}) EXCEPT !.defaultRole = ops] @@ u2 :> Entry({k2}, {g1}),
      groups |-> g1 :> {dev}]}

\* A request for ops, and one for the default role.
MCRequests == {[kind |-> "use", role |-> ops], [kind |-> "me", role |-> None]}

\* One user, for the runs about a single request.
OneRole == {dev}
OneKeyring == c1 :> <<k1>>
StaticDirectory == {[users |-> u1 :> Entry({k1}, {}), groups |-> <<>>]}
AllKinds == {[kind |-> "use", role |-> dev], [kind |-> "me", role |-> None],
             [kind |-> "ping", role |-> None]}
OneDirectory == {[users |-> u1 :> Entry({k1}, {g1}), groups |-> g1 :> {dev}],
                 [users |-> u1 :> Entry({k1}, {g1}), groups |-> g1 :> {dev, ops}]}
UseRequests == {[kind |-> "use", role |-> r] : r \in MCRoles}
=============================================================================
