----------------------------- MODULE MCUserCache -----------------------------
(* Instances of UserCache for TLC. *)
EXTENDS UserCache, TLC

CONSTANTS main, h1, u1, u2, g1, k1, k2, raw1, alt1, raw2, junk, dev, ops

\* raw1 and alt1 are the two encodings of one key that Update accepts.
MCParseKey == raw1 :> k1 @@ alt1 :> k1 @@ raw2 :> k2 @@ junk :> Unparsable

\* The only key, where keys do not matter.
OneParseKey == raw1 :> k1

Entry(ks, gs, r) == [keys |-> ks, memberOf |-> gs, defaultRole |-> r]

\* Users told apart by their keys alone.
KeyEntries == {Entry(ks, {}, NoRole) : ks \in {{alt1}, {raw1, raw2, junk}}}

\* Users told apart by their roles alone.
RoleEntries == {Entry({raw1}, {}, ops), Entry({raw1}, {g1}, NoRole)}
=============================================================================
