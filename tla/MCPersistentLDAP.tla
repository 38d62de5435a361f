-------------------------- MODULE MCPersistentLDAP --------------------------
(* Instances of PersistentLDAP for TLC. *)
EXTENDS PersistentLDAP, TLC

CONSTANTS u1, k1, k2, p1, p2

\* The first key comes from the SSH agent, the second from the second file of
\* ~/.ssh with a wrong password; the last run finds no key.
MCRequests == {[user |-> u1, pass |-> p1, agent |-> <<k1, k2>>, files |-> <<k2>>],
               [user |-> u1, pass |-> p2, agent |-> <<>>, files |-> <<None, k2>>],
               [user |-> u1, pass |-> p1, agent |-> <<>>, files |-> <<None, None>>]}

\* An administrator sets either password, and drops the keys.
MCEntries == {[pass |-> p1, keys |-> {}], [pass |-> p2, keys |-> {}]}

\* Goroutines are interchangeable.
ThreadSymmetry == Permutations(Threads)
=============================================================================
