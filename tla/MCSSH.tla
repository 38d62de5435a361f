-------------------------------- MODULE MCSSH --------------------------------
(* Instances of SSH for TLC. *)
EXTENDS SSH, TLC

CONSTANTS t1, t2, s1, s2, k1, k2, k3

\* A CLI with an SSH agent, one with another and a key file, one with only the
\* key file, and one with a key file that does not parse.
MCRequests == {[sock |-> s1, key |-> None], [sock |-> s2, key |-> k3],
               [sock |-> NoSock, key |-> k3], [sock |-> NoSock, key |-> BadKey]}

\* The first SSH agent loses or gains a key, the other has one or none.
MCRings == {s1 :> <<k1, k2>> @@ s2 :> <<k3>>, s1 :> <<k1>> @@ s2 :> <<>>}

\* Two CLIs with SSH agents that hold one key each.
TwoRequests == {[sock |-> s1, key |-> None], [sock |-> s2, key |-> None]}
TwoRings == {s1 :> <<k1>> @@ s2 :> <<k2>>}
=============================================================================
