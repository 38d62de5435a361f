------------------------------ MODULE SSHProofs ------------------------------
(* Proofs about SSH, for any number of goroutines, any requests and any      *)
(* keyrings.                                                                 *)
EXTENDS SSH, SequenceTheorems, TLAPS

\* What holds of each goroutine, whatever the others do to the variables.
SignerInv(t) ==
    /\ pc[t] = "idle" => mine[t] = None
    /\ pc[t] \in {"idle", "setSock"} => skip[t] = 0
    /\ pc[t] \in {"setSock", "setKey"} => mine[t] # None
    /\ pc[t] = "setKey" => mine[t].key # None
    /\ pc[t] = "signers" => /\ addr[t] \in Socks
                            /\ ~cause => skip[t] < Len(ring[addr[t]])
    /\ pc[t] = "sent" => signed[t] \in Keys /\ skip[t] <= LongestRing

\* A request that has set the variables and was not disturbed since then.
Undisturbed(t) == mine[t] # None /\ ~disturbed[t] /\ pc[t] \notin {"idle", "setSock"}

\* It finds in the variables what it has set, and skip counts the keys of its SSH
\* agent that were rejected.
OwnInv(t) ==
    LET r == mine[t]
    IN  /\ socketAddress = r.sock
        /\ pc[t] # "setKey" /\ r.key \in Keys => providedSSHKey = r.key
        /\ pc[t] = "signers" => addr[t] = r.sock
        /\ r.sock \in Socks =>
               /\ \A i \in 1..skip[t] : i <= Len(ring[r.sock]) => ring[r.sock][i] \in tried[t]
               /\ pc[t] = "sent" => /\ skip[t] < Len(ring[r.sock])
                                    /\ signed[t] = ring[r.sock][skip[t] + 1]
        /\ pc[t] = "sent" /\ r.sock \notin Socks /\ r.key \in Keys => signed[t] = r.key
        /\ pc[t] = "sent" /\ r.sock \notin Socks => signed[t] \in brought
        /\ pc[t] = "noKeys" => r.sock \in Socks /\ skip[t] >= Len(ring[r.sock])

ThreadInv(t) == SignerInv(t) /\ (Undisturbed(t) => OwnInv(t))

\* The agent dies for a cause, and has a key only if it came in a key file.
HistoryInv == DiesOnlyForCause /\ providedSSHKey \in brought \cup {None}

SSHInv == TypeOK /\ HistoryInv /\ \A t \in Threads : ThreadInv(t)
-----------------------------------------------------------------------------
LEMMA LongestIs ==
    LongestRing \in Nat /\ \A r \in Rings, s \in Socks : Len(r[s]) <= LongestRing
<1> DEFINE Lengths == {Len(r[s]) : r \in Rings, s \in Socks}
           Longest(n) == \A r \in Rings, s \in Socks : Len(r[s]) <= n
<1>1. LongestRing = CHOOSE n \in Lengths : Longest(n)
  BY SMT DEF LongestRing
<1>2. PICK r \in Rings, s \in Socks : Longest(Len(r[s]))
  BY Zenon, SSHAssumption
<1>3. \A q \in Rings, u \in Socks : Len(q[u]) \in Nat
  <2>1. \A q \in Rings, u \in Socks : q[u] \in Seq(Keys)
    BY Zenon, SSHAssumption
  <2>2. QED
    BY Zenon, <2>1, LenProperties
<1> HIDE DEF Longest
<1>4. Len(r[s]) \in Lengths
  BY SMT
<1>5. \A n \in Lengths : n \in Nat
  BY SMT, <1>3
<1> HIDE DEF Lengths
<1>6. LongestRing \in Lengths /\ Longest(LongestRing)
  BY Zenon, <1>1, <1>2, <1>4
<1>7. QED
  BY Zenon, <1>5, <1>6 DEF Longest

LEMMA RingType ==
    ASSUME TypeOK, NEW s \in Socks
    PROVE  /\ ring[s] \in Seq(Keys) /\ Len(ring[s]) \in Nat /\ Len(ring[s]) <= LongestRing
           /\ Range(ring[s]) = {ring[s][i] : i \in 1..Len(ring[s])}
<1>1. ring \in Rings
  BY Zenon DEF TypeOK
<1>2. ring[s] \in Seq(Keys)
  BY Zenon, <1>1, SSHAssumption
<1>3. Len(ring[s]) <= LongestRing
  BY Zenon, <1>1, LongestIs
<1>4. Len(ring[s]) \in Nat /\ DOMAIN ring[s] = 1..Len(ring[s])
  BY Zenon, <1>2, LenProperties
<1>5. QED
  BY Zenon, <1>2, <1>3, <1>4 DEF Range

LEMMA RequestType ==
    ASSUME TypeOK, NEW t \in Threads, mine[t] # None
    PROVE  /\ mine[t] \in Requests
           /\ mine[t].sock \in Socks \cup {NoSock}
           /\ mine[t].key \in Keys \cup {BadKey, None}
<1>1. mine[t] \in Requests
  BY Zenon DEF TypeOK
<1>2. mine[t] \in [sock : Socks \cup {NoSock}, key : Keys \cup {BadKey, None}]
  BY Zenon, <1>1, SSHAssumption
<1>3. QED
  BY Zenon, <1>1, <1>2

\* A goroutine that does nothing keeps its invariant, unless others change the
\* variables; and then it is disturbed.
LEMMA OthersKept ==
    ASSUME NEW u, ThreadInv(u),
           pc'[u] = pc[u], mine'[u] = mine[u], skip'[u] = skip[u], addr'[u] = addr[u],
           signed'[u] = signed[u], tried'[u] = tried[u], ring' = ring, cause => cause',
           \/ pc[u] = "idle"
           \/ disturbed'[u]
           \/ UNCHANGED shared /\ (disturbed[u] <=> disturbed'[u])
    PROVE  ThreadInv(u)'
<1>1. SignerInv(u)'
  BY Zenon DEF ThreadInv, SignerInv
<1>2. ASSUME Undisturbed(u)' PROVE OwnInv(u)'
  <2>1. Undisturbed(u) /\ UNCHANGED <<socketAddress, providedSSHKey, brought>>
    BY Zenon, <1>2 DEF Undisturbed, shared
  <2>2. QED
    BY Zenon, <2>1 DEF ThreadInv, OwnInv
<1>3. QED
  BY Zenon, <1>1, <1>2 DEF ThreadInv

LEMMA InitSSHInv == Init => SSHInv
<1> SUFFICES ASSUME Init PROVE SSHInv
  OBVIOUS
<1>1. 0 \in 0..(LongestRing + 1) /\ ringChanges \in 0..MaxRingChanges
  BY LongestIs, SSHAssumption DEF Init
<1>2. TypeOK
  BY Zenon, <1>1 DEF Init, TypeOK
<1>3. HistoryInv
  BY Zenon DEF Init, HistoryInv, DiesOnlyForCause
<1>4. \A t \in Threads : pc[t] = "idle" /\ mine[t] = None /\ skip[t] = 0
  BY Zenon DEF Init
<1>5. \A t \in Threads : ThreadInv(t)
  BY Zenon, <1>4 DEF ThreadInv, SignerInv, Undisturbed
<1>6. QED
  BY Zenon, <1>2, <1>3, <1>5 DEF SSHInv
-----------------------------------------------------------------------------
(* Requests and the package variables *)

LEMMA BeginStep ==
    ASSUME SSHInv, NEW t \in Threads,
           (\E r \in Requests : HandleConnection(t, r)) \/ Refresh(t)
    PROVE  SSHInv'
<1>1. PICK p \in {"setSock", "ask"}, m \in Requests \cup {None} :
        /\ pc' = [pc EXCEPT ![t] = p] /\ mine' = [mine EXCEPT ![t] = m]
        /\ p = "setSock" => m # None
        /\ p = "ask" => m = None
  <2>1. CASE Refresh(t)
    <3>1. pc[t] = "idle" /\ mine' = mine /\ pc' = [pc EXCEPT ![t] = "ask"]
      BY Zenon, <2>1 DEF Refresh, Goto
    <3>2. mine[t] = None
      BY Zenon, <3>1 DEF SSHInv, ThreadInv, SignerInv
    <3>3. mine = [mine EXCEPT ![t] = None]
      BY Zenon, <3>2 DEF SSHInv, TypeOK
    <3>4. QED
      BY Zenon, <3>1, <3>3
  <2>2. CASE \E r \in Requests : HandleConnection(t, r)
    BY Zenon, <2>2, SSHAssumption DEF HandleConnection, Goto
  <2>3. QED
    BY Zenon, <2>1, <2>2
<1>2. /\ UNCHANGED <<socketAddress, providedSSHKey, brought, ring, ringChanges, up, cause>>
      /\ UNCHANGED <<skip, addr, signed, tried, disturbed>> /\ pc[t] = "idle"
  BY Zenon DEF HandleConnection, Refresh, shared, env
<1>3. TypeOK'
  BY Zenon, <1>1, <1>2 DEF SSHInv, TypeOK
<1>4. HistoryInv'
  BY Zenon, <1>2 DEF SSHInv, HistoryInv, DiesOnlyForCause
<1>5. pc'[t] = p /\ mine'[t] = m
  BY Zenon, <1>1 DEF SSHInv, TypeOK
<1>6. ThreadInv(t)'
  BY Zenon, <1>1, <1>2, <1>5 DEF SSHInv, ThreadInv, SignerInv, Undisturbed
<1>7. ASSUME NEW u \in Threads, u # t PROVE ThreadInv(u)'
  <2>1. pc'[u] = pc[u] /\ mine'[u] = mine[u]
    BY Zenon, <1>1, <1>7 DEF SSHInv, TypeOK
  <2>2. QED
    BY Zenon, <1>2, <2>1, OthersKept DEF SSHInv, shared
<1>8. QED
  BY Zenon, <1>3, <1>4, <1>6, <1>7 DEF SSHInv

LEMMA SetSockStep ==
    ASSUME SSHInv, NEW t \in Threads, SetSock(t)
    PROVE  SSHInv'
<1>1. PICK p \in {"ask", "setKey"} :
        /\ pc' = [pc EXCEPT ![t] = p] /\ (p = "ask" <=> mine[t].key = None)
  BY Zenon DEF SetSock, Goto
<1>2. /\ UNCHANGED <<providedSSHKey, brought, ring, ringChanges, up, cause, mine, skip, addr, signed, tried>>
      /\ pc[t] = "setSock" /\ socketAddress' = mine[t].sock
      /\ disturbed' = [u \in Threads |-> u # t /\ (disturbed[u] \/ pc[u] # "idle")]
  BY Zenon DEF SetSock, NewSock, DisturbAllBut, env
<1>3. mine[t] # None /\ skip[t] = 0
  BY Zenon, <1>2 DEF SSHInv, ThreadInv, SignerInv
<1>4. mine[t].sock \in Socks \cup {NoSock}
  BY Zenon, <1>3, RequestType DEF SSHInv
<1>5. TypeOK'
  <2>1. disturbed' \in [Threads -> BOOLEAN]
    BY Zenon, <1>2
  <2>2. socketAddress' \in Socks \cup {NoSock, Garbage}
    BY Zenon, <1>2, <1>4
  <2>3. QED
    BY Zenon, <1>1, <1>2, <2>1, <2>2 DEF SSHInv, TypeOK
<1>6. HistoryInv'
  BY Zenon, <1>2 DEF SSHInv, HistoryInv, DiesOnlyForCause
<1>7. pc'[t] = p
  BY Zenon, <1>1 DEF SSHInv, TypeOK
<1>8. ThreadInv(t)'
  <2>1. SignerInv(t)'
    BY Zenon, <1>1, <1>2, <1>3, <1>7 DEF SignerInv
  <2>2. 1..skip'[t] = {}
    BY <1>2, <1>3
  <2>3. OwnInv(t)'
    BY Zenon, <1>1, <1>2, <1>7, <2>2, SSHAssumption DEF OwnInv
  <2>4. QED
    BY Zenon, <2>1, <2>3 DEF ThreadInv
<1>9. ASSUME NEW u \in Threads, u # t PROVE ThreadInv(u)'
  <2>1. pc'[u] = pc[u] /\ (pc[u] = "idle" \/ disturbed'[u])
    BY Zenon, <1>1, <1>2, <1>9 DEF SSHInv, TypeOK
  <2>2. QED
    BY Zenon, <1>2, <2>1, OthersKept DEF SSHInv
<1>10. QED
  BY Zenon, <1>5, <1>6, <1>8, <1>9 DEF SSHInv

LEMMA SetSockRaceStep ==
    ASSUME SSHInv, NEW t \in Threads, NEW u \in Threads, SetSockRace(t, u)
    PROVE  SSHInv'
<1>1. /\ UNCHANGED <<providedSSHKey, brought, ring, ringChanges, up, mine, skip, addr, signed, tried>>
      /\ pc[t] = "setSock" /\ pc[u] = "setSock" /\ socketAddress' = Garbage /\ cause' = TRUE
      /\ pc' = [v \in Threads |-> IF v \notin {t, u} THEN pc[v]
                                  ELSE IF mine[v].key = None THEN "ask" ELSE "setKey"]
      /\ disturbed' = [v \in Threads |-> v # None /\ (disturbed[v] \/ pc[v] # "idle")]
  BY Zenon DEF SetSockRace, DisturbAllBut
<1>2. \A v \in Threads : v # None /\ (pc[v] = "idle" \/ disturbed'[v])
  BY Zenon, <1>1, SSHAssumption
<1>3. TypeOK'
  <2>1. disturbed' \in [Threads -> BOOLEAN] /\ cause' \in BOOLEAN
    BY Zenon, <1>1
  <2>2. pc' \in [Threads -> {"idle", "setSock", "setKey", "ask", "sign", "dial", "signers",
                             "sent", "ok", "noKeys", "error"}]
    BY Zenon, <1>1 DEF SSHInv, TypeOK
  <2>3. QED
    BY Zenon, <1>1, <2>1, <2>2 DEF SSHInv, TypeOK
<1>4. HistoryInv'
  BY Zenon, <1>1 DEF SSHInv, HistoryInv, DiesOnlyForCause
<1>5. ASSUME NEW v \in Threads PROVE ThreadInv(v)'
  <2>1. CASE v \in {t, u}
    <3>1. pc'[v] \in {"ask", "setKey"} /\ pc[v] = "setSock"
      BY Zenon, <1>1, <2>1
    <3>2. mine[v] # None
      BY Zenon, <3>1 DEF SSHInv, ThreadInv, SignerInv
    <3>3. SignerInv(v)'
      BY Zenon, <1>1, <3>1, <3>2 DEF SignerInv
    <3>4. disturbed'[v]
      BY Zenon, <1>2, <3>1
    <3>5. QED
      BY Zenon, <3>3, <3>4 DEF ThreadInv, Undisturbed
  <2>2. CASE v \notin {t, u}
    <3>1. pc'[v] = pc[v]
      BY Zenon, <1>1, <2>2
    <3>2. QED
      BY Zenon, <1>1, <1>2, <3>1, OthersKept DEF SSHInv
  <2>3. QED
    BY Zenon, <2>1, <2>2
<1>6. QED
  BY Zenon, <1>3, <1>4, <1>5 DEF SSHInv

LEMMA SetKeyStep ==
    ASSUME SSHInv, NEW t \in Threads, SetKey(t)
    PROVE  SSHInv'
<1>1. /\ UNCHANGED <<socketAddress, ring, ringChanges, up, cause, mine, skip, addr, signed, tried>>
      /\ pc[t] = "setKey" /\ pc' = [pc EXCEPT ![t] = "ask"]
      /\ \/ mine[t].key = BadKey /\ UNCHANGED <<providedSSHKey, brought, disturbed>>
         \/ /\ mine[t].key # BadKey /\ providedSSHKey' = mine[t].key
            /\ brought' = brought \cup {mine[t].key}
            /\ disturbed' = [u \in Threads |-> disturbed[u] \/ (u # t /\ pc[u] # "idle")]
  BY Zenon DEF SetKey, Goto, env
<1>2. mine[t] # None /\ mine[t].key \in Keys \cup {BadKey}
  BY Zenon, <1>1, RequestType DEF SSHInv, ThreadInv, SignerInv
<1>3. pc'[t] = "ask" /\ \A u \in Threads \ {t} : pc'[u] = pc[u]
  BY Zenon, <1>1 DEF SSHInv, TypeOK
<1>4. TypeOK'
  <2>1. /\ disturbed' \in [Threads -> BOOLEAN]
        /\ providedSSHKey' \in Keys \cup {None} /\ brought' \subseteq Keys
    BY Zenon, <1>1, <1>2 DEF SSHInv, TypeOK
  <2>2. QED
    BY Zenon, <1>1, <2>1 DEF SSHInv, TypeOK
<1>5. HistoryInv'
  BY Zenon, <1>1 DEF SSHInv, HistoryInv, DiesOnlyForCause
<1>6. ThreadInv(t)'
  <2>1. SignerInv(t)'
    BY Zenon, <1>1, <1>3 DEF SSHInv, ThreadInv, SignerInv
  <2>2. ASSUME Undisturbed(t)' PROVE OwnInv(t)'
    <3>1. ~disturbed[t]
      BY Zenon, <1>1, <2>2 DEF Undisturbed
    <3>2. OwnInv(t)
      BY Zenon, <1>1, <1>2, <3>1 DEF SSHInv, ThreadInv, Undisturbed
    <3>3. mine[t].key \in Keys => providedSSHKey' = mine[t].key
      BY Zenon, <1>1, SSHAssumption
    <3>4. QED
      BY Zenon, <1>1, <1>3, <3>2, <3>3 DEF OwnInv
  <2>3. QED
    BY Zenon, <2>1, <2>2 DEF ThreadInv
<1>7. ASSUME NEW u \in Threads, u # t PROVE ThreadInv(u)'
  <2>1. CASE mine[t].key = BadKey
    <3>1. UNCHANGED shared /\ disturbed' = disturbed
      BY Zenon, <1>1, <2>1 DEF shared
    <3>2. QED
      BY Zenon, <1>1, <1>3, <1>7, <3>1, OthersKept DEF SSHInv
  <2>2. CASE mine[t].key # BadKey
    <3>1. pc[u] = "idle" \/ disturbed'[u]
      BY Zenon, <1>1, <1>7, <2>2
    <3>2. QED
      BY Zenon, <1>1, <1>3, <1>7, <3>1, OthersKept DEF SSHInv
  <2>3. QED
    BY Zenon, <2>1, <2>2
<1>8. QED
  BY Zenon, <1>4, <1>5, <1>6, <1>7 DEF SSHInv
-----------------------------------------------------------------------------
(* requestCredentials and SSHSign *)

LEMMA AskStep ==
    ASSUME SSHInv, NEW t \in Threads, Ask(t)
    PROVE  SSHInv'
<1>1. PICK p \in {"sign", "error"} : pc' = [pc EXCEPT ![t] = p]
  BY Zenon DEF Ask, Goto
<1>2. /\ UNCHANGED <<socketAddress, providedSSHKey, brought, ring, ringChanges, up, cause>>
      /\ UNCHANGED <<mine, skip, addr, signed, tried, disturbed>> /\ pc[t] = "ask"
  BY Zenon DEF Ask, shared, env
<1>3. pc'[t] = p /\ \A u \in Threads \ {t} : pc'[u] = pc[u]
  BY Zenon, <1>1 DEF SSHInv, TypeOK
<1>4. TypeOK'
  BY Zenon, <1>1, <1>2 DEF SSHInv, TypeOK
<1>5. HistoryInv'
  BY Zenon, <1>2 DEF SSHInv, HistoryInv, DiesOnlyForCause
<1>6. ThreadInv(t)'
  BY Zenon, <1>1, <1>2, <1>3 DEF SSHInv, ThreadInv, SignerInv, Undisturbed, OwnInv
<1>7. ASSUME NEW u \in Threads, u # t PROVE ThreadInv(u)'
  BY Zenon, <1>2, <1>3, <1>7, OthersKept DEF SSHInv, shared
<1>8. QED
  BY Zenon, <1>4, <1>5, <1>6, <1>7 DEF SSHInv

\* The end of the process leaves the goroutines where they are.
LEMMA DeathStep ==
    ASSUME SSHInv, UNCHANGED <<shared, ring, ringChanges, pc, mine, skip, addr, signed, tried,
                               disturbed>>,
           up' = FALSE, cause' = TRUE
    PROVE  SSHInv'
<1>1. UNCHANGED <<socketAddress, providedSSHKey, brought, ring, pc, mine, skip, addr, signed, tried,
                  disturbed>>
  BY Zenon DEF shared
<1>2. TypeOK'
  BY Zenon, <1>1 DEF SSHInv, TypeOK
<1>3. HistoryInv'
  BY Zenon, <1>1 DEF SSHInv, HistoryInv, DiesOnlyForCause
<1>4. ASSUME NEW u \in Threads PROVE ThreadInv(u)'
  BY Zenon, <1>1, OthersKept DEF SSHInv
<1>5. QED
  BY Zenon, <1>2, <1>3, <1>4 DEF SSHInv

LEMMA ChooseSignerStep ==
    ASSUME SSHInv, NEW t \in Threads, ChooseSigner(t)
    PROVE  SSHInv'
<1>1. /\ UNCHANGED <<socketAddress, providedSSHKey, brought, ring, ringChanges, mine, skip, addr, tried,
                     disturbed>>
      /\ pc[t] = "sign" /\ UNCHANGED shared
  BY Zenon DEF ChooseSigner, shared
<1>2. CASE up' = FALSE /\ cause' = TRUE /\ UNCHANGED <<pc, signed>>
  BY Zenon, <1>1, <1>2, DeathStep
<1>3. ASSUME NEW p \in {"dial", "error"}, pc' = [pc EXCEPT ![t] = p], UNCHANGED <<signed, up, cause>>
      PROVE  SSHInv'
  <2>1. pc'[t] = p /\ \A u \in Threads \ {t} : pc'[u] = pc[u]
    BY Zenon, <1>3 DEF SSHInv, TypeOK
  <2>2. TypeOK'
    BY Zenon, <1>1, <1>3 DEF SSHInv, TypeOK
  <2>3. HistoryInv'
    BY Zenon, <1>1, <1>3 DEF SSHInv, HistoryInv, DiesOnlyForCause
  <2>4. ThreadInv(t)'
    BY Zenon, <1>1, <1>3, <2>1 DEF SSHInv, ThreadInv, SignerInv, Undisturbed, OwnInv
  <2>5. ASSUME NEW u \in Threads, u # t PROVE ThreadInv(u)'
    BY Zenon, <1>1, <1>3, <2>1, <2>5, OthersKept DEF SSHInv
  <2>6. QED
    BY Zenon, <2>2, <2>3, <2>4, <2>5 DEF SSHInv
<1>4. ASSUME socketAddress = NoSock, MayUseProvided(t), pc' = [pc EXCEPT ![t] = "sent"],
             signed' = [signed EXCEPT ![t] = providedSSHKey], UNCHANGED <<up, cause>>
      PROVE  SSHInv'
  <2>1. /\ pc'[t] = "sent" /\ \A u \in Threads \ {t} : pc'[u] = pc[u]
        /\ signed'[t] = providedSSHKey /\ \A u \in Threads \ {t} : signed'[u] = signed[u]
    BY Zenon, <1>4 DEF SSHInv, TypeOK
  <2>2. skip[t] = 0 /\ providedSSHKey \in Keys
    BY Zenon, <1>4 DEF MayUseProvided, SSHInv, TypeOK
  <2>3. skip[t] <= LongestRing
    BY <2>2, LongestIs
  <2>4. TypeOK'
    BY Zenon, <1>1, <1>4, <2>2 DEF SSHInv, TypeOK
  <2>5. HistoryInv'
    BY Zenon, <1>1, <1>4 DEF SSHInv, HistoryInv, DiesOnlyForCause
  <2>6. SignerInv(t)'
    BY Zenon, <1>1, <2>1, <2>2, <2>3 DEF SignerInv
  <2>7. ASSUME Undisturbed(t)' PROVE OwnInv(t)'
    <3>1. OwnInv(t)
      BY Zenon, <1>1, <2>7 DEF SSHInv, ThreadInv, Undisturbed
    <3>2. mine[t].sock \notin Socks
      BY Zenon, <1>4, <3>1, SSHAssumption DEF OwnInv
    <3>3. QED
      BY Zenon, <1>1, <2>1, <2>2, <3>1, <3>2, SSHAssumption DEF OwnInv, SSHInv, HistoryInv
  <2>8. ASSUME NEW u \in Threads, u # t PROVE ThreadInv(u)'
    BY Zenon, <1>1, <1>4, <2>1, <2>8, OthersKept DEF SSHInv
  <2>9. QED
    BY Zenon, <2>4, <2>5, <2>6, <2>7, <2>8 DEF SSHInv, ThreadInv
<1>5. \A a \in SockReads : a = NoSock => socketAddress = NoSock
  BY Zenon, SSHAssumption DEF SockReads
<1>6. QED
  BY Zenon, <1>2, <1>3, <1>4, <1>5 DEF ChooseSigner, Goto

LEMMA DialStep ==
    ASSUME SSHInv, NEW t \in Threads, DialAndList(t)
    PROVE  SSHInv'
<1>1. /\ UNCHANGED <<socketAddress, providedSSHKey, brought, ring, ringChanges, mine, skip, signed, tried,
                     disturbed>>
      /\ pc[t] = "dial" /\ UNCHANGED shared
  BY Zenon DEF DialAndList, shared
<1>2. CASE up' = FALSE /\ cause' = TRUE /\ UNCHANGED <<pc, addr>>
  BY Zenon, <1>1, <1>2, DeathStep
<1>3. CASE pc' = [pc EXCEPT ![t] = "error"] /\ UNCHANGED <<up, addr, cause>>
  <2>1. pc'[t] = "error" /\ \A u \in Threads \ {t} : pc'[u] = pc[u]
    BY Zenon, <1>3 DEF SSHInv, TypeOK
  <2>2. TypeOK'
    BY Zenon, <1>1, <1>3 DEF SSHInv, TypeOK
  <2>3. HistoryInv'
    BY Zenon, <1>1, <1>3 DEF SSHInv, HistoryInv, DiesOnlyForCause
  <2>4. ThreadInv(t)'
    BY Zenon, <1>1, <1>3, <2>1 DEF SSHInv, ThreadInv, SignerInv, Undisturbed, OwnInv
  <2>5. ASSUME NEW u \in Threads, u # t PROVE ThreadInv(u)'
    BY Zenon, <1>1, <1>3, <2>1, <2>5, OthersKept DEF SSHInv
  <2>6. QED
    BY Zenon, <2>2, <2>3, <2>4, <2>5 DEF SSHInv
<1>4. CASE /\ socketAddress \in Socks /\ addr' = [addr EXCEPT ![t] = socketAddress]
           /\ pc' = [pc EXCEPT ![t] = IF Exhausted(t) THEN "noKeys" ELSE "signers"]
           /\ UNCHANGED <<up, cause>>
  <2>1. PICK p \in {"noKeys", "signers"} :
          /\ pc' = [pc EXCEPT ![t] = p]
          /\ p = "noKeys" => skip[t] >= Len(ring[socketAddress])
          /\ p = "signers" => ~(skip[t] >= Len(ring[socketAddress]))
    BY Zenon, <1>4 DEF Exhausted
  <2>2. p = "signers" => skip[t] < Len(ring[socketAddress])
    <3>1. skip[t] \in 0..(LongestRing + 1) /\ Len(ring[socketAddress]) \in Nat
      BY Zenon, <1>4, RingType DEF SSHInv, TypeOK
    <3>2. QED
      BY <2>1, <3>1, LongestIs
  <2>3. /\ pc'[t] = p /\ \A u \in Threads \ {t} : pc'[u] = pc[u]
        /\ addr'[t] = socketAddress /\ \A u \in Threads \ {t} : addr'[u] = addr[u]
    BY Zenon, <1>4, <2>1 DEF SSHInv, TypeOK
  <2>4. TypeOK'
    BY Zenon, <1>1, <1>4, <2>1 DEF SSHInv, TypeOK
  <2>5. HistoryInv'
    BY Zenon, <1>1, <1>4 DEF SSHInv, HistoryInv, DiesOnlyForCause
  <2>6. SignerInv(t)'
    BY Zenon, <1>1, <1>4, <2>1, <2>2, <2>3 DEF SignerInv
  <2>7. ASSUME Undisturbed(t)' PROVE OwnInv(t)'
    <3>1. OwnInv(t)
      BY Zenon, <1>1, <2>7 DEF SSHInv, ThreadInv, Undisturbed
    <3>2. QED
      BY Zenon, <1>1, <1>4, <2>1, <2>3, <3>1 DEF OwnInv
  <2>8. ASSUME NEW u \in Threads, u # t PROVE ThreadInv(u)'
    BY Zenon, <1>1, <1>4, <2>3, <2>8, OthersKept DEF SSHInv
  <2>9. QED
    BY Zenon, <2>4, <2>5, <2>6, <2>7, <2>8 DEF SSHInv, ThreadInv
<1>5. QED
  BY Zenon, <1>2, <1>3, <1>4 DEF DialAndList, Goto

LEMMA SignStep ==
    ASSUME SSHInv, NEW t \in Threads, Sign(t)
    PROVE  SSHInv'
<1>1. /\ UNCHANGED <<socketAddress, providedSSHKey, brought, ring, ringChanges, cause, mine, skip, addr,
                     tried, disturbed>>
      /\ pc[t] = "signers" /\ UNCHANGED shared
  BY Zenon DEF Sign, shared
<1>2. addr[t] \in Socks /\ (~cause => skip[t] < Len(ring[addr[t]]))
  BY Zenon, <1>1 DEF SSHInv, ThreadInv, SignerInv
<1>3. PICK n \in Nat : n = skip[t]
  <2>1. \A i \in 0..(LongestRing + 1) : i \in Nat
    BY LongestIs
  <2>2. QED
    BY Zenon, <2>1 DEF SSHInv, TypeOK
<1>4. PICK keys \in Seq(Keys) : keys = ring[addr[t]] /\ Len(keys) \in Nat /\ Len(keys) <= LongestRing
  BY Zenon, <1>2, RingType DEF SSHInv
<1>5. CASE n < Len(keys) /\ signed' = [signed EXCEPT ![t] = keys[n + 1]]
           /\ pc' = [pc EXCEPT ![t] = "sent"] /\ UNCHANGED up
  <2>1. n + 1 \in 1..Len(keys) /\ n <= LongestRing
    BY <1>3, <1>4, <1>5, LongestIs
  <2>2. keys[n + 1] \in Keys
    BY Zenon, <1>4, <2>1, ElementOfSeq
  <2>3. /\ pc'[t] = "sent" /\ \A u \in Threads \ {t} : pc'[u] = pc[u]
        /\ signed'[t] = keys[n + 1] /\ \A u \in Threads \ {t} : signed'[u] = signed[u]
    BY Zenon, <1>5 DEF SSHInv, TypeOK
  <2>4. TypeOK'
    BY Zenon, <1>1, <1>5, <2>2 DEF SSHInv, TypeOK
  <2>5. HistoryInv'
    BY Zenon, <1>1, <1>5 DEF SSHInv, HistoryInv, DiesOnlyForCause
  <2>6. SignerInv(t)'
    BY Zenon, <1>1, <1>3, <2>1, <2>2, <2>3 DEF SignerInv
  <2>7. ASSUME Undisturbed(t)' PROVE OwnInv(t)'
    <3>1. OwnInv(t)
      BY Zenon, <1>1, <2>7 DEF SSHInv, ThreadInv, Undisturbed
    <3>2. mine[t].sock = addr[t]
      BY Zenon, <1>1, <3>1 DEF OwnInv
    <3>3. QED
      BY Zenon, <1>1, <1>2, <1>3, <1>4, <1>5, <2>3, <3>1, <3>2 DEF OwnInv
  <2>8. ASSUME NEW u \in Threads, u # t PROVE ThreadInv(u)'
    BY Zenon, <1>1, <2>3, <2>8, OthersKept DEF SSHInv
  <2>9. QED
    BY Zenon, <2>4, <2>5, <2>6, <2>7, <2>8 DEF SSHInv, ThreadInv
<1>6. CASE n >= Len(keys) /\ up' = FALSE /\ UNCHANGED <<pc, signed>>
  <2>1. ~(n < Len(keys))
    BY <1>4, <1>6
  <2>2. cause
    BY Zenon, <1>2, <1>3, <1>4, <2>1
  <2>3. cause' = TRUE
    BY Zenon, <1>1, <2>2 DEF SSHInv, TypeOK
  <2>4. QED
    BY Zenon, <1>1, <1>6, <2>3, DeathStep
<1>7. CASE pc' = [pc EXCEPT ![t] = "error"] /\ UNCHANGED <<up, signed>>
  <2>1. pc'[t] = "error" /\ \A u \in Threads \ {t} : pc'[u] = pc[u]
    BY Zenon, <1>7 DEF SSHInv, TypeOK
  <2>2. TypeOK'
    BY Zenon, <1>1, <1>7 DEF SSHInv, TypeOK
  <2>3. HistoryInv'
    BY Zenon, <1>1, <1>7 DEF SSHInv, HistoryInv, DiesOnlyForCause
  <2>4. ThreadInv(t)'
    BY Zenon, <1>1, <1>7, <2>1 DEF SSHInv, ThreadInv, SignerInv, Undisturbed, OwnInv
  <2>5. ASSUME NEW u \in Threads, u # t PROVE ThreadInv(u)'
    BY Zenon, <1>1, <1>7, <2>1, <2>5, OthersKept DEF SSHInv
  <2>6. QED
    BY Zenon, <2>2, <2>3, <2>4, <2>5 DEF SSHInv
<1>8. QED
  BY Zenon, <1>3, <1>4, <1>5, <1>6, <1>7 DEF Sign, Goto

LEMMA VerdictStep ==
    ASSUME SSHInv, NEW t \in Threads, Verdict(t)
    PROVE  SSHInv'
<1>1. /\ UNCHANGED <<socketAddress, providedSSHKey, brought, ring, ringChanges, up, cause, mine, addr, signed,
                     disturbed>>
      /\ pc[t] = "sent" /\ UNCHANGED shared
  BY Zenon DEF Verdict, shared, env
<1>2. HistoryInv'
  BY Zenon, <1>1 DEF SSHInv, HistoryInv, DiesOnlyForCause
<1>3. ASSUME NEW p \in {"ok", "error"}, pc' = [pc EXCEPT ![t] = p], UNCHANGED <<skip, tried>>
      PROVE  SSHInv'
  <2>1. pc'[t] = p /\ \A u \in Threads \ {t} : pc'[u] = pc[u]
    BY Zenon, <1>3 DEF SSHInv, TypeOK
  <2>2. TypeOK'
    BY Zenon, <1>1, <1>3 DEF SSHInv, TypeOK
  <2>3. ThreadInv(t)'
    BY Zenon, <1>1, <1>3, <2>1 DEF SSHInv, ThreadInv, SignerInv, Undisturbed, OwnInv
  <2>4. ASSUME NEW u \in Threads, u # t PROVE ThreadInv(u)'
    BY Zenon, <1>1, <1>3, <2>1, <2>4, OthersKept DEF SSHInv
  <2>5. QED
    BY Zenon, <1>2, <2>2, <2>3, <2>4 DEF SSHInv
<1>4. CASE /\ tried' = [tried EXCEPT ![t] = @ \cup {signed[t]}]
           /\ skip' = [skip EXCEPT ![t] = skip[t] + 1] /\ pc' = [pc EXCEPT ![t] = "sign"]
  <2>1. signed[t] \in Keys /\ skip[t] <= LongestRing
    BY Zenon, <1>1 DEF SSHInv, ThreadInv, SignerInv
  <2>2. PICK n \in 0..(LongestRing + 1) : n = skip[t] /\ n <= LongestRing
    BY Zenon, <2>1 DEF SSHInv, TypeOK
  <2>3. n + 1 \in 0..(LongestRing + 1) /\ \A i \in 1..(n + 1) : i \in 1..n \/ i = n + 1
    BY <2>2, LongestIs
  <2>4. /\ pc'[t] = "sign" /\ \A u \in Threads \ {t} : pc'[u] = pc[u]
        /\ skip'[t] = n + 1 /\ \A u \in Threads \ {t} : skip'[u] = skip[u]
        /\ tried'[t] = tried[t] \cup {signed[t]} /\ \A u \in Threads \ {t} : tried'[u] = tried[u]
    BY Zenon, <1>4, <2>2 DEF SSHInv, TypeOK
  <2>5. TypeOK'
    <3>1. tried' \in [Threads -> SUBSET Keys]
      BY Zenon, <1>4, <2>1 DEF SSHInv, TypeOK
    <3>2. skip' \in [Threads -> 0..(LongestRing + 1)]
      BY Zenon, <1>4, <2>2, <2>3 DEF SSHInv, TypeOK
    <3>3. QED
      BY Zenon, <1>1, <1>4, <3>1, <3>2 DEF SSHInv, TypeOK
  <2>6. SignerInv(t)'
    BY Zenon, <2>4 DEF SignerInv
  <2>7. ASSUME Undisturbed(t)' PROVE OwnInv(t)'
    <3>1. OwnInv(t)
      BY Zenon, <1>1, <2>7 DEF SSHInv, ThreadInv, Undisturbed
    <3>2. mine[t].sock \in Socks =>
            \A i \in 1..(n + 1) : i <= Len(ring[mine[t].sock]) => ring[mine[t].sock][i] \in tried'[t]
      BY Zenon, <1>1, <2>2, <2>3, <2>4, <3>1 DEF OwnInv
    <3>3. QED
      BY Zenon, <1>1, <2>4, <3>1, <3>2 DEF OwnInv
  <2>8. ASSUME NEW u \in Threads, u # t PROVE ThreadInv(u)'
    BY Zenon, <1>1, <2>4, <2>8, OthersKept DEF SSHInv
  <2>9. QED
    BY Zenon, <1>2, <2>5, <2>6, <2>7, <2>8 DEF SSHInv, ThreadInv
<1>5. QED
  BY Zenon, <1>3, <1>4 DEF Verdict, Goto, NextSkip

LEMMA ReplyStep ==
    ASSUME SSHInv, NEW t \in Threads, Reply(t)
    PROVE  SSHInv'
<1>1. /\ UNCHANGED <<socketAddress, providedSSHKey, brought, ring, ringChanges, up, cause>> /\ UNCHANGED shared
      /\ pc' = [pc EXCEPT ![t] = "idle"] /\ mine' = [mine EXCEPT ![t] = None]
      /\ skip' = [skip EXCEPT ![t] = 0] /\ addr' = [addr EXCEPT ![t] = NoSock]
      /\ signed' = [signed EXCEPT ![t] = None] /\ tried' = [tried EXCEPT ![t] = {}]
      /\ disturbed' = [disturbed EXCEPT ![t] = FALSE]
  BY Zenon DEF Reply, Goto, shared, env
<1>2. 0 \in 0..(LongestRing + 1)
  BY LongestIs
<1>3. TypeOK'
  BY Zenon, <1>1, <1>2 DEF SSHInv, TypeOK
<1>4. HistoryInv'
  BY Zenon, <1>1 DEF SSHInv, HistoryInv, DiesOnlyForCause
<1>5. ThreadInv(t)'
  <2>1. pc'[t] = "idle" /\ mine'[t] = None /\ skip'[t] = 0
    BY Zenon, <1>1 DEF SSHInv, TypeOK
  <2>2. QED
    BY Zenon, <2>1 DEF ThreadInv, SignerInv, Undisturbed
<1>6. ASSUME NEW u \in Threads, u # t PROVE ThreadInv(u)'
  <2>1. /\ pc'[u] = pc[u] /\ mine'[u] = mine[u] /\ skip'[u] = skip[u] /\ addr'[u] = addr[u]
        /\ signed'[u] = signed[u] /\ tried'[u] = tried[u] /\ disturbed'[u] = disturbed[u]
    BY Zenon, <1>1, <1>6 DEF SSHInv, TypeOK
  <2>2. QED
    BY Zenon, <1>1, <2>1, OthersKept DEF SSHInv
<1>7. QED
  BY Zenon, <1>3, <1>4, <1>5, <1>6 DEF SSHInv

LEMMA KeyringStep ==
    ASSUME SSHInv, KeyringChange
    PROVE  SSHInv'
<1>1. /\ UNCHANGED <<socketAddress, providedSSHKey, brought, up, pc, mine, skip, addr, signed, tried>>
      /\ up /\ ringChanges < MaxRingChanges /\ ringChanges' = ringChanges + 1 /\ ring' \in Rings
      /\ cause' = (cause \/ \E t \in Threads : pc[t] = "signers"
                                  /\ Len(ring'[addr[t]]) < Len(ring[addr[t]]))
      /\ disturbed' = [v \in Threads |-> v # None /\ (disturbed[v] \/ pc[v] # "idle")]
  BY Zenon DEF KeyringChange, DisturbAllBut, shared
<1>2. ringChanges' \in 0..MaxRingChanges
  <2>1. ringChanges \in 0..MaxRingChanges
    BY Zenon DEF SSHInv, TypeOK
  <2>2. QED
    BY <1>1, <2>1, SSHAssumption
<1>3. TypeOK'
  <2>1. disturbed' \in [Threads -> BOOLEAN] /\ cause' \in BOOLEAN
    BY Zenon, <1>1
  <2>2. QED
    BY Zenon, <1>1, <1>2, <2>1 DEF SSHInv, TypeOK
<1>4. HistoryInv'
  BY Zenon, <1>1 DEF SSHInv, HistoryInv, DiesOnlyForCause
<1>5. ASSUME NEW t \in Threads PROVE ThreadInv(t)'
  <2>1. SignerInv(t)
    BY Zenon DEF SSHInv, ThreadInv
  <2>2. ASSUME pc[t] = "signers", ~cause' PROVE skip[t] < Len(ring'[addr[t]])
    <3>1. /\ ~cause /\ ~(Len(ring'[addr[t]]) < Len(ring[addr[t]]))
      BY Zenon, <1>1, <2>2
    <3>2. addr[t] \in Socks /\ skip[t] < Len(ring[addr[t]])
      BY Zenon, <2>1, <2>2, <3>1 DEF SignerInv
    <3>3. Len(ring[addr[t]]) \in Nat /\ Len(ring'[addr[t]]) \in Nat /\ skip[t] \in 0..(LongestRing + 1)
      <4>1. ring \in Rings /\ skip[t] \in 0..(LongestRing + 1)
        BY Zenon DEF SSHInv, TypeOK
      <4>2. \A r \in Rings : r \in [Socks -> Seq(Keys)]
        BY Zenon, SSHAssumption
      <4>3. ring[addr[t]] \in Seq(Keys) /\ ring'[addr[t]] \in Seq(Keys)
        BY Zenon, <1>1, <3>2, <4>1, <4>2
      <4>4. \A q \in Seq(Keys) : Len(q) \in Nat
        BY Zenon, LenProperties
      <4>5. QED
        BY Zenon, <4>1, <4>3, <4>4
    <3>4. QED
      BY <3>1, <3>2, <3>3, LongestIs
  <2>3. SignerInv(t)'
    BY Zenon, <1>1, <2>1, <2>2 DEF SignerInv
  <2>4. ~Undisturbed(t)'
    BY Zenon, <1>1, SSHAssumption DEF Undisturbed
  <2>5. QED
    BY Zenon, <2>3, <2>4 DEF ThreadInv
<1>6. QED
  BY Zenon, <1>3, <1>4, <1>5 DEF SSHInv
-----------------------------------------------------------------------------
LEMMA SSHStep == SSHInv /\ [Next]_vars => SSHInv'
<1> SUFFICES ASSUME SSHInv, [Next]_vars PROVE SSHInv'
  OBVIOUS
<1>1. CASE \E t \in Threads : (\E r \in Requests : HandleConnection(t, r)) \/ Refresh(t)
  BY Zenon, <1>1, BeginStep
<1>2. CASE \E t \in Threads : Step(t)
  BY Zenon, <1>2, SetSockStep, SetKeyStep, AskStep, ChooseSignerStep, DialStep, SignStep,
     VerdictStep, ReplyStep DEF Step
<1>3. CASE \E t, u \in Threads : SetSockRace(t, u)
  BY Zenon, <1>3, SetSockRaceStep
<1>4. CASE KeyringChange
  BY Zenon, <1>4, KeyringStep
<1>5. CASE UNCHANGED vars
  <2>1. UNCHANGED <<socketAddress, providedSSHKey, brought, ring, ringChanges, up, cause, pc, mine, skip,
                    addr, signed, tried, disturbed>>
    BY Zenon, <1>5 DEF vars, shared, env
  <2>2. TypeOK' /\ HistoryInv'
    BY Zenon, <2>1 DEF SSHInv, TypeOK, HistoryInv, DiesOnlyForCause
  <2>3. ASSUME NEW u \in Threads PROVE ThreadInv(u)'
    BY Zenon, <2>1, OthersKept DEF SSHInv, shared
  <2>4. QED
    BY Zenon, <2>2, <2>3 DEF SSHInv
<1>6. QED
  BY Zenon, <1>1, <1>2, <1>3, <1>4, <1>5 DEF Next

\* What SSHSign and the client's loop know of the shared variables at each place
\* stays true, whatever the other goroutines set.
THEOREM SSHInvariant == Spec => []SSHInv
<1>1. QED
  BY InitSSHInv, SSHStep, PTL DEF Spec

\* The package variables and what each goroutine of SSHSign holds keep their
\* types; skip never passes the longest keyring by more than one.
THEOREM SSHTypeCorrect == Spec => []TypeOK
<1>1. SSHInv => TypeOK
  BY Zenon DEF SSHInv
<1>2. QED
  BY <1>1, SSHInvariant, PTL

\* The agent dies in SSHSign only for a keyring that became shorter between List
\* and Signers, or for a variable used while it was assigned.
THEOREM DiesForCause == Spec => []DiesOnlyForCause
<1>1. SSHInv => DiesOnlyForCause
  BY Zenon DEF SSHInv, HistoryInv
<1>2. QED
  BY <1>1, SSHInvariant, PTL

\* A request that nobody disturbs is signed with a key of the SSH agent it names,
\* or with the key file it brings; one that brings neither is signed, if at all,
\* with a key that an earlier request brought in a key file.  This holds for any
\* number of goroutines that share the variables.
THEOREM SignsWithOwnKeys == Spec => []UndisturbedSignsOwn
<1>1. SSHInv => UndisturbedSignsOwn
  <2> SUFFICES ASSUME SSHInv, NEW t \in Threads, mine[t] # None, ~disturbed[t], pc[t] = "sent"
               PROVE  /\ BringsKeys(mine[t]) => signed[t] \in OwnKeys(mine[t])
                      /\ ~BringsKeys(mine[t]) => signed[t] \in brought
    BY Zenon DEF UndisturbedSignsOwn
  <2>1. OwnInv(t) /\ signed[t] \in Keys
    BY Zenon DEF SSHInv, ThreadInv, SignerInv, Undisturbed
  <2>2. CASE mine[t].sock \in Socks
    <3>1. mine[t].sock # NoSock
      BY Zenon, <2>2, SSHAssumption
    <3>2. skip[t] < Len(ring[mine[t].sock]) /\ signed[t] = ring[mine[t].sock][skip[t] + 1]
      BY Zenon, <2>1, <2>2 DEF OwnInv
    <3>3. skip[t] \in 0..(LongestRing + 1) /\ Len(ring[mine[t].sock]) \in Nat
      BY Zenon, <2>2, RingType DEF SSHInv, TypeOK
    <3>4. skip[t] + 1 \in 1..Len(ring[mine[t].sock])
      BY <3>2, <3>3, LongestIs
    <3>5. signed[t] \in Range(ring[mine[t].sock])
      BY Zenon, <2>2, <3>2, <3>4, RingType DEF SSHInv
    <3>6. QED
      BY Zenon, <3>1, <3>5 DEF OwnKeys, BringsKeys
  <2>3. CASE mine[t].sock \notin Socks
    <3>1. mine[t].sock = NoSock
      BY Zenon, <2>3, RequestType DEF SSHInv
    <3>2. QED
      BY Zenon, <2>1, <2>3, <3>1 DEF OwnInv, OwnKeys, BringsKeys
  <2>4. QED
    BY Zenon, <2>2, <2>3
<1>2. QED
  BY <1>1, SSHInvariant, PTL

\* Such a request is told that no key worked only when every key of its SSH agent
\* was rejected.
THEOREM TriesAllKeys == Spec => []UndisturbedTriesAll
<1>1. SSHInv => UndisturbedTriesAll
  <2> SUFFICES ASSUME SSHInv, NEW t \in Threads, mine[t] # None, ~disturbed[t], pc[t] = "noKeys"
               PROVE  Range(ring[mine[t].sock]) \subseteq tried[t]
    BY Zenon DEF UndisturbedTriesAll
  <2>1. OwnInv(t)
    BY Zenon DEF SSHInv, ThreadInv, Undisturbed
  <2>2. /\ mine[t].sock \in Socks /\ skip[t] >= Len(ring[mine[t].sock])
        /\ \A i \in 1..skip[t] : i <= Len(ring[mine[t].sock]) => ring[mine[t].sock][i] \in tried[t]
    BY Zenon, <2>1 DEF OwnInv
  <2>3. skip[t] \in 0..(LongestRing + 1) /\ Len(ring[mine[t].sock]) \in Nat
    BY Zenon, <2>2, RingType DEF SSHInv, TypeOK
  <2>4. \A i \in 1..Len(ring[mine[t].sock]) : i \in 1..skip[t] /\ i <= Len(ring[mine[t].sock])
    BY <2>2, <2>3, LongestIs
  <2>5. \A i \in 1..Len(ring[mine[t].sock]) : ring[mine[t].sock][i] \in tried[t]
    BY Zenon, <2>2, <2>4
  <2>6. Range(ring[mine[t].sock]) = {ring[mine[t].sock][i] : i \in 1..Len(ring[mine[t].sock])}
    BY Zenon, <2>2, RingType DEF SSHInv
  <2>7. QED
    BY Zenon, <2>5, <2>6
<1>2. QED
  BY <1>1, SSHInvariant, PTL
=============================================================================
