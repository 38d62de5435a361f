---------------------------- MODULE ManagerProofs ----------------------------
(* Proofs about CredentialsExpirationManager, for any number of goroutines,  *)
(* any set of roles, any lifetime and any bound on the clock.                *)
EXTENDS CredentialsExpirationManager, TLAPS

\* What each goroutine knows of the credentials at each point of its code.
LocalInv ==
    \A t \in Threads :
        /\ arrived[t] <= now
        /\ pc[t] \in {"setCreds", "setRole"} =>
               /\ got[t] \in Creds
               /\ got[t].exp >= now
               /\ got[t].role = want[t]
        /\ pc[t] \in {"expiry", "role1", "role2", "setRole", "return"} => creds # None
        /\ pc[t] = "return" => creds.exp >= arrived[t]
        /\ pc[t] = "setRole" => creds.exp >= arrived[t]
        /\ pc[t] # "reply" => served[t] = None
        /\ kind[t] = "cli" =>
               /\ served[t] = None
               /\ pc[t] \notin {"get", "expiry", "role1", "role2", "return"}

\* While no two SetCredentials have overlapped, at most one goroutine is between
\* its two assignments, and it is the one that wrote m.creds.
SetInv ==
    (creds # None /\ ~overlap) =>
        \/ /\ \A t \in Threads : pc[t] # "setRole"
           /\ creds.role = role
        \/ \E t \in Threads : /\ pc[t] = "setRole"
                              /\ creds.role = want[t]
                              /\ \A u \in Threads \ {t} : pc[u] # "setRole"

\* A refresh that has had no news since it read m.role asks for, and brings, the
\* role that m.role still is.
RefreshInv ==
    \A t \in Threads :
        kind[t] = "http" /\ pc[t] \in {"request", "setCreds", "setRole"} =>
            /\ creds # None
            /\ ~since[t] /\ want[t] # Garbage => want[t] = role
-----------------------------------------------------------------------------
\* The fields of every goroutine stay in their types, and so do the manager's.
THEOREM TypeCorrect == Spec => []TypeOK
<1> USE ManagerAssumption, NoneAssumption
<1>1. Init => TypeOK
  <2> SUFFICES ASSUME Init PROVE TypeOK
    BY Zenon
  <2>1. now \in 0..MaxTime /\ arrived \in [Threads -> 0..MaxTime]
    BY DEF Init
  <2>2. QED
    BY Zenon, <2>1 DEF Init, TypeOK, RoleOrNone
<1>2. TypeOK /\ [Next]_vars => TypeOK'
  <2> SUFFICES ASSUME TypeOK, [Next]_vars PROVE TypeOK'
    BY Zenon
  <2>1. CASE Tick
    BY <2>1 DEF Tick, TypeOK, localVars
  <2>2. ASSUME NEW t \in Threads, NEW r \in AgentRequests, CliRequest(t, r)
        PROVE  TypeOK'
    BY Zenon, <2>2 DEF AgentRequests, CliRequest, TypeOK
  <2>3. ASSUME NEW t \in Threads, HttpRequest(t) PROVE TypeOK'
    BY Zenon, <2>3 DEF HttpRequest, TypeOK
  <2>4. ASSUME NEW t \in Threads, Step(t) PROVE TypeOK'
    <3>1. CASE GetCredentials(t)
      BY Zenon, <3>1 DEF GetCredentials, TypeOK
    <3>2. CASE CheckExpiration(t)
      BY Zenon, <3>2 DEF CheckExpiration, TypeOK
    <3>3. CASE ChooseRefresh(t)
      BY <3>3 DEF ChooseRefresh, RoleReads, TypeOK, RoleOrNone
    <3>4. CASE Granted(t)
      <4>1. [role |-> want[t], exp |-> now + Lifetime] \in Creds
        BY <3>4 DEF Granted, TypeOK, Creds
      <4>2. QED
        BY Zenon, <3>4, <4>1 DEF Granted, TypeOK
    <3>5. CASE Refused(t)
      BY Zenon, <3>5 DEF Refused, TypeOK
    <3>6. CASE SetCreds(t)
      BY Zenon, <3>6 DEF SetCreds, TypeOK
    <3>7. CASE SetRole(t)
      BY Zenon, <3>7 DEF SetRole, AfterSet, TypeOK
    <3>8. CASE ReturnCreds(t)
      BY Zenon, <3>8 DEF ReturnCreds, TypeOK
    <3>9. CASE ReplyCli(t) \/ ReplyHttp(t)
      BY <3>9 DEF ReplyCli, ReplyHttp, TypeOK, RoleOrNone
    <3>10. QED
      BY Zenon, <2>4, <3>1, <3>2, <3>3, <3>4, <3>5, <3>6, <3>7, <3>8, <3>9 DEF Step
  <2>5. ASSUME NEW t \in Threads, NEW u \in Threads, SetRoleRace(t, u)
        PROVE  TypeOK'
    BY Zenon, <2>5 DEF SetRoleRace, AfterSet, TypeOK
  <2>6. CASE UNCHANGED vars
    BY Zenon, <2>6 DEF vars, localVars, TypeOK
  <2>7. QED
    BY Zenon, <2>1, <2>2, <2>3, <2>4, <2>5, <2>6 DEF Next
<1>3. QED
  BY <1>1, <1>2, PTL DEF Spec
-----------------------------------------------------------------------------
LEMMA InitInv == Init => LocalInv /\ SetInv /\ ServedFresh
  BY ManagerAssumption DEF Init, LocalInv, SetInv, ServedFresh

\* Every step keeps what each goroutine knows: only SetCreds writes m.creds, and
\* what it writes has not expired yet.
LEMMA LocalStep ==
    ASSUME TypeOK, LocalInv, [Next]_vars
    PROVE  LocalInv'
<1> USE ManagerAssumption, NoneAssumption
<1>1. CASE Tick
  <2>1. now \in Nat /\ now' = now + 1
    BY <1>1 DEF Tick, TypeOK
  <2>2. QED
    BY <1>1, <2>1 DEF Tick, TypeOK, LocalInv, localVars, Creds
<1>2. ASSUME NEW t \in Threads, NEW r \in AgentRequests, CliRequest(t, r)
      PROVE  LocalInv'
  BY ZenonT(60), <1>2 DEF AgentRequests, CliRequest, TypeOK, LocalInv
<1>3. ASSUME NEW t \in Threads, HttpRequest(t) PROVE LocalInv'
  BY <1>3 DEF HttpRequest, TypeOK, LocalInv
<1>4. ASSUME NEW t \in Threads, Step(t) PROVE LocalInv'
  <2>1. CASE GetCredentials(t)
    BY Zenon, <2>1 DEF GetCredentials, TypeOK, LocalInv
  <2>2. CASE CheckExpiration(t)
    BY <2>2 DEF CheckExpiration, TypeOK, LocalInv, Creds
  <2>3. CASE ChooseRefresh(t)
    BY <2>3 DEF ChooseRefresh, TypeOK, LocalInv
  <2>4. CASE Granted(t)
    <3>1. got'[t] = [role |-> want[t], exp |-> now + Lifetime] /\ got'[t] \in Creds
      BY <2>4 DEF Granted, TypeOK, Creds
    <3>2. QED
      BY <2>4, <3>1 DEF Granted, TypeOK, LocalInv, Creds
  <2>5. CASE Refused(t)
    BY Zenon, <2>5 DEF Refused, TypeOK, LocalInv
  <2>6. CASE SetCreds(t)
    <3>1. creds' \in Creds /\ creds'.exp >= now /\ creds' # None
      BY Zenon, <2>6 DEF SetCreds, LocalInv
    <3>2. QED
      BY <2>6, <3>1 DEF SetCreds, TypeOK, LocalInv, Creds
  <2>7. CASE SetRole(t)
    BY Zenon, <2>7 DEF SetRole, AfterSet, TypeOK, LocalInv
  <2>8. CASE ReturnCreds(t)
    BY ZenonT(60), <2>8 DEF ReturnCreds, TypeOK, LocalInv
  <2>9. CASE ReplyCli(t)
    BY Zenon, <2>9 DEF ReplyCli, TypeOK, LocalInv
  <2>10. CASE ReplyHttp(t)
    BY <2>10 DEF ReplyHttp, TypeOK, LocalInv
  <2>11. QED
    BY Zenon, <1>4, <2>1, <2>2, <2>3, <2>4, <2>5, <2>6, <2>7, <2>8, <2>9,
       <2>10 DEF Step
<1>5. ASSUME NEW t \in Threads, NEW u \in Threads, SetRoleRace(t, u)
      PROVE  LocalInv'
  BY <1>5 DEF SetRoleRace, AfterSet, TypeOK, LocalInv
<1>6. CASE UNCHANGED vars
  BY Zenon, <1>6 DEF vars, localVars, LocalInv
<1>7. QED
  BY Zenon, <1>1, <1>2, <1>3, <1>4, <1>5, <1>6 DEF Next

\* Every step keeps SetInv: the writer of m.creds alone may be about to write
\* m.role, and it writes the role of its credentials.
LEMMA SetStep ==
    ASSUME TypeOK, LocalInv, SetInv, [Next]_vars
    PROVE  SetInv'
<1> USE ManagerAssumption, NoneAssumption
<1>1. CASE Tick
  BY Zenon, <1>1 DEF Tick, SetInv, localVars
<1>2. ASSUME NEW t \in Threads, NEW r \in AgentRequests, CliRequest(t, r)
      PROVE  SetInv'
  BY <1>2 DEF AgentRequests, CliRequest, TypeOK, SetInv
<1>3. ASSUME NEW t \in Threads, HttpRequest(t) PROVE SetInv'
  BY <1>3 DEF HttpRequest, TypeOK, SetInv
<1>4. ASSUME NEW t \in Threads, Step(t) PROVE SetInv'
  <2>1. CASE GetCredentials(t)
    BY <2>1 DEF GetCredentials, TypeOK, SetInv
  <2>2. CASE CheckExpiration(t)
    BY <2>2 DEF CheckExpiration, TypeOK, SetInv
  <2>3. CASE ChooseRefresh(t)
    BY <2>3 DEF ChooseRefresh, TypeOK, SetInv
  <2>4. CASE Granted(t)
    BY <2>4 DEF Granted, TypeOK, SetInv
  <2>5. CASE Refused(t)
    BY <2>5 DEF Refused, TypeOK, SetInv
  <2>6. CASE SetCreds(t)
    BY <2>6 DEF SetCreds, TypeOK, LocalInv, SetInv
  <2>7. CASE SetRole(t)
    BY <2>7 DEF SetRole, AfterSet, TypeOK, LocalInv, SetInv
  <2>8. CASE ReturnCreds(t)
    BY <2>8 DEF ReturnCreds, TypeOK, SetInv
  <2>9. CASE ReplyCli(t) \/ ReplyHttp(t)
    BY <2>9 DEF ReplyCli, ReplyHttp, TypeOK, SetInv
  <2>10. QED
    BY Zenon, <1>4, <2>1, <2>2, <2>3, <2>4, <2>5, <2>6, <2>7, <2>8, <2>9 DEF Step
<1>5. ASSUME NEW t \in Threads, NEW u \in Threads, SetRoleRace(t, u)
      PROVE  SetInv'
  BY Zenon, <1>5 DEF SetRoleRace, AfterSet, TypeOK, LocalInv, SetInv
<1>6. CASE UNCHANGED vars
  BY Zenon, <1>6 DEF vars, localVars, SetInv
<1>7. QED
  BY Zenon, <1>1, <1>2, <1>3, <1>4, <1>5, <1>6 DEF Next

\* Only ReturnCreds fills in an answer, and it reads m.creds when LocalInv says
\* that they expire no earlier than the request arrived.
LEMMA ServedStep ==
    ASSUME TypeOK, LocalInv, ServedFresh, [Next]_vars
    PROVE  ServedFresh'
<1> USE ManagerAssumption, NoneAssumption
<1>1. ASSUME NEW t \in Threads, HttpRequest(t) PROVE ServedFresh'
  BY Zenon, <1>1 DEF HttpRequest, TypeOK, LocalInv, ServedFresh, Creds
<1>2. ASSUME NEW t \in Threads, ReturnCreds(t) PROVE ServedFresh'
  BY Zenon, <1>2 DEF ReturnCreds, TypeOK, LocalInv, ServedFresh
<1>3. ASSUME NEW t \in Threads, ReplyHttp(t) PROVE ServedFresh'
  BY Zenon, <1>3 DEF ReplyHttp, TypeOK, ServedFresh
<1>4. CASE UNCHANGED <<served, arrived>>
  BY Zenon, <1>4 DEF ServedFresh
<1>5. QED
  BY Zenon, <1>1, <1>2, <1>3, <1>4 DEF Next, Step, Tick, CliRequest, GetCredentials,
     CheckExpiration, ChooseRefresh, Granted, Refused, SetCreds, SetRole,
     SetRoleRace, ReplyCli, vars, localVars
-----------------------------------------------------------------------------
LEMMA Invariance == Spec => [](LocalInv /\ SetInv /\ ServedFresh)
<1>1. TypeOK /\ (LocalInv /\ SetInv /\ ServedFresh) /\ [Next]_vars
          => (LocalInv /\ SetInv /\ ServedFresh)'
  BY Zenon, LocalStep, SetStep, ServedStep
<1>2. QED
  BY <1>1, InitInv, TypeCorrect, PTL DEF Spec

\* getCredentials of the metadata service never answers with credentials that
\* had expired when the request arrived.
THEOREM ServedFreshAlways == Spec => []ServedFresh
  BY Invariance, PTL

\* m.role is the role of m.creds whenever no SetCredentials is half done, unless
\* the last write of m.creds fell inside another SetCredentials.
THEOREM CoherenceAlways == Spec => []CoherentUnlessOverlap
<1>1. SetInv => CoherentUnlessOverlap
  BY Zenon DEF SetInv, CoherentUnlessOverlap
<1>2. QED
  BY <1>1, Invariance, PTL
-----------------------------------------------------------------------------
\* Every step keeps RefreshInv: m.role changes only with news.
LEMMA RefreshStep ==
    ASSUME TypeOK, LocalInv, RefreshInv, [Next]_vars
    PROVE  RefreshInv'
<1> USE ManagerAssumption, NoneAssumption
<1>1. CASE Tick
  BY Zenon, <1>1 DEF Tick, RefreshInv, localVars
<1>2. ASSUME NEW t \in Threads, NEW r \in AgentRequests, CliRequest(t, r)
      PROVE  RefreshInv'
  BY Zenon, <1>2 DEF CliRequest, TypeOK, RefreshInv
<1>3. ASSUME NEW t \in Threads, HttpRequest(t) PROVE RefreshInv'
  BY Zenon, <1>3 DEF HttpRequest, TypeOK, RefreshInv
<1>4. ASSUME NEW t \in Threads, Step(t) PROVE RefreshInv'
  <2>1. CASE GetCredentials(t) \/ CheckExpiration(t) \/ Refused(t) \/ ReturnCreds(t)
    BY <2>1 DEF GetCredentials, CheckExpiration, Refused, ReturnCreds, TypeOK, RefreshInv
  <2>2. CASE ChooseRefresh(t)
    BY <2>2 DEF ChooseRefresh, RoleReads, TypeOK, LocalInv, RefreshInv
  <2>3. CASE Granted(t)
    BY Zenon, <2>3 DEF Granted, TypeOK, RefreshInv
  <2>4. CASE SetCreds(t)
    BY Zenon, <2>4 DEF SetCreds, News, TypeOK, LocalInv, RefreshInv
  <2>5. CASE SetRole(t)
    <3>1. want[t] # Garbage
      BY <2>5 DEF SetRole, LocalInv, Creds, RoleOrNone
    <3>2. \A u \in Threads : since'[u] = (since[u] \/ News(t))
      BY Zenon, <2>5 DEF SetRole
    <3>3. ASSUME NEW u \in Threads, ~since'[u] PROVE role' = role /\ ~since[u]
      BY Zenon, <2>5, <3>1, <3>2, <3>3 DEF SetRole, News, TypeOK, RefreshInv
    <3>4. QED
      BY Zenon, <2>5, <3>3 DEF SetRole, AfterSet, TypeOK, RefreshInv
  <2>6. CASE ReplyCli(t) \/ ReplyHttp(t)
    BY <2>6 DEF ReplyCli, ReplyHttp, TypeOK, RefreshInv
  <2>7. QED
    BY Zenon, <1>4, <2>1, <2>2, <2>3, <2>4, <2>5, <2>6 DEF Step
<1>5. ASSUME NEW t \in Threads, NEW u \in Threads, SetRoleRace(t, u)
      PROVE  RefreshInv'
  <2>1. want[t] # Garbage /\ want[u] # Garbage /\ want[t] # want[u]
    BY <1>5 DEF SetRoleRace, LocalInv, Creds, RoleOrNone
  <2>2. News(t) \/ News(u)
    BY Zenon, <1>5, <2>1 DEF SetRoleRace, News, TypeOK, RefreshInv
  <2>3. \A v \in Threads : since'[v]
    BY Zenon, <1>5, <2>2 DEF SetRoleRace
  <2>4. QED
    BY Zenon, <1>5, <2>3 DEF SetRoleRace, AfterSet, TypeOK, RefreshInv
<1>6. CASE UNCHANGED vars
  BY Zenon, <1>6 DEF vars, localVars, RefreshInv
<1>7. QED
  BY <1>1, <1>2, <1>3, <1>4, <1>5, <1>6 DEF Next

\* A refresh without news replaces the credentials by credentials for the same
\* role: at that moment m.role is the role of both.
THEOREM RefreshKeepsRoleAlways == Spec => RefreshKeepsRole
<1> DEFINE Keeps == \A t \in Threads :
                      (SetCreds(t) /\ kind[t] = "http" /\ ~since[t] /\ ~overlap /\ ~overlap')
                          => creds'.role = creds.role
<1>1. TypeOK /\ LocalInv /\ SetInv /\ RefreshInv /\ [Next]_vars => [Keeps]_vars
  <2> SUFFICES ASSUME TypeOK, LocalInv, SetInv, RefreshInv, NEW t \in Threads, SetCreds(t),
                      kind[t] = "http", ~since[t], ~overlap, ~overlap'
               PROVE  creds'.role = creds.role
    BY Zenon
  <2>1. creds'.role = want[t] /\ want[t] # Garbage
    BY Zenon, ManagerAssumption DEF SetCreds, LocalInv, Creds, RoleOrNone
  <2>2. want[t] = role /\ creds # None
    BY Zenon, <2>1 DEF SetCreds, RefreshInv
  <2>3. \A u \in Threads : pc[u] # "setRole"
    BY Zenon DEF SetCreds
  <2>4. creds.role = role
    BY Zenon, <2>2, <2>3 DEF SetInv
  <2>5. QED
    BY Zenon, <2>1, <2>2, <2>4
<1>2. Init => RefreshInv
  BY Zenon DEF Init, RefreshInv
<1>3. TypeOK /\ LocalInv /\ RefreshInv /\ [Next]_vars => RefreshInv'
  BY Zenon, RefreshStep
<1> HIDE DEF Keeps
<1>4. Spec => [][Keeps]_vars
  BY <1>1, <1>2, <1>3, TypeCorrect, Invariance, PTL DEF Spec
<1>5. QED
  BY Zenon, <1>4 DEF Keeps, RefreshKeepsRole
=============================================================================
