------------------------- MODULE AgentProcessProofs --------------------------
(* Proofs about AgentProcess, for any number of agents and any ports.        *)
EXTENDS AgentProcess, TLAPS

\* The three invariants need each other: only the owner of the socket file can
\* remove it, and an agent leaves its file behind only while it owns one.
SocketInv == TypeOK /\ OwnSocket /\ CleanExit

LEMMA InitSocketInv == Init => SocketInv
<1> SUFFICES ASSUME Init PROVE SocketInv
  OBVIOUS
<1>1. terms \in 0..MaxTerms /\ faults \in 0..MaxFaults
  BY AgentAssumption DEF Init
<1>2. QED
  BY Zenon, <1>1, AgentAssumption DEF Init, SocketInv, TypeOK, OwnSocket, CleanExit

\* A process that does not own the file can go, whatever ended it.
LEMMA GoneKeepsFile ==
    ASSUME SocketInv, NEW a \in Agents, Gone(a), sock # a,
           terms' \in 0..MaxTerms, faults' \in 0..MaxFaults,
           killed' \in BOOLEAN, killed => killed'
    PROVE  SocketInv'
<1>1. UNCHANGED sock /\ \A b \in Agents \ {a} : pc'[b] = pc[b]
  BY Zenon DEF SocketInv, TypeOK, Gone
<1>2. pc'[a] = "down"
  BY Zenon DEF SocketInv, TypeOK, Gone
<1>3. OwnSocket'
  BY Zenon, <1>1, <1>2 DEF SocketInv, OwnSocket
<1>4. CleanExit'
  BY Zenon, <1>1 DEF SocketInv, CleanExit
<1>5. TypeOK'
  BY Zenon, <1>1, <1>2 DEF SocketInv, TypeOK, Gone
<1>6. QED
  BY Zenon, <1>3, <1>4, <1>5 DEF SocketInv

\* A killed process can go with or without a file.
LEMMA KilledLeavesFile ==
    ASSUME SocketInv, NEW a \in Agents, Gone(a), killed' = TRUE,
           terms' \in 0..MaxTerms, faults' \in 0..MaxFaults
    PROVE  SocketInv'
<1>1. CASE sock # a
  BY Zenon, <1>1, GoneKeepsFile
<1>2. CASE sock = a
  <2>1. sock' = Stale
    BY Zenon, <1>2 DEF Gone
  <2>2. \A b \in Agents : pc'[b] \notin {"chmod", "notify", "online", "leaving"}
    BY Zenon, <1>2 DEF SocketInv, TypeOK, OwnSocket, Gone
  <2>3. TypeOK'
    BY Zenon, <2>1, AgentAssumption DEF SocketInv, TypeOK, Gone
  <2>4. QED
    BY Zenon, <2>2, <2>3 DEF SocketInv, OwnSocket, CleanExit
<1>3. QED
  BY Zenon, <1>1, <1>2

\* One step of main of an agent.
LEMMA MainKeepsSocket ==
    ASSUME SocketInv, NEW a \in Agents, Main(a)
    PROVE  SocketInv'
<1>1. ASSUME Gone(a), sock # a, UNCHANGED <<terms, faults, killed>>
      PROVE  SocketInv'
  BY Zenon, <1>1, GoneKeepsFile DEF SocketInv, TypeOK
<1>2. sock = a => pc[a] \in {"chmod", "notify", "online", "leaving"}
  BY Zenon DEF SocketInv, TypeOK
<1>3. CASE BindMetadata(a)
  <2>1. CASE PortFree(a)
    BY Zenon, <1>2, <1>3, <2>1
       DEF BindMetadata, Goto, SocketInv, TypeOK, OwnSocket, CleanExit
  <2>2. CASE ~PortFree(a)
    BY Zenon, <1>1, <1>2, <1>3, <2>2 DEF BindMetadata
  <2>3. QED
    BY Zenon, <2>1, <2>2
<1>4. CASE MakeClient(a)
  BY Zenon, <1>2, <1>4 DEF MakeClient, Goto, SocketInv, TypeOK, OwnSocket, CleanExit
<1>5. CASE StartCliHandler(a)
  <2>1. CASE SocketFree
    <3>1. \A b \in Agents : pc[b] \notin {"chmod", "notify", "online", "leaving"}
      BY Zenon, <2>1, AgentAssumption DEF SocketInv, OwnSocket, SocketFree
    <3>2. sock' = a /\ pc' = [pc EXCEPT ![a] = "chmod"]
          /\ UNCHANGED <<term, boot, reachable, terms, faults, killed>>
      BY Zenon, <1>5, <2>1 DEF StartCliHandler, Goto
    <3>3. QED
      BY Zenon, <3>1, <3>2, AgentAssumption DEF SocketInv, TypeOK, OwnSocket, CleanExit
  <2>2. CASE ~SocketFree
    BY Zenon, <1>1, <1>2, <1>5, <2>2 DEF StartCliHandler
  <2>3. QED
    BY Zenon, <2>1, <2>2
<1>6. CASE Chmod(a)
  BY Zenon, <1>6 DEF Chmod, Goto, SocketInv, TypeOK, OwnSocket, CleanExit
<1>7. CASE Notify(a)
  BY Zenon, <1>7 DEF Notify, Goto, SocketInv, TypeOK, OwnSocket, CleanExit
<1>8. CASE Terminate(a)
  BY Zenon, <1>8 DEF Terminate, Goto, SocketInv, TypeOK, OwnSocket, CleanExit
<1>9. CASE RemoveSocket(a)
  <2>1. sock = a
    BY Zenon, <1>9 DEF RemoveSocket, SocketInv, OwnSocket
  <2>2. \A b \in Agents \ {a} : pc[b] \notin {"chmod", "notify", "online", "leaving"}
    BY Zenon, <2>1 DEF SocketInv, OwnSocket
  <2>3. sock' = NoFile /\ pc' = [pc EXCEPT ![a] = "exiting"]
        /\ UNCHANGED <<term, boot, reachable, terms, faults, killed>>
    BY Zenon, <1>9 DEF RemoveSocket, FileRemoved, Goto
  <2>4. QED
    BY Zenon, <2>2, <2>3, AgentAssumption DEF SocketInv, TypeOK, OwnSocket, CleanExit
<1>10. CASE ExitProcess(a)
  BY Zenon, <1>1, <1>2, <1>10 DEF ExitProcess
<1>11. QED
  BY Zenon, <1>3, <1>4, <1>5, <1>6, <1>7, <1>8, <1>9, <1>10 DEF Main

LEMMA SocketStep ==
    ASSUME SocketInv, [Next]_vars
    PROVE  SocketInv'
<1>1. ASSUME NEW a \in Agents, Start(a) PROVE SocketInv'
  BY Zenon, <1>1 DEF Start, Goto, SocketInv, TypeOK, OwnSocket, CleanExit
<1>2. ASSUME NEW a \in Agents, StartFails(a) PROVE SocketInv'
  <2>1. sock # a
    BY Zenon, <1>2 DEF StartFails, SocketInv, TypeOK
  <2>2. faults' \in 0..MaxFaults
    BY <1>2, AgentAssumption DEF StartFails, SocketInv, TypeOK
  <2>3. QED
    BY Zenon, <1>2, <2>1, <2>2, GoneKeepsFile DEF StartFails, SocketInv, TypeOK
<1>3. ASSUME NEW a \in Agents, SendTerm(a) PROVE SocketInv'
  <2>1. terms' \in 0..MaxTerms
    BY <1>3, AgentAssumption DEF SendTerm, SocketInv, TypeOK
  <2>2. CASE Notified(a)
    <3>1. UNCHANGED <<pc, sock, boot, reachable, faults, killed>>
      BY Zenon, <1>3, <2>2 DEF SendTerm
    <3>2. term' \in [Agents -> BOOLEAN]
      BY Zenon, <1>3, <2>2 DEF SendTerm, SocketInv, TypeOK
    <3>3. QED
      BY Zenon, <2>1, <3>1, <3>2 DEF SocketInv, TypeOK, OwnSocket, CleanExit
  <2>3. CASE ~Notified(a)
    BY Zenon, <1>3, <2>1, <2>3, KilledLeavesFile DEF SendTerm, SocketInv, TypeOK
  <2>4. QED
    BY Zenon, <2>2, <2>3
<1>4. ASSUME NEW a \in Agents, Kill(a) PROVE SocketInv'
  <2>1. faults' \in 0..MaxFaults
    BY <1>4, AgentAssumption DEF Kill, SocketInv, TypeOK
  <2>2. QED
    BY Zenon, <1>4, <2>1, KilledLeavesFile DEF Kill, SocketInv, TypeOK
<1>5. CASE Reach \/ BootDial \/ BootMe
  BY Zenon, <1>5 DEF Reach, BootDial, BootMe, SocketInv, TypeOK, OwnSocket, CleanExit
<1>6. CASE UNCHANGED vars
  BY Zenon, <1>6 DEF vars, SocketInv, TypeOK, OwnSocket, CleanExit
<1>7. QED
  BY Zenon, <1>1, <1>2, <1>3, <1>4, <1>5, <1>6, MainKeepsSocket DEF Next

LEMMA SocketInvariant == Spec => []SocketInv
  BY InitSocketInv, SocketStep, PTL DEF Spec

\* Every agent is in a place of main, and a socket file that belongs to an agent
\* belongs to one that has bound it and has not yet removed it.
THEOREM AgentTypeCorrect == Spec => []TypeOK
  BY SocketInvariant, PTL DEF SocketInv

\* The deferred os.Remove of an agent that ends, and the Listen of one that
\* starts, never touch the socket file of an agent that accepts commands.
THEOREM SocketOwned == Spec => []OwnSocket
  BY SocketInvariant, PTL DEF SocketInv

\* An agent that leaves main by itself leaves no socket file behind.
THEOREM ExitIsClean == Spec => []CleanExit
  BY SocketInvariant, PTL DEF SocketInv
=============================================================================
