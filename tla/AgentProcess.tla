----------------------------- MODULE AgentProcess -----------------------------
(***************************************************************************)
(* The life of agent processes (cmd/hologram-agent/main.go) and of         *)
(* hologram-boot (cmd/hologram-boot/main.go) on one workstation.  Several  *)
(* agents can overlap: the init script starts a new one without waiting    *)
(* for the end of the old, launchd starts one again whenever it ends, and  *)
(* the packages start it on different ports.  They meet at the port of the *)
(* metadata service and at the socket file of the CLI, a name that         *)
(* outlives its process.  The server is here only reachable or not.        *)
(***************************************************************************)
EXTENDS Naturals

CONSTANTS
    Agents,      \* the processes
    Port,        \* the port each is started with
    NoFile,      \* there is no socket file
    Stale,       \* the socket file is that of a process that is gone
    MaxTerms,    \* bound on the signals to terminate
    MaxFaults    \* bound on kills and on failures at start-up

ASSUME AgentAssumption ==
    /\ DOMAIN Port = Agents
    /\ NoFile \notin Agents /\ Stale \notin Agents /\ NoFile # Stale
    /\ MaxTerms \in Nat /\ MaxFaults \in Nat

VARIABLES
    pc,         \* where main of each agent is; "down" if it does not run
    term,       \* does a signal wait in the channel for termination?
    sock,       \* whose socket file is at the path
    boot,       \* where hologram-boot is
    reachable,  \* can the server be reached?
    terms, faults,
    killed      \* history: has an agent ended without leaving main?

vars == <<pc, term, sock, boot, reachable, terms, faults, killed>>

TypeOK ==
    /\ pc \in [Agents -> {"down", "bind", "client", "listen", "chmod", "notify", "online",
                          "leaving", "exiting"}]
    /\ term \in [Agents -> BOOLEAN]
    /\ sock \in Agents \cup {NoFile, Stale}
    /\ sock \in Agents => pc[sock] \in {"chmod", "notify", "online", "leaving"}
    /\ boot \in {"dial", "me", "done", "failed"}
    /\ reachable \in BOOLEAN
    /\ terms \in 0..MaxTerms
    /\ faults \in 0..MaxFaults
    /\ killed \in BOOLEAN

Init ==
    /\ pc = [a \in Agents |-> "down"]
    /\ term = [a \in Agents |-> FALSE]
    /\ sock = NoFile
    /\ boot = "dial"
    /\ reachable \in BOOLEAN
    /\ terms = 0
    /\ faults = 0
    /\ killed = FALSE

\* The process is gone; its socket file, if it still has one, is not.
Gone(a) ==
    /\ pc' = [pc EXCEPT ![a] = "down"]
    /\ term' = [term EXCEPT ![a] = FALSE]
    /\ sock' = IF sock = a THEN Stale ELSE sock
    /\ UNCHANGED <<boot, reachable>>

Goto(a, place) ==
    /\ pc' = [pc EXCEPT ![a] = place]
    /\ UNCHANGED <<term, boot, reachable, terms, faults, killed>>
-----------------------------------------------------------------------------
(* main of the agent *)

\* An init script or launchd starts the agent, which reads its configuration.
Start(a) ==
    /\ pc[a] = "down"
    /\ Goto(a, "bind")
    /\ UNCHANGED sock

\* The configuration, the address or the AWS user is missing: the process exits.
StartFails(a) ==
    /\ pc[a] \in {"bind", "client"}
    /\ faults < MaxFaults
    /\ faults' = faults + 1
    /\ Gone(a)
    /\ UNCHANGED <<terms, killed>>

PortFree(a) ==
    \A b \in Agents \ {a} : Port[b] = Port[a] => pc[b] \in {"down", "bind"}

\* ListenTCP for the metadata service: os.Exit if the port is taken.
BindMetadata(a) ==
    /\ pc[a] = "bind"
    /\ IF PortFree(a)
       THEN Goto(a, "client") /\ UNCHANGED sock
       ELSE Gone(a) /\ UNCHANGED <<terms, faults, killed>>

\* The manager, the metadata service and the client; no connection is made.
MakeClient(a) ==
    /\ pc[a] = "client"
    /\ Goto(a, "listen")
    /\ UNCHANGED sock

\* Mutant of SocketFree: a file at the path is removed first.
SocketReplaced == TRUE

SocketFree == sock = NoFile

\* NewCliHandler and Start: Listen on the path of the socket, os.Exit if there
\* is a file.
StartCliHandler(a) ==
    /\ pc[a] = "listen"
    /\ IF SocketFree
       THEN Goto(a, "chmod") /\ sock' = a
       ELSE Gone(a) /\ UNCHANGED <<terms, faults, killed>>

\* The permissions of the socket, and then signal.Notify.
Chmod(a) ==
    /\ pc[a] = "chmod"
    /\ Goto(a, "notify")
    /\ UNCHANGED sock

Notify(a) ==
    /\ pc[a] = "notify"
    /\ Goto(a, "online")
    /\ UNCHANGED sock

\* Mutant of Terminate: os.Exit in the goroutine, which skips the deferred call.
TerminateAtOnce(a) ==
    /\ pc[a] = "online"
    /\ term[a]
    /\ Gone(a)
    /\ UNCHANGED <<terms, faults, killed>>

\* The goroutine for termination passes the signal on, and main returns.
Terminate(a) ==
    /\ pc[a] = "online"
    /\ term[a]
    /\ Goto(a, "leaving")
    /\ UNCHANGED sock

\* Mutant of FileRemoved: os.Remove is not called.
FileKept == sock

FileRemoved == NoFile

\* The deferred function removes whatever file is at the path.
RemoveSocket(a) ==
    /\ pc[a] = "leaving"
    /\ Goto(a, "exiting")
    /\ sock' = FileRemoved

\* Mutant of ExitProcess: main waits for the accept loop, which never ends.
ExitWaits(a) == pc[a] = "exiting" /\ UNCHANGED vars

ExitProcess(a) ==
    /\ pc[a] = "exiting"
    /\ Gone(a)
    /\ UNCHANGED <<terms, faults, killed>>
-----------------------------------------------------------------------------
(* Signals *)

Notified(a) == pc[a] \in {"online", "leaving", "exiting"}

\* SIGTERM or SIGINT; before signal.Notify it ends the process at once.
SendTerm(a) ==
    /\ pc[a] # "down"
    /\ terms < MaxTerms
    /\ terms' = terms + 1
    /\ \/ /\ Notified(a)
          /\ term' = [term EXCEPT ![a] = TRUE]
          /\ UNCHANGED <<pc, sock, boot, reachable, faults, killed>>
       \/ /\ ~Notified(a)
          /\ Gone(a)
          /\ killed' = TRUE
          /\ UNCHANGED faults

\* SIGKILL, or a panic of some goroutine of the agent.
Kill(a) ==
    /\ pc[a] # "down"
    /\ faults < MaxFaults
    /\ faults' = faults + 1
    /\ killed' = TRUE
    /\ Gone(a)
    /\ UNCHANGED terms
-----------------------------------------------------------------------------
(* hologram-boot, and the server *)

\* The network or the server comes or goes.
Reach ==
    /\ reachable' = ~reachable
    /\ UNCHANGED <<pc, term, sock, boot, terms, faults, killed>>

\* Once a second until the server answers.
BootDial ==
    /\ boot = "dial"
    /\ reachable
    /\ boot' = "me"
    /\ UNCHANGED <<pc, term, sock, reachable, terms, faults, killed>>

\* "hologram me" runs once: an agent answers at the path of the socket and gets
\* credentials from the server, or the command fails and so does hologram-boot.
BootMe ==
    /\ boot = "me"
    /\ \/ reachable /\ sock \in Agents /\ boot' = "done"
       \/ boot' = "failed"
    /\ UNCHANGED <<pc, term, sock, reachable, terms, faults, killed>>
-----------------------------------------------------------------------------
Main(a) ==
    \/ BindMetadata(a)
    \/ MakeClient(a)
    \/ StartCliHandler(a)
    \/ Chmod(a)
    \/ Notify(a)
    \/ Terminate(a)
    \/ RemoveSocket(a)
    \/ ExitProcess(a)

Next ==
    \/ \E a \in Agents : Start(a) \/ StartFails(a) \/ Main(a) \/ SendTerm(a) \/ Kill(a)
    \/ Reach
    \/ BootDial
    \/ BootMe

Spec == Init /\ [][Next]_vars

\* Processes are scheduled; launchd starts an agent again (KeepAlive).
FairSpec == Spec /\ \A a \in Agents : WF_vars(Start(a)) /\ WF_vars(Main(a))
-----------------------------------------------------------------------------
(* Properties *)

\* While an agent accepts commands, the file at the path of the socket is its
\* own: no agent that starts or ends meanwhile replaces or removes it.
OwnSocket ==
    \A a \in Agents : pc[a] \in {"chmod", "notify", "online", "leaving"} => sock = a

\* A socket file is left behind only by an agent that was killed.
CleanExit == sock = Stale => killed

\* However agents are started, terminated and killed, one comes online again
\* and again, unless a killed one left its socket file, which nothing removes.
AgentComesBack == []<>(\E a \in Agents : pc[a] = "online") \/ <>[](sock = Stale)
=============================================================================
