---------------------------- MODULE ServerProcess ----------------------------
(***************************************************************************)
(* The life of the server process (cmd/hologram-server/main.go): start-up, *)
(* with an exit at each failure; the signals it asks for, one after the    *)
(* other, while it already listens; the loop that switches debug logging   *)
(* (log/log.go) and reloads the cache; and the end.  A channel given to    *)
(* signal.Notify holds one signal: further ones are dropped.  What Update  *)
(* does is the subject of module UserCache.                                *)
(***************************************************************************)
EXTENDS Naturals, Sequences

CONSTANTS
    Timeouts,        \* values of cachetimeout in the configuration
    CacheTimeFlags,  \* values of the flag -cachetime
    DefaultFlag,     \* the value of the flag that is not given
    MaxStarts,       \* bound on the starts of the process
    MaxSignals       \* bound on the signals sent

ASSUME ServerAssumption ==
    /\ Timeouts \subseteq Nat /\ CacheTimeFlags \subseteq Nat
    /\ DefaultFlag \in CacheTimeFlags
    /\ MaxStarts \in Nat /\ MaxSignals \in Nat

\* The signals in the order of the calls of signal.Notify.
Signals == <<"TERM", "USR1", "USR2", "HUP">>
Signal == {Signals[i] : i \in DOMAIN Signals}

VARIABLES
    pc,        \* where main is; "down" if the process does not run
    timeout,   \* config.CacheTimeout
    listening, \* did NewServer give a server?
    notified,  \* how many of Signals have been asked for
    pending,   \* the signals that wait in their channels
    tick,      \* does a tick wait in the ticker's channel?
    loop,      \* where the loop for settings is
    setting,   \* the argument of log.DebugMode
    muxDebug, debugMode,  \* the two variables log.DebugMode sets
    starts, signals,      \* how many there have been
    asked,     \* history: SIGHUP since the last Update began?
    wanted,    \* history: the debug mode asked for last
    mixed      \* history: were SIGUSR1 and SIGUSR2 in their channels together?

loopVars == <<tick, loop, setting, muxDebug, debugMode>>
history == <<asked, wanted, mixed>>
vars == <<pc, timeout, listening, notified, pending, loopVars, starts, signals, history>>

Running == pc \in {"online", "shutdown"}

TypeOK ==
    /\ pc \in {"down", "ldap", "cache", "listen", "notify", "ticker", "online", "shutdown"}
    /\ timeout \in Timeouts \cup CacheTimeFlags
    /\ listening \in BOOLEAN
    /\ notified \in 0..Len(Signals)
    /\ pending \subseteq {Signals[i] : i \in 1..notified}
    /\ tick \in BOOLEAN
    /\ loop \in {"select", "mux", "package", "update"}
    /\ loop # "select" => Running
    /\ setting \in BOOLEAN /\ muxDebug \in BOOLEAN /\ debugMode \in BOOLEAN
    /\ starts \in 0..MaxStarts /\ signals \in 0..MaxSignals
    /\ asked \in BOOLEAN /\ wanted \in BOOLEAN /\ mixed \in BOOLEAN

Init ==
    /\ pc = "down"
    /\ timeout \in Timeouts
    /\ listening = FALSE
    /\ notified = 0
    /\ pending = {}
    /\ tick = FALSE
    /\ loop = "select"
    /\ setting = FALSE
    /\ muxDebug = FALSE /\ debugMode = FALSE
    /\ starts = 0 /\ signals = 0
    /\ asked = FALSE /\ wanted = FALSE /\ mixed = FALSE

\* The process is gone, with all it had in memory.
Exits ==
    /\ pc' = "down"
    /\ listening' = FALSE
    /\ notified' = 0
    /\ pending' = {}
    /\ tick' = FALSE
    /\ loop' = "select"
    /\ asked' = FALSE
    /\ mixed' = FALSE
    /\ UNCHANGED <<timeout, setting, muxDebug, debugMode, starts, wanted>>
-----------------------------------------------------------------------------
(* Start-up *)

\* The flag replaces the configured timeout unless it has its default value.
CacheTimeout(conf, flag) == IF flag # DefaultFlag THEN flag ELSE conf

\* main begins: -debug, the configuration file, without which it exits, the flags.
Start(conf, flag, debug) ==
    /\ pc = "down"
    /\ starts < MaxStarts
    /\ starts' = starts + 1
    /\ timeout' = CacheTimeout(conf, flag)
    /\ muxDebug' = debug /\ debugMode' = debug /\ wanted' = debug
    /\ pc' \in {"down", "ldap"}
    /\ UNCHANGED <<listening, notified, pending, tick, loop, setting, signals, asked, mixed>>

Goto(place) == pc' = place /\ UNCHANGED <<timeout, notified, pending, loopVars, starts, history>>

\* NewPersistentLDAP, and then NewLDAPUserCache: os.Exit if they fail.
ConnectLDAP ==
    /\ pc = "ldap"
    /\ (Goto("cache") /\ UNCHANGED listening) \/ Exits
    /\ UNCHANGED signals

LoadCache ==
    /\ pc = "cache"
    /\ (Goto("listen") /\ UNCHANGED listening) \/ Exits
    /\ UNCHANGED signals

\* The error of remote.NewServer is not looked at.
NewServer ==
    /\ pc = "listen"
    /\ listening' \in BOOLEAN
    /\ Goto("notify")
    /\ UNCHANGED signals

Notify ==
    /\ pc = "notify"
    /\ notified' = notified + 1
    /\ pc' = IF notified' = Len(Signals) THEN "ticker" ELSE "notify"
    /\ UNCHANGED <<timeout, listening, pending, loopVars, starts, signals, history>>

\* NewTicker panics if the timeout is zero.
NewTicker ==
    /\ pc = "ticker"
    /\ IF timeout > 0 THEN Goto("online") /\ UNCHANGED listening ELSE Exits
    /\ UNCHANGED signals
-----------------------------------------------------------------------------
(* Signals and time *)

\* Mutant of Registered: main has asked for all signals from the start.
RegisteredAlways(s) == TRUE

Registered(s) == \E i \in 1..notified : Signals[i] = s

\* Mutant of Deliver: the channel for SIGHUP holds nothing; the loop must wait.
DeliverUnbuffered(s) ==
    pending' = IF s # "HUP" \/ (Running /\ loop = "select") THEN pending \cup {s} ELSE pending

Deliver(s) == pending' = pending \cup {s}

\* A signal that main has not asked for yet ends the process.
SendSignal(s) ==
    /\ pc # "down"
    /\ signals < MaxSignals
    /\ signals' = signals + 1
    /\ \/ /\ Registered(s)
          /\ Deliver(s)
          /\ asked' = (asked \/ s = "HUP")
          /\ wanted' = IF s \in {"USR1", "USR2"} THEN s = "USR1" ELSE wanted
          /\ mixed' = IF s \in {"USR1", "USR2"}
                      THEN (pending \ {s}) \cap {"USR1", "USR2"} # {} ELSE mixed
          /\ UNCHANGED <<pc, timeout, listening, notified, loopVars, starts>>
       \/ ~Registered(s) /\ Exits

CacheTimeoutTick ==
    /\ Running
    /\ tick' = TRUE
    /\ UNCHANGED <<pc, timeout, listening, notified, pending, loop, setting, muxDebug,
                   debugMode, starts, signals, history>>
-----------------------------------------------------------------------------
(* The loop for settings, and termination *)

\* select takes any of the channels that has something.
TakeDebug(s) ==
    /\ Running /\ loop = "select"
    /\ s \in pending
    /\ pending' = pending \ {s}
    /\ setting' = (s = "USR1")
    /\ loop' = "mux"
    /\ UNCHANGED <<pc, timeout, listening, notified, tick, muxDebug, debugMode, starts,
                   signals, history>>

\* Mutant of SetPackage: only the multiplexer is told.
SetNothing == UNCHANGED debugMode

SetPackage == debugMode' = setting

\* log.DebugMode: the multiplexer's variable, then the package's.
DebugMode ==
    /\ Running
    /\ \/ /\ loop = "mux"
          /\ muxDebug' = setting
          /\ loop' = "package"
          /\ UNCHANGED debugMode
       \/ /\ loop = "package"
          /\ SetPackage
          /\ loop' = "select"
          /\ UNCHANGED muxDebug
    /\ UNCHANGED <<pc, timeout, listening, notified, pending, tick, setting, starts, signals,
                   history>>

TakeReload ==
    \/ "HUP" \in pending /\ pending' = pending \ {"HUP"} /\ UNCHANGED tick
    \/ tick /\ tick' = FALSE /\ UNCHANGED pending

\* SIGHUP or a tick: ldapCache.Update begins.
Reload ==
    /\ Running /\ loop = "select"
    /\ TakeReload
    /\ loop' = "update"
    /\ asked' = FALSE
    /\ UNCHANGED <<pc, timeout, listening, notified, setting, muxDebug, debugMode, starts,
                   signals, wanted, mixed>>

\* Update returns; an error is not looked at.
UpdateReturns ==
    /\ Running /\ loop = "update"
    /\ loop' = "select"
    /\ UNCHANGED <<pc, timeout, listening, notified, pending, tick, setting, muxDebug,
                   debugMode, starts, signals, history>>

\* A goroutine of the server ends the process: a retry that succeeds uses a user
\* that is nil, or the runtime finds a map of the cache in use while a handler or
\* the loop's Update writes it (modules Session and UserCache).
Crash ==
    /\ listening
    /\ Exits
    /\ UNCHANGED signals

\* Mutant of Terminate: the loop for settings takes this signal too.
TerminateInLoop ==
    /\ pc = "online" /\ loop = "select"
    /\ "TERM" \in pending
    /\ pending' = pending \ {"TERM"}
    /\ pc' = "shutdown"
    /\ UNCHANGED <<timeout, listening, notified, loopVars, starts, signals, history>>

\* The goroutine for termination passes the signal to main.
Terminate ==
    /\ pc = "online"
    /\ "TERM" \in pending
    /\ pending' = pending \ {"TERM"}
    /\ pc' = "shutdown"
    /\ UNCHANGED <<timeout, listening, notified, loopVars, starts, signals, history>>

\* server.Close, which panics without a server, and the end of main.  The accept
\* loop goes on with the error of the closed listener until the process is gone.
Shutdown ==
    /\ pc = "shutdown"
    /\ Exits
    /\ UNCHANGED signals
-----------------------------------------------------------------------------
Main == ConnectLDAP \/ LoadCache \/ NewServer \/ Notify \/ NewTicker \/ Shutdown

Loop == TakeDebug("USR1") \/ TakeDebug("USR2") \/ DebugMode \/ Reload \/ UpdateReturns

Next ==
    \/ \E conf \in Timeouts, flag \in CacheTimeFlags, debug \in BOOLEAN : Start(conf, flag, debug)
    \/ Main
    \/ \E s \in Signal : SendSignal(s)
    \/ CacheTimeoutTick
    \/ Loop
    \/ Crash
    \/ Terminate

Spec == Init /\ [][Next]_vars

\* Goroutines are scheduled, and LDAP answers each search or it fails.
FairSpec == Spec /\ WF_vars(Main) /\ WF_vars(Loop) /\ WF_vars(Terminate)
-----------------------------------------------------------------------------
(* Properties *)

\* "SIGUSR1 and SIGUSR2 should make Hologram enable and disable debug logging"
\* (main.go:208): whenever the loop is not in log.DebugMode, its two variables
\* agree; and when the loop has dealt with the signals, they have the value asked
\* for last, unless one signal overtook the other in its channel.
DebugSettled ==
    Running /\ loop \notin {"mux", "package"} =>
        /\ muxDebug = debugMode
        /\ pending \cap {"USR1", "USR2"} = {} /\ ~mixed => debugMode = wanted

\* "SIGHUP should make Hologram server reload its cache" (main.go:214): after a
\* SIGHUP an Update begins, even if one was running when the signal came and no
\* timeout helps.
ReloadHonoured == asked ~> (~asked \/ pc = "down")

\* A signal to terminate ends the process, whatever the loop for settings does.
TerminationEnds == ("TERM" \in pending) ~> (pc = "down")
=============================================================================
