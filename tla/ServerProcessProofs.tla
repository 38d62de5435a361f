------------------------- MODULE ServerProcessProofs -------------------------
(* Proofs about ServerProcess, for any configuration and any number of       *)
(* signals and starts.                                                       *)
EXTENDS ServerProcess, TLAPS

\* How far main has come, and what it has by then.
PhaseInv ==
    /\ pc \in {"down", "ldap", "cache", "listen"} =>
           notified = 0 /\ pending = {} /\ ~listening
    /\ pc = "notify" => notified < Len(Signals)
    /\ pc = "down" => mixed = FALSE

Usr == {"USR1", "USR2"}

\* What is asked for and not done yet waits in its channel, or is the argument of
\* log.DebugMode, unless one signal overtook the other.
DebugInv ==
    pc # "down" /\ mixed = FALSE =>
        /\ "USR1" \in pending => wanted = TRUE
        /\ "USR2" \in pending => wanted = FALSE
        /\ pending \cap Usr = {} =>
               /\ loop \in {"select", "update"} => muxDebug = wanted /\ debugMode = wanted
               /\ loop \in {"mux", "package"} => setting = wanted
               /\ loop = "package" => muxDebug = wanted

ServerInv == TypeOK /\ PhaseInv /\ DebugInv
-----------------------------------------------------------------------------
LEMMA SignalCount == Len(Signals) = 4
  BY DEF Signals

LEMMA InitServerInv == Init => ServerInv
<1> SUFFICES ASSUME Init PROVE ServerInv
  OBVIOUS
<1>1. 0 \in 0..Len(Signals) /\ starts \in 0..MaxStarts /\ signals \in 0..MaxSignals
  BY SignalCount, ServerAssumption DEF Init
<1>2. TypeOK
  BY Zenon, <1>1 DEF Init, TypeOK
<1>3. QED
  BY Zenon, <1>2 DEF Init, ServerInv, PhaseInv, DebugInv

\* The process can go at any time.
LEMMA ExitsKeeps ==
    ASSUME ServerInv, Exits, signals' \in 0..MaxSignals
    PROVE  ServerInv'
<1>1. 0 \in 0..Len(Signals)
  BY SignalCount
<1>2. TypeOK'
  BY Zenon, <1>1 DEF ServerInv, TypeOK, Exits
<1>3. QED
  BY Zenon, <1>2 DEF ServerInv, PhaseInv, DebugInv, Exits

LEMMA StartStep ==
    ASSUME ServerInv, NEW conf \in Timeouts, NEW flag \in CacheTimeFlags,
           NEW debug \in BOOLEAN, Start(conf, flag, debug)
    PROVE  ServerInv'
<1>1. starts' \in 0..MaxStarts
  <2>1. starts \in 0..MaxStarts /\ starts < MaxStarts /\ starts' = starts + 1
    BY Zenon DEF Start, ServerInv, TypeOK
  <2>2. QED
    BY <2>1, ServerAssumption
<1>2. timeout' \in Timeouts \cup CacheTimeFlags
  BY Zenon DEF Start, CacheTimeout
<1>3. loop = "select"
  BY Zenon DEF Start, ServerInv, TypeOK, Running
<1>4. TypeOK'
  BY Zenon, <1>1, <1>2, <1>3 DEF Start, ServerInv, TypeOK
<1>5. PhaseInv'
  BY Zenon DEF Start, ServerInv, PhaseInv
<1>6. DebugInv'
  BY Zenon, <1>3 DEF Start, ServerInv, PhaseInv, DebugInv
<1>7. QED
  BY Zenon, <1>4, <1>5, <1>6 DEF ServerInv

LEMMA MainStep ==
    ASSUME ServerInv, Main
    PROVE  ServerInv'
<1>1. signals \in 0..MaxSignals /\ loop \in {"select", "mux", "package", "update"}
  BY Zenon DEF ServerInv, TypeOK
<1>2. ASSUME Exits, UNCHANGED signals PROVE ServerInv'
  BY Zenon, <1>1, <1>2, ExitsKeeps
<1>3. ASSUME NEW p \in {"cache", "listen", "notify", "online"}, Goto(p), UNCHANGED signals,
             pc # "down", ~Running, listening' \in BOOLEAN,
             p \in {"cache", "listen"} => notified = 0 /\ pending = {} /\ ~listening',
             p = "notify" => notified < Len(Signals)
      PROVE  ServerInv'
  <2>1. TypeOK'
    BY ZenonT(60), <1>3 DEF Goto, loopVars, history, ServerInv, TypeOK
  <2>2. PhaseInv'
    BY Zenon, <1>3 DEF Goto, ServerInv, PhaseInv
  <2>3. DebugInv'
    BY Zenon, <1>3 DEF Goto, loopVars, history, ServerInv, DebugInv
  <2>4. QED
    BY Zenon, <2>1, <2>2, <2>3 DEF ServerInv
<1>4. CASE ConnectLDAP
  <2>1. /\ pc # "down" /\ ~Running /\ UNCHANGED signals
        /\ notified = 0 /\ pending = {} /\ ~listening /\ listening \in BOOLEAN
    BY Zenon, <1>4 DEF ConnectLDAP, Running, ServerInv, TypeOK, PhaseInv
  <2>2. (Goto("cache") /\ UNCHANGED listening) \/ Exits
    BY Zenon, <1>4 DEF ConnectLDAP
  <2>3. CASE Goto("cache") /\ UNCHANGED listening
    <3>1. ~listening' /\ listening' \in BOOLEAN
      BY Zenon, <2>1, <2>3
    <3>2. QED
      BY Zenon, <1>3, <2>1, <2>3, <3>1
  <2>4. QED
    BY Zenon, <1>2, <2>1, <2>2, <2>3
<1>5. CASE LoadCache
  <2>1. /\ pc # "down" /\ ~Running /\ UNCHANGED signals
        /\ notified = 0 /\ pending = {} /\ ~listening /\ listening \in BOOLEAN
    BY Zenon, <1>5 DEF LoadCache, Running, ServerInv, TypeOK, PhaseInv
  <2>2. (Goto("listen") /\ UNCHANGED listening) \/ Exits
    BY Zenon, <1>5 DEF LoadCache
  <2>3. CASE Goto("listen") /\ UNCHANGED listening
    <3>1. ~listening' /\ listening' \in BOOLEAN
      BY Zenon, <2>1, <2>3
    <3>2. QED
      BY Zenon, <1>3, <2>1, <2>3, <3>1
  <2>4. QED
    BY Zenon, <1>2, <2>1, <2>2, <2>3
<1>6. CASE NewServer
  <2>1. notified = 0 /\ pc = "listen"
    BY Zenon, <1>6 DEF NewServer, ServerInv, PhaseInv
  <2>2. notified < Len(Signals)
    BY <2>1, SignalCount
  <2>3. QED
    BY Zenon, <1>3, <1>6, <2>1, <2>2 DEF NewServer, Running
<1>7. CASE Notify
  <2>1. /\ pc = "notify" /\ notified < Len(Signals) /\ notified \in 0..Len(Signals)
        /\ notified' = notified + 1
    BY Zenon, <1>7 DEF Notify, ServerInv, TypeOK, PhaseInv
  <2>2. /\ notified' \in 0..Len(Signals) /\ 1..notified \subseteq 1..notified'
        /\ notified' # Len(Signals) => notified' < Len(Signals)
    BY <2>1, SignalCount
  <2>3. TypeOK'
    BY Zenon, <1>7, <2>1, <2>2 DEF Notify, loopVars, history, Running, ServerInv, TypeOK
  <2>4. PhaseInv'
    BY Zenon, <1>7, <2>2 DEF Notify, ServerInv, PhaseInv
  <2>5. DebugInv'
    BY Zenon, <1>7, <2>1 DEF Notify, loopVars, history, ServerInv, DebugInv
  <2>6. QED
    BY Zenon, <2>3, <2>4, <2>5 DEF ServerInv
<1>8. CASE NewTicker
  BY Zenon, <1>2, <1>3, <1>8 DEF NewTicker, Running, ServerInv, TypeOK
<1>9. CASE Shutdown
  BY Zenon, <1>2, <1>9 DEF Shutdown
<1>10. QED
  BY Zenon, <1>4, <1>5, <1>6, <1>7, <1>8, <1>9 DEF Main

LEMMA SignalStep ==
    ASSUME ServerInv, NEW s \in Signal, SendSignal(s)
    PROVE  ServerInv'
<1>1. signals' \in 0..MaxSignals
  <2>1. signals \in 0..MaxSignals /\ signals < MaxSignals /\ signals' = signals + 1
    BY Zenon DEF SendSignal, ServerInv, TypeOK
  <2>2. QED
    BY <2>1, ServerAssumption
<1>2. CASE ~Registered(s)
  BY Zenon, <1>1, <1>2, ExitsKeeps DEF SendSignal
<1>3. CASE Registered(s)
  <2>1. /\ UNCHANGED <<pc, timeout, listening, notified, tick, loop, setting, muxDebug, debugMode,
                       starts>>
        /\ pc # "down" /\ pending' = pending \cup {s}
        /\ asked' = (asked \/ s = "HUP")
        /\ wanted' = IF s \in Usr THEN s = "USR1" ELSE wanted
        /\ mixed' = IF s \in Usr THEN (pending \ {s}) \cap Usr # {} ELSE mixed
    BY Zenon, <1>3 DEF SendSignal, Deliver, loopVars, Usr
  <2>2. PICK i \in 1..notified : Signals[i] = s
    BY Zenon, <1>3 DEF Registered
  <2>3. asked' \in BOOLEAN /\ wanted' \in BOOLEAN /\ mixed' \in BOOLEAN
    BY Zenon, <2>1 DEF ServerInv, TypeOK
  <2>4. TypeOK'
    BY ZenonT(60), <1>1, <2>1, <2>2, <2>3 DEF ServerInv, TypeOK, Running
  <2>5. PhaseInv'
    <3>1. notified # 0
      BY <2>2
    <3>2. QED
      BY Zenon, <2>1, <3>1 DEF ServerInv, PhaseInv
  <2>6. DebugInv'
    <3>1. CASE s \in Usr
      <4>1. pending' \cap Usr # {}
        BY Zenon, <2>1, <3>1
      <4>2. mixed' = FALSE => pending' \cap Usr = {s}
        BY Zenon, <2>1, <3>1
      <4>3. wanted' = (s = "USR1")
        BY Zenon, <2>1, <3>1
      <4>4. mixed' = FALSE => \A u \in Usr : u \in pending' => u = s
        BY Zenon, <4>2
      <4>5. mixed' = FALSE => /\ "USR1" \in pending' => wanted' = TRUE
                              /\ "USR2" \in pending' => wanted' = FALSE
        <5>1. s = "USR1" => wanted' = TRUE
          BY Zenon, <4>3
        <5>2. s = "USR2" => wanted' = FALSE
          BY Zenon, <4>3
        <5>3. QED
          BY Zenon, <4>4, <5>1, <5>2 DEF Usr
      <4>6. QED
        BY Zenon, <4>1, <4>5 DEF DebugInv
    <3>2. CASE s \notin Usr
      BY Zenon, <2>1, <3>2 DEF ServerInv, DebugInv, Usr
    <3>3. QED
      BY Zenon, <3>1, <3>2
  <2>7. QED
    BY Zenon, <2>4, <2>5, <2>6 DEF ServerInv
<1>4. QED
  BY Zenon, <1>2, <1>3

\* The loop for settings, the ticker and the goroutine for termination.
LEMMA LoopStep ==
    ASSUME ServerInv, Loop \/ CacheTimeoutTick \/ Terminate
    PROVE  ServerInv'
<1>1. /\ UNCHANGED <<timeout, listening, notified, starts, signals, wanted, mixed>>
      /\ Running /\ pending' \subseteq pending
  BY Zenon DEF Loop, CacheTimeoutTick, Terminate, TakeDebug, DebugMode, Reload, TakeReload,
               UpdateReturns, Running, loopVars, history
<1>2. pc' \in {"online", "shutdown"} /\ (pc' = pc \/ Terminate)
  BY Zenon DEF Loop, CacheTimeoutTick, Terminate, TakeDebug, DebugMode, Reload,
               UpdateReturns, Running
<1>3. TypeOK'
  <2>1. /\ loop' \in {"select", "mux", "package", "update"}
        /\ tick' \in BOOLEAN /\ setting' \in BOOLEAN /\ muxDebug' \in BOOLEAN
        /\ debugMode' \in BOOLEAN /\ asked' \in BOOLEAN
    <3>1. CASE Loop
      <4>1. CASE TakeDebug("USR1") \/ TakeDebug("USR2")
        BY Zenon, <4>1 DEF TakeDebug, history, ServerInv, TypeOK
      <4>2. CASE DebugMode
        BY Zenon, <4>2 DEF DebugMode, SetPackage, history, ServerInv, TypeOK
      <4>3. CASE Reload
        BY Zenon, <4>3 DEF Reload, TakeReload, ServerInv, TypeOK
      <4>4. CASE UpdateReturns
        BY Zenon, <4>4 DEF UpdateReturns, history, ServerInv, TypeOK
      <4>5. QED
        BY Zenon, <3>1, <4>1, <4>2, <4>3, <4>4 DEF Loop
    <3>2. CASE CacheTimeoutTick
      BY Zenon, <3>2 DEF CacheTimeoutTick, history, ServerInv, TypeOK
    <3>3. CASE Terminate
      BY Zenon, <3>3 DEF Terminate, loopVars, history, ServerInv, TypeOK
    <3>4. QED
      BY Zenon, <3>1, <3>2, <3>3
  <2>2. pending' \subseteq {Signals[i] : i \in 1..notified}
    BY Zenon, <1>1 DEF ServerInv, TypeOK
  <2>3. QED
    BY Zenon, <1>1, <1>2, <2>1, <2>2 DEF ServerInv, TypeOK, Running
<1>4. PhaseInv'
  BY Zenon, <1>2 DEF PhaseInv
<1>5. DebugInv'
  <2> SUFFICES ASSUME mixed = FALSE PROVE DebugInv'
    BY Zenon, <1>1 DEF DebugInv
  <2>1. /\ "USR1" \in pending => wanted = TRUE
        /\ "USR2" \in pending => wanted = FALSE
        /\ pending \cap Usr = {} =>
               /\ loop \in {"select", "update"} => muxDebug = wanted /\ debugMode = wanted
               /\ loop \in {"mux", "package"} => setting = wanted
               /\ loop = "package" => muxDebug = wanted
    BY Zenon, <1>1 DEF ServerInv, DebugInv, Running
  <2>2. ASSUME pending' \cap Usr = {} =>
                   /\ loop' \in {"select", "update"} => muxDebug' = wanted /\ debugMode' = wanted
                   /\ loop' \in {"mux", "package"} => setting' = wanted
                   /\ loop' = "package" => muxDebug' = wanted
        PROVE  DebugInv'
    BY Zenon, <1>1, <2>1, <2>2 DEF DebugInv
  <2>3. CASE TakeDebug("USR1") \/ TakeDebug("USR2")
    <3>1. PICK s \in Usr : TakeDebug(s)
      BY Zenon, <2>3 DEF Usr
    <3>2. setting' = (s = "USR1") /\ s \in pending /\ loop' = "mux"
      BY Zenon, <3>1 DEF TakeDebug
    <3>3. s = "USR1" => setting' = TRUE /\ wanted = TRUE
      BY Zenon, <2>1, <3>2
    <3>4. s = "USR2" => setting' = FALSE /\ wanted = FALSE
      BY Zenon, <2>1, <3>2
    <3>5. setting' = wanted
      BY Zenon, <3>3, <3>4 DEF Usr
    <3>6. QED
      BY Zenon, <2>2, <3>2, <3>5
  <2>4. CASE DebugMode
    BY Zenon, <2>1, <2>2, <2>4 DEF DebugMode, SetPackage
  <2>5. CASE Reload
    <3>1. pending' \cap Usr = pending \cap Usr
      BY Zenon, <2>5 DEF Reload, TakeReload, Usr
    <3>2. QED
      BY Zenon, <2>1, <2>2, <2>5, <3>1 DEF Reload
  <2>6. CASE UpdateReturns
    BY Zenon, <2>1, <2>2, <2>6 DEF UpdateReturns
  <2>7. CASE CacheTimeoutTick
    BY Zenon, <2>1, <2>2, <2>7 DEF CacheTimeoutTick
  <2>8. CASE Terminate
    <3>1. pending' \cap Usr = pending \cap Usr
      BY Zenon, <2>8 DEF Terminate, Usr
    <3>2. QED
      BY Zenon, <2>1, <2>2, <2>8, <3>1 DEF Terminate, loopVars
  <2>9. QED
    BY Zenon, <2>3, <2>4, <2>5, <2>6, <2>7, <2>8 DEF Loop
<1>6. QED
  BY Zenon, <1>3, <1>4, <1>5 DEF ServerInv

LEMMA ServerStep == ServerInv /\ [Next]_vars => ServerInv'
<1> SUFFICES ASSUME ServerInv, [Next]_vars PROVE ServerInv'
  OBVIOUS
<1>1. CASE \E conf \in Timeouts, flag \in CacheTimeFlags, debug \in BOOLEAN :
              Start(conf, flag, debug)
  BY Zenon, <1>1, StartStep
<1>2. CASE Main
  BY Zenon, <1>2, MainStep
<1>3. CASE \E s \in Signal : SendSignal(s)
  BY Zenon, <1>3, SignalStep
<1>4. CASE Loop \/ CacheTimeoutTick \/ Terminate
  BY Zenon, <1>4, LoopStep
<1>5. CASE Crash
  BY Zenon, <1>5, ExitsKeeps DEF Crash, ServerInv, TypeOK
<1>6. CASE UNCHANGED vars
  <2>0. /\ pc' = pc /\ timeout' = timeout /\ listening' = listening /\ notified' = notified
        /\ pending' = pending /\ tick' = tick /\ loop' = loop /\ setting' = setting
        /\ muxDebug' = muxDebug /\ debugMode' = debugMode /\ starts' = starts
        /\ signals' = signals /\ asked' = asked /\ wanted' = wanted /\ mixed' = mixed
    BY Zenon, <1>6 DEF vars, loopVars, history
  <2>1. TypeOK'
    <3>1. loop' # "select" => Running'
      BY Zenon, <2>0 DEF ServerInv, TypeOK, Running
    <3>2. /\ listening' \in BOOLEAN /\ tick' \in BOOLEAN /\ setting' \in BOOLEAN
          /\ muxDebug' \in BOOLEAN /\ debugMode' \in BOOLEAN /\ asked' \in BOOLEAN
          /\ wanted' \in BOOLEAN /\ mixed' \in BOOLEAN
      BY Zenon, <2>0 DEF ServerInv, TypeOK
    <3>3. QED
      BY Zenon, <2>0, <3>1, <3>2 DEF ServerInv, TypeOK
  <2>2. PhaseInv'
    BY Zenon, <1>6 DEF vars, history, ServerInv, PhaseInv
  <2>3. DebugInv'
    BY Zenon, <1>6 DEF vars, loopVars, history, ServerInv, DebugInv
  <2>4. QED
    BY Zenon, <2>1, <2>2, <2>3 DEF ServerInv
<1>7. QED
  BY Zenon, <1>1, <1>2, <1>3, <1>4, <1>5, <1>6 DEF Next

\* main gets to its loops in order, and log.DebugMode lags behind the signals only
\* by what waits in the channels or is being set.
THEOREM ServerInvariant == Spec => []ServerInv
<1>1. QED
  BY InitServerInv, ServerStep, PTL DEF Spec

\* The variables of main keep their types, and only signals that main has asked
\* for wait in their channels.
THEOREM ServerTypeCorrect == Spec => []TypeOK
<1>1. ServerInv => TypeOK
  BY Zenon DEF ServerInv
<1>2. QED
  BY <1>1, ServerInvariant, PTL

\* The two variables of log.DebugMode differ only while it sets them.
AgreeInv ==
    /\ pc # "down" /\ loop \in {"select", "update"} => muxDebug = debugMode
    /\ loop = "package" => muxDebug = setting

LEMMA AgreeStep == ServerInv /\ AgreeInv /\ [Next]_vars => AgreeInv'
<1> SUFFICES ASSUME ServerInv, AgreeInv, [Next]_vars PROVE AgreeInv'
  OBVIOUS
<1>1. CASE \E conf \in Timeouts, flag \in CacheTimeFlags, debug \in BOOLEAN :
              Start(conf, flag, debug)
  <2>1. loop = "select" /\ UNCHANGED loop /\ muxDebug' = debugMode'
    BY Zenon, <1>1 DEF Start, ServerInv, TypeOK, Running
  <2>2. QED
    BY Zenon, <2>1 DEF AgreeInv
<1>2. CASE Exits
  BY Zenon, <1>2 DEF Exits, AgreeInv
<1>3. CASE UNCHANGED <<loop, setting, muxDebug, debugMode>> /\ pc # "down"
  BY Zenon, <1>3 DEF AgreeInv
<1>4. CASE UNCHANGED vars
  BY Zenon, <1>4 DEF vars, loopVars, AgreeInv
<1>5. CASE Main
  BY Zenon, <1>2, <1>3, <1>5 DEF Main, ConnectLDAP, LoadCache, NewServer, Notify, NewTicker,
                                 Shutdown, Goto, loopVars
<1>6. CASE \E s \in Signal : SendSignal(s)
  BY Zenon, <1>2, <1>3, <1>6 DEF SendSignal, loopVars
<1>7. CASE CacheTimeoutTick \/ Terminate
  BY Zenon, <1>3, <1>7 DEF CacheTimeoutTick, Terminate, Running, loopVars
<1>8. CASE Loop
  BY Zenon, <1>8 DEF Loop, TakeDebug, DebugMode, SetPackage, Reload, UpdateReturns, Running,
                     AgreeInv
<1>9. CASE Crash
  BY Zenon, <1>2, <1>9 DEF Crash
<1>10. QED
  BY Zenon, <1>1, <1>4, <1>5, <1>6, <1>7, <1>8, <1>9 DEF Next

\* Outside log.DebugMode its two variables agree; and when the loop for settings
\* has dealt with SIGUSR1 and SIGUSR2, they have the value asked for last, unless
\* both signals waited at once: for any number and order of signals.
THEOREM DebugModeSettles == Spec => []DebugSettled
<1>1. Init => AgreeInv
  BY Zenon DEF Init, AgreeInv
<1>2. ServerInv /\ AgreeInv => DebugSettled
  <2> SUFFICES ASSUME ServerInv, AgreeInv, Running, loop \notin {"mux", "package"}
               PROVE  /\ muxDebug = debugMode
                      /\ pending \cap {"USR1", "USR2"} = {} /\ ~mixed => debugMode = wanted
    BY Zenon DEF DebugSettled
  <2>1. muxDebug = debugMode
    BY Zenon DEF AgreeInv, ServerInv, TypeOK, Running
  <2>2. ASSUME pending \cap {"USR1", "USR2"} = {}, ~mixed PROVE debugMode = wanted
    <3>1. mixed = TRUE \/ mixed = FALSE
      BY Zenon DEF ServerInv, TypeOK
    <3>2. mixed = FALSE
      BY Zenon, <2>2, <3>1
    <3>3. QED
      BY Zenon, <2>2, <3>2 DEF ServerInv, DebugInv, TypeOK, Running, Usr
  <2>3. QED
    BY Zenon, <2>1, <2>2
<1>3. QED
  BY <1>1, <1>2, AgreeStep, ServerInvariant, PTL DEF Spec
=============================================================================
