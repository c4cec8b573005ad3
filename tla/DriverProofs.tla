---------------------------- MODULE DriverProofs ----------------------------
(***************************************************************************)
(* What TLAPS proves of Driver, for every set of plug-ins, every table of  *)
(* exports and every number of threads.                                    *)
(***************************************************************************)
EXTENDS Driver, TLAPS

GuiBusy == pc \notin {"modal", "gone"}

\* Where a plug-in holds nothing, and why deinit() can always be called.
PlugState ==
  /\ plug # "off" => "deinit" \in Functions
  /\ pc \in {"free", "load", "plugInit"} => plug = "off"
  /\ pc = "thread" => plug = "on"
  /\ \A d \in Daemons : Alive(d) => plug = "on"

\* A handler that leaves its message loop for another was not called in "sendbox".
LoopOfHandler ==
  /\ GuiBusy /\ job \in {"config", "initialize"} => modal # "sendbox"
  /\ pc = "send" /\ job = "send" => modal = "idle"

LifeInv == TypeOK /\ OneDaemon /\ PlugState /\ LoopOfHandler

\* The invariant holds when OnCreate starts to initialize the daemon.
LEMMA LifeInit == Init => LifeInv
<1> SUFFICES ASSUME Init PROVE LifeInv
  OBVIOUS
<1>1. pc \in {"readConfig", "kill"} /\ then \in {"return", "free"}
  BY DEF Init, InitializeSteps
<1>2. TypeOK
  BY <1>1 DEF Init, TypeOK, Modals
<1>3. OneDaemon
  BY DEF Init, OneDaemon, Alive
<1>4. PlugState
  BY <1>1 DEF Init, PlugState, Alive
<1>5. LoopOfHandler
  BY <1>1 DEF Init, LoopOfHandler, GuiBusy
<1> QED
  BY <1>2, <1>3, <1>4, <1>5 DEF LifeInv

\* Messages only choose the next handler.
LEMMA LifeMessage == LifeInv /\ Message => LifeInv'
<1> SUFFICES ASSUME LifeInv, Message PROVE LifeInv'
  OBVIOUS
<1> USE DEF LifeInv, TypeOK, OneDaemon, PlugState, LoopOfHandler, Modals, Alive, GuiBusy,
            driverVars, Handle, Functions
<1>1. CASE OnConfig
  BY <1>1 DEF OnConfig
<1>2. CASE Suspend
  BY <1>2 DEF Suspend
<1>3. CASE Resume
  BY <1>3 DEF Resume
<1>4. CASE EndConfig
  <2>1. pc' \in {"readConfig", "kill"} /\ then' \in {"return", "free"}
    BY <1>4 DEF EndConfig, InitializeSteps
  <2>2. /\ job' = "initialize" /\ failed' = FALSE /\ modal = "config" /\ pc = "modal"
        /\ UNCHANGED <<driverVars, modal, dm, cs, sv, dangling, early>>
    BY <1>4 DEF EndConfig
  <2>3. failed' \in BOOLEAN /\ m_daemonThreadEvent' \in BOOLEAN
    BY <2>2
  <2> QED
    BY <2>1, <2>2, <2>3
<1>5. CASE AskAgain
  BY <1>5 DEF AskAgain
<1>6. CASE Exit
  BY <1>6 DEF Exit
<1>7. CASE OnSendcode
  BY <1>7 DEF OnSendcode
<1>8. CASE CloseSendbox
  BY <1>8 DEF CloseSendbox
<1>9. CASE OnCopyData
  BY <1>9 DEF OnCopyData
<1> QED
  BY <1>1, <1>2, <1>3, <1>4, <1>5, <1>6, <1>7, <1>8, <1>9 DEF Message

\* Every step of a handler preserves the invariant.
LEMMA LifeHandler == LifeInv /\ Handler => LifeInv'
<1> SUFFICES ASSUME LifeInv, Handler PROVE LifeInv'
  OBVIOUS
<1> USE NoThreadAssumption, NoPluginAssumption
    DEF LifeInv, TypeOK, OneDaemon, PlugState, LoopOfHandler, Modals, Alive, GuiBusy
<1>1. CASE ReadConfig
  <2>1. failed' \in BOOLEAN
    BY <1>1 DEF ReadConfig, Return, Returns, Handle
  <2>2. dangling' \subseteq Daemons \cup {"server"}
    BY <1>1 DEF ReadConfig
  <2>3. \/ pc' = "kill" /\ then' = "free" /\ UNCHANGED <<modal, job>>
        \/ pc' = "modal" /\ then' = "return" /\ job' = "none" /\ modal' \in {"config", "ask", modal}
    BY <1>1 DEF ReadConfig, Return, Returns, Handle
  <2>4. pc = "readConfig" /\ cs = "free" /\ UNCHANGED <<driverVars, dm, cs, sv, early>>
    BY <1>1 DEF ReadConfig
  <2> HIDE <1>1
  <2> QED
    BY <2>1, <2>2, <2>3, <2>4 DEF driverVars, Functions
<1>2. CASE KillDaemon
  <2>1. CASE m_daemonThreadHandle = NoThread
    BY <1>2, <2>1 DEF KillDaemon, Functions
  <2>2. CASE m_daemonThreadHandle # NoThread
    BY <1>2, <2>2 DEF KillDaemon, Functions
  <2> QED
    BY <2>1, <2>2
<1>3. CASE JoinDaemon
  <2>1. /\ pc = "join" /\ pc' = "plugDeinit"
        /\ m_daemonThreadHandle' = NoThread /\ m_daemonThreadEvent' = FALSE
        /\ UNCHANGED <<dll, plug, modal, then, job, failed, cs, sv>>
        /\ early' \subseteq Daemons
    BY <1>3 DEF JoinDaemon
  <2>2. dm' \in [Daemons -> {"none", "top", "decode", "send"}]
    BY <1>3 DEF JoinDaemon
  <2>3. dangling' \subseteq Daemons \cup {"server"}
    BY <1>3 DEF JoinDaemon
  <2>4. TypeOK'
    <3> HIDE DEF LifeInv, OneDaemon, PlugState, LoopOfHandler, Alive, GuiBusy
    <3>1. TypeOK
      BY DEF LifeInv
    <3>2. m_daemonThreadEvent' \in BOOLEAN /\ failed' \in BOOLEAN
      BY <2>1, <3>1
    <3>3. (cs' = "server" <=> sv' # "idle") /\ (cs' = "gui" <=> modal' = "sendbox" \/ pc' = "send")
      BY <2>1, <3>1
    <3> QED
      BY <2>1, <2>2, <2>3, <3>1, <3>2, <3>3
  <2>5. \A d \in Daemons : dm'[d] = "none"
    BY <1>3 DEF JoinDaemon
  <2> QED
    BY <2>1, <2>4, <2>5 DEF Functions
<1>4. CASE PlugDeinit
  <2>1. failed' \in BOOLEAN
    BY <1>4 DEF PlugDeinit, Return, Returns, Handle
  <2>2. \/ pc' = then /\ then # "return" /\ UNCHANGED <<modal, then, job>>
        \/ pc' = "modal" /\ then' = "return" /\ job' = "none" /\ 
           /\ modal' \in {"config", "ask", "idle", modal}
           /\ (modal = "sendbox" => modal' = "sendbox")
    BY <1>4 DEF PlugDeinit, Return, Returns, Handle
  <2>3. pc = "plugDeinit" /\ plug' = (IF CallsDeinit THEN "off" ELSE plug)
        /\ UNCHANGED <<dll, m_daemonThreadHandle, m_daemonThreadEvent, dm, cs, sv, dangling, early>>
    BY <1>4 DEF PlugDeinit
  <2> HIDE <1>4
  <2> QED
    BY <2>1, <2>2, <2>3 DEF CallsDeinit, Functions
<1>5. CASE FreePlugin
  BY <1>5 DEF FreePlugin, Functions
<1>6. CASE LoadPlugin
  BY <1>6 DEF LoadPlugin, Return, Returns, Handle, Functions, Complete
<1>7. CASE PlugInit
  <2>1. CASE "init" \notin Functions
    BY <1>7, <2>1 DEF PlugInit, Return, Returns, Handle, Functions
  <2>2. CASE "init" \in Functions
    <3>1. "deinit" \in Functions'
      BY <1>7, <2>2, DeinitAssumption DEF PlugInit, Functions
    <3>2. m_daemonThreadHandle = NoThread /\ \A d \in Daemons : dm[d] = "none"
      BY <1>7 DEF PlugInit
    <3>3. plug' \in {"off", "half", "on"} /\ pc' \in {"thread", "kill"}
          /\ then' \in {then, "return"} /\ failed' \in BOOLEAN
          /\ (pc' = "thread" => plug' = "on")
      BY <1>7, <2>2, <3>2 DEF PlugInit, Return, Returns, Handle
    <3>4. modal' = modal /\ UNCHANGED <<dll, m_daemonThreadHandle, m_daemonThreadEvent, job,
                                        dm, cs, sv, dangling, early>>
      BY <1>7, <2>2 DEF PlugInit
    <3>5. pc = "plugInit"
      BY <1>7 DEF PlugInit
    <3>6. TypeOK'
      BY <3>3, <3>4, <3>5
    <3>7. OneDaemon' /\ PlugState' /\ LoopOfHandler'
      BY <3>1, <3>2, <3>3, <3>4, <3>5
    <3> QED
      BY <3>6, <3>7
  <2> QED
    BY <2>1, <2>2
<1>8. CASE StartDaemon
  <2>1. failed' \in BOOLEAN /\ pc' = "modal" /\ then' = "return" /\ job' = "none"
        /\ modal' \in {"config", "ask", "idle", modal}
        /\ (modal = "sendbox" => modal' = "sendbox")
    BY <1>8 DEF StartDaemon, Return, Returns, Handle
  <2>2. pc = "thread" /\ UNCHANGED <<dll, plug, m_daemonThreadEvent, cs, sv, dangling>>
    BY <1>8 DEF StartDaemon
  <2>3. \/ \E d \in Daemons : dm' = [dm EXCEPT ![d] = "top"] /\ m_daemonThreadHandle' = d
        \/ dm' = dm /\ m_daemonThreadHandle' = NoThread
    BY <1>8 DEF StartDaemon
  <2>4. early' \subseteq Daemons
    <3>1. early' = early \/ \E d \in Daemons : early' = early \cup {d}
      BY <1>8 DEF StartDaemon
    <3> QED
      BY <3>1
  <2> HIDE <1>8
  <2>0. pc = "thread"
    BY <2>2
  <2>5. \A d \in Daemons : dm[d] = "none"
    BY <2>0
  <2>6. /\ dm' \in [Daemons -> {"none", "top", "decode", "send"}]
        /\ m_daemonThreadHandle' \in Daemons \cup {NoThread}
        /\ \A d \in Daemons : dm'[d] # "none" => m_daemonThreadHandle' = d
    BY <2>3, <2>5
  <2> QED
    BY <2>1, <2>2, <2>4, <2>6 DEF Functions
<1>9. CASE SendcodeReturns
  BY <1>9 DEF Returns, Handle, SendcodeReturns, driverVars, Functions
<1>10. CASE CopyDataReturns
  BY <1>10 DEF Returns, Handle, CopyDataReturns, driverVars, Functions
<1> QED
  BY <1>1, <1>2, <1>3, <1>4, <1>5, <1>6, <1>7, <1>8, <1>9, <1>10 DEF Handler

\* So does every step of the server thread and of a daemon thread.
LEMMA LifeOthers ==
  LifeInv /\ (Server \/ \E d \in Daemons : DaemonTop(d) \/ DaemonDecoded(d) \/ DaemonSend(d))
    => LifeInv'
<1> SUFFICES ASSUME LifeInv,
                    Server \/ \E d \in Daemons : DaemonTop(d) \/ DaemonDecoded(d) \/ DaemonSend(d)
             PROVE  LifeInv'
  OBVIOUS
<1> USE DEF LifeInv, TypeOK, OneDaemon, PlugState, LoopOfHandler, Modals, Alive, GuiBusy,
            driverVars, guiVars
<1>1. CASE Server
  BY <1>1 DEF Server, ServerFinds, ServerGivesUp, ServerSends, ServerSent, Functions
<1>2. ASSUME NEW d \in Daemons, DaemonTop(d) PROVE LifeInv'
  BY <1>2 DEF DaemonTop, Functions
<1>3. ASSUME NEW d \in Daemons, DaemonDecoded(d) PROVE LifeInv'
  BY <1>3 DEF DaemonDecoded, Functions
<1>4. ASSUME NEW d \in Daemons, DaemonSend(d) PROVE LifeInv'
  BY <1>4 DEF DaemonSend, Functions
<1> QED
  BY <1>1, <1>2, <1>3, <1>4

LEMMA LifeStutter == LifeInv /\ UNCHANGED vars => LifeInv'
  BY DEF vars, driverVars, guiVars, LifeInv, TypeOK, OneDaemon, PlugState, LoopOfHandler,
         Modals, Alive, Functions, GuiBusy

\* The strengthened invariant of the plug-in's life.
THEOREM LifeCorrect == Spec => []LifeInv
<1>1. LifeInv /\ [Next]_vars => LifeInv'
  BY LifeMessage, LifeHandler, LifeOthers, LifeStutter DEF Next
<1> QED
  BY LifeInit, <1>1, PTL DEF Spec

\* There is never more than one daemon thread, m_daemonThreadHandle is its handle,
\* and it is dead whenever CIRDriver starts, stops, loads or frees the plug-in.
THEOREM DaemonUnique == Spec => []OneDaemon
<1>1. LifeInv => OneDaemon
  BY DEF LifeInv
<1> QED
  BY LifeCorrect, <1>1, PTL

\* The daemon thread decodes only in a loaded and initialized plug-in, although no
\* lock is held: KillThread2 ends it before deinit goes on.
THEOREM DecodeNeedsPlugin == Spec => []DaemonHasPlugin
<1>1. LifeInv => DaemonHasPlugin
  BY DEF LifeInv, PlugState, DaemonHasPlugin, Functions, Alive
<1> QED
  BY LifeCorrect, <1>1, PTL

\* Whatever failed before, CIRDriver calls init and FreeLibrary only on a plug-in
\* that was deinitialized.
THEOREM PluginClean == Spec => []PluginCleanAtInit
<1>1. LifeInv => PluginCleanAtInit
  BY DEF LifeInv, PlugState, PluginCleanAtInit
<1> QED
  BY LifeCorrect, <1>1, PTL
-----------------------------------------------------------------------------
(* What goes wrong only if a resume starts the driver in its configuration. *)

\* Which handler each step belongs to.
HandlerOfStep ==
  /\ pc \in {"readConfig", "load"} => job = "initialize"
  /\ pc = "free" => job \in {"initialize", "exit"}
  /\ pc \in {"plugInit", "thread"} => job \in {"resume", "initialize"}
  /\ pc \in {"kill", "join", "plugDeinit"} =>
       /\ then = "plugInit" => job \in {"resume", "initialize"}
       /\ then = "free" => job \in {"initialize", "exit"}
       /\ then = "return" => job # "exit" /\ (job = "initialize" => failed)

\* While the configuration changes no daemon thread is alive, unless a resume started it.
Quiet ==
  /\ modal \in {"config", "ask"} =>
       m_daemonThreadHandle = NoThread \/ m_daemonThreadHandle \in early
  /\ GuiBusy /\ job = "initialize" =>
       m_daemonThreadHandle = NoThread \/ m_daemonThreadHandle \in early
  /\ \A d \in early : d = m_daemonThreadHandle
  /\ \A t \in dangling : t \in early

\* The plug-in that a daemon thread runs in, or will run in, can decode, with the same
\* exception.
CanDecode ==
  /\ \A d \in Daemons : Alive(d) /\ d \notin early => "decodeIR" \in Functions
  /\ pc \in {"plugInit", "thread"} /\ ~EarlyResume => "decodeIR" \in Functions
  /\ pc \in {"kill", "join", "plugDeinit"} /\ then = "plugInit" /\ ~EarlyResume =>
       "decodeIR" \in Functions
  /\ modal \in {"idle", "sendbox"} /\ pc # "gone" /\ ~(GuiBusy /\ job \in {"initialize", "exit"}) =>
       "decodeIR" \in Functions

ConfigInv == LifeInv /\ HandlerOfStep /\ Quiet /\ CanDecode

LEMMA ConfigInit == Init => ConfigInv
<1> SUFFICES ASSUME Init PROVE ConfigInv
  OBVIOUS
<1>1. LifeInv
  BY LifeInit
<1>2. \/ pc = "readConfig" /\ then = "return"
      \/ pc = "kill" /\ then = "free"
  BY DEF Init, InitializeSteps
<1>3. HandlerOfStep /\ Quiet
  BY <1>2 DEF Init, HandlerOfStep, Quiet, GuiBusy
<1>4. CanDecode
  BY <1>2 DEF Init, CanDecode, GuiBusy, Alive
<1> QED
  BY <1>1, <1>3, <1>4 DEF ConfigInv

\* Messages.
LEMMA ConfigMessage ==
  ASSUME ConfigInv, Message PROVE ConfigInv'
<1>1. LifeInv'
  BY LifeMessage DEF ConfigInv
<1>2. HandlerOfStep' /\ Quiet' /\ CanDecode'
  <2> USE DEF EarlyResume, ConfigInv, LifeInv, TypeOK, OneDaemon, HandlerOfStep,
              Quiet, CanDecode, GuiBusy, Alive, Functions, Handle, driverVars, Modals
  <2>1. CASE OnConfig
    BY <2>1 DEF OnConfig
  <2>2. CASE Suspend
    BY <2>2 DEF Suspend
  <2>3. CASE Resume
    BY <2>3 DEF Resume
  <2>4. CASE EndConfig
    <3>1. \/ pc' = "readConfig" /\ then' = "return"
          \/ pc' = "kill" /\ then' = "free"
      BY <2>4 DEF EndConfig, InitializeSteps
    <3>2. job' = "initialize" /\ modal = "config" /\ pc = "modal"
          /\ UNCHANGED <<dll, plug, m_daemonThreadHandle, m_daemonThreadEvent, modal, dm, cs, sv,
                        dangling, early>>
      BY <2>4 DEF EndConfig
    <3>3. \A d \in Daemons : Alive(d) => d \in early
      BY <3>2, NoThreadAssumption
    <3> QED
      BY <3>1, <3>2, <3>3
  <2>5. CASE AskAgain
    BY <2>5 DEF AskAgain
  <2>6. CASE Exit
    BY <2>6 DEF Exit
  <2>7. CASE OnSendcode
    BY <2>7 DEF OnSendcode
  <2>8. CASE CloseSendbox
    BY <2>8 DEF CloseSendbox
  <2>9. CASE OnCopyData
    BY <2>9 DEF OnCopyData
  <2> QED
    BY <2>1, <2>2, <2>3, <2>4, <2>5, <2>6, <2>7, <2>8, <2>9 DEF Message
<1> QED
  BY <1>1, <1>2 DEF ConfigInv

\* The steps of a handler.
LEMMA ConfigHandler ==
  ASSUME ConfigInv, Handler PROVE ConfigInv'
<1>1. LifeInv'
  BY LifeHandler DEF ConfigInv
<1>2. HandlerOfStep' /\ Quiet' /\ CanDecode'
  <2> USE NoThreadAssumption
      DEF EarlyResume, ConfigInv, LifeInv, TypeOK, OneDaemon, HandlerOfStep, Quiet, CanDecode,
          GuiBusy, Alive, Functions, driverVars, Modals
  <2>1. CASE ReadConfig
    <3>1. pc = "readConfig" /\ cs = "free" /\ UNCHANGED <<driverVars, dm, cs, sv, early>>
      BY <2>1 DEF ReadConfig
    <3>2. \A d \in Daemons : dm[d] # "none" => d \in early
      BY <3>1
    <3>3. sv = "idle"
      BY <3>1
    <3>4. \A t \in dangling' : t \in early
      <4>1. \A t \in dangling' : t \in dangling \/ t \in {d \in Daemons : dm[d] = "decode"}
        <5> HIDE DEF ConfigInv, LifeInv, TypeOK, OneDaemon, HandlerOfStep, Quiet, CanDecode
        <5> QED
          BY <2>1, <3>3 DEF ReadConfig, Return, Returns, Handle
      <4> HIDE <2>1
      <4> QED
        BY <4>1, <3>2
    <3>5. \/ pc' = "kill" /\ then' = "free" /\ UNCHANGED <<modal, job>>
          \/ pc' = "modal" /\ then' = "return" /\ job' = "none" /\ modal' = "ask"
      BY <2>1, <3>1 DEF ReadConfig, Return, Returns, Handle
    <3> HIDE <2>1
    <3> QED
      BY <3>1, <3>2, <3>4, <3>5
  <2>2. CASE KillDaemon
    <3>a. HandlerOfStep'
      BY <2>2 DEF KillDaemon
    <3>b. Quiet'
      BY <2>2 DEF KillDaemon
    <3>c. CanDecode'
      BY <2>2 DEF KillDaemon
    <3> QED
      BY <3>a, <3>b, <3>c
  <2>3. CASE JoinDaemon
    <3>a. HandlerOfStep'
      BY <2>3 DEF JoinDaemon
    <3>b. Quiet'
      BY <2>3 DEF JoinDaemon
    <3>c. CanDecode'
      BY <2>3 DEF JoinDaemon
    <3> QED
      BY <3>a, <3>b, <3>c
  <2>4. CASE PlugDeinit
    <3>1. CASE then # "return"
      BY <2>4, <3>1 DEF PlugDeinit
    <3>2. CASE then = "return" /\ job = "initialize"
      <4>1. failed = TRUE /\ pc' = "modal" /\ modal' = "ask"
        BY <2>4, <3>2 DEF PlugDeinit, Return, Returns, Handle
      <4> QED
        BY <2>4, <3>2, <4>1 DEF PlugDeinit
    <3>3. CASE then = "return" /\ job # "initialize"
      <4>1. pc' = "modal" /\ modal' \in {modal, "config"} /\ m_daemonThreadHandle = NoThread
        BY <2>4, <3>3 DEF PlugDeinit, Return, Returns, Handle
      <4> QED
        BY <2>4, <3>3, <4>1 DEF PlugDeinit
    <3> QED
      BY <3>1, <3>2, <3>3
  <2>5. CASE FreePlugin
    BY <2>5 DEF FreePlugin
  <2>6. CASE LoadPlugin
    BY <2>6, NoPluginAssumption DEF LoadPlugin, Return, Returns, Handle, Complete
  <2>7. CASE PlugInit
    <3>a. HandlerOfStep'
      BY <2>7 DEF PlugInit, Return, Returns, Handle
    <3>b. Quiet'
      BY <2>7 DEF PlugInit, Return, Returns, Handle
    <3>c. CanDecode'
      BY <2>7 DEF PlugInit, Return, Returns, Handle
    <3> QED
      BY <3>a, <3>b, <3>c
  <2>8. CASE StartDaemon
    <3>a. HandlerOfStep'
      BY <2>8 DEF StartDaemon, Return, Returns, Handle
    <3>b. Quiet'
      BY <2>8 DEF StartDaemon, Return, Returns, Handle
    <3>c. CanDecode'
      BY <2>8 DEF StartDaemon, Return, Returns, Handle
    <3> QED
      BY <3>a, <3>b, <3>c
  <2>9. CASE SendcodeReturns
    BY <2>9 DEF Returns, Handle, SendcodeReturns, LoopOfHandler
  <2>10. CASE CopyDataReturns
    BY <2>10 DEF Returns, Handle, CopyDataReturns
  <2> QED
    BY <2>1, <2>2, <2>3, <2>4, <2>5, <2>6, <2>7, <2>8, <2>9, <2>10 DEF Handler
<1> QED
  BY <1>1, <1>2 DEF ConfigInv

\* The other threads, and stuttering.
LEMMA ConfigOthers ==
  ASSUME ConfigInv,
         \/ Server
         \/ \E d \in Daemons : DaemonTop(d) \/ DaemonDecoded(d) \/ DaemonSend(d)
         \/ UNCHANGED vars
  PROVE  ConfigInv'
<1>1. LifeInv'
  BY LifeOthers, LifeStutter DEF ConfigInv
<1>2. HandlerOfStep' /\ Quiet' /\ CanDecode'
  <2> USE DEF EarlyResume, ConfigInv, LifeInv, TypeOK, OneDaemon, HandlerOfStep, Quiet, CanDecode,
              GuiBusy, Alive, Functions, driverVars, guiVars
  <2>1. CASE Server
    <3>a. HandlerOfStep'
      BY <2>1 DEF Server, ServerFinds, ServerGivesUp, ServerSends, ServerSent
    <3>b. Quiet'
      BY <2>1 DEF Server, ServerFinds, ServerGivesUp, ServerSends, ServerSent
    <3>c. CanDecode'
      BY <2>1 DEF Server, ServerFinds, ServerGivesUp, ServerSends, ServerSent
    <3> QED
      BY <3>a, <3>b, <3>c
  <2>2. ASSUME NEW d \in Daemons, DaemonTop(d) \/ DaemonDecoded(d) \/ DaemonSend(d)
        PROVE  HandlerOfStep' /\ Quiet' /\ CanDecode'
    <3>a. HandlerOfStep'
      BY <2>2 DEF DaemonTop, DaemonDecoded, DaemonSend
    <3>b. Quiet'
      BY <2>2 DEF DaemonTop, DaemonDecoded, DaemonSend
    <3>c. CanDecode'
      BY <2>2 DEF DaemonTop, DaemonDecoded, DaemonSend
    <3> QED
      BY <3>a, <3>b, <3>c
  <2>3. CASE UNCHANGED vars
    <3>a. HandlerOfStep'
      BY <2>3 DEF vars
    <3>b. Quiet'
      BY <2>3 DEF vars
    <3>c. CanDecode'
      BY <2>3 DEF vars
    <3> QED
      BY <3>a, <3>b, <3>c
  <2> QED
    BY <2>1, <2>2, <2>3
<1> QED
  BY <1>1, <1>2 DEF ConfigInv

LEMMA ConfigCorrect ==
  Spec => []ConfigInv
<1>1. ConfigInv /\ [Next]_vars => ConfigInv'
  BY ConfigMessage, ConfigHandler, ConfigOthers DEF Next
<1> QED
  BY ConfigInit, <1>1, PTL DEF Spec

\* readConfig never frees the remotes under sendIR, and under decodeIR only of a daemon
\* thread that a resume has started while the driver was being configured.
THEOREM RemotesNotFreedInUse == Spec => []NobodyUsesFreedRemotes
<1>1. ConfigInv => NobodyUsesFreedRemotes
  BY DEF ConfigInv, Quiet, NobodyUsesFreedRemotes
<1> QED
  BY ConfigCorrect, <1>1, PTL

\* The assertion of DaemonThreadProc (irdriver.cpp:203), but for such a thread.
THEOREM DecodeFunctionPresent == Spec => []DaemonHasDecode
<1>1. ConfigInv => DaemonHasDecode
  BY DEF ConfigInv, CanDecode, DaemonHasDecode, Alive
<1> QED
  BY ConfigCorrect, <1>1, PTL
=============================================================================
