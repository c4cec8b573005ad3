------------------------------- MODULE Driver -------------------------------
(***************************************************************************)
(* The life of the plug-in: CIRDriver (winlirc/irdriver.cpp) as the dialog *)
(* Cdrvdlg (winlirc/drvdlg.cpp) uses it.  The GUI thread loads, starts,    *)
(* stops and frees the plug-in; the daemon thread decodes in it; the       *)
(* server thread sends through it.                                         *)
(*                                                                         *)
(* `CSingleLock l(&m_dllLock)` without a second argument does not lock, so *)
(* m_dllLock has no state here.  The plug-in is external: decodeIR may     *)
(* ignore the exit event, init may fail half way.  config.exitOnError is   *)
(* not set.                                                                *)
(***************************************************************************)
EXTENDS Naturals, FiniteSets

CONSTANTS
  Plugins,      \* the plug-in files that LoadLibrary can load
  NoPlugin,     \* m_dll.dllFile = NULL
  Exports,      \* Exports[p]: the functions GetProcAddress finds in p
  Daemons,      \* thread objects AfxBeginThread can create
  NoThread      \* m_daemonThreadHandle = NULL

ASSUME ExportsAssumption ==
  Exports \in [Plugins -> SUBSET {"init", "deinit", "sendIR", "decodeIR"}]
ASSUME DeinitAssumption == \A p \in Plugins : "init" \in Exports[p] => "deinit" \in Exports[p]
ASSUME NoPluginAssumption == NoPlugin \notin Plugins
ASSUME NoThreadAssumption == NoThread \notin Daemons

VARIABLES
  dll,                   \* m_dll: the loaded plug-in
  plug,                  \* its state: "off", "half" after a failed init, "on"
  m_daemonThreadHandle,
  m_daemonThreadEvent,   \* manual-reset event
  dm,                    \* daemon thread -> where it is, "none" if not alive
  cs,                    \* owner of CS_global_remotes
  sv,                    \* the server thread in parseSendString
  dangling,              \* threads that use a remote list that was freed
  early,                 \* daemon threads that a resume has started while the driver
                         \* was still being configured
  modal,                 \* the message loop the GUI thread is in
  pc, then, job, failed  \* the GUI thread's handler: its step, what follows its
                         \* deinit(), the handler, and whether init failed

guiVars    == <<modal, pc, then, job, failed>>
driverVars == <<dll, plug, m_daemonThreadHandle, m_daemonThreadEvent>>
vars       == <<driverVars, guiVars, dm, cs, sv, dangling, early>>

Modals == {"idle", "config", "ask", "sendbox"}

\* The functions that m_dll points to.
Functions == IF dll = NoPlugin THEN {} ELSE Exports[dll]

Complete(p) == Exports[p] = {"init", "deinit", "sendIR", "decodeIR"}

Alive(d) == dm[d] # "none"

TypeOK ==
  /\ dll \in Plugins \cup {NoPlugin}
  /\ plug \in {"off", "half", "on"}
  /\ m_daemonThreadHandle \in Daemons \cup {NoThread}
  /\ m_daemonThreadEvent \in BOOLEAN
  /\ dm \in [Daemons -> {"none", "top", "decode", "send"}]
  /\ cs \in {"free", "gui", "server"}
  /\ sv \in {"idle", "found", "sending"}
  /\ dangling \subseteq Daemons \cup {"server"}
  /\ early \subseteq Daemons
  /\ modal \in Modals
  /\ pc \in {"modal", "readConfig", "kill", "join", "plugDeinit", "free", "load",
             "plugInit", "thread", "send", "gone"}
  /\ then \in {"return", "free", "plugInit"}
  /\ job \in {"none", "suspend", "resume", "config", "initialize", "exit", "send", "copydata"}
  /\ failed \in BOOLEAN
  /\ cs = "server" <=> sv # "idle"
  /\ cs = "gui" <=> modal = "sendbox" \/ pc = "send"

\* InitializeDaemon starts with readConfig if a remote file is configured, and
\* with loadPlugin, that is with unloadPlugin and its deinit(), otherwise.
InitializeSteps == {<<"readConfig", "return">>, <<"kill", "free">>}

\* OnCreate runs DoInitializeDaemon.
Init ==
  /\ dll = NoPlugin /\ plug = "off"
  /\ m_daemonThreadHandle = NoThread /\ m_daemonThreadEvent = FALSE
  /\ dm = [d \in Daemons |-> "none"]
  /\ cs = "free" /\ sv = "idle" /\ dangling = {} /\ early = {}
  /\ modal = "idle" /\ \E steps \in InitializeSteps : pc = steps[1] /\ then = steps[2]
  /\ job = "initialize" /\ failed = FALSE
-----------------------------------------------------------------------------
(* The GUI thread: messages that start a handler.                          *)

Handle(name, step, follow) ==
  /\ job' = name /\ pc' = step /\ then' = follow /\ failed' = FALSE

\* The handler returns to its message loop.
Returns == Handle("none", "modal", "return")

OnConfigKeepsDriver ==
  /\ pc = "modal" /\ modal = "idle"
  /\ modal' = "config"
  /\ UNCHANGED <<driverVars, pc, then, job, failed, dm, cs, sv, dangling, early>>

OnConfig ==
  /\ pc = "modal" /\ modal = "idle"
  /\ Handle("config", "kill", "return")
  /\ UNCHANGED <<driverVars, modal, dm, cs, sv, dangling, early>>

Suspend ==
  /\ pc = "modal"
  /\ Handle("suspend", "kill", "return")
  /\ UNCHANGED <<driverVars, modal, dm, cs, sv, dangling, early>>

ResumeWithoutDeinit ==
  /\ pc = "modal"
  /\ Handle("resume", "plugInit", "plugInit")
  /\ UNCHANGED <<driverVars, modal, dm, cs, sv, dangling, early>>

\* CIRDriver::init starts with deinit().
Resume ==
  /\ pc = "modal"
  /\ Handle("resume", "kill", "plugInit")
  /\ UNCHANGED <<driverVars, modal, dm, cs, sv, dangling, early>>

\* The configuration dialog is closed; DoInitializeDaemon follows.
EndConfig ==
  /\ pc = "modal" /\ modal = "config"
  /\ \E steps \in InitializeSteps : Handle("initialize", steps[1], steps[2])
  /\ UNCHANGED <<driverVars, modal, dm, cs, sv, dangling, early>>

\* "Would you like to change the configuration and try again?"
AskAgain ==
  /\ pc = "modal" /\ modal = "ask"
  /\ modal' = "config"
  /\ UNCHANGED <<driverVars, pc, then, job, failed, dm, cs, sv, dangling, early>>

\* Cancel there, or Exit: the dialog is deleted, ~CIRDriver unloads the plug-in.
Exit ==
  /\ pc = "modal" /\ modal \in {"ask", "idle"}
  /\ Handle("exit", "kill", "free")
  /\ UNCHANGED <<driverVars, modal, dm, cs, sv, dangling, early>>

OnSendcode ==
  /\ pc = "modal" /\ modal = "idle" /\ cs = "free"
  /\ cs' = "gui"
  /\ Handle("send", "send", "return")
  /\ UNCHANGED <<driverVars, modal, dm, sv, dangling, early>>

\* Another program sends WM_COPYDATA: parseSendString runs in the GUI thread, in
\* any message loop; the lock is recursive.
OnCopyData ==
  /\ pc = "modal" /\ cs # "server"
  /\ cs' = "gui"
  /\ Handle("copydata", "send", "return")
  /\ UNCHANGED <<driverVars, modal, dm, sv, dangling, early>>

CopyDataReturns ==
  /\ pc = "send" /\ job = "copydata"
  /\ Returns
  /\ cs' = IF modal = "sendbox" THEN "gui" ELSE "free"
  /\ UNCHANGED <<driverVars, modal, dm, sv, dangling, early>>

\* A message box about a failure opens while CS_global_remotes is held.
SendcodeReturns ==
  /\ pc = "send" /\ job = "send"
  /\ Returns
  /\ \/ cs' = "free" /\ UNCHANGED modal
     \/ modal' = "sendbox" /\ UNCHANGED cs
  /\ UNCHANGED <<driverVars, dm, sv, dangling, early>>

CloseSendbox ==
  /\ pc = "modal" /\ modal = "sendbox"
  /\ modal' = "idle" /\ cs' = "free"
  /\ UNCHANGED <<driverVars, pc, then, job, failed, dm, sv, dangling, early>>
-----------------------------------------------------------------------------
(* The GUI thread: the steps of a handler.                                 *)

\* The end of a handler in another loop; a failed initialization asks the user.
Return(ok) ==
  /\ Returns
  /\ modal' = CASE job = "config" -> "config"
                [] job = "initialize" -> IF ok THEN "idle" ELSE "ask"
                [] OTHER -> modal

\* CIRConfig::readConfig.  The old list is freed once the file could be opened.
ReadConfig ==
  /\ pc = "readConfig" /\ cs = "free"
  /\ \/ /\ dangling' = dangling \cup {d \in Daemons : dm[d] = "decode"}
                                 \cup {t \in {"server"} : sv # "idle"}
        /\ \/ pc' = "kill" /\ then' = "free" /\ UNCHANGED <<modal, job, failed>>
           \/ Return(FALSE)
     \/ Return(FALSE) /\ UNCHANGED dangling
  /\ UNCHANGED <<driverVars, dm, cs, sv, early>>

\* KillThread2 tells the daemon thread to end ...
KillDaemon ==
  /\ pc = "kill"
  /\ IF m_daemonThreadHandle = NoThread
     THEN pc' = "plugDeinit" /\ UNCHANGED m_daemonThreadEvent
     ELSE pc' = "join" /\ m_daemonThreadEvent' = TRUE
  /\ UNCHANGED <<dll, plug, m_daemonThreadHandle, modal, then, job, failed, dm, cs, sv,
                 dangling, early>>

JoinGivesUp ==
  /\ pc = "join"
  /\ pc' = "plugDeinit"
  /\ m_daemonThreadEvent' = FALSE /\ m_daemonThreadHandle' = NoThread
  /\ UNCHANGED <<dll, plug, dm, modal, then, job, failed, cs, sv, dangling, early>>

JoinForever ==
  /\ pc = "join" /\ dm[m_daemonThreadHandle] = "none"
  /\ pc' = "plugDeinit"
  /\ m_daemonThreadEvent' = FALSE /\ m_daemonThreadHandle' = NoThread
  /\ early' = early \ {m_daemonThreadHandle}
  /\ UNCHANGED <<dll, plug, dm, modal, then, job, failed, cs, sv, dangling>>

\* ... and waits for it, or terminates it after 5000 ms wherever it is.
JoinDaemon ==
  /\ pc = "join"
  /\ dm' = [dm EXCEPT ![m_daemonThreadHandle] = "none"]
  /\ dangling' = dangling \ {m_daemonThreadHandle}
  /\ early' = early \ {m_daemonThreadHandle}
  /\ m_daemonThreadEvent' = FALSE /\ m_daemonThreadHandle' = NoThread
  /\ pc' = "plugDeinit"
  /\ UNCHANGED <<dll, plug, modal, then, job, failed, cs, sv>>

DeinitOnlyIfOn == "deinit" \in Functions /\ plug = "on"

CallsDeinit == "deinit" \in Functions

\* The end of CIRDriver::deinit.
PlugDeinit ==
  /\ pc = "plugDeinit"
  /\ plug' = IF CallsDeinit THEN "off" ELSE plug
  /\ IF then = "return" THEN Return(~failed)
     ELSE pc' = then /\ UNCHANGED <<modal, then, job, failed>>
  /\ UNCHANGED <<dll, m_daemonThreadHandle, m_daemonThreadEvent, dm, cs, sv, dangling,
                 early>>

\* The end of CIRDriver::unloadPlugin.
FreePlugin ==
  /\ pc = "free"
  /\ dll' = NoPlugin /\ plug' = "off"
  /\ pc' = IF job = "exit" THEN "gone" ELSE "load"
  /\ UNCHANGED <<m_daemonThreadHandle, m_daemonThreadEvent, modal, then, job, failed, dm,
                 cs, sv, dangling, early>>

\* A library without all six functions stays loaded, but loadPlugin fails.
LoadPlugin ==
  /\ pc = "load"
  /\ \/ /\ dll' \in {p \in Plugins : Complete(p)}
        /\ pc' = "kill" /\ then' = "plugInit"
        /\ UNCHANGED <<modal, job, failed>>
     \/ /\ dll' \in {p \in Plugins : ~Complete(p)} \cup {NoPlugin}
        /\ Return(FALSE)
  /\ UNCHANGED <<plug, m_daemonThreadHandle, m_daemonThreadEvent, dm, cs, sv, dangling,
                 early>>

\* A failed init may leave things behind, hence the deinit() after it.
PlugInit ==
  /\ pc = "plugInit"
  /\ \/ /\ "init" \notin Functions
        /\ Return(FALSE) /\ UNCHANGED plug
     \/ /\ "init" \in Functions
        /\ plug' = "on" /\ pc' = "thread"
        /\ UNCHANGED <<modal, then, job, failed>>
     \/ /\ "init" \in Functions
        /\ plug' \in {"off", "half"}
        /\ failed' = TRUE /\ then' = "return" /\ pc' = "kill"
        /\ UNCHANGED <<modal, job>>
  /\ UNCHANGED <<dll, m_daemonThreadHandle, m_daemonThreadEvent, dm, cs, sv, dangling,
                 early>>

\* A resume in the configuration dialog, or in the question whether to open it again:
\* the driver starts with what is loaded, whatever that is.
EarlyResume == job = "resume" /\ modal \in {"config", "ask"}

\* AfxBeginThread; when it fails the plug-in stays initialized.
StartDaemon ==
  /\ pc = "thread"
  /\ \/ \E d \in Daemons :
          /\ ~Alive(d)
          /\ dm' = [dm EXCEPT ![d] = "top"]
          /\ m_daemonThreadHandle' = d
          /\ early' = IF EarlyResume THEN early \cup {d} ELSE early
          /\ Return(TRUE)
     \/ /\ m_daemonThreadHandle' = NoThread
        /\ Return(FALSE)
        /\ UNCHANGED <<dm, early>>
  /\ UNCHANGED <<dll, plug, m_daemonThreadEvent, cs, sv, dangling>>

Message == OnConfig \/ Suspend \/ Resume \/ EndConfig \/ AskAgain \/ Exit \/ OnSendcode
           \/ CloseSendbox \/ OnCopyData

Handler == ReadConfig \/ KillDaemon \/ JoinDaemon \/ PlugDeinit \/ FreePlugin
           \/ LoadPlugin \/ PlugInit \/ StartDaemon \/ SendcodeReturns
           \/ CopyDataReturns
-----------------------------------------------------------------------------
(* The daemon thread: CIRDriver::DaemonThreadProc.                         *)

DaemonTop(d) ==
  /\ dm[d] = "top"
  /\ dm' = [dm EXCEPT ![d] = IF m_daemonThreadEvent THEN "none" ELSE "decode"]
  /\ UNCHANGED <<driverVars, guiVars, cs, sv, dangling, early>>

\* decodeIR returns: nothing decoded, a repeat that is not passed on, a message.
DaemonDecoded(d) ==
  /\ dm[d] = "decode"
  /\ \E next \in {"top", "send"} : dm' = [dm EXCEPT ![d] = next]
  /\ dangling' = dangling \ {d}
  /\ UNCHANGED <<driverVars, guiVars, cs, sv, early>>

\* GoGreen and sendToClients, which may block.
DaemonSend(d) ==
  /\ dm[d] = "send"
  /\ dm' = [dm EXCEPT ![d] = "top"]
  /\ UNCHANGED <<driverVars, guiVars, cs, sv, dangling, early>>
-----------------------------------------------------------------------------
(* The server thread: Cserver::parseSendString and CIRDriver::sendIR.      *)

ServerFinds ==
  /\ sv = "idle" /\ cs = "free" /\ pc # "gone"
  /\ sv' = "found" /\ cs' = "server"
  /\ UNCHANGED <<driverVars, guiVars, dm, dangling, early>>

\* The lookup failed, or the plug-in has no sendIR.
ServerGivesUp ==
  /\ sv = "found" /\ sv' = "idle"
  /\ cs' = "free" /\ dangling' = dangling \ {"server"}
  /\ UNCHANGED <<driverVars, guiVars, dm, early>>

ServerSends ==
  /\ sv = "found" /\ "sendIR" \in Functions
  /\ sv' = "sending"
  /\ UNCHANGED <<driverVars, guiVars, dm, cs, dangling, early>>

ServerSent ==
  /\ sv = "sending" /\ sv' = "idle"
  /\ cs' = "free" /\ dangling' = dangling \ {"server"}
  /\ UNCHANGED <<driverVars, guiVars, dm, early>>

Server == ServerFinds \/ ServerGivesUp \/ ServerSends \/ ServerSent

Next ==
  \/ Message \/ Handler \/ Server
  \/ \E d \in Daemons : DaemonTop(d) \/ DaemonDecoded(d) \/ DaemonSend(d)

\* A handler runs on: KillThread2 bounds its wait, and the server thread, which
\* waits for the network between two commands, leaves CS_global_remotes to it.
\* sendIR of the plug-in returns.  Nothing is assumed of decodeIR, of send() to a
\* client, or of the user.
Fairness == SF_vars(Handler) /\ WF_vars(ServerGivesUp \/ ServerSent)

Spec == Init /\ [][Next]_vars /\ Fairness
-----------------------------------------------------------------------------
(* What must hold.                                                         *)

\* irdriver.cpp:103-104, 128-129, 151-152: when deinit() calls the plug-in the
\* daemon thread is dead; and the handle is that of the only one alive.
OneDaemon ==
  /\ \A d \in Daemons : Alive(d) => m_daemonThreadHandle = d
  /\ pc \in {"plugDeinit", "free", "load", "plugInit", "thread"} =>
       m_daemonThreadHandle = NoThread

\* The daemon thread is in decodeIR only of a plug-in that is initialized.
DaemonHasPlugin ==
  \A d \in Daemons : dm[d] = "decode" => dll # NoPlugin /\ plug = "on"

\* init and FreeLibrary meet a plug-in that holds nothing any more, whatever
\* failed before.
PluginCleanAtInit ==
  pc = "free" \/ (pc = "plugInit" /\ "init" \in Functions) => plug = "off"

\* readConfig (irconfig.cpp:65) frees the remotes only when neither decodeIR nor sendIR
\* uses them, with one exception: a daemon thread that a resume has started in the
\* configuration dialog (drvdlg.cpp:154) goes on decoding with the list that is freed.
NobodyUsesFreedRemotes == dangling \subseteq early

\* irdriver.cpp:203, ASSERT(m_dll.decodeFunction != NULL) of the daemon thread.  Only
\* a resume in the configuration dialog can start it in a library that loadPlugin has
\* refused.
DaemonHasDecode ==
  \A d \in Daemons : Alive(d) /\ d \notin early => "decodeIR" \in Functions
=============================================================================
