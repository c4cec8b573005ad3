-------------------------- MODULE SendReceiveData --------------------------
(***************************************************************************)
(* Driver with a plug-in that stops its receive thread in order to send:   *)
(* class SendReceiveData of DLL/IRToy (DLL/Irdroid is the same code) and   *)
(* of DLL/MCE.  init, in the GUI thread, starts the receive thread; send,  *)
(* in the server thread, kills it, transmits and starts another; deinit,   *)
(* in the GUI thread, kills it and closes the device.  KillThread sets an  *)
(* auto-reset event and waits for the thread without limit.                *)
(*                                                                         *)
(* m_dllLock never locks, so a send may overlap a handler that stops or    *)
(* starts the plug-in.  When a thread would use an object that was deleted *)
(* the behaviour is undefined and ends.  Other plug-ins are as in Driver.  *)
(***************************************************************************)
EXTENDS Driver

CONSTANTS
  Devices,     \* the plug-ins of this kind
  Kinds,       \* "IRToy", "MCE": the kinds the instance covers
  Receivers,   \* thread objects CreateThread can create
  Null,        \* threadHandle = NULL
  Garbage      \* threadHandle of MCE before init has set it: no valid handle

ASSUME DevicesAssumption   == \A p \in Devices : p \in Plugins /\ Complete(p)
ASSUME KindsAssumption     == Kinds \subseteq {"IRToy", "MCE"}
ASSUME ReceiversAssumption == Null \notin Receivers /\ Garbage \notin Receivers

VARIABLES
  kind,          \* which of the plug-ins this is
  object,        \* sendReceiveData # NULL
  exitEvent,     \* auto-reset event: "none", "reset", "set"
  threadHandle,
  device,        \* the serial port or device handle is open
  rx,            \* receive thread -> where it is, "none" if not alive
  dn,            \* deinit: "no", "told" the thread to end, "joined" it
  tx,            \* send in the server thread: the same, "begin", "sent", "done"
  awaited,       \* the handle that KillThread has found, in deinit and in send
  startFailed,   \* a receive thread could not be created or failed to start
  missed,        \* a request to end was set for a thread that will not take it
  overlapped     \* a send has overlapped the start or the stop of this object

deviceVars == <<object, exitEvent, threadHandle, device, rx, startFailed, missed>>
callVars   == <<dn, tx, awaited>>
sVars      == <<vars, kind, deviceVars, callVars, overlapped>>

Running(t) == rx[t] # "none"

\* send of the object is running.
InSend == {"begin", "told", "joined", "sent"}

\* send works in an object that init has not finished or that deinit is closing.
Overlap == tx \in InSend /\ (plug # "on" \/ dn # "no")

\* A thread is in an object that is not there.
Undefined == ~object /\ (tx \in InSend \/ \E t \in Receivers : Running(t))

\* Every step: none follows undefined behaviour, and overlapped keeps what happened to
\* the present object.
Watch ==
  /\ ~Undefined
  /\ overlapped' = ((object' \/ Undefined') /\ (overlapped \/ Overlap'))

STypeOK ==
  /\ TypeOK
  /\ kind \in Kinds
  /\ object \in BOOLEAN /\ device \in BOOLEAN
  /\ exitEvent \in {"none", "reset", "set"}
  /\ threadHandle \in Receivers \cup {Null, Garbage}
  /\ rx \in [Receivers -> {"none", "starting", "receiving", "failing", "stopping"}]
  /\ dn \in {"no", "told", "joined"}
  /\ tx \in {"no", "begin", "told", "joined", "sent", "done"}
  /\ awaited \in [{"deinit", "send"} -> Receivers \cup {Null, Garbage}]
  /\ startFailed \in BOOLEAN /\ missed \in BOOLEAN /\ overlapped \in BOOLEAN
  /\ object => dll \in Devices /\ (plug # "off" \/ pc = "plugInit")
  /\ dn # "no" => pc = "plugDeinit" /\ object
  /\ tx # "no" => sv = "sending"

SInit ==
  /\ Init /\ kind \in Kinds
  /\ object = FALSE /\ exitEvent = "none" /\ threadHandle = Null /\ device = FALSE
  /\ rx = [t \in Receivers |-> "none"]
  /\ dn = "no" /\ tx = "no" /\ awaited = [who \in {"deinit", "send"} |-> Null]
  /\ startFailed = FALSE /\ missed = FALSE /\ overlapped = FALSE
-----------------------------------------------------------------------------
(* init: the GUI thread.                                                   *)

\* The constructor of MCE does not set threadHandle.
Unset == IF kind = "MCE" THEN Garbage ELSE Null

\* A thread that is waited for is not used again.  Threads are alike: take any.
Unused    == {t \in Receivers : ~Running(t) /\ \A who \in DOMAIN awaited : awaited[who] # t}
NewThread == CHOOSE t \in Unused : TRUE

\* CreateThread, which may fail.
Created(handle) ==
  \/ /\ Unused # {}
     /\ rx' = [rx EXCEPT ![NewThread] = "starting"]
     /\ handle = NewThread /\ UNCHANGED startFailed
  \/ handle = Null /\ startFailed' = TRUE /\ UNCHANGED rx

\* sendReceiveData is assigned before init of the object runs: a send may find it.
NewObject ==
  /\ pc = "plugInit" /\ dll \in Devices /\ ~object
  /\ object' = TRUE /\ threadHandle' = Unset
  /\ UNCHANGED <<vars, kind, exitEvent, device, rx, startFailed, missed, callVars>>

\* MCE: another program has the mutex, nothing is created.
InitLockedOut ==
  /\ kind = "MCE" /\ ~object /\ plug' = "off"
  /\ UNCHANGED deviceVars

\* The device is missing or one of its settings fails.
InitNoDevice ==
  /\ object /\ plug' = "half"
  /\ device' \in BOOLEAN
  /\ UNCHANGED <<object, exitEvent, threadHandle, rx, startFailed, missed>>

InitThread ==
  /\ object /\ device' = TRUE /\ exitEvent' = "reset"
  /\ Created(threadHandle')
  /\ plug' = IF threadHandle' = Null THEN "half" ELSE "on"
  /\ UNCHANGED <<object, missed>>

DeviceInit ==
  /\ pc = "plugInit"
  /\ PlugInit
  /\ IF dll \in Devices THEN InitLockedOut \/ InitNoDevice \/ InitThread
                        ELSE UNCHANGED deviceVars
  /\ UNCHANGED <<kind, callVars>>
-----------------------------------------------------------------------------
(* KillThread, in both threads.                                            *)

\* The thread of threadHandle has not ended and will look at exitEvent.
Listening ==
  threadHandle \in Receivers /\ rx[threadHandle] \in {"starting", "receiving", "failing"}

\* It sets exitEvent, if there is one, whether or not the thread is alive ...
TellThread(who) ==
  /\ exitEvent' = IF exitEvent = "none" THEN "none" ELSE "set"
  /\ missed' = (missed \/ (exitEvent # "none" /\ ~Listening))
  /\ awaited' = [awaited EXCEPT ![who] = threadHandle]
  /\ UNCHANGED <<vars, kind, object, threadHandle, device, rx, startFailed>>

\* ... and forgets the thread when it has ended, or at once for no valid handle.
ForgetThread(who) ==
  /\ threadHandle' = IF awaited[who] = Null THEN threadHandle ELSE Null
  /\ awaited' = [awaited EXCEPT ![who] = Null]
  /\ UNCHANGED <<vars, kind, object, exitEvent, device, rx, startFailed, missed>>

ThreadEnded(who) == awaited[who] \in Receivers => ~Running(awaited[who])
-----------------------------------------------------------------------------
(* deinit: the GUI thread.                                                 *)

DeinitTells ==
  /\ pc = "plugDeinit" /\ dn = "no"
  /\ dll \in Devices /\ object
  /\ TellThread("deinit") /\ dn' = "told" /\ UNCHANGED tx

DeinitJoins ==
  /\ dn = "told" /\ ThreadEnded("deinit")
  /\ ForgetThread("deinit") /\ dn' = "joined" /\ UNCHANGED tx

DeinitKeepsObject ==
  /\ pc = "plugDeinit"
  /\ dll \in Devices /\ object => dn = "joined"
  /\ PlugDeinit
  /\ IF dn = "joined"
     THEN device' = FALSE /\ exitEvent' = "none" /\ startFailed' = FALSE /\ missed' = FALSE
     ELSE UNCHANGED <<device, exitEvent, startFailed, missed>>
  /\ dn' = "no"
  /\ UNCHANGED <<kind, object, threadHandle, rx, tx, awaited>>

\* The device and the events are closed and the object is deleted.
DeviceDeinit ==
  /\ pc = "plugDeinit"
  /\ dll \in Devices /\ object => dn = "joined"
  /\ PlugDeinit
  /\ IF dn = "joined"
     THEN /\ object' = FALSE /\ device' = FALSE /\ exitEvent' = "none"
          /\ startFailed' = FALSE /\ missed' = FALSE
     ELSE UNCHANGED <<object, device, exitEvent, startFailed, missed>>
  /\ dn' = "no"
  /\ UNCHANGED <<kind, threadHandle, rx, tx, awaited>>
-----------------------------------------------------------------------------
(* send: the server thread.                                                *)

\* sendIR tests sendReceiveData once; init_send may refuse the code.
SendBegins ==
  /\ ServerSends
  /\ \/ dll \in Devices /\ object /\ tx' = "begin"
     \/ tx' = "done"
  /\ UNCHANGED <<kind, deviceVars, dn, awaited>>

SendTells ==
  /\ tx = "begin"
  /\ TellThread("send") /\ tx' = "told" /\ UNCHANGED dn

SendDoesNotWait ==
  /\ tx = "told"
  /\ ForgetThread("send") /\ tx' = "joined" /\ UNCHANGED dn

SendJoins ==
  /\ tx = "told" /\ ThreadEnded("send")
  /\ ForgetThread("send") /\ tx' = "joined" /\ UNCHANGED dn

Transmit ==
  /\ tx = "joined"
  /\ tx' = "sent"
  /\ UNCHANGED <<vars, kind, deviceVars, dn, awaited>>

SendForgetsThread ==
  /\ tx = "sent"
  /\ tx' = "done"
  /\ UNCHANGED <<vars, kind, deviceVars, dn, awaited>>

\* "Start receiving again".
SendRestarts ==
  /\ tx = "sent"
  /\ Created(threadHandle')
  /\ tx' = "done"
  /\ UNCHANGED <<vars, kind, object, exitEvent, device, missed, dn, awaited>>

SendReturns ==
  /\ tx = "done" /\ ServerSent
  /\ tx' = "no"
  /\ UNCHANGED <<kind, deviceVars, dn, awaited>>

SendSteps == SendTells \/ SendJoins \/ Transmit \/ SendRestarts
-----------------------------------------------------------------------------
(* The receive thread.                                                     *)

\* startReceive of MCE may fail or time out, and the thread ends; the wait for data or
\* exitEvent ends at once if exitEvent is not a handle.
StartReceive(t) ==
  /\ rx[t] = "starting"
  /\ \/ /\ device /\ exitEvent # "none"
        /\ rx' = [rx EXCEPT ![t] = "receiving"] /\ UNCHANGED <<startFailed, missed>>
     \/ /\ kind = "MCE" \/ exitEvent = "none"
        /\ rx' = [rx EXCEPT ![t] = "none"]
        /\ startFailed' = TRUE /\ missed' = (missed \/ exitEvent = "set")
  /\ UNCHANGED <<vars, kind, object, exitEvent, threadHandle, device, callVars>>

\* MCE: the device is gone and DeviceIo fails before it waits.  The loop of threadProc
\* tries again without a look at exitEvent, until the device answers.
DeviceFails(t) ==
  /\ kind = "MCE" /\ rx[t] = "receiving"
  /\ rx' = [rx EXCEPT ![t] = "failing"]
  /\ UNCHANGED <<vars, kind, object, exitEvent, threadHandle, device, startFailed, missed,
                 callVars>>

DeviceRecovers(t) ==
  /\ rx[t] = "failing" /\ device /\ exitEvent # "none"
  /\ rx' = [rx EXCEPT ![t] = "receiving"]
  /\ UNCHANGED <<vars, kind, object, exitEvent, threadHandle, device, startFailed, missed,
                 callVars>>

ExitRequestKeepsEvent(t) ==
  /\ rx[t] = "receiving" /\ exitEvent = "set"
  /\ rx' = [rx EXCEPT ![t] = "stopping"] /\ missed' = FALSE
  /\ UNCHANGED <<vars, kind, object, exitEvent, threadHandle, device, startFailed, callVars>>

\* The wait for data or exitEvent takes exitEvent, which is reset by that.
ExitRequest(t) ==
  /\ rx[t] = "receiving" /\ exitEvent = "set"
  /\ exitEvent' = "reset" /\ missed' = FALSE
  /\ rx' = [rx EXCEPT ![t] = "stopping"]
  /\ UNCHANGED <<vars, kind, object, threadHandle, device, startFailed, callVars>>

ThreadEnds(t) ==
  /\ rx[t] = "stopping"
  /\ rx' = [rx EXCEPT ![t] = "none"]
  /\ UNCHANGED <<vars, kind, object, exitEvent, threadHandle, device, startFailed, missed,
                 callVars>>

Receiver(t) == StartReceive(t) \/ ExitRequest(t) \/ ThreadEnds(t)
-----------------------------------------------------------------------------
\* What the other parts of Driver do leaves the device alone.
Elsewhere ==
  /\ \/ Message \/ ReadConfig \/ KillDaemon \/ JoinDaemon \/ FreePlugin \/ LoadPlugin
     \/ StartDaemon \/ SendcodeReturns \/ CopyDataReturns \/ ServerFinds \/ ServerGivesUp
     \/ \E d \in Daemons : DaemonTop(d) \/ DaemonDecoded(d) \/ DaemonSend(d)
  /\ UNCHANGED <<kind, deviceVars, callVars>>

GuiSteps == NewObject \/ DeviceInit \/ DeinitTells \/ DeinitJoins \/ DeviceDeinit
            \/ (Handler /\ Elsewhere)

SNext ==
  \/ Elsewhere /\ Watch
  \/ NewObject /\ Watch
  \/ DeviceInit /\ Watch
  \/ DeinitTells /\ Watch
  \/ DeinitJoins /\ Watch
  \/ DeviceDeinit /\ Watch
  \/ SendBegins /\ Watch
  \/ SendSteps /\ Watch
  \/ SendReturns /\ Watch
  \/ \E t \in Receivers : (Receiver(t) \/ DeviceFails(t) \/ DeviceRecovers(t)) /\ Watch

\* As in Driver; the plug-in keeps its promises by the receive thread, which runs.  A
\* device may fail and answer again, or not.
SFairness ==
  /\ SF_sVars(GuiSteps /\ Watch)
  /\ WF_sVars(SendSteps /\ Watch) /\ WF_sVars(SendReturns /\ Watch)
  /\ WF_sVars(ServerGivesUp /\ Elsewhere /\ Watch)
  /\ \A t \in Receivers : WF_sVars(Receiver(t) /\ Watch)

SSpec == SInit /\ [][SNext]_sVars /\ SFairness
-----------------------------------------------------------------------------
(* What must hold.  The lock that should keep a send apart from init and   *)
(* deinit is never taken: OneReceiver, ReceivesAgain and HandlerReturns    *)
(* hold until such an overlap, ObjectOutlivesSend says what it may do.     *)

\* Two receive threads never share the device, and none outlives the object it
\* belongs to, its event or its device.
OneReceiver ==
  ~overlapped =>
    \A t \in Receivers :
      Running(t) => threadHandle = t /\ object /\ device /\ exitEvent # "none"

\* A receive thread ends because KillThread waits for it: the request that ended its
\* predecessor does not end it too.  A request that found no thread, as the one before
\* could not start, stays in the auto-reset event and does end it.
EndsOnRequest ==
  [][\A t \in Receivers : rx[t] = "receiving" /\ rx'[t] = "stopping" =>
       dn = "told" \/ tx = "told" \/ missed]_sVars

\* MCE/SendReceiveData.cpp:463, "Start receiving again": an initialized plug-in
\* receives, or tries to while its device fails, also after it has sent, unless a thread
\* could not be created or started.
\* After that nothing is promised, and the next one may be ended by a stale request.
ReceivesAgain ==
  plug = "on" /\ dll \in Devices ~>
    \/ \E t \in Receivers : rx[t] \in {"receiving", "failing"}
    \/ plug # "on" \/ startFailed

\* No receive thread is in the loop that does not look at exitEvent.
DeviceAnswers == \A t \in Receivers : rx[t] # "failing"

\* Every handler of the GUI thread returns to its message loop or ends, even if the
\* plug-in ignores the daemon's exit event and a client does not read.  Not if the
\* device of MCE is gone for good: KillThread then waits for ever.  So it may after an
\* overlap, when two receive threads share one exitEvent.
HandlerReturns ==
  <>[]DeviceAnswers => (pc \notin {"modal", "gone"} ~> pc \in {"modal", "gone"} \/ overlapped)

\* irdriver.h:53, m_dllLock "Protects access to the functions imported from
\* plug-in dll": send never works in an object that deinit has deleted.
ObjectOutlivesSend == [][(tx \in InSend) => object']_sVars
=============================================================================
