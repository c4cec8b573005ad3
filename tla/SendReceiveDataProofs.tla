------------------------ MODULE SendReceiveDataProofs ------------------------
(***************************************************************************)
(* What TLAPS proves of SendReceiveData, for every set of plug-ins,        *)
(* devices and threads: that it implements Driver, that a receive thread   *)
(* ends only when it is asked to, and that receive threads do not share    *)
(* the device before a send overlaps the start or the stop of the plug-in. *)
(***************************************************************************)
EXTENDS SendReceiveData, DriverProofs

\* A step of the plug-in's send or of its receive thread is no step of Driver.
LEMMA StepIsDriverStep == SNext => [Next]_vars
<1> SUFFICES ASSUME SNext PROVE [Next]_vars
  OBVIOUS
<1>1. CASE Elsewhere
  BY <1>1 DEF Elsewhere, Next, Handler, Server
<1>2. CASE DeviceInit
  BY <1>2 DEF DeviceInit, Next, Handler
<1>3. CASE DeviceDeinit
  BY <1>3 DEF DeviceDeinit, Next, Handler
<1>4. CASE SendBegins \/ SendReturns
  BY <1>4 DEF SendBegins, SendReturns, Next, Server
<1>5. CASE NewObject \/ DeinitTells \/ DeinitJoins
  BY <1>5 DEF NewObject, DeinitTells, DeinitJoins, TellThread, ForgetThread
<1>6. CASE SendSteps
  BY <1>6 DEF SendSteps, SendTells, SendJoins, Transmit, SendRestarts, TellThread, ForgetThread
<1>7. ASSUME NEW t \in Receivers, Receiver(t) \/ DeviceFails(t) \/ DeviceRecovers(t)
      PROVE  [Next]_vars
  BY <1>7 DEF Receiver, StartReceive, ExitRequest, ThreadEnds, DeviceFails, DeviceRecovers
<1> QED
  BY <1>1, <1>2, <1>3, <1>4, <1>5, <1>6, <1>7 DEF SNext

\* What a plug-in does with its receive thread is invisible to CIRDriver: every
\* behaviour of SendReceiveData is one of Driver.
THEOREM ImplementsDriver == SSpec => Init /\ [][Next]_vars
<1>1. SInit => Init
  BY DEF SInit
<1>2. [SNext]_sVars => [Next]_vars
  BY StepIsDriverStep DEF sVars
<1> QED
  BY <1>1, <1>2, PTL DEF SSpec

\* DriverProofs shows this of each kind of step; here for a step of Driver as a whole.
LEMMA LifeStep == LifeInv /\ [Next]_vars => LifeInv'
  BY LifeMessage, LifeHandler, LifeOthers, LifeStutter DEF Next

\* So the daemon thread and the state of the plug-in are right here too.
LEMMA LifeHolds == SSpec => []LifeInv
  BY ImplementsDriver, LifeInit, LifeStep, PTL
-----------------------------------------------------------------------------
(* What holds of the object, of requests, and of the hand-over.            *)

\* A request waits in exitEvent for a thread that will look at it, and that KillThread
\* waits for, or it is one that was missed.
AwaitsRequest(t) == t \in Receivers /\ rx[t] \in {"starting", "receiving", "failing"}

RequestState ==
  /\ awaited["deinit"] \in Receivers => dn = "told"
  /\ awaited["send"] \in Receivers => tx = "told"
  /\ exitEvent = "set" =>
       \/ missed = TRUE
       \/ AwaitsRequest(awaited["deinit"])
       \/ AwaitsRequest(awaited["send"])

\* As long as send has kept clear of init and deinit: what there is of the device, and of
\* a thread before, in and after KillThread.
HandOver ==
  /\ \A t \in Receivers : Running(t) =>
       threadHandle = t /\ object = TRUE /\ plug = "on" /\ device = TRUE /\ exitEvent # "none"
  /\ object = TRUE /\ plug = "on" => device = TRUE /\ exitEvent # "none"
  /\ tx \in InSend => object = TRUE /\ plug = "on" /\ dn = "no"
  /\ dn = "joined" \/ tx \in {"joined", "sent"} => threadHandle = Null
  /\ dn = "told" => awaited["deinit"] = threadHandle
  /\ tx = "told" => awaited["send"] = threadHandle

HandOverInv == STypeOK /\ RequestState /\ (overlapped = FALSE => HandOver)

\* No plug-in is loaded yet and no thread runs.
LEMMA HandOverInit == SInit => HandOverInv
<1> SUFFICES ASSUME SInit PROVE HandOverInv
  OBVIOUS
<1>1. TypeOK
  BY LifeInit DEF SInit, LifeInv
<1>2. plug = "off" /\ sv = "idle" /\ dll = NoPlugin
  BY DEF SInit, Init
<1>3. STypeOK
  BY <1>1 DEF SInit, STypeOK
<1>4. RequestState /\ HandOver
  BY <1>2, ReceiversAssumption DEF SInit, RequestState, HandOver, InSend, Running
<1> QED
  BY <1>3, <1>4 DEF HandOverInv

\* Either no send has overlapped the start or the stop of the object, before or after a
\* step, or there is no object, and nothing in it, afterwards.
LEMMA WatchMeans ==
  Watch => /\ ~Undefined
           /\ overlapped' \in BOOLEAN
           /\ overlapped' = FALSE => \/ ~object' /\ ~Undefined'
                                     \/ ~overlapped /\ ~Overlap'
  BY Zenon DEF Watch

\* What the other steps of Driver can do to what the object depends on.
Surroundings ==
  /\ UNCHANGED <<kind, object, exitEvent, threadHandle, device, rx, startFailed, missed, dn, tx,
                 awaited>>
  /\ plug' = plug \/ (pc = "free" /\ plug' = "off")
  /\ dll' = dll \/ pc \in {"free", "load"}
  /\ sv' = sv \/ sv # "sending"
  /\ pc' = pc \/ pc \notin {"plugDeinit", "plugInit"}

\* What the remaining steps of Driver leave of the plug-in is what Surroundings says.
LEMMA ElsewhereSurrounds == Elsewhere => Surroundings
<1> SUFFICES ASSUME Elsewhere PROVE Surroundings
  OBVIOUS
<1> USE DEF Surroundings, driverVars, guiVars
<1>1. UNCHANGED <<kind, object, exitEvent, threadHandle, device, rx, startFailed, missed, dn, tx,
                  awaited>>
  BY DEF Elsewhere, deviceVars, callVars
<1>2. CASE Message
  BY <1>1, <1>2 DEF Message, OnConfig, Suspend, Resume, EndConfig, AskAgain, Exit, OnSendcode,
                    CloseSendbox, OnCopyData
<1>3. CASE ReadConfig
  BY <1>1, <1>3 DEF ReadConfig
<1>4. CASE JoinDaemon
  BY <1>1, <1>4 DEF JoinDaemon
<1>5. CASE FreePlugin
  BY <1>1, <1>5 DEF FreePlugin
<1>6. CASE LoadPlugin
  BY <1>1, <1>6 DEF LoadPlugin
<1>7. CASE StartDaemon
  BY <1>1, <1>7 DEF StartDaemon
<1>8. CASE KillDaemon
  BY <1>1, <1>8 DEF KillDaemon
<1>9. CASE SendcodeReturns \/ CopyDataReturns
  BY <1>1, <1>9 DEF SendcodeReturns, CopyDataReturns
<1>10. CASE ServerFinds \/ ServerGivesUp
  BY <1>1, <1>10 DEF ServerFinds, ServerGivesUp
<1>11. ASSUME NEW d \in Daemons, DaemonTop(d) \/ DaemonDecoded(d) \/ DaemonSend(d)
       PROVE  Surroundings
  BY <1>1, <1>11 DEF DaemonTop, DaemonDecoded, DaemonSend
<1> QED
  BY <1>2, <1>3, <1>4, <1>5, <1>6, <1>7, <1>8, <1>9, <1>10, <1>11 DEF Elsewhere

\* And what Surroundings says is enough: where the plug-in is unloaded or another is
\* loaded, there is no object.
LEMMA ElsewhereKeeps ==
  ASSUME LifeInv, LifeInv', STypeOK, RequestState, Elsewhere, overlapped' \in BOOLEAN
  PROVE  STypeOK' /\ RequestState' /\ (HandOver => HandOver')
<1>1. Surroundings
  BY ElsewhereSurrounds
<1>2. pc \in {"free", "load"} => plug = "off" /\ ~object
  BY DEF LifeInv, PlugState, STypeOK
<1>3. STypeOK'
  BY <1>1, <1>2 DEF LifeInv, STypeOK, Surroundings
<1>4. RequestState'
  BY <1>1 DEF RequestState, AwaitsRequest, Surroundings
<1>5. HandOver => HandOver'
  BY <1>1, <1>2 DEF HandOver, Surroundings, STypeOK, Running
<1> QED
  BY <1>3, <1>4, <1>5

\* init: the object is there before its device is.
LEMMA NewObjectKeeps ==
  ASSUME LifeInv, LifeInv', STypeOK, RequestState, NewObject, overlapped' \in BOOLEAN
  PROVE  STypeOK' /\ RequestState' /\ (HandOver => HandOver')
<1>1. /\ pc = "plugInit" /\ plug = "off" /\ ~object /\ dll \in Devices /\ object' = TRUE
      /\ threadHandle' \in {Null, Garbage}
      /\ UNCHANGED <<dll, plug, pc, sv, kind, exitEvent, device, rx, startFailed, missed, dn, tx,
                     awaited>>
  BY DEF NewObject, LifeInv, PlugState, Unset, vars, driverVars, guiVars, callVars
<1>2. STypeOK'
  BY <1>1 DEF LifeInv, STypeOK
<1>3. RequestState'
  BY <1>1 DEF RequestState, AwaitsRequest
<1>4. HandOver => HandOver'
  BY <1>1 DEF HandOver, STypeOK, Running, InSend
<1> QED
  BY <1>2, <1>3, <1>4

\* CreateThread starts a thread that nobody waits for.
LEMMA UnusedThread == Unused # {} => NewThread \in Unused
  BY DEF NewThread

\* What a step that calls CreateThread has done.
LEMMA CreatedMeans ==
  ASSUME STypeOK, Created(threadHandle')
  PROVE  \/ threadHandle' = Null /\ startFailed' = TRUE /\ rx' = rx
         \/ /\ threadHandle' \in Receivers /\ rx[threadHandle'] = "none"
            /\ startFailed' = startFailed
            /\ awaited["deinit"] # threadHandle' /\ awaited["send"] # threadHandle'
            /\ rx' = [rx EXCEPT ![threadHandle'] = "starting"]
<1>1. CASE Unused # {} /\ rx' = [rx EXCEPT ![NewThread] = "starting"]
           /\ threadHandle' = NewThread /\ UNCHANGED startFailed
  <2>1. NewThread \in Unused
    BY <1>1, UnusedThread
  <2>2. DOMAIN awaited = {"deinit", "send"}
    BY DEF STypeOK
  <2> QED
    BY <1>1, <2>1, <2>2 DEF Unused, Running
<1> QED
  BY <1>1 DEF Created

\* init meets no thread, and no send that has kept clear of it.
LEMMA DeviceInitKeeps ==
  ASSUME LifeInv, LifeInv', STypeOK, RequestState, DeviceInit, overlapped' \in BOOLEAN
  PROVE  STypeOK' /\ RequestState' /\ (HandOver => HandOver')
<1>1. /\ pc = "plugInit" /\ plug = "off"
      /\ UNCHANGED <<kind, dn, tx, awaited, dll, sv>>
  BY DEF DeviceInit, PlugInit, LifeInv, PlugState, callVars
<1>2. dn = "no"
  BY <1>1 DEF STypeOK
<1>3. HandOver => tx \notin InSend /\ \A t \in Receivers : rx[t] = "none"
  BY <1>1 DEF HandOver, Running
<1>4. CASE dll \notin Devices
  <2>1. UNCHANGED <<object, exitEvent, threadHandle, device, rx, startFailed, missed>>
    BY <1>4 DEF DeviceInit, deviceVars
  <2>2. ~object
    BY <1>4 DEF STypeOK
  <2>3. STypeOK' /\ RequestState'
    BY <1>1, <1>2, <2>1, <2>2 DEF LifeInv, STypeOK, RequestState, AwaitsRequest
  <2>4. HandOver => HandOver'
    BY <1>1, <1>2, <1>3, <2>1, <2>2 DEF HandOver, STypeOK, Running, InSend
  <2> QED
    BY <2>3, <2>4
<1>5. CASE dll \in Devices /\ InitLockedOut
  <2>1. UNCHANGED <<object, exitEvent, threadHandle, device, rx, startFailed, missed>>
        /\ ~object
    BY <1>5 DEF InitLockedOut, deviceVars, STypeOK
  <2>3. STypeOK' /\ RequestState'
    BY <1>1, <1>2, <2>1 DEF LifeInv, STypeOK, RequestState, AwaitsRequest
  <2>4. HandOver => HandOver'
    BY <1>1, <1>2, <1>3, <2>1 DEF HandOver, STypeOK, Running, InSend
  <2> QED
    BY <2>3, <2>4
<1>6. CASE dll \in Devices /\ InitNoDevice
  <2>1. UNCHANGED <<object, exitEvent, threadHandle, rx, startFailed, missed>>
        /\ plug' = "half" /\ device' \in BOOLEAN
    BY <1>6 DEF InitNoDevice
  <2>3. STypeOK' /\ RequestState'
    BY <1>1, <1>2, <1>6, <2>1 DEF LifeInv, STypeOK, RequestState, AwaitsRequest
  <2>4. HandOver => HandOver'
    BY <1>1, <1>2, <1>3, <2>1 DEF HandOver, STypeOK, Running, InSend
  <2> QED
    BY <2>3, <2>4
<1>7. CASE dll \in Devices /\ InitThread
  <2>1. /\ object' = object /\ object = TRUE /\ device' = TRUE /\ exitEvent' = "reset"
        /\ missed' = missed
        /\ plug' = IF threadHandle' = Null THEN "half" ELSE "on"
    BY <1>7 DEF InitThread, STypeOK
  <2>2. \/ threadHandle' = Null /\ startFailed' = TRUE /\ rx' = rx
        \/ /\ threadHandle' \in Receivers /\ rx[threadHandle'] = "none"
           /\ startFailed' = startFailed
           /\ rx' = [rx EXCEPT ![threadHandle'] = "starting"]
    BY <1>7, CreatedMeans DEF InitThread
  <2>3. STypeOK' /\ RequestState'
    BY <1>1, <1>2, <1>7, <2>1, <2>2, ReceiversAssumption
    DEF LifeInv, STypeOK, RequestState, AwaitsRequest
  <2>4. HandOver => HandOver'
    BY <1>1, <1>2, <1>3, <2>1, <2>2, ReceiversAssumption DEF HandOver, STypeOK, Running, InSend
  <2> QED
    BY <2>3, <2>4
<1> QED
  BY <1>4, <1>5, <1>6, <1>7 DEF DeviceInit

\* KillThread of either thread: the request, and the return.
LEMMA TellKeeps ==
  ASSUME STypeOK, NEW who \in {"deinit", "send"}, TellThread(who)
  PROVE  /\ UNCHANGED <<dll, plug, pc, sv, kind, object, threadHandle, device, rx, startFailed>>
         /\ UNCHANGED TypeOK
         /\ exitEvent' \in {"none", "reset", "set"} /\ (exitEvent' = "none" <=> exitEvent = "none")
         /\ missed' \in BOOLEAN
         /\ awaited' = [awaited EXCEPT ![who] = threadHandle]
         /\ exitEvent' = "set" => missed' = TRUE \/ AwaitsRequest(threadHandle)
<1>1. exitEvent' = "set" => exitEvent # "none"
  BY DEF TellThread
<1>2. missed' \in BOOLEAN /\ (exitEvent # "none" /\ ~Listening => missed' = TRUE)
  BY Zenon DEF TellThread
<1>3. exitEvent' = "set" => missed' = TRUE \/ AwaitsRequest(threadHandle)
  BY <1>1, <1>2 DEF Listening, AwaitsRequest
<1>4. UNCHANGED TypeOK
  BY DEF TellThread, vars, driverVars, guiVars, TypeOK
<1> QED
  BY <1>2, <1>3, <1>4 DEF TellThread, vars, driverVars, guiVars, STypeOK

\* The return forgets the handle.
LEMMA ForgetMeans ==
  ASSUME STypeOK, NEW who \in {"deinit", "send"}, ForgetThread(who)
  PROVE  /\ UNCHANGED <<dll, plug, pc, sv, kind, object, exitEvent, device, rx, startFailed,
                        missed>>
         /\ UNCHANGED TypeOK
         /\ awaited' = [awaited EXCEPT ![who] = Null]
         /\ threadHandle' \in {threadHandle, Null}
         /\ awaited[who] = threadHandle => threadHandle' = Null
<1>1. UNCHANGED TypeOK
  BY DEF ForgetThread, vars, driverVars, guiVars, TypeOK
<1> QED
  BY <1>1 DEF ForgetThread, vars, driverVars, guiVars, STypeOK

\* deinit tells the thread.
LEMMA DeinitTellsKeeps ==
  ASSUME STypeOK, RequestState, DeinitTells, overlapped' \in BOOLEAN
  PROVE  STypeOK' /\ RequestState' /\ (HandOver /\ ~Overlap' => HandOver')
<1>1. pc = "plugDeinit" /\ dn = "no" /\ dll \in Devices /\ object /\ dn' = "told" /\ tx' = tx
      /\ TellThread("deinit")
  BY DEF DeinitTells
<1>2. /\ UNCHANGED <<dll, plug, pc, sv, kind, object, threadHandle, device, rx, startFailed>>
      /\ UNCHANGED TypeOK
      /\ exitEvent' \in {"none", "reset", "set"} /\ (exitEvent' = "none" <=> exitEvent = "none")
      /\ missed' \in BOOLEAN
      /\ awaited' = [awaited EXCEPT !["deinit"] = threadHandle]
      /\ exitEvent' = "set" => missed' = TRUE \/ AwaitsRequest(threadHandle)
  BY <1>1, TellKeeps
<1>3. STypeOK'
  BY <1>1, <1>2 DEF STypeOK
<1>4. awaited'["deinit"] = threadHandle /\ awaited'["send"] = awaited["send"]
  BY <1>2 DEF STypeOK
<1>5. RequestState'
  BY <1>1, <1>2, <1>4 DEF RequestState, AwaitsRequest
<1>6. HandOver /\ ~Overlap' => HandOver'
  BY <1>1, <1>2, <1>4 DEF HandOver, Overlap, Running, InSend
<1> QED
  BY <1>3, <1>5, <1>6

\* deinit has waited for it.
LEMMA DeinitJoinsKeeps ==
  ASSUME STypeOK, RequestState, DeinitJoins, overlapped' \in BOOLEAN
  PROVE  STypeOK' /\ RequestState' /\ (HandOver => HandOver')
<1>1. dn = "told" /\ dn' = "joined" /\ tx' = tx /\ ForgetThread("deinit")
      /\ (awaited["deinit"] \in Receivers => rx[awaited["deinit"]] = "none")
  BY DEF DeinitJoins, ThreadEnded, Running
<1>2. /\ UNCHANGED <<dll, plug, pc, sv, kind, object, exitEvent, device, rx, startFailed, missed>>
      /\ UNCHANGED TypeOK
      /\ awaited' = [awaited EXCEPT !["deinit"] = Null]
      /\ threadHandle' \in {threadHandle, Null}
      /\ awaited["deinit"] = threadHandle => threadHandle' = Null
  BY <1>1, ForgetMeans
<1>3. STypeOK'
  BY <1>1, <1>2 DEF STypeOK
<1>4. awaited'["deinit"] = Null /\ awaited'["send"] = awaited["send"]
  BY <1>2 DEF STypeOK
<1>5. RequestState'
  BY <1>1, <1>2, <1>4, ReceiversAssumption DEF RequestState, AwaitsRequest
<1>6. ASSUME HandOver PROVE HandOver'
  <2>1. \A t \in Receivers : rx[t] = "none"
    BY <1>1, <1>6 DEF HandOver, Running
  <2>2. threadHandle' = Null /\ tx \notin InSend
    BY <1>1, <1>2, <1>6 DEF HandOver
  <2> QED
    BY <1>1, <1>2, <1>6, <2>1, <2>2 DEF HandOver, Running, InSend
<1> QED
  BY <1>3, <1>5, <1>6

\* deinit closes the device and deletes the object.
LEMMA DeviceDeinitKeeps ==
  ASSUME LifeInv, LifeInv', STypeOK, RequestState, DeviceDeinit, overlapped' \in BOOLEAN
  PROVE  STypeOK' /\ RequestState' /\ (HandOver => HandOver')
<1>1. /\ pc = "plugDeinit" /\ dn' = "no" /\ dn # "told"
      /\ UNCHANGED <<kind, threadHandle, rx, tx, awaited, dll, sv>>
      /\ plug' \in {"off", plug}
  BY DEF DeviceDeinit, PlugDeinit, STypeOK
<1>2. CASE dn = "joined"
  <2>1. /\ object /\ object' = FALSE /\ device' = FALSE /\ exitEvent' = "none"
        /\ startFailed' = FALSE /\ missed' = FALSE
    BY <1>2 DEF DeviceDeinit, STypeOK
  <2>2. STypeOK' /\ RequestState'
    BY <1>1, <1>2, <2>1 DEF LifeInv, STypeOK, RequestState
  <2>3. ASSUME HandOver PROVE HandOver'
    <3>1. tx \notin InSend /\ \A t \in Receivers : rx[t] = "none"
      BY <1>2, <2>3, ReceiversAssumption DEF HandOver, Running
    <3> QED
      BY <1>1, <2>1, <3>1 DEF HandOver, Running, InSend
  <2> QED
    BY <2>2, <2>3
<1>3. CASE dn = "no"
  <2>1. UNCHANGED <<object, device, exitEvent, startFailed, missed>> /\ ~object
    BY <1>3 DEF DeviceDeinit, STypeOK
  <2>2. STypeOK' /\ RequestState'
    BY <1>1, <1>3, <2>1 DEF LifeInv, STypeOK, RequestState, AwaitsRequest
  <2>3. HandOver => HandOver'
    BY <1>1, <1>3, <2>1 DEF HandOver, Running, InSend
  <2> QED
    BY <2>2, <2>3
<1> QED
  BY <1>1, <1>2, <1>3 DEF STypeOK

\* send: before and after the object.
LEMMA SendEndsKeep ==
  ASSUME LifeInv, LifeInv', STypeOK, RequestState, SendBegins \/ SendReturns,
         overlapped' \in BOOLEAN
  PROVE  STypeOK' /\ RequestState' /\ (HandOver /\ ~Overlap' => HandOver')
<1>1. UNCHANGED <<dll, plug, pc, dn, kind, object, exitEvent, threadHandle, device, rx,
                  startFailed, missed, awaited>>
  BY DEF SendBegins, SendReturns, ServerSends, ServerSent, deviceVars, driverVars, guiVars
<1>2. CASE SendBegins
  <2>1. /\ sv = "found" /\ sv' = "sending"
        /\ \/ dll \in Devices /\ object /\ tx' = "begin"
           \/ tx' = "done"
    BY <1>2 DEF SendBegins, ServerSends
  <2>2. tx = "no"
    BY <2>1 DEF STypeOK
  <2>3. STypeOK' /\ RequestState'
    BY <1>1, <2>1, <2>2 DEF LifeInv, STypeOK, RequestState, AwaitsRequest
  <2>4. HandOver /\ ~Overlap' => HandOver'
    BY <1>1, <2>1, <2>2 DEF HandOver, STypeOK, Overlap, Running, InSend
  <2> QED
    BY <2>3, <2>4
<1>3. CASE SendReturns
  <2>1. tx = "done" /\ tx' = "no"
    BY <1>3 DEF SendReturns
  <2>2. STypeOK' /\ RequestState'
    BY <1>1, <2>1 DEF LifeInv, STypeOK, RequestState, AwaitsRequest
  <2>3. HandOver => HandOver'
    BY <1>1, <2>1 DEF HandOver, Running, InSend
  <2> QED
    BY <2>2, <2>3
<1> QED
  BY <1>2, <1>3

\* send in the object.
LEMMA SendStepsKeep ==
  ASSUME STypeOK, RequestState, SendSteps, overlapped' \in BOOLEAN
  PROVE  STypeOK' /\ RequestState' /\ (HandOver => HandOver')
<1>1. CASE SendTells
  <2>1. tx = "begin" /\ tx' = "told" /\ dn' = dn /\ TellThread("send")
    BY <1>1 DEF SendTells
  <2>2. /\ UNCHANGED <<dll, plug, pc, sv, kind, object, threadHandle, device, rx, startFailed>>
        /\ UNCHANGED TypeOK
        /\ exitEvent' \in {"none", "reset", "set"} /\ (exitEvent' = "none" <=> exitEvent = "none")
        /\ missed' \in BOOLEAN
        /\ awaited' = [awaited EXCEPT !["send"] = threadHandle]
        /\ exitEvent' = "set" => missed' = TRUE \/ AwaitsRequest(threadHandle)
    BY <2>1, TellKeeps
  <2>3. STypeOK'
    BY <2>1, <2>2 DEF STypeOK
  <2>4. awaited'["send"] = threadHandle /\ awaited'["deinit"] = awaited["deinit"]
    BY <2>2 DEF STypeOK
  <2>5. RequestState'
    BY <2>1, <2>2, <2>4 DEF RequestState, AwaitsRequest
  <2>6. HandOver => HandOver'
    BY <2>1, <2>2, <2>4 DEF HandOver, Running, InSend
  <2> QED
    BY <2>3, <2>5, <2>6
<1>2. CASE SendJoins
  <2>1. tx = "told" /\ tx' = "joined" /\ dn' = dn /\ ForgetThread("send")
        /\ (awaited["send"] \in Receivers => rx[awaited["send"]] = "none")
    BY <1>2 DEF SendJoins, ThreadEnded, Running
  <2>2. /\ UNCHANGED <<dll, plug, pc, sv, kind, object, exitEvent, device, rx, startFailed, missed>>
        /\ UNCHANGED TypeOK
        /\ awaited' = [awaited EXCEPT !["send"] = Null]
        /\ threadHandle' \in {threadHandle, Null}
        /\ awaited["send"] = threadHandle => threadHandle' = Null
    BY <2>1, ForgetMeans
  <2>3. STypeOK'
    BY <2>1, <2>2 DEF STypeOK
  <2>4. awaited'["send"] = Null /\ awaited'["deinit"] = awaited["deinit"]
    BY <2>2 DEF STypeOK
  <2>5. RequestState'
    BY <2>1, <2>2, <2>4, ReceiversAssumption DEF RequestState, AwaitsRequest
  <2>6. ASSUME HandOver PROVE HandOver'
    <3>1. \A t \in Receivers : rx[t] = "none"
      BY <2>1, <2>6 DEF HandOver, Running
    <3>2. threadHandle' = Null /\ object = TRUE /\ plug = "on" /\ dn = "no"
      BY <2>1, <2>2, <2>6 DEF HandOver, InSend
    <3> QED
      BY <2>1, <2>2, <2>6, <3>1, <3>2 DEF HandOver, Running, InSend
  <2> QED
    BY <2>3, <2>5, <2>6
<1>3. CASE Transmit
  <2>1. tx = "joined" /\ tx' = "sent"
        /\ UNCHANGED <<vars, kind, object, exitEvent, threadHandle, device, rx, startFailed,
                       missed, dn, awaited>>
    BY <1>3 DEF Transmit, deviceVars
  <2>2. STypeOK' /\ RequestState'
    BY <2>1 DEF STypeOK, TypeOK, vars, driverVars, guiVars, RequestState, AwaitsRequest
  <2>3. HandOver => HandOver'
    BY <2>1 DEF vars, driverVars, HandOver, Running, InSend
  <2> QED
    BY <2>2, <2>3
<1>4. CASE SendRestarts
  <2>1. tx = "sent" /\ tx' = "done"
        /\ UNCHANGED <<vars, kind, object, exitEvent, device, missed, dn, awaited>>
    BY <1>4 DEF SendRestarts
  <2>2. \/ threadHandle' = Null /\ startFailed' = TRUE /\ rx' = rx
        \/ /\ threadHandle' \in Receivers /\ rx[threadHandle'] = "none"
           /\ startFailed' = startFailed
           /\ awaited["deinit"] # threadHandle' /\ awaited["send"] # threadHandle'
           /\ rx' = [rx EXCEPT ![threadHandle'] = "starting"]
    BY <1>4, CreatedMeans DEF SendRestarts
  <2>3. UNCHANGED TypeOK /\ UNCHANGED <<plug, pc, dll, sv>>
    BY <2>1 DEF vars, driverVars, guiVars, TypeOK
  <2>4. STypeOK'
    BY <2>1, <2>2, <2>3 DEF STypeOK
  <2>5. RequestState'
    BY <2>1, <2>2 DEF STypeOK, RequestState, AwaitsRequest
  <2>6. ASSUME HandOver PROVE HandOver'
    <3>1. object = TRUE /\ plug = "on" /\ dn = "no" /\ threadHandle = Null
      BY <2>1, <2>6 DEF HandOver, InSend
    <3>2. \A t \in Receivers : rx[t] = "none"
      BY <3>1, <2>6, ReceiversAssumption DEF HandOver, Running
    <3> QED
      BY <2>1, <2>2, <2>6, <3>1, <3>2 DEF STypeOK, vars, driverVars, HandOver, Running, InSend
  <2> QED
    BY <2>4, <2>5, <2>6
<1> QED
  BY <1>1, <1>2, <1>3, <1>4 DEF SendSteps

\* A receive thread takes the request that was made to it, and resets the event by that;
\* one that cannot start leaves it.
LEMMA ReceiverKeeps ==
  ASSUME STypeOK, RequestState, overlapped' \in BOOLEAN, NEW t \in Receivers,
         Receiver(t) \/ DeviceFails(t) \/ DeviceRecovers(t)
  PROVE  STypeOK' /\ RequestState' /\ (HandOver => HandOver')
<1>1. UNCHANGED <<vars, kind, object, threadHandle, device, dn, tx, awaited>>
  BY DEF Receiver, StartReceive, ExitRequest, ThreadEnds, DeviceFails, DeviceRecovers, callVars
<1>2. UNCHANGED TypeOK /\ UNCHANGED <<plug, pc, dll, sv>>
  BY <1>1 DEF vars, driverVars, guiVars, TypeOK
<1>3. missed' \in BOOLEAN
  BY Zenon DEF Receiver, StartReceive, ExitRequest, ThreadEnds, DeviceFails, DeviceRecovers,
               STypeOK
<1>4. CASE StartReceive(t)
  <2>1. /\ exitEvent' = exitEvent /\ startFailed' \in BOOLEAN
        /\ rx[t] = "starting"
        /\ \/ rx' = [rx EXCEPT ![t] = "receiving"]
           \/ rx' = [rx EXCEPT ![t] = "none"]
    BY <1>4 DEF StartReceive, STypeOK
  <2>2. \/ rx' = [rx EXCEPT ![t] = "receiving"] /\ missed' = missed
        \/ exitEvent = "set" => missed' = TRUE
    BY <1>4, Zenon DEF StartReceive
  <2>3. STypeOK'
    BY <1>1, <1>2, <1>3, <2>1 DEF STypeOK
  <2>4. RequestState'
    BY <1>1, <2>1, <2>2 DEF STypeOK, RequestState, AwaitsRequest
  <2>5. HandOver => HandOver'
    BY <1>1, <1>2, <2>1 DEF STypeOK, HandOver, Running, InSend
  <2> QED
    BY <2>3, <2>4, <2>5
<1>5. CASE ExitRequest(t)
  <2>1. /\ rx[t] = "receiving" /\ exitEvent = "set" /\ exitEvent' = "reset"
        /\ startFailed' = startFailed /\ rx' = [rx EXCEPT ![t] = "stopping"]
    BY <1>5 DEF ExitRequest
  <2>2. STypeOK'
    BY <1>1, <1>2, <1>3, <2>1 DEF STypeOK
  <2>3. RequestState'
    BY <1>1, <2>1 DEF RequestState
  <2>4. HandOver => HandOver'
    BY <1>1, <1>2, <2>1 DEF STypeOK, HandOver, Running, InSend
  <2> QED
    BY <2>2, <2>3, <2>4
<1>6. CASE ThreadEnds(t) \/ DeviceFails(t) \/ DeviceRecovers(t)
  <2>1. /\ UNCHANGED <<exitEvent, startFailed, missed>> /\ rx[t] # "none"
        /\ \/ rx[t] = "stopping" /\ rx' = [rx EXCEPT ![t] = "none"]
           \/ rx' = [rx EXCEPT ![t] = "failing"]
           \/ rx' = [rx EXCEPT ![t] = "receiving"]
    BY <1>6 DEF ThreadEnds, DeviceFails, DeviceRecovers
  <2>2. STypeOK'
    BY <1>1, <1>2, <1>3, <2>1 DEF STypeOK
  <2>3. RequestState'
    BY <1>1, <2>1 DEF STypeOK, RequestState, AwaitsRequest
  <2>4. HandOver => HandOver'
    BY <1>1, <1>2, <2>1 DEF STypeOK, HandOver, Running, InSend
  <2> QED
    BY <2>2, <2>3, <2>4
<1> QED
  BY <1>4, <1>5, <1>6 DEF Receiver

\* Every step keeps the types and the requests, and the hand-over unless a send overlaps.
LEMMA StepKeeps ==
  ASSUME LifeInv, LifeInv', STypeOK, RequestState, SNext
  PROVE  STypeOK' /\ RequestState' /\ (HandOver /\ ~Overlap' => HandOver')
<1>1. overlapped' \in BOOLEAN
  BY WatchMeans DEF SNext
<1> QED
  BY <1>1, ElsewhereKeeps, NewObjectKeeps, DeviceInitKeeps, DeinitTellsKeeps, DeinitJoinsKeeps,
     DeviceDeinitKeeps, SendEndsKeep, SendStepsKeep, ReceiverKeeps DEF SNext

\* So a step keeps the invariant.
LEMMA NextKeeps ==
  ASSUME LifeInv, LifeInv', HandOverInv, SNext PROVE HandOverInv'
<1>1. STypeOK' /\ RequestState' /\ (HandOver /\ ~Overlap' => HandOver')
  BY StepKeeps DEF HandOverInv
<1>2. overlapped' = FALSE => (~object' /\ ~Undefined') \/ (~overlapped /\ ~Overlap')
  BY WatchMeans DEF SNext
<1>3. overlapped \in BOOLEAN
  BY DEF HandOverInv, STypeOK
<1>4. ~object' /\ ~Undefined' => HandOver'
  BY <1>1 DEF STypeOK, Undefined, HandOver, Running, InSend
<1> QED
  BY <1>1, <1>2, <1>3, <1>4 DEF HandOverInv

\* The invariant speaks of the variables only.
LEMMA HandOverStutter ==
  ASSUME LifeInv', HandOverInv, UNCHANGED sVars PROVE HandOverInv'
<1>1. STypeOK'
  BY DEF sVars, vars, driverVars, guiVars, deviceVars, callVars, HandOverInv, LifeInv, STypeOK
<1>2. RequestState'
  BY DEF sVars, deviceVars, callVars, HandOverInv, RequestState, AwaitsRequest
<1>3. overlapped' = overlapped /\ (HandOver => HandOver')
  BY DEF sVars, vars, driverVars, deviceVars, callVars, HandOver, Running, InSend
<1> QED
  BY <1>1, <1>2, <1>3 DEF HandOverInv

\* The invariant of the hand-over, on top of the one of CIRDriver.
LEMMA HandOverHolds == SSpec => [](LifeInv /\ HandOverInv)
<1>1. SInit => LifeInv /\ HandOverInv
  BY LifeInit, HandOverInit DEF SInit
<1>2. LifeInv /\ HandOverInv /\ [SNext]_sVars => (LifeInv /\ HandOverInv)'
  <2> SUFFICES ASSUME LifeInv, HandOverInv, [SNext]_sVars PROVE LifeInv' /\ HandOverInv'
    OBVIOUS
  <2>1. LifeInv'
    BY LifeStep, StepIsDriverStep DEF sVars
  <2> QED
    BY <2>1, NextKeeps, HandOverStutter
<1> QED
  BY <1>1, <1>2, PTL DEF SSpec
-----------------------------------------------------------------------------
\* In every interleaving the variables have their types, an object only exists in a
\* plug-in that init has begun with, and the calls into it are where they say they are.
THEOREM TypesCorrect == SSpec => []STypeOK
<1>1. HandOverInv => STypeOK
  BY DEF HandOverInv
<1> QED
  BY HandOverHolds, <1>1, PTL

\* Two receive threads never share the device, whichever of send and deinit ended the
\* first one, and none outlives its object, until a send overlaps the start or the
\* stop of the plug-in, which m_dllLock was to prevent.
THEOREM ReceiverUnique == SSpec => []OneReceiver
<1>1. HandOverInv => OneReceiver
  BY DEF HandOverInv, HandOver, OneReceiver, STypeOK
<1> QED
  BY HandOverHolds, <1>1, PTL

\* In every interleaving, overlaps included, a receive thread ends only on a request that
\* KillThread still waits for or on one that no thread was there to take.
THEOREM RequestsFindTheirThread == SSpec => EndsOnRequest
<1>1. HandOverInv /\ [SNext]_sVars =>
        [\A t \in Receivers : rx[t] = "receiving" /\ rx'[t] = "stopping" =>
           dn = "told" \/ tx = "told" \/ missed]_sVars
  <2> SUFFICES ASSUME HandOverInv, SNext, NEW t \in Receivers,
                      rx[t] = "receiving", rx'[t] = "stopping"
               PROVE  dn = "told" \/ tx = "told" \/ missed
    OBVIOUS
  <2>1. rx' # rx
    OBVIOUS
  <2>2. CASE \E s \in Receivers : Receiver(s) \/ DeviceFails(s) \/ DeviceRecovers(s)
    <3>1. PICK s \in Receivers : Receiver(s) \/ DeviceFails(s) \/ DeviceRecovers(s)
      BY <2>2
    <3>2. exitEvent = "set"
      BY <3>1 DEF Receiver, StartReceive, ExitRequest, ThreadEnds, DeviceFails, DeviceRecovers,
                  HandOverInv, STypeOK
    <3> QED
      BY <3>2 DEF HandOverInv, RequestState, AwaitsRequest
  <2>3. CASE DeviceInit \/ SendSteps
    <3>1. rx' = rx \/ \E s \in Receivers : rx' = [rx EXCEPT ![s] = "starting"]
      BY <2>3, CreatedMeans
      DEF DeviceInit, InitLockedOut, InitNoDevice, InitThread, SendSteps, SendTells, SendJoins,
          Transmit, SendRestarts, TellThread, ForgetThread, deviceVars, HandOverInv
    <3> QED
      BY <2>1, <3>1 DEF HandOverInv, STypeOK
  <2> QED
    BY <2>1, <2>2, <2>3 DEF SNext, Elsewhere, NewObject, DeinitTells, DeinitJoins, TellThread,
       ForgetThread, DeviceDeinit, SendBegins, SendReturns, deviceVars
<1> QED
  BY HandOverHolds, <1>1, PTL DEF SSpec, EndsOnRequest
=============================================================================
