--------------------------- MODULE PluginReceive ---------------------------
(***************************************************************************)
(* The receive side of a WinLIRC plug-in, as in DLL/UDP: a receive thread  *)
(* stores pulse/space samples into a ring of Size slots and sets           *)
(* dataReadyEvent; the host's daemon thread, inside decodeIR, waits on     *)
(* that event, moves samples into rec_buffer and decodes them; the host    *)
(* ends both threads (CIRDriver::deinit).  The same ring, event and wait   *)
(* are found in most other plug-ins (Serial, IRToy, Irdroid, MCE, ...).    *)
(*                                                                         *)
(* A sample is its arrival number (1, 2, ...); 0 is the "no sample" value  *)
(* that readData returns when there is nothing to read.                    *)
(***************************************************************************)
EXTENDS Naturals, Sequences

CONSTANTS
  Size,        \* slots of dataBuffer: the range of the UCHAR indices (256)
  RBufSize,    \* RBUF_SIZE, the slots of rec_buffer.data (256)
  MaxSamples,  \* bound of the model: samples received before the plug-in restarts
  MaxBurst     \* bound of the model: samples in one datagram

ASSUME SizeAssumption   == Size \in Nat /\ Size >= 2
ASSUME BoundsAssumption == RBufSize \in Nat \ {0} /\ MaxSamples \in Nat /\ MaxBurst \in Nat

VARIABLES
  dataBuffer,       \* Server::dataBuffer
  bufferStart,      \* Server::bufferStart, written by the daemon thread only
  bufferEnd,        \* Server::bufferEnd, written by the receive thread only
  dataReadyEvent,   \* manual-reset event
  threadExitEvent,  \* manual-reset event of the host (m_daemonThreadEvent)
  exitThread,       \* auto-reset event that ends the receive thread
  rx,               \* where the receive thread is
  left,             \* samples of the datagram still to be stored
  pc,               \* where the daemon thread is
  site,             \* which call of waitTillDataIsReady it is in
  data,             \* the sample getData returned, until it is put in rec_buffer
  rec, rptr,        \* rec_buffer.data[0..wptr-1] and rec_buffer.rptr
  host,             \* how far the host is with ending the plug-in
  sent, taken,      \* history: samples stored, samples fetched by getData
  overrun           \* history: the ring once held Size samples, and looked empty

ringVars == <<dataBuffer, bufferStart, bufferEnd, sent, taken, overrun>>
recVars  == <<data, rec, rptr>>
vars     == <<ringVars, dataReadyEvent, threadExitEvent, exitThread, rx, left,
              pc, site, recVars, host>>

Slots   == 0 .. Size - 1
Samples == 1 .. MaxSamples
Sites   == {"decodeIR", "clear", "next", "read"}

TypeOK ==
  /\ dataBuffer \in [Slots -> Samples \cup {0}]
  /\ bufferStart \in Slots /\ bufferEnd \in Slots
  /\ dataReadyEvent \in BOOLEAN /\ threadExitEvent \in BOOLEAN /\ exitThread \in BOOLEAN
  /\ rx \in {"wait", "store", "advance", "signal", "done"}
  /\ left \in Nat
  /\ pc \in {"top", "check", "reset", "wait", "clear", "decode", "ready",
             "get", "fetch", "keep", "done"}
  /\ site \in Sites
  /\ data \in Samples \cup {0}
  /\ rec \in Seq(Samples \cup {0}) /\ rptr \in Nat
  /\ host \in {"running", "failed", "stopping", "joining", "closed"}
  /\ sent \in 0 .. MaxSamples /\ taken \in Nat
  /\ overrun \in BOOLEAN

\* init() of the plug-in: a new Server, empty rec_buffer, a new event; the
\* host then starts the daemon thread.
Init ==
  /\ dataBuffer = [i \in Slots |-> 0]
  /\ bufferStart = 0 /\ bufferEnd = 0
  /\ dataReadyEvent = FALSE /\ threadExitEvent = FALSE /\ exitThread = FALSE
  /\ rx = "wait" /\ left = 0
  /\ pc = "top" /\ site = "decodeIR"
  /\ data = 0 /\ rec = <<>> /\ rptr = 0
  /\ host = "running"
  /\ sent = 0 /\ taken = 0 /\ overrun = FALSE

-----------------------------------------------------------------------------
(* The receive thread: Server::threadProc, processData and setData.        *)

rxRest == <<bufferStart, threadExitEvent, pc, site, recVars, host, taken>>

\* A datagram of n samples arrives (one of odd length is ignored: n = 0).
RxDatagram ==
  /\ rx = "wait"
  /\ \E n \in 1 .. MaxBurst :
       /\ sent + n <= MaxSamples
       /\ left' = n
  /\ rx' = "store"
  /\ UNCHANGED <<rxRest, dataBuffer, bufferEnd, dataReadyEvent, exitThread, sent, overrun>>

\* Mutant: the index is advanced before the store.
RxStoreAhead ==
  /\ rx = "store"
  /\ dataBuffer' = [dataBuffer EXCEPT ![(bufferEnd + 1) % Size] = sent + 1]
  /\ rx' = "advance"
  /\ UNCHANGED <<rxRest, bufferEnd, dataReadyEvent, exitThread, left, sent, overrun>>

RxStore ==
  /\ rx = "store"
  /\ dataBuffer' = [dataBuffer EXCEPT ![bufferEnd] = sent + 1]
  /\ rx' = "advance"
  /\ UNCHANGED <<rxRest, bufferEnd, dataReadyEvent, exitThread, left, sent, overrun>>

\* Mutant: an index wider than eight bits.
RxAdvanceNoWrap ==
  /\ rx = "advance"
  /\ bufferEnd' = bufferEnd + 1
  /\ sent' = sent + 1
  /\ overrun' = (overrun \/ sent + 1 - taken = Size)
  /\ left' = left - 1
  /\ rx' = IF left = 1 THEN "signal" ELSE "store"
  /\ UNCHANGED <<rxRest, dataBuffer, dataReadyEvent, exitThread>>

\* bufferEnd++ with no test for a full ring.
RxAdvance ==
  /\ rx = "advance"
  /\ bufferEnd' = (bufferEnd + 1) % Size
  /\ sent' = sent + 1
  /\ overrun' = (overrun \/ sent + 1 - taken = Size)
  /\ left' = left - 1
  /\ rx' = IF left = 1 THEN "signal" ELSE "store"
  /\ UNCHANGED <<rxRest, dataBuffer, dataReadyEvent, exitThread>>

\* Mutant: the event is not set after the datagram.
RxSignalNot ==
  /\ rx = "signal"
  /\ rx' = "wait"
  /\ UNCHANGED <<rxRest, dataBuffer, bufferEnd, dataReadyEvent, exitThread, left, sent, overrun>>

RxSignal ==
  /\ rx = "signal"
  /\ dataReadyEvent' = TRUE
  /\ rx' = "wait"
  /\ UNCHANGED <<rxRest, dataBuffer, bufferEnd, exitThread, left, sent, overrun>>

\* WaitForMultipleObjects picks the datagram first when both are signalled;
\* a datagram can come at any time, so it never has to.
RxExit ==
  /\ rx = "wait" /\ exitThread
  /\ exitThread' = FALSE
  /\ rx' = "done"
  /\ UNCHANGED <<rxRest, dataBuffer, bufferEnd, dataReadyEvent, left, sent, overrun>>

Receiver == RxDatagram \/ RxStore \/ RxAdvance \/ RxSignal \/ RxExit

-----------------------------------------------------------------------------
(* The daemon thread: DaemonThreadProc, decodeIR, waitTillDataIsReady,     *)
(* readData, clear_rec_buffer and get_next_rec_buffer.                     *)

dmRest == <<dataBuffer, bufferEnd, threadExitEvent, exitThread, rx, left, host,
            sent, overrun>>

DataReady == bufferStart # bufferEnd

\* The loop test of DaemonThreadProc, then the call of decodeIR.
DmTop ==
  /\ pc = "top"
  /\ IF threadExitEvent THEN pc' = "done" /\ UNCHANGED site
                        ELSE pc' = "check" /\ site' = "decodeIR"
  /\ UNCHANGED <<dmRest, bufferStart, taken, dataReadyEvent, recVars>>

\* Where each caller of waitTillDataIsReady goes on: decodeIR gives up when
\* the wait ended for the exit event; wait_for_data and readData ignore it.
AfterWait(ready) ==
  CASE site = "decodeIR" -> IF ready THEN "clear" ELSE "top"
    [] site = "clear"    -> "get"
    [] site = "next"     -> "ready"
    [] site = "read"     -> "get"

DmCheck ==
  /\ pc = "check"
  /\ pc' = IF DataReady THEN AfterWait(TRUE) ELSE "reset"
  /\ UNCHANGED <<dmRest, bufferStart, taken, dataReadyEvent, site, recVars>>

DmReset ==
  /\ pc = "reset"
  /\ dataReadyEvent' = FALSE
  /\ pc' = "wait"
  /\ UNCHANGED <<dmRest, bufferStart, taken, site, recVars>>

\* Mutant: the exit event is left out of the wait (evt = 1).
DmWakeOnDataOnly ==
  /\ pc = "wait"
  /\ dataReadyEvent
  /\ pc' = AfterWait(TRUE)
  /\ UNCHANGED <<dmRest, bufferStart, taken, dataReadyEvent, site, recVars>>

\* WaitForMultipleObjects(dataReadyEvent, threadExitEvent).
DmWake ==
  /\ pc = "wait"
  /\ dataReadyEvent \/ threadExitEvent
  /\ pc' = AfterWait(dataReadyEvent)
  /\ UNCHANGED <<dmRest, bufferStart, taken, dataReadyEvent, site, recVars>>

\* Only get_next_rec_buffer waits with a timeout.
DmTimeout ==
  /\ pc = "wait" /\ site = "next"
  /\ pc' = AfterWait(TRUE)
  /\ UNCHANGED <<dmRest, bufferStart, taken, dataReadyEvent, site, recVars>>

\* Mutant: wptr is reduced, the samples are not moved.
DmClearNoMove ==
  /\ pc = "clear"
  /\ rptr' = 0
  /\ IF Len(rec) > rptr /\ rptr > 0
     THEN /\ rec' = SubSeq(rec, 1, Len(rec) - rptr)
          /\ pc' = "decode"
          /\ UNCHANGED site
     ELSE /\ rec' = <<>>
          /\ site' = "clear" /\ pc' = "check"
  /\ UNCHANGED <<dmRest, bufferStart, taken, dataReadyEvent, data>>

\* clear_rec_buffer: keep what the last decode left unread, else read one.
DmClear ==
  /\ pc = "clear"
  /\ rptr' = 0
  /\ IF Len(rec) > rptr /\ rptr > 0
     THEN /\ rec' = SubSeq(rec, rptr + 1, Len(rec))
          /\ pc' = "decode"
          /\ UNCHANGED site
     ELSE /\ rec' = <<>>
          /\ site' = "clear" /\ pc' = "check"
  /\ UNCHANGED <<dmRest, bufferStart, taken, dataReadyEvent, data>>

\* rewind_rec_buffer: the next remote is tried from the first sample on.
DmRewind ==
  /\ pc = "decode" /\ rptr > 0
  /\ rptr' = 0
  /\ UNCHANGED <<dmRest, bufferStart, taken, dataReadyEvent, pc, site, data, rec>>

\* get_next_rec_buffer.  With rec_buffer full it only sets too_long.
DmNext ==
  /\ pc = "decode"
  /\ \/ /\ rptr < Len(rec)
        /\ rptr' = rptr + 1
        /\ UNCHANGED <<pc, site>>
     \/ /\ rptr >= Len(rec) /\ Len(rec) < RBufSize
        /\ site' = "next" /\ pc' = "check"
        /\ UNCHANGED rptr
  /\ UNCHANGED <<dmRest, bufferStart, taken, dataReadyEvent, data, rec>>

\* hw.data_ready(), then hw.readdata(0).
DmReady ==
  /\ pc = "ready"
  /\ IF DataReady THEN site' = "read" /\ pc' = "check"
                  ELSE pc' = "decode" /\ UNCHANGED site
  /\ UNCHANGED <<dmRest, bufferStart, taken, dataReadyEvent, recVars>>

\* getData: test, then fetch and bufferStart++.
DmGet ==
  /\ pc = "get"
  /\ pc' = IF DataReady THEN "fetch" ELSE "keep"
  /\ UNCHANGED <<dmRest, bufferStart, taken, dataReadyEvent, site, recVars>>

\* Mutant: the newest sample is fetched, not the oldest.
DmFetchNewest ==
  /\ pc = "fetch"
  /\ data' = dataBuffer[(bufferEnd + Size - 1) % Size]
  /\ bufferStart' = (bufferStart + 1) % Size
  /\ taken' = taken + 1
  /\ pc' = "keep"
  /\ UNCHANGED <<dmRest, dataReadyEvent, site, rec, rptr>>

DmFetch ==
  /\ pc = "fetch"
  /\ data' = dataBuffer[bufferStart]
  /\ bufferStart' = (bufferStart + 1) % Size
  /\ taken' = taken + 1
  /\ pc' = "keep"
  /\ UNCHANGED <<dmRest, dataReadyEvent, site, rec, rptr>>

\* clear_rec_buffer stores what it read, 0 included; get_next_rec_buffer
\* drops a 0.
DmKeep ==
  /\ pc = "keep"
  /\ IF site = "read" /\ data = 0
     THEN UNCHANGED <<rec, rptr>>
     ELSE /\ rec' = Append(rec, data)
          /\ rptr' = IF site = "read" THEN rptr + 1 ELSE rptr
  /\ data' = 0
  /\ pc' = "decode"
  /\ UNCHANGED <<dmRest, bufferStart, taken, dataReadyEvent, site>>

\* decodeCommand has tried its remotes and decodeIR returns.
DmDecoded ==
  /\ pc = "decode"
  /\ pc' = "top"
  /\ UNCHANGED <<dmRest, bufferStart, taken, dataReadyEvent, site, recVars>>

DmFetches == DmClear \/ DmReady \/ DmGet \/ DmFetch \/ DmKeep
DmWaits   == DmCheck \/ DmReset \/ DmWake \/ DmTimeout
Daemon    == DmTop \/ DmWaits \/ DmFetches \/ DmRewind \/ DmNext \/ DmDecoded

-----------------------------------------------------------------------------
(* The host: CIRDriver::deinit, then init again.                           *)

\* KillThread2 sets the exit event and waits for the daemon thread.
HostStop ==
  /\ host = "running"
  /\ threadExitEvent' = TRUE
  /\ host' = "stopping"
  /\ UNCHANGED <<ringVars, dataReadyEvent, exitThread, rx, left, pc, site, recVars>>

\* The daemon thread has ended or was never started: ResetEvent, then the plug-in's
\* deinit, whose KillThread sets exitThread and waits for the receive thread.
HostDeinit ==
  /\ host \in {"stopping", "failed"} /\ pc = "done"
  /\ threadExitEvent' = FALSE
  /\ exitThread' = TRUE
  /\ host' = "joining"
  /\ UNCHANGED <<ringVars, dataReadyEvent, rx, left, pc, site, recVars>>

\* Mutant: the Server is deleted without waiting for its thread.
HostDeleteAtOnce ==
  /\ host = "joining"
  /\ host' = "closed"
  /\ UNCHANGED <<ringVars, dataReadyEvent, threadExitEvent, exitThread, rx, left,
                 pc, site, recVars>>

\* The receive thread has ended: the Server object is deleted.
HostDelete ==
  /\ host = "joining" /\ rx = "done"
  /\ host' = "closed"
  /\ UNCHANGED <<ringVars, dataReadyEvent, threadExitEvent, exitThread, rx, left,
                 pc, site, recVars>>

\* What a new Server, new events and init_rec_buffer start from.
FreshPlugin ==
  /\ dataBuffer' = [i \in Slots |-> 0] /\ bufferStart' = 0 /\ bufferEnd' = 0
  /\ dataReadyEvent' = FALSE /\ exitThread' = FALSE /\ left' = 0
  /\ site' = "decodeIR"
  /\ data' = 0 /\ rec' = <<>> /\ rptr' = 0
  /\ sent' = 0 /\ taken' = 0 /\ overrun' = FALSE

\* A later init() starts over.  Without Winsock, socket, port or receive thread
\* Server::init fails and no thread runs; without a daemon thread only the receive
\* thread does.  CIRDriver::init then fails, and the next call is a deinit.
HostInit ==
  /\ host = "closed"
  /\ \/ host' = "running" /\ rx' = "wait" /\ pc' = "top"
     \/ host' = "failed"  /\ rx' \in {"wait", "done"} /\ pc' = "done"
  /\ FreshPlugin
  /\ UNCHANGED threadExitEvent

Host == HostStop \/ HostDeinit \/ HostDelete \/ HostInit

Next == Receiver \/ Daemon \/ Host

\* Threads are scheduled; the host need not ever stop or restart the plug-in, nor
\* clean up after an init that failed; datagrams need not come.
\* receive_decode makes a bounded number of
\* get_next_rec_buffer calls per remote and there are finitely many remotes,
\* so a decode that is always reached again is also left.
Fairness ==
  /\ WF_vars(RxStore \/ RxAdvance \/ RxSignal \/ RxExit)
  /\ WF_vars(Daemon)
  /\ SF_vars(DmDecoded)
  /\ WF_vars(host = "stopping" /\ HostDeinit) /\ WF_vars(HostDelete)

Spec == Init /\ [][Next]_vars /\ Fairness

-----------------------------------------------------------------------------
(* What must hold.                                                         *)

\* How many slots the ring's indices say are unread, and the arrival order
\* position of a slot counted from bufferStart.
Ahead(i) == IF i >= bufferStart THEN i - bufferStart ELSE i - bufferStart + Size

Used == Ahead(bufferEnd)

\* Until the ring is overrun, the unread slots hold exactly the samples that
\* arrived and were not fetched, oldest first: setData and getData lose,
\* repeat and reorder nothing although they run without a lock.
RingHoldsUnread ==
  ~overrun => /\ Used = sent - taken
              /\ \A i \in Slots : Ahead(i) < Used => dataBuffer[i] = taken + 1 + Ahead(i)

\* Until the ring is overrun, rec_buffer holds consecutive samples ending with
\* the newest one fetched, whatever rewinds and moves the decoder did; only
\* the 0 that clear_rec_buffer stores at shutdown may stand before them.
RecBufferIsARun ==
  ~overrun =>
    /\ \A i \in 1 .. Len(rec) - 1 :
         rec[i] # 0 => rec[i + 1] = rec[i] + 1
    /\ \A i \in 2 .. Len(rec) : rec[i] # 0
    /\ rec # <<>> /\ rec[Len(rec)] # 0 =>
         rec[Len(rec)] = IF data # 0 THEN taken - 1 ELSE taken

\* rptr never passes wptr and rec_buffer never grows past its array.
RecBufferBounds == rptr <= Len(rec) /\ Len(rec) <= RBufSize

\* deinit deletes the Server and closes the event only when neither thread
\* can touch them any more.
ThreadsEndBeforeDelete == host = "closed" => pc = "done" /\ rx = "done"

\* The exit event is honoured from wherever the daemon thread is, the nested
\* endless waits of readData included, and deinit completes.
ShutdownCompletes == host = "stopping" ~> host = "closed"

\* A sample that waits while the daemon thread sleeps (its wake-up was reset) is
\* not lost for good: it is fetched once one more sample arrives.
NextDatagramRecovers ==
  \A n \in Samples :
    [](   pc = "wait" /\ ~dataReadyEvent /\ rx = "wait" /\ sent = n /\ taken < n
       => (<>(sent > n) => <>(taken >= n \/ overrun \/ host # "running")))

\* irdriver.cpp:191-194, "When data comes in, decode it and send the result to
\* clients": a sample that was stored is fetched, unless the plug-in is
\* stopped or the ring overruns.
DataIsFetched ==
  \A n \in Samples : (sent >= n) ~> (taken >= n \/ overrun \/ host # "running")

-----------------------------------------------------------------------------
(* The ring as a bounded first-in first-out queue (SampleFifo).            *)

Unread == [k \in 1 .. Used |-> dataBuffer[(bufferStart + k - 1) % Size]]

Fifo == INSTANCE SampleFifo WITH
          q      <- IF overrun THEN <<>> ELSE Unread,
          last   <- IF overrun THEN 0 ELSE data,
          broken <- overrun

FifoSpec == Fifo!Spec
=============================================================================
