------------------------- MODULE PluginReceiveProofs -------------------------
(***************************************************************************)
(* Machine-checked proofs about PluginReceive, for every size of the ring, *)
(* of rec_buffer and of the bounds.  The inductive invariant is built in   *)
(* three layers, each proved with the help of the one before: types, the   *)
(* ring, rec_buffer.  From it follows that the ring implements SampleFifo. *)
(***************************************************************************)
EXTENDS PluginReceive, SequenceTheorems, TLAPS

\* Types, and what keeps the receive thread's samples within MaxSamples.
TypeInv ==
  /\ TypeOK
  /\ rx \in {"store", "advance"} => left >= 1 /\ sent + left <= MaxSamples

\* The index of the next slot, without the modulus.
LEMMA NextSlot ==
  ASSUME NEW i \in Slots
  PROVE  /\ (i + 1) % Size \in Slots
         /\ (i + 1) % Size = IF i = Size - 1 THEN 0 ELSE i + 1
BY SizeAssumption DEF Slots

LEMMA InitTypeInv == Init => TypeInv
<1> SUFFICES ASSUME Init PROVE TypeInv
  OBVIOUS
<1> USE SizeAssumption, BoundsAssumption DEF Init
<1>1. dataBuffer \in [Slots -> Samples \cup {0}] /\ 0 \in Slots
  BY DEF Slots
<1>2. rec \in Seq(Samples \cup {0})
  BY EmptySeq
<1>3. site \in Sites /\ sent \in 0 .. MaxSamples
  BY DEF Sites
<1>4. QED
  BY <1>1, <1>2, <1>3 DEF TypeInv, TypeOK

LEMMA ReceiverTypeInv == TypeInv /\ Receiver => TypeInv'
<1> SUFFICES ASSUME TypeInv, Receiver PROVE TypeInv'
  OBVIOUS
<1> USE SizeAssumption, BoundsAssumption
    DEF TypeInv, TypeOK, Slots, Samples, Sites, rxRest, recVars
<1>1. CASE RxDatagram
  BY <1>1 DEF RxDatagram
<1>2. CASE RxStore
  <2>1. sent + 1 \in 1 .. MaxSamples
    BY <1>2 DEF RxStore
  <2>2. QED
    BY <1>2, <2>1 DEF RxStore
<1>3. CASE RxAdvance
  BY <1>3, NextSlot DEF RxAdvance
<1>4. CASE RxSignal
  BY <1>4 DEF RxSignal
<1>5. CASE RxExit
  BY ZenonT(60), <1>5 DEF RxExit
<1>6. QED
  BY <1>1, <1>2, <1>3, <1>4, <1>5 DEF Receiver
LEMMA DaemonTypeInv == TypeInv /\ Daemon => TypeInv'
<1> SUFFICES ASSUME TypeInv, Daemon PROVE TypeInv'
  OBVIOUS
<1> USE DEF TypeInv, TypeOK, dmRest, recVars
<1>1. CASE DmTop
  BY <1>1 DEF DmTop, Sites
<1>2. CASE DmWaits
  <2>1. \A ready \in BOOLEAN : AfterWait(ready) \in {"clear", "top", "get", "ready"}
    BY DEF AfterWait, Sites
  <2>2. QED
    BY ZenonT(60), <1>2, <2>1 DEF DmWaits, DmCheck, DmReset, DmWake, DmTimeout
<1>3. CASE DmClear
  <2>1. CASE Len(rec) > rptr /\ rptr > 0
    <3>1. \A i \in rptr + 1 .. Len(rec) : rec[i] \in Samples \cup {0}
      BY <2>1, ElementOfSeq
    <3>2. SubSeq(rec, rptr + 1, Len(rec)) \in Seq(Samples \cup {0})
      BY <3>1, SubSeqProperties, LenProperties
    <3>3. QED
      BY <1>3, <2>1, <3>2 DEF DmClear
  <2>2. CASE ~(Len(rec) > rptr /\ rptr > 0)
    <3>1. rec' \in Seq(Samples \cup {0})
      BY <1>3, <2>2, EmptySeq DEF DmClear
    <3>2. QED
      BY <1>3, <2>2, <3>1 DEF DmClear, Sites
  <2>3. QED
    BY <2>1, <2>2
<1>4. CASE DmReady
  BY <1>4 DEF DmReady, Sites
<1>5. CASE DmGet
  BY <1>5 DEF DmGet
<1>6. CASE DmFetch
  <2>1. data' \in Samples \cup {0} /\ taken' \in Nat
    BY <1>6 DEF DmFetch
  <2>2. QED
    BY <1>6, <2>1, NextSlot DEF DmFetch
<1>7. CASE DmKeep
  <2>1. Append(rec, data) \in Seq(Samples \cup {0})
    BY AppendProperties
  <2>2. rec' = rec \/ rec' = Append(rec, data)
    BY <1>7 DEF DmKeep
  <2>3. rptr' \in {rptr, rptr + 1}
    BY <1>7, Zenon DEF DmKeep
  <2>4. rec' \in Seq(Samples \cup {0}) /\ rptr' \in Nat
    BY <2>1, <2>2, <2>3
  <2>5. QED
    BY <1>7, <2>4 DEF DmKeep
<1>8. CASE DmRewind
  BY <1>8 DEF DmRewind
<1>9. CASE DmNext
  BY <1>9 DEF DmNext, Sites
<1>10. CASE DmDecoded
  BY <1>10 DEF DmDecoded
<1>11. QED
  BY <1>1, <1>2, <1>3, <1>4, <1>5, <1>6, <1>7, <1>8, <1>9, <1>10
     DEF Daemon, DmFetches

LEMMA HostTypeInv == TypeInv /\ Host => TypeInv'
<1> SUFFICES ASSUME TypeInv, Host PROVE TypeInv'
  OBVIOUS
<1> USE DEF TypeInv, TypeOK, ringVars, recVars
<1>1. CASE HostStop \/ HostDeinit \/ HostDelete
  BY ZenonT(60), <1>1 DEF HostStop, HostDeinit, HostDelete
<1>2. CASE HostInit
  <2>1. dataBuffer' \in [Slots -> Samples \cup {0}] /\ 0 \in Slots
    BY <1>2, SizeAssumption DEF HostInit, FreshPlugin, Slots
  <2>2. rec' \in Seq(Samples \cup {0})
    BY <1>2, EmptySeq DEF HostInit, FreshPlugin
  <2>3. QED
    BY <1>2, <2>1, <2>2, BoundsAssumption DEF HostInit, FreshPlugin, Sites
<1>3. QED
  BY <1>1, <1>2 DEF Host

LEMMA StutterTypeInv == TypeInv /\ UNCHANGED vars => TypeInv'
BY DEF TypeInv, TypeOK, vars, ringVars, recVars

LEMMA StepTypeInv == TypeInv /\ [Next]_vars => TypeInv'
BY ReceiverTypeInv, DaemonTypeInv, HostTypeInv, StutterTypeInv DEF Next

\* In every reachable state the indices are slots of the ring and the samples
\* in the ring and in rec_buffer are samples that arrived (or the 0 of readData).
THEOREM TypeCorrect == Spec => []TypeOK
<1>1. TypeInv => TypeOK
  BY DEF TypeInv
<1>2. QED
  BY InitTypeInv, StepTypeInv, <1>1, PTL DEF Spec
-----------------------------------------------------------------------------
(* The ring.  To RingHoldsUnread it adds the slot that the receive thread  *)
(* has written and not yet published.                                      *)

RingInv ==
  /\ RingHoldsUnread
  /\ ~overrun => taken <= sent /\ (rx = "advance" => dataBuffer[bufferEnd] = sent + 1)
  /\ ~overrun /\ pc = "fetch" => taken < sent

\* What the distances say when the indices are slots.
LEMMA AheadFacts ==
  ASSUME TypeOK
  PROVE  /\ Used \in 0 .. Size - 1
         /\ \A i \in Slots : Ahead(i) \in 0 .. Size - 1
         /\ \A i, j \in Slots : Ahead(i) = Ahead(j) => i = j
         /\ DataReady <=> Used > 0
BY SizeAssumption DEF TypeOK, Slots, Used, Ahead, DataReady

LEMMA InitRingInv == Init => RingInv
BY SizeAssumption DEF Init, RingInv, RingHoldsUnread, Used, Ahead, Slots

LEMMA ReceiverRingInv == TypeInv /\ RingInv /\ Receiver => RingInv'
<1> SUFFICES ASSUME TypeInv, RingInv, Receiver PROVE RingInv'
  OBVIOUS
<1>0. TypeOK
  BY DEF TypeInv
<1>1. CASE RxDatagram \/ RxSignal \/ RxExit
  BY <1>1 DEF RxDatagram, RxSignal, RxExit, rxRest, RingInv, RingHoldsUnread, Used, Ahead
<1>2. CASE RxStore
  <2>1. ~overrun => \A i \in Slots : Ahead(i) < Used => i # bufferEnd
    BY <1>0, AheadFacts DEF Used, TypeOK
  <2>2. dataBuffer' = [dataBuffer EXCEPT ![bufferEnd] = sent + 1]
    BY <1>2 DEF RxStore
  <2>3. UNCHANGED <<bufferStart, bufferEnd, taken, sent, overrun, pc>>
    BY <1>2 DEF RxStore, rxRest
  <2>4. dataBuffer'[bufferEnd] = sent + 1
    BY <1>0, <2>2 DEF TypeOK
  <2>5. \A i \in Slots : i # bufferEnd => dataBuffer'[i] = dataBuffer[i]
    BY <1>0, <2>2 DEF TypeOK
  <2>6. QED
    BY <2>1, <2>3, <2>4, <2>5 DEF RingInv, RingHoldsUnread, Used, Ahead
<1>3. CASE RxAdvance
  <2> SUFFICES ASSUME ~overrun' PROVE RingInv'
    BY DEF RingInv, RingHoldsUnread
  <2>1. /\ ~overrun /\ sent + 1 - taken # Size
        /\ sent' = sent + 1 /\ rx' # "advance"
        /\ UNCHANGED <<bufferStart, taken, dataBuffer, pc>>
    BY <1>3 DEF RxAdvance, rxRest
  <2>2. /\ bufferEnd' = IF bufferEnd = Size - 1 THEN 0 ELSE bufferEnd + 1
        /\ bufferEnd' \in Slots
    BY <1>0, <1>3, NextSlot DEF RxAdvance, TypeOK
  <2>3. Used < Size - 1
    BY <1>0, <2>1, AheadFacts, SizeAssumption DEF RingInv, RingHoldsUnread, TypeOK
  <2>4. Used' = Used + 1
    BY <1>0, <2>1, <2>2, <2>3, SizeAssumption DEF Used, Ahead, TypeOK, Slots
  <2>5. \A i \in Slots : Ahead(i)' = Ahead(i)
    BY <2>1 DEF Ahead
  <2>6. \A i \in Slots : Ahead(i) < Used + 1 => Ahead(i) < Used \/ i = bufferEnd
    BY <1>0, AheadFacts DEF Used, TypeOK
  <2>7. dataBuffer[bufferEnd] = taken + 1 + Ahead(bufferEnd)
    BY <1>0, <1>3, <2>1 DEF RxAdvance, RingInv, RingHoldsUnread, Used, TypeOK
  <2>8. RingHoldsUnread'
    BY <1>0, <2>1, <2>4, <2>5, <2>6, <2>7 DEF RingInv, RingHoldsUnread, TypeOK
  <2>9. QED
    BY <1>0, <2>1, <2>8 DEF RingInv, TypeOK
<1>4. QED
  BY <1>1, <1>2, <1>3 DEF Receiver

LEMMA DaemonRingInv == TypeInv /\ RingInv /\ Daemon => RingInv'
<1> SUFFICES ASSUME TypeInv, RingInv, Daemon PROVE RingInv'
  OBVIOUS
<1>0. TypeOK
  BY DEF TypeInv
<1>1. CASE DmFetch
  <2> SUFFICES ASSUME ~overrun' PROVE RingInv'
    BY DEF RingInv, RingHoldsUnread
  <2>1. /\ ~overrun /\ pc = "fetch" /\ pc' # "fetch"
        /\ taken' = taken + 1
        /\ UNCHANGED <<bufferEnd, dataBuffer, sent, rx>>
    BY <1>1 DEF DmFetch, dmRest
  <2>2. /\ bufferStart' = IF bufferStart = Size - 1 THEN 0 ELSE bufferStart + 1
        /\ bufferStart' \in Slots
    BY <1>0, <1>1, NextSlot DEF DmFetch, TypeOK
  <2>3. Used = sent - taken /\ Used > 0
    BY <1>0, <2>1 DEF RingInv, RingHoldsUnread, TypeOK
  <2>4. Used' = Used - 1
    BY <1>0, <2>1, <2>2, <2>3, SizeAssumption DEF Used, Ahead, TypeOK, Slots
  <2>5. \A i \in Slots : Ahead(i)' = IF i = bufferStart THEN Size - 1 ELSE Ahead(i) - 1
    BY <1>0, <2>2, SizeAssumption DEF Ahead, TypeOK, Slots
  <2>6. Used < Size
    BY <1>0, AheadFacts, SizeAssumption
  <2>7. \A i \in Slots : Ahead(i)' < Used' => dataBuffer'[i] = taken' + 1 + Ahead(i)'
    <3> SUFFICES ASSUME NEW i \in Slots, Ahead(i)' < Used'
                 PROVE  dataBuffer'[i] = taken' + 1 + Ahead(i)'
      OBVIOUS
    <3>1. Ahead(i) \in Nat /\ Used \in Nat
      BY <1>0, AheadFacts, SizeAssumption
    <3>2. i # bufferStart
      BY <2>4, <2>5, <2>6, <3>1, SizeAssumption
    <3>3. Ahead(i)' = Ahead(i) - 1 /\ Ahead(i) < Used
      BY <2>4, <2>5, <3>1, <3>2
    <3>4. dataBuffer[i] = taken + 1 + Ahead(i)
      BY <2>1, <3>3 DEF RingInv, RingHoldsUnread
    <3>5. QED
      BY <1>0, <2>1, <3>1, <3>3, <3>4 DEF TypeOK
  <2>8. Used' = sent' - taken'
    BY <1>0, <2>1, <2>3, <2>4 DEF TypeOK
  <2>9. QED
    BY <1>0, <2>1, <2>3, <2>7, <2>8 DEF RingInv, RingHoldsUnread, TypeOK
<1>2. CASE DmGet
  <2>1. ~overrun /\ DataReady => taken < sent
    BY <1>0, AheadFacts DEF RingInv, RingHoldsUnread, TypeOK
  <2>2. QED
    BY <1>2, <2>1 DEF DmGet, dmRest, RingInv, RingHoldsUnread, Used, Ahead
<1>3. ASSUME UNCHANGED <<dataBuffer, bufferStart, bufferEnd, sent, taken, overrun, rx>>,
             pc' # "fetch"
      PROVE  RingInv'
  BY <1>3 DEF RingInv, RingHoldsUnread, Used, Ahead
<1>4. CASE DmTop
  BY <1>3, <1>4 DEF DmTop, dmRest
<1>5. CASE DmWaits
  <2>1. \A ready \in BOOLEAN : AfterWait(ready) # "fetch"
    BY <1>0 DEF AfterWait, TypeOK, Sites
  <2>2. QED
    BY <1>0, <1>3, <1>5, <2>1
       DEF DmWaits, DmCheck, DmReset, DmWake, DmTimeout, dmRest, TypeOK
<1>6. CASE DmClear \/ DmReady \/ DmKeep
  BY <1>3, <1>6 DEF DmClear, DmReady, DmKeep, dmRest
<1>7. CASE DmRewind \/ DmNext \/ DmDecoded
  BY <1>3, <1>7 DEF DmRewind, DmNext, DmDecoded, dmRest
<1>8. QED
  BY <1>1, <1>2, <1>4, <1>5, <1>6, <1>7 DEF Daemon, DmFetches

LEMMA HostRingInv == TypeInv /\ RingInv /\ Host => RingInv'
<1>1. RingInv /\ (HostStop \/ HostDeinit \/ HostDelete) => RingInv'
  BY DEF HostStop, HostDeinit, HostDelete, ringVars, RingInv, RingHoldsUnread, Used, Ahead
<1>2. HostInit => RingInv'
  BY SizeAssumption DEF HostInit, FreshPlugin, RingInv, RingHoldsUnread, Used, Ahead, Slots
<1>3. QED
  BY <1>1, <1>2 DEF Host

LEMMA StepRingInv == TypeInv /\ RingInv /\ [Next]_vars => RingInv'
<1>1. RingInv /\ UNCHANGED vars => RingInv'
  BY DEF vars, ringVars, RingInv, RingHoldsUnread, Used, Ahead
<1>2. QED
  BY <1>1, ReceiverRingInv, DaemonRingInv, HostRingInv DEF Next

\* setData and getData share the ring without a lock, and until it is overrun
\* they lose, repeat and reorder no sample.
THEOREM RingCorrect == Spec => []RingHoldsUnread
<1>1. RingInv => RingHoldsUnread
  BY DEF RingInv
<1>2. QED
  BY InitTypeInv, InitRingInv, StepTypeInv, StepRingInv, <1>1, PTL DEF Spec
-----------------------------------------------------------------------------
(* rec_buffer.  Where the daemon thread reads a new sample it is at the end *)
(* of rec_buffer (or has emptied it), with room for one more.               *)

Fetching == {"check", "reset", "wait", "ready", "get", "fetch", "keep"}

RecShape ==
  /\ RecBufferBounds
  /\ pc \in Fetching /\ site = "clear" => rec = <<>> /\ rptr = 0
  /\ pc \in Fetching /\ site \in {"next", "read"} => Len(rec) < RBufSize /\ rptr = Len(rec)
  /\ pc \in {"get", "fetch", "keep"} => site \in {"clear", "read"}
  /\ pc = "ready" => site = "next"
  /\ pc # "keep" => data = 0

RecInv ==
  /\ RecShape
  /\ RecBufferIsARun
  /\ ~overrun /\ data # 0 => data = taken

LEMMA InitRecInv == Init => RecInv
BY BoundsAssumption, EmptySeq
   DEF Init, RecInv, RecShape, RecBufferBounds, RecBufferIsARun, Fetching

LEMMA StepRecShape == TypeInv /\ RecShape /\ [Next]_vars => RecShape'
<1> SUFFICES ASSUME TypeInv, RecShape, [Next]_vars PROVE RecShape'
  OBVIOUS
<1> USE DEF RecShape, RecBufferBounds, Fetching
<1>0. TypeOK
  BY DEF TypeInv
<1>1. ASSUME UNCHANGED <<pc, site, rec, rptr, data>> PROVE RecShape'
  BY <1>1
<1>2. CASE Receiver
  BY <1>1, <1>2 DEF Receiver, RxDatagram, RxStore, RxAdvance, RxSignal, RxExit, rxRest, recVars
<1>3. CASE HostStop \/ HostDeinit \/ HostDelete \/ UNCHANGED vars
  BY <1>1, <1>3 DEF HostStop, HostDeinit, HostDelete, recVars, vars
<1>4. CASE HostInit
  BY <1>4, BoundsAssumption, EmptySeq DEF HostInit, FreshPlugin
<1>5. CASE DmTop
  BY <1>5 DEF DmTop, recVars
<1>6. CASE DmWaits
  <2>1. UNCHANGED <<site, rec, rptr, data>> /\ pc \in {"check", "wait", "reset"}
    BY <1>6 DEF DmWaits, DmCheck, DmReset, DmWake, DmTimeout, recVars
  <2>2. \/ pc' \in {"reset", "wait"}
        \/ site = "decodeIR" /\ pc' \in {"clear", "top"}
        \/ site \in {"clear", "read"} /\ pc' = "get"
        \/ site = "next" /\ pc' = "ready"
    BY <1>0, <1>6
       DEF DmWaits, DmCheck, DmReset, DmWake, DmTimeout, AfterWait, TypeOK, Sites
  <2>3. QED
    BY <2>1, <2>2
<1>7. CASE DmClear
  <2>1. CASE Len(rec) > rptr /\ rptr > 0
    <3>1. Len(SubSeq(rec, rptr + 1, Len(rec))) = Len(rec) - rptr
      BY <1>0, <2>1, SubSeqProperties, LenProperties, ElementOfSeq DEF TypeOK
    <3>2. QED
      BY <1>0, <1>7, <2>1, <3>1, LenProperties, BoundsAssumption DEF DmClear, TypeOK
  <2>2. CASE ~(Len(rec) > rptr /\ rptr > 0)
    BY <1>7, <2>2, EmptySeq, BoundsAssumption DEF DmClear
  <2>3. QED
    BY <2>1, <2>2
<1>8. CASE DmReady
  BY <1>8 DEF DmReady, recVars
<1>9. CASE DmGet \/ DmDecoded
  BY <1>9 DEF DmGet, DmDecoded, recVars
<1>10. CASE DmFetch
  BY <1>10 DEF DmFetch
<1>11. CASE DmRewind
  BY <1>0, <1>11, LenProperties DEF DmRewind, TypeOK
<1>12. CASE DmNext
  <2>1. Len(rec) \in Nat /\ rptr \in Nat
    BY <1>0, LenProperties DEF TypeOK
  <2>2. UNCHANGED <<rec, data>> /\ pc = "decode"
    BY <1>12 DEF DmNext
  <2>3. CASE rptr < Len(rec) /\ rptr' = rptr + 1 /\ UNCHANGED <<pc, site>>
    BY <2>1, <2>2, <2>3
  <2>4. CASE rptr >= Len(rec) /\ Len(rec) < RBufSize /\ site' = "next" /\ pc' = "check" /\ rptr' = rptr
    BY <2>1, <2>2, <2>4
  <2>5. QED
    BY <1>12, <2>3, <2>4 DEF DmNext
<1>13. CASE DmKeep
  <2>1. Len(Append(rec, data)) = Len(rec) + 1 /\ Len(rec) \in Nat
    BY <1>0, AppendProperties, LenProperties DEF TypeOK
  <2>2. site \in {"clear", "read"} /\ pc' = "decode" /\ data' = 0
    BY <1>13 DEF DmKeep
  <2>3. Len(rec) < RBufSize
    BY <1>13, <2>2, EmptySeq, BoundsAssumption DEF DmKeep
  <2>4. \/ rec' = rec /\ rptr' = rptr
        \/ rec' = Append(rec, data) /\ rptr' \in {rptr, rptr + 1}
    BY <1>13, Zenon DEF DmKeep
  <2>5. QED
    BY <1>0, <2>1, <2>2, <2>3, <2>4, BoundsAssumption DEF TypeOK
<1>14. QED
  BY <1>2, <1>3, <1>4, <1>5, <1>6, <1>7, <1>8, <1>9, <1>10, <1>11, <1>12, <1>13
     DEF Next, Daemon, DmFetches, Host

\* Appending the next sample to a run, and dropping samples from its front.
LEMMA RunGrows ==
  ASSUME NEW s \in Seq(Nat), NEW d \in Nat,
         \A i \in 1 .. Len(s) - 1 : s[i] # 0 => s[i + 1] = s[i] + 1,
         \A i \in 2 .. Len(s) : s[i] # 0,
         s # <<>> => d # 0,
         s # <<>> /\ s[Len(s)] # 0 => d = s[Len(s)] + 1
  PROVE  LET t == Append(s, d)
         IN  /\ \A i \in 1 .. Len(t) - 1 : t[i] # 0 => t[i + 1] = t[i] + 1
             /\ \A i \in 2 .. Len(t) : t[i] # 0
             /\ t # <<>> /\ t[Len(t)] = d
<1> DEFINE t == Append(s, d)
<1>1. /\ Len(t) = Len(s) + 1 /\ t # <<>> /\ Len(s) \in Nat
      /\ \A i \in 1 .. Len(s) : t[i] = s[i]
      /\ t[Len(s) + 1] = d
  BY AppendProperties, LenProperties
<1>2. s # <<>> <=> Len(s) # 0
  BY EmptySeq
<1> HIDE DEF t
<1>3. ASSUME NEW i \in 1 .. Len(t) - 1, t[i] # 0 PROVE t[i + 1] = t[i] + 1
  <2>1. CASE i = Len(s)
    BY <1>1, <1>2, <1>3, <2>1
  <2>2. CASE i < Len(s)
    <3>1. i \in 1 .. Len(s) - 1 /\ i + 1 \in 1 .. Len(s)
      BY <1>1, <1>3, <2>2
    <3>2. QED
      BY <1>1, <1>3, <3>1
  <2>3. QED
    BY <1>1, <1>3, <2>1, <2>2
<1>4. ASSUME NEW i \in 2 .. Len(t) PROVE t[i] # 0
  <2>1. CASE i = Len(s) + 1
    BY <1>1, <1>2, <1>4, <2>1
  <2>2. CASE i \in 2 .. Len(s)
    BY <1>1, <2>2
  <2>3. QED
    BY <1>1, <1>4, <2>1, <2>2
<1>5. QED
  BY <1>1, <1>3, <1>4 DEF t

LEMMA RunShrinks ==
  ASSUME NEW s \in Seq(Nat), NEW k \in Nat, k > 0, k < Len(s),
         \A i \in 1 .. Len(s) - 1 : s[i] # 0 => s[i + 1] = s[i] + 1,
         \A i \in 2 .. Len(s) : s[i] # 0
  PROVE  LET t == SubSeq(s, k + 1, Len(s))
         IN  /\ \A i \in 1 .. Len(t) - 1 : t[i] # 0 => t[i + 1] = t[i] + 1
             /\ \A i \in 2 .. Len(t) : t[i] # 0
             /\ Len(t) > 0 /\ t[Len(t)] = s[Len(s)]
<1> DEFINE t == SubSeq(s, k + 1, Len(s))
<1>1. Len(s) \in Nat
  BY LenProperties
<1>2. \A i \in k + 1 .. Len(s) : s[i] \in Nat
  BY <1>1, ElementOfSeq
<1>3. /\ Len(t) = Len(s) - k
      /\ \A i \in 1 .. Len(s) - k : t[i] = s[k + i]
  <2>1. /\ Len(t) = Len(s) - k
        /\ \A i \in 1 .. Len(s) - (k + 1) + 1 : t[i] = s[k + 1 + i - 1]
    <3>1. k + 1 \in Int /\ Len(s) \in Int /\ k + 1 <= Len(s)
          /\ Len(s) - (k + 1) + 1 = Len(s) - k
      BY <1>1
    <3>2. QED
      BY <1>2, <3>1, SubSeqProperties
  <2> HIDE DEF t
  <2>2. ASSUME NEW i \in 1 .. Len(s) - k PROVE t[i] = s[k + i]
    <3>1. i \in 1 .. Len(s) - (k + 1) + 1 /\ k + 1 + i - 1 = k + i
      BY <1>1
    <3>2. QED
      BY <2>1, <3>1
  <2>3. QED
    BY <2>1, <2>2
<1> HIDE DEF t
<1>4. ASSUME NEW i \in 1 .. Len(t) - 1, t[i] # 0 PROVE t[i + 1] = t[i] + 1
  <2>1. /\ k + i \in 1 .. Len(s) - 1 /\ k + (i + 1) = (k + i) + 1
        /\ i \in 1 .. Len(s) - k /\ i + 1 \in 1 .. Len(s) - k
    BY <1>1, <1>3, <1>4
  <2>2. t[i] = s[k + i] /\ t[i + 1] = s[(k + i) + 1]
    BY <1>3, <2>1
  <2>3. QED
    BY <1>4, <2>1, <2>2
<1>5. ASSUME NEW i \in 2 .. Len(t) PROVE t[i] # 0
  <2>1. k + i \in 2 .. Len(s) /\ t[i] = s[k + i]
    BY <1>1, <1>3, <1>5
  <2>2. QED
    BY <2>1
<1>6. Len(t) > 0 /\ t[Len(t)] = s[Len(s)]
  BY <1>1, <1>3
<1>7. QED
  BY <1>4, <1>5, <1>6 DEF t

LEMMA StepRecRun ==
  TypeInv /\ RingInv /\ RecInv /\ [Next]_vars =>
    /\ RecBufferIsARun'
    /\ (~overrun /\ data # 0 => data = taken)'
<1> SUFFICES ASSUME TypeInv, RingInv, RecInv, [Next]_vars, ~overrun'
             PROVE  RecBufferIsARun' /\ (data' # 0 => data' = taken')
  BY DEF RecBufferIsARun
<1> DEFINE Goal == RecBufferIsARun' /\ (data' # 0 => data' = taken')
<1>0. /\ TypeOK /\ RecShape /\ RecBufferIsARun
      /\ Samples \cup {0} \subseteq Nat /\ rec \in Seq(Nat)
      /\ ~overrun /\ data # 0 => data = taken
  <2>1. TypeOK /\ Samples \cup {0} \subseteq Nat
    BY BoundsAssumption DEF TypeInv, Samples
  <2>2. rec \in Seq(Nat)
    BY <2>1, SeqMonotonic DEF TypeOK
  <2>3. QED
    BY <2>1, <2>2 DEF RecInv
<1>1. ASSUME UNCHANGED <<rec, data, taken>>, ~overrun PROVE Goal
  BY <1>0, <1>1 DEF RecBufferIsARun
<1>2. CASE Receiver
  BY <1>1, <1>2
     DEF Receiver, RxDatagram, RxStore, RxAdvance, RxSignal, RxExit, rxRest, recVars
<1>3. CASE HostStop \/ HostDeinit \/ HostDelete \/ UNCHANGED vars
  BY <1>1, <1>3 DEF HostStop, HostDeinit, HostDelete, recVars, ringVars, vars
<1>4. CASE HostInit
  BY <1>4, EmptySeq DEF HostInit, FreshPlugin, RecBufferIsARun
<1>5. CASE DmTop \/ DmWaits \/ DmReady \/ DmGet \/ DmRewind \/ DmNext \/ DmDecoded
  BY <1>1, <1>5 DEF DmTop, DmWaits, DmCheck, DmReset, DmWake, DmTimeout, DmReady, DmGet,
                    DmRewind, DmNext, DmDecoded, dmRest, recVars
<1>6. CASE DmClear
  <2>1. ~overrun /\ taken' = taken /\ data' = data
    BY <1>6 DEF DmClear, dmRest
  <2>2. CASE Len(rec) > rptr /\ rptr > 0
    <3>0. rec # <<>>
      BY <1>0, <2>2, EmptySeq DEF TypeOK
    <3>1. rec' = SubSeq(rec, rptr + 1, Len(rec)) /\ pc # "keep"
      BY <1>6, <2>2 DEF DmClear
    <3>2. /\ \A i \in 1 .. Len(rec') - 1 : rec'[i] # 0 => rec'[i + 1] = rec'[i] + 1
          /\ \A i \in 2 .. Len(rec') : rec'[i] # 0
          /\ rec'[Len(rec')] = rec[Len(rec)]
      BY <1>0, <2>1, <2>2, <3>1, RunShrinks DEF RecBufferIsARun, TypeOK
    <3>3. QED
      BY <1>0, <2>1, <3>0, <3>1, <3>2 DEF RecBufferIsARun
  <2>3. CASE ~(Len(rec) > rptr /\ rptr > 0)
    BY <1>0, <1>6, <2>1, <2>3, EmptySeq DEF DmClear, RecBufferIsARun
  <2>4. QED
    BY <2>2, <2>3
<1>7. CASE DmFetch
  <2>1. /\ ~overrun /\ pc = "fetch" /\ UNCHANGED rec
        /\ data' = dataBuffer[bufferStart] /\ taken' = taken + 1
    BY <1>7 DEF DmFetch, dmRest
  <2>2. Used > 0 /\ Ahead(bufferStart) = 0 /\ bufferStart \in Slots
    BY <1>0, <2>1 DEF RingInv, RingHoldsUnread, TypeOK, Ahead, Slots
  <2>3. data' = taken + 1
    BY <1>0, <2>1, <2>2 DEF RingInv, RingHoldsUnread, TypeOK
  <2>4. data = 0 /\ data' # 0 /\ taken' - 1 = taken
    BY <1>0, <2>1, <2>3 DEF RecShape, TypeOK
  <2>5. QED
    BY <1>0, <2>1, <2>3, <2>4 DEF RecBufferIsARun
<1>8. CASE DmKeep
  <2>1. ~overrun /\ pc = "keep" /\ data' = 0 /\ taken' = taken
    BY <1>8 DEF DmKeep, dmRest
  <2>2. CASE rec' = rec /\ data = 0
    BY <1>0, <2>1, <2>2 DEF RecBufferIsARun
  <2>3. CASE rec' = Append(rec, data) /\ (data = 0 => rec = <<>>)
    <3>1. data \in Nat /\ (rec # <<>> => data # 0)
      BY <1>0, <2>3 DEF TypeOK
    <3>2. rec # <<>> /\ rec[Len(rec)] # 0 => data = rec[Len(rec)] + 1
      BY <1>0, <2>1, <3>1 DEF RecBufferIsARun, TypeOK
    <3>3. /\ \A i \in 1 .. Len(rec') - 1 : rec'[i] # 0 => rec'[i + 1] = rec'[i] + 1
          /\ \A i \in 2 .. Len(rec') : rec'[i] # 0
          /\ rec'[Len(rec')] = data
      BY <1>0, <2>1, <2>3, <3>1, <3>2, RunGrows DEF RecBufferIsARun
    <3>4. QED
      BY <1>0, <2>1, <3>3 DEF RecBufferIsARun
  <2>4. QED
    BY <1>0, <1>8, <2>2, <2>3 DEF DmKeep, RecShape, Fetching
<1>9. QED
  BY <1>2, <1>3, <1>4, <1>5, <1>6, <1>7, <1>8 DEF Next, Daemon, DmFetches, Host

LEMMA StepRecInv == TypeInv /\ RingInv /\ RecInv /\ [Next]_vars => RecInv'
BY StepRecShape, StepRecRun DEF RecInv

\* Whatever rewinds, moves and waits the decoder does, rec_buffer never grows past
\* its array, and until the ring overruns it holds consecutive samples.
THEOREM RecBufferCorrect == Spec => [](RecBufferIsARun /\ RecBufferBounds)
<1>1. RecInv => RecBufferIsARun /\ RecBufferBounds
  BY DEF RecInv, RecShape
<1>2. QED
  BY InitTypeInv, InitRingInv, InitRecInv, StepTypeInv, StepRingInv, StepRecInv, <1>1, PTL
     DEF Spec
-----------------------------------------------------------------------------
(* The end of both threads.                                                *)

EndInv ==
  /\ host \in {"failed", "joining", "closed"} => pc = "done"
  /\ host = "closed" => rx = "done"

LEMMA StepEndInv == EndInv /\ [Next]_vars => EndInv'
<1> SUFFICES ASSUME EndInv, [Next]_vars PROVE EndInv'
  OBVIOUS
<1> USE DEF EndInv
<1>1. CASE Receiver
  BY <1>1 DEF Receiver, RxDatagram, RxStore, RxAdvance, RxSignal, RxExit, rxRest
<1>2. CASE Host \/ UNCHANGED vars
  BY <1>2 DEF Host, HostStop, HostDeinit, HostDelete, HostInit, FreshPlugin, vars
<1>3. CASE Daemon
  <2>1. pc # "done" /\ UNCHANGED <<host, rx>>
    BY <1>3 DEF Daemon, DmFetches, DmWaits, DmTop, DmCheck, DmReset, DmWake, DmTimeout,
                DmClear, DmReady, DmGet, DmFetch, DmKeep, DmRewind, DmNext, DmDecoded, dmRest
  <2>2. QED
    BY <2>1
<1>4. QED
  BY <1>1, <1>2, <1>3 DEF Next

\* The Server object is deleted only after both threads that use it have ended.
THEOREM ThreadsEndFirst == Spec => []ThreadsEndBeforeDelete
<1>1. Init => EndInv
  BY DEF Init, EndInv
<1>2. EndInv => ThreadsEndBeforeDelete
  BY DEF EndInv, ThreadsEndBeforeDelete
<1>3. QED
  BY <1>1, <1>2, StepEndInv, PTL DEF Spec
-----------------------------------------------------------------------------
(* The ring implements SampleFifo: Unread is its queue.                    *)

\* The k-th unread sample lies k - 1 slots ahead of bufferStart.
LEMMA SlotOfUnread ==
  ASSUME NEW start \in Slots, NEW k \in 1 .. Size
  PROVE  /\ (start + k - 1) % Size \in Slots
         /\ (start + k - 1) % Size = IF start + k - 1 < Size THEN start + k - 1
                                                             ELSE start + k - 1 - Size
BY SizeAssumption DEF Slots

\* So the queue holds the arrival numbers from taken + 1 to sent.
LEMMA UnreadIsARun ==
  ASSUME TypeOK, RingHoldsUnread, ~overrun
  PROVE  Unread = [k \in 1 .. sent - taken |-> taken + k] /\ Used = sent - taken
<1>1. Used = sent - taken /\ Used \in 0 .. Size - 1
  BY AheadFacts DEF RingHoldsUnread
<1>2. ASSUME NEW k \in 1 .. Used PROVE dataBuffer[(bufferStart + k - 1) % Size] = taken + k
  <2> DEFINE slot == (bufferStart + k - 1) % Size
  <2>1. k \in 1 .. Size /\ bufferStart \in Slots /\ k - 1 < Used /\ taken \in Nat
    BY <1>1, <1>2, SizeAssumption DEF TypeOK
  <2>2. slot \in Slots /\ Ahead(slot) = k - 1
    BY <2>1, SlotOfUnread, SizeAssumption DEF Ahead, Slots
  <2> HIDE DEF slot
  <2>3. dataBuffer[slot] = taken + 1 + (k - 1)
    BY <2>1, <2>2 DEF RingHoldsUnread
  <2>4. QED
    BY <2>1, <2>3 DEF slot
<1>3. QED
  BY <1>1, <1>2 DEF Unread

\* Runs of numbers as sequences: one more at the end, one less at the front.
LEMMA RunAsSequence ==
  ASSUME NEW t \in Nat, NEW n \in Nat
  PROVE  LET run == [k \in 1 .. n |-> t + k]
         IN  /\ run \in Seq(Nat) /\ Len(run) = n
             /\ run = <<>> <=> n = 0
             /\ [k \in 1 .. n + 1 |-> t + k] = Append(run, t + n + 1)
             /\ n > 0 => /\ Head(run) = t + 1
                         /\ Tail(run) = [k \in 1 .. n - 1 |-> t + 1 + k]
<1> DEFINE run == [k \in 1 .. n |-> t + k]
<1>1. run \in Seq(Nat) /\ Len(run) = n
  <2>1. run \in [1 .. n -> Nat]
    OBVIOUS
  <2>2. QED
    BY <2>1
<1>2. run = <<>> <=> n = 0
  BY <1>1, EmptySeq
<1>3. [k \in 1 .. n + 1 |-> t + k] = Append(run, t + n + 1)
  <2>1. /\ Append(run, t + n + 1) \in Seq(Nat)
        /\ Len(Append(run, t + n + 1)) = n + 1
        /\ \A k \in 1 .. n + 1 : Append(run, t + n + 1)[k] = t + k
    BY <1>1, AppendProperties
  <2>2. QED
    BY <2>1, LenProperties
<1>4. ASSUME n > 0
      PROVE  Head(run) = t + 1 /\ Tail(run) = [k \in 1 .. n - 1 |-> t + 1 + k]
  <2>1. run # <<>> /\ run[1] = t + 1 /\ \A k \in 1 .. n - 1 : run[k + 1] = t + 1 + k
    BY <1>2, <1>4
  <2> HIDE DEF run
  <2>2. /\ Tail(run) \in Seq(Nat) /\ Len(Tail(run)) = n - 1
        /\ \A k \in 1 .. n - 1 : Tail(run)[k] = run[k + 1]
    BY <1>1, <2>1, HeadTailProperties
  <2>3. Head(run) = t + 1
    BY <1>1, <2>1
  <2>4. QED
    BY <1>4, <2>1, <2>2, <2>3, LenProperties
<1>5. QED
  BY <1>1, <1>2, <1>3, <1>4

\* The state of the abstract queue, before and after a step.
QueueIsARun ==
  ~overrun => /\ Unread = [k \in 1 .. sent - taken |-> taken + k]
              /\ sent \in Nat /\ taken \in Nat /\ sent - taken \in 0 .. Size - 1

LEMMA QueueState == TypeInv /\ RingInv => QueueIsARun
BY UnreadIsARun, AheadFacts, BoundsAssumption DEF QueueIsARun, TypeInv, TypeOK, RingInv

LEMMA QueueStateNext == TypeInv' /\ RingInv' => QueueIsARun'
BY QueueState, PTL

LEMMA FifoInit == Init => Fifo!Init
<1> SUFFICES ASSUME Init PROVE Fifo!Init
  OBVIOUS
<1>1. ~overrun /\ data = 0 /\ 1 .. Used = {}
  BY DEF Init, Used, Ahead
<1>2. Unread = <<>>
  BY <1>1 DEF Unread
<1>3. QED
  BY <1>1, <1>2 DEF Fifo!Init, Fifo!Empty

\* A step that moves neither index, changes no unread slot and keeps data or drops it.
LEMMA FifoKeeps ==
  ASSUME UNCHANGED overrun, ~overrun => Unread' = Unread,
         data' = data \/ data' = 0
  PROVE  [Fifo!Next]_(Fifo!vars)
BY DEF Fifo!Next, Fifo!HandOn, Fifo!vars

\* As long as nothing is stored or fetched, the queue stays.
LEMMA FifoIdle ==
  ASSUME TypeInv, RingInv, TypeInv', RingInv', UNCHANGED <<sent, taken, overrun>>,
         data' = data \/ data' = 0
  PROVE  [Fifo!Next]_(Fifo!vars)
<1>1. ~overrun => Unread' = Unread
  BY QueueState, QueueStateNext DEF QueueIsARun
<1>2. QED
  BY <1>1, FifoKeeps

\* RxAdvance puts a sample in, or one too many.
LEMMA FifoReceiver ==
  ASSUME TypeInv, RingInv, RecInv, TypeInv', RingInv', Receiver
  PROVE  [Fifo!Next]_(Fifo!vars)
<1>1. CASE RxDatagram \/ RxStore \/ RxSignal \/ RxExit
  BY <1>1, FifoIdle DEF RxDatagram, RxStore, RxSignal, RxExit, rxRest, recVars
<1>2. CASE RxAdvance
  <2>1. /\ taken' = taken /\ sent' = sent + 1 /\ data' = data
        /\ overrun' = (overrun \/ sent + 1 - taken = Size)
        /\ sent + 1 \in 1 .. MaxSamples
    BY <1>2 DEF RxAdvance, rxRest, recVars, TypeInv, TypeOK
  <2>2. CASE overrun
    BY <2>1, <2>2, FifoKeeps
  <2>3. ASSUME ~overrun, overrun' PROVE Fifo!Overrun
    <3>1. sent + 1 - taken = Size
      BY <2>1, <2>3, Zenon
    <3>2. sent - taken = Size - 1 /\ taken \in Nat
      BY <2>3, <3>1, QueueState, SizeAssumption DEF QueueIsARun
    <3>3. Unread = [k \in 1 .. Size - 1 |-> taken + k] /\ taken \in Nat
      BY <2>3, <3>2, QueueState DEF QueueIsARun
    <3>4. Len(Unread) = Size - 1
      BY <3>3, RunAsSequence, SizeAssumption
    <3>5. QED
      BY <2>1, <2>3, <3>4 DEF Fifo!Overrun
  <2>4. ASSUME ~overrun, ~overrun' PROVE Fifo!Put
    <3> DEFINE n == sent - taken
    <3>1. /\ Unread = [k \in 1 .. n |-> taken + k] /\ taken \in Nat
          /\ n \in Nat /\ n < Size - 1
          /\ Unread' = [k \in 1 .. n + 1 |-> taken + k]
          /\ taken + n + 1 = sent + 1
      BY <2>1, <2>4, QueueState, QueueStateNext, SizeAssumption
         DEF QueueIsARun
    <3> HIDE DEF n
    <3>2. Len(Unread) = n /\ Unread' = Append(Unread, sent + 1)
      BY <3>1, RunAsSequence
    <3>3. Len(Unread) < Size - 1 /\ \E s \in 1 .. MaxSamples : Unread' = Append(Unread, s)
      BY <2>1, <3>1, <3>2
    <3>4. overrun' = overrun
      BY <2>4 DEF TypeInv, TypeOK
    <3>5. QED
      BY <2>1, <2>4, <3>3, <3>4 DEF Fifo!Put
  <2>5. QED
    BY <2>2, <2>3, <2>4 DEF Fifo!Next
<1>3. QED
  BY <1>1, <1>2 DEF Receiver

\* DmFetch takes the oldest one out, DmKeep hands it on.
LEMMA FifoDaemon ==
  ASSUME TypeInv, RingInv, RecInv, TypeInv', RingInv', RecInv', Daemon
  PROVE  [Fifo!Next]_(Fifo!vars)
<1>1. CASE DmTop \/ DmWaits \/ DmClear \/ DmReady \/ DmGet \/ DmKeep \/ DmRewind \/ DmNext \/ DmDecoded
  <2>1. UNCHANGED <<sent, taken, overrun>> /\ (data' = data \/ data' = 0)
    BY <1>1 DEF DmTop, DmWaits, DmCheck, DmReset, DmWake, DmTimeout, DmClear, DmReady, DmGet,
                DmKeep, DmRewind, DmNext, DmDecoded, dmRest, recVars
  <2>2. QED
    BY <2>1, FifoIdle
<1>2. CASE DmFetch
  <2>1. /\ pc = "fetch" /\ data' = dataBuffer[bufferStart] /\ taken' = taken + 1
        /\ UNCHANGED <<sent, overrun>>
    BY <1>2 DEF DmFetch, dmRest
  <2>2. CASE overrun
    BY <2>1, <2>2 DEF Fifo!vars
  <2>3. CASE ~overrun
    <3> DEFINE n == sent - taken
    <3>1. /\ Unread = [k \in 1 .. n |-> taken + k] /\ taken \in Nat
          /\ n \in Nat /\ n > 0
          /\ Unread' = [k \in 1 .. n - 1 |-> taken + 1 + k]
      BY <2>1, <2>3, QueueState, QueueStateNext DEF QueueIsARun, RingInv
    <3>2. data' = taken + 1
      <4>1. Used > 0 /\ Ahead(bufferStart) = 0 /\ bufferStart \in Slots
        BY <2>1, <2>3, <3>1 DEF RingInv, RingHoldsUnread, TypeInv, TypeOK, Ahead, Slots
      <4>2. QED
        BY <2>1, <2>3, <3>1, <4>1 DEF RingInv, RingHoldsUnread
    <3> HIDE DEF n
    <3>3. Unread # <<>> /\ data' = Head(Unread) /\ Unread' = Tail(Unread)
      <4> DEFINE run == [k \in 1 .. n |-> taken + k]
      <4>1. n \in Nat /\ n > 0 /\ taken \in Nat /\ Unread = run
        BY <3>1
      <4>2. run # <<>>
        BY <4>1, RunAsSequence
      <4>3. Head(run) = taken + 1
        BY <4>1, RunAsSequence
      <4>4. Tail(run) = [k \in 1 .. n - 1 |-> taken + 1 + k]
        BY <4>1, RunAsSequence
      <4> HIDE DEF run
      <4>5. QED
        BY <3>1, <3>2, <4>1, <4>2, <4>3, <4>4
    <3>4. Fifo!Take
      BY <2>1, <2>3, <3>3 DEF Fifo!Take
    <3>5. QED
      BY <3>4 DEF Fifo!Next
  <2>4. QED
    BY <2>2, <2>3
<1>3. QED
  BY <1>1, <1>2 DEF Daemon, DmFetches

LEMMA FifoHost ==
  ASSUME TypeInv, RingInv, TypeInv', RingInv', Host
  PROVE  [Fifo!Next]_(Fifo!vars)
<1>1. CASE HostStop \/ HostDeinit \/ HostDelete
  BY <1>1, FifoIdle DEF HostStop, HostDeinit, HostDelete, ringVars, recVars
<1>2. CASE HostInit
  <2>1. ~overrun' /\ data' = 0 /\ sent' = 0 /\ taken' = 0
    BY <1>2 DEF HostInit, FreshPlugin
  <2>2. Unread' = [k \in 1 .. sent' - taken' |-> taken' + k]
    BY <2>1, QueueStateNext DEF QueueIsARun
  <2>3. Unread' = <<>>
    BY <2>1, <2>2
  <2>4. QED
    BY <2>1, <2>3 DEF Fifo!Next, Fifo!Restart
<1>3. QED
  BY <1>1, <1>2 DEF Host

\* Ring, indices and the daemon thread's fetch together are a first-in first-out
\* queue of Size - 1 samples, for every size of the ring, until it is overrun.
THEOREM RingIsFifo == Spec => FifoSpec
<1>1. TypeInv /\ RingInv /\ RecInv /\ [Next]_vars /\ TypeInv' /\ RingInv' /\ RecInv'
        => [Fifo!Next]_(Fifo!vars)
  <2>1. ASSUME TypeInv, RingInv, TypeInv', RingInv', UNCHANGED vars
        PROVE  [Fifo!Next]_(Fifo!vars)
    BY <2>1, FifoIdle DEF vars, ringVars, recVars
  <2>2. QED
    BY <2>1, FifoReceiver, FifoDaemon, FifoHost DEF Next
<1>2. QED
  BY InitTypeInv, InitRingInv, InitRecInv, StepTypeInv, StepRingInv, StepRecInv, FifoInit,
     <1>1, PTL
     DEF Spec, FifoSpec, Fifo!Spec
=============================================================================
