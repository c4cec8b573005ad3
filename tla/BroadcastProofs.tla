--------------------------- MODULE BroadcastProofs ---------------------------
(***************************************************************************)
(* Proof about Broadcast, for any number of slots and clients and messages *)
(* of any length: sendToClients reaches every connection that is served    *)
(* all the time it runs.                                                   *)
(***************************************************************************)
EXTENDS Broadcast, ServerProofs

\* What Winsock took of the message in one part or in two.
Whole(parts) ==
  \/ parts = <<<<1, MessageLength>>>>
  \/ \E n \in 1 .. MessageLength - 1 : parts = <<<<1, n>>, <<n + 1, MessageLength>>>>

\* What sendData has sent so far, in its variables and to the client.
SoFar(parts) ==
  \/ length = MessageLength /\ lastSent = 0 /\ parts = <<>>
  \/ \E n \in 1 .. MessageLength :
       length = MessageLength - n /\ lastSent = n /\ parts = <<<<1, n>>>>
  \/ length = 0 /\ Whole(parts)

DaemonTypes ==
  /\ daemon \in {"decode", "slot", "read", "send", "end"}
  /\ i \in 0 .. MaxClients
  /\ daemon \in {"read", "send"} => i \in Slots
  /\ daemon = "end" => i = MaxClients
  /\ socket \in Clients \cup {None} /\ (daemon = "send" => socket # None)
  /\ length \in Nat /\ lastSent \in Nat
  /\ heard \in [Clients -> Seq(Nat \X Nat)]
  /\ cut \subseteq Clients /\ present \subseteq Clients

\* Nothing is sent before a message is decoded.
FreshStart == daemon = "decode" => heard = NothingHeard /\ cut = {} /\ present = {}

\* The slots behind sendToClients are done, those before it are untouched, and the
\* one it is at has as much as sendData says.
PresentServed ==
  \A c \in present : \A s \in Slots : m_clients[s] = c =>
    /\ s < i => c \in cut \/ Whole(heard[c])
    /\ s > i \/ (s = i /\ daemon # "send") => heard[c] = <<>>
    /\ s = i /\ daemon = "send" => c \in cut \/ SoFar(heard[c])

BroadcastInv ==
  /\ DaemonTypes
  /\ FreshStart
  /\ \A c \in present : Open(c)
  /\ daemon = "send" => \A c \in present : socket = c <=> m_clients[i] = c
  /\ PresentServed
-----------------------------------------------------------------------------
\* A connection that stays open stays in its slot.
LEMMA StaysInSlot ==
  ASSUME SlotInv, SlotInv', [Next]_vars, NEW c \in Clients, Open(c), Open(c)'
  PROVE  \A s \in Slots : m_clients'[s] = c <=> m_clients[s] = c
<1>1. \A s \in Slots : m_clients[s] = c => m_clients'[s] = c
  <2> SUFFICES ASSUME NEW s \in Slots, m_clients[s] = c PROVE m_clients'[s] = c
    OBVIOUS
  <2>0. c # None
    BY NoneAssumption
  <2>1. CASE UNCHANGED m_clients
    BY <2>1
  <2>2. CASE AcceptClient
    BY <2>0, <2>2 DEF AcceptClient, SlotInv, TypeOK
  <2>3. CASE WaitClient
    <3>1. PICK k \in Slots :
             IF m_clients[ServedSlot(k)] = None
             THEN UNCHANGED <<m_clients, conn, inbox, clientData, readRec, replies>>
             ELSE Receive(ServedSlot(k))
      BY <2>3 DEF WaitClient
    <3>2. UNCHANGED m_clients \/ (m_clients[ServedSlot(k)] # None /\ CloseSlot(ServedSlot(k)))
      BY <3>1 DEF Receive
    <3>3. ServedSlot(k) \in Slots
      BY ServedSlotIsSlot
    <3> DEFINE d == ServedSlot(k)
    <3>4. ASSUME CloseSlot(d), m_clients[d] # None PROVE m_clients'[s] = c
      <4>1. m_clients' = [m_clients EXCEPT ![d] = None]
            /\ conn' = [conn EXCEPT ![m_clients[d]] = "closed"]
        BY <3>4 DEF CloseSlot
      <4>2. m_clients[d] \in Clients
        BY <3>3, <3>4 DEF SlotInv, TypeOK
      <4> HIDE DEF d
      <4>3. conn'[m_clients[d]] = "closed"
        BY <4>1, <4>2 DEF SlotInv, TypeOK
      <4>4. d # s
        BY <4>3 DEF Open
      <4>. QED
        BY <4>1, <4>4 DEF SlotInv, TypeOK
    <3>. QED
      BY <2>1, <3>2, <3>4
  <2>4. CASE CloseClients
    BY <2>4 DEF CloseClients, Open, SlotInv, TypeOK
  <2>5. CASE CloseServer
    BY <2>1, <2>5 DEF CloseServer
  <2>. QED
    BY <2>1, <2>2, <2>3, <2>4, <2>5
    DEF Next, Network, ServerThread, SignalAccept, Connect, Abort, Send, Leave, Signal,
        WaitExit, WaitAccept, AcceptFull, SelectEvents, ResetSlot, KillThread, vars,
        threadVars
<1>2. \E s \in Slots : m_clients[s] = c
  BY DEF SlotInv, SlotsMatchConnections
<1>3. c # None
  BY NoneAssumption
<1>4. \A s, t \in Slots : m_clients'[s] = c /\ m_clients'[t] = c => s = t
  BY <1>3 DEF SlotInv, SlotsMatchConnections
<1>. QED
  BY <1>1, <1>2, <1>4
-----------------------------------------------------------------------------
(* The server thread, the clients and the network.                         *)

LEMMA OthersKeepBroadcast ==
  SlotInv /\ SlotInv' /\ BroadcastInv /\ OtherThreads => BroadcastInv'
<1> SUFFICES ASSUME SlotInv, SlotInv', BroadcastInv, OtherThreads PROVE BroadcastInv'
  OBVIOUS
<1>1. /\ Next /\ ReuseHandle
      /\ present' = present \cap {c \in Clients : conn'[c] = "open"}
      /\ daemon' = daemon /\ i' = i /\ length' = length /\ lastSent' = lastSent
      /\ heard' = heard /\ cut' = cut
  BY DEF OtherThreads
<1>2. \A c \in present' : c \in present /\ c \in Clients /\ Open(c) /\ Open(c)'
  BY <1>1 DEF BroadcastInv, DaemonTypes, Open
<1>3. \A c \in present' : \A s \in Slots : m_clients'[s] = c <=> m_clients[s] = c
  <2> TAKE c \in present'
  <2>. QED
    BY <1>1, <1>2, StaysInSlot
<1>4. socket' = socket \/ (socket' \in Clients /\ socket # None /\ ~Open(socket) /\ ~Open(socket'))
  BY <1>1 DEF ReuseHandle
<1>5. DaemonTypes'
  BY <1>1, <1>4, NoneAssumption DEF BroadcastInv, DaemonTypes
<1>6. FreshStart'
  BY <1>1 DEF BroadcastInv, FreshStart
<1>7. daemon' = "send" => \A c \in present' : socket' = c <=> m_clients'[i'] = c
  <2> SUFFICES ASSUME daemon = "send", NEW c \in present'
               PROVE  socket' = c <=> m_clients'[i] = c
    BY <1>1
  <2>1. (socket = c <=> m_clients[i] = c) /\ i \in Slots
    BY <1>2 DEF BroadcastInv, DaemonTypes
  <2>2. m_clients'[i] = c <=> m_clients[i] = c
    BY <1>3, <2>1
  <2>3. socket' = c <=> socket = c
    BY <1>2, <1>4
  <2>. QED
    BY <2>1, <2>2, <2>3
<1>8. PresentServed'
  <2> SUFFICES ASSUME NEW c \in present', NEW s \in Slots, m_clients'[s] = c
               PROVE  /\ s < i => c \in cut \/ Whole(heard[c])
                      /\ s > i \/ (s = i /\ daemon # "send") => heard[c] = <<>>
                      /\ s = i /\ daemon = "send" => c \in cut \/ SoFar(heard[c])
    BY <1>1, Zenon DEF PresentServed, SoFar, Whole
  <2>1. m_clients[s] = c /\ c \in present
    BY <1>2, <1>3
  <2>. QED
    BY <2>1 DEF BroadcastInv, PresentServed
<1>. QED
  BY <1>2, <1>5, <1>6, <1>7, <1>8 DEF BroadcastInv
-----------------------------------------------------------------------------
(* The daemon thread.                                                      *)

LEMMA TwoParts ==
  \A a, b, c, d \in Nat : Append(<<<<a, b>>>>, <<c, d>>) = <<<<a, b>>, <<c, d>>>>
<1> SUFFICES ASSUME NEW a \in Nat, NEW b \in Nat, NEW c \in Nat, NEW d \in Nat
             PROVE  Append(<<<<a, b>>>>, <<c, d>>) = <<<<a, b>>, <<c, d>>>>
  OBVIOUS
<1> DEFINE x == <<a, b>>
           y == <<c, d>>
           S == Nat \X Nat
<1>1. x \in S /\ y \in S
  OBVIOUS
<1> HIDE DEF x, y, S
<1>2. Append(<<x>>, y) \in Seq(S) /\ <<x, y>> \in Seq(S)
  BY <1>1
<1>3. Len(Append(<<x>>, y)) = 2 /\ Len(<<x, y>>) = 2
  OBVIOUS
<1>4. Append(<<x>>, y)[1] = x /\ Append(<<x>>, y)[2] = y
  OBVIOUS
<1>5. \A k \in 1 .. Len(Append(<<x>>, y)) : Append(<<x>>, y)[k] = <<x, y>>[k]
  BY <1>3, <1>4
<1>6. Append(<<x>>, y) = <<x, y>>
  BY <1>2, <1>3, <1>5, SeqEqual
<1>. QED
  BY <1>6 DEF x, y

LEMMA BroadcastAtStart == BInit => BroadcastInv
<1> SUFFICES ASSUME BInit PROVE BroadcastInv
  OBVIOUS
<1>1. MaxClients \in Nat /\ MessageLength \in Nat
  BY MaxClientsAssumption, MessageLengthAssumption
<1>2. heard \in [Clients -> Seq(Nat \X Nat)]
  BY DEF BInit, NothingHeard
<1>. QED
  BY <1>1, <1>2 DEF BInit, BroadcastInv, DaemonTypes, FreshStart, PresentServed

LEMMA DaemonKeepsBroadcast ==
  SlotInv /\ BroadcastInv /\ Daemon => BroadcastInv'
<1> SUFFICES ASSUME SlotInv, BroadcastInv, Daemon PROVE BroadcastInv'
  OBVIOUS
<1>0. /\ MaxClients \in Nat \ {0} /\ MessageLength \in Nat \ {0}
      /\ i \in Nat /\ Slots = 0 .. MaxClients - 1
  BY MaxClientsAssumption, MessageLengthAssumption DEF BroadcastInv, DaemonTypes, Slots
<1>V. UNCHANGED <<m_clients, conn>>
  BY DEF Daemon, Decoded, TestSlot, ReadSlot, SendPart, EndSend, Returns, vars, threadVars
<1>1. CASE Decoded
  <2>1. /\ daemon = "decode" /\ daemon' = "slot" /\ i' = 0
        /\ present' = {c \in Clients : Settled(c)}
        /\ UNCHANGED <<socket, length, lastSent, heard, cut>>
    BY <1>1 DEF Decoded
  <2>2. heard = NothingHeard /\ cut = {}
    BY <2>1 DEF BroadcastInv, FreshStart
  <2>3. \A c \in present' : c \in Clients /\ Open(c)' /\ heard'[c] = <<>>
    BY <2>1, <2>2, <1>V DEF Settled, Open, NothingHeard
  <2>4. PresentServed'
    BY <2>1, <2>3, <1>0 DEF PresentServed
  <2>. QED
    BY <2>1, <2>3, <2>4, <1>0 DEF BroadcastInv, DaemonTypes, FreshStart
<1>2. CASE TestSlot \/ (ReadSlot /\ m_clients[i] = None)
  <2>1. daemon \in {"slot", "read"} /\ UNCHANGED <<socket, length, lastSent, heard, cut, present>>
    BY <1>2 DEF TestSlot, ReadSlot, history
  <2>2. \/ i' = i /\ daemon' = "end" /\ i = MaxClients
        \/ i' = i + 1 /\ daemon' = "slot" /\ i \in Slots /\ m_clients[i] = None
        \/ i' = i /\ daemon' = "read" /\ i \in Slots
    BY <1>2, <1>0 DEF TestSlot, ReadSlot, BroadcastInv, DaemonTypes
  <2>3. \A c \in present : c # None
    BY NoneAssumption DEF BroadcastInv, DaemonTypes
  <2>4. PresentServed'
    <3> SUFFICES ASSUME NEW c \in present, NEW s \in Slots, m_clients[s] = c
                 PROVE  /\ s < i' => c \in cut \/ Whole(heard[c])
                        /\ s > i' \/ s = i' => heard[c] = <<>>
      BY <2>1, <2>2, <1>V DEF PresentServed
    <3>1. /\ s < i => c \in cut \/ Whole(heard[c])
          /\ s > i \/ s = i => heard[c] = <<>>
      BY <2>1 DEF BroadcastInv, PresentServed
    <3>2. i' = i + 1 => s # i
      BY <2>2, <2>3, <1>0
    <3>. QED
      BY <3>1, <3>2, <2>2, <1>0
  <2>. QED
    BY <2>1, <2>2, <2>4, <1>0, <1>V DEF BroadcastInv, DaemonTypes, FreshStart, Open
<1>3. CASE ReadSlot /\ m_clients[i] # None
  <2>1. /\ daemon = "read" /\ daemon' = "send" /\ i' = i /\ i \in Slots
        /\ socket' = m_clients[i] /\ length' = MessageLength /\ lastSent' = 0
        /\ UNCHANGED <<heard, cut, present>>
    BY <1>3 DEF ReadSlot, BroadcastInv, DaemonTypes, history
  <2>2. socket' \in Clients /\ socket' # None
    BY <2>1, <1>3, NoneAssumption DEF SlotInv, TypeOK
  <2>3. PresentServed'
    <3> SUFFICES ASSUME NEW c \in present, NEW s \in Slots, m_clients[s] = c
                 PROVE  /\ s < i => c \in cut \/ Whole(heard[c])
                        /\ s > i => heard[c] = <<>>
                        /\ s = i => heard[c] = <<>>
      BY <2>1, <1>V DEF PresentServed, SoFar
    <3>. QED
      BY <2>1 DEF BroadcastInv, PresentServed
  <2>. QED
    BY <2>1, <2>2, <2>3, <1>0, <1>V DEF BroadcastInv, DaemonTypes, FreshStart, Open
<1>4. CASE SendPart
  <2>1. /\ daemon = "send" /\ length > 0 /\ i \in Slots /\ socket \in Clients
        /\ UNCHANGED <<daemon, i, socket, present>>
    BY <1>4 DEF SendPart, BroadcastInv, DaemonTypes
  <2>2. PICK n \in 1 .. length :
          /\ heard' = [heard EXCEPT ![socket] = Append(@, <<lastSent + 1, lastSent + n>>)]
          /\ cut' = IF length < MessageLength /\ n < length THEN cut \cup {socket} ELSE cut
          /\ length' = length - n
          /\ lastSent' = n
    BY <1>4 DEF SendPart
  <2>3. n \in Nat /\ length \in Nat /\ n > 0 /\ n <= length
    BY DEF BroadcastInv, DaemonTypes
  <2>4. \A c \in Clients : c # socket => heard'[c] = heard[c]
    BY <2>1, <2>2 DEF BroadcastInv, DaemonTypes
  <2>5. heard'[socket] = Append(heard[socket], <<lastSent + 1, lastSent + n>>)
    BY <2>1, <2>2 DEF BroadcastInv, DaemonTypes
  <2>6. heard' \in [Clients -> Seq(Nat \X Nat)]
    <3>1. heard[socket] \in Seq(Nat \X Nat) /\ <<lastSent + 1, lastSent + n>> \in Nat \X Nat
      BY <2>1, <2>3 DEF BroadcastInv, DaemonTypes
    <3>2. heard'[socket] \in Seq(Nat \X Nat)
      BY <3>1, <2>5
    <3>. QED
      BY <3>2, <2>1, <2>2 DEF BroadcastInv, DaemonTypes
  <2>7. cut \subseteq cut' /\ cut' \subseteq Clients
    BY <2>1, <2>2 DEF BroadcastInv, DaemonTypes
  <2>8. ASSUME SoFar(heard[socket]) PROVE socket \in cut' \/ SoFar(heard[socket])'
    <3>1. CASE length = MessageLength /\ lastSent = 0 /\ heard[socket] = <<>>
      <4>1. heard'[socket] = <<<<1, n>>>> /\ length' = MessageLength - n /\ lastSent' = n
        BY <3>1, <2>2, <2>3, <2>5
      <4>2. n \in 1 .. MessageLength
        BY <3>1, <2>3
      <4>. QED
        BY <4>1, <4>2, <2>1 DEF SoFar
    <3>2. ASSUME NEW m \in 1 .. MessageLength,
                 length = MessageLength - m, lastSent = m, heard[socket] = <<<<1, m>>>>
          PROVE  socket \in cut' \/ SoFar(heard[socket])'
      <4>1. CASE n < length
        BY <3>2, <4>1, <2>2, <2>3, <1>0
      <4>2. CASE n = length
        <5>1. m \in 1 .. MessageLength - 1 /\ length' = 0 /\ lastSent + n = MessageLength
          BY <3>2, <4>2, <2>2, <2>3, <1>0
        <5>2. heard'[socket] = <<<<1, m>>, <<m + 1, MessageLength>>>>
          <6>1. heard'[socket] = Append(<<<<1, m>>>>, <<m + 1, MessageLength>>)
            BY <3>2, <5>1, <2>5
          <6>. QED
            BY <6>1, <5>1, <1>0, TwoParts
        <5>. QED
          BY <5>1, <5>2, <2>1 DEF SoFar, Whole
      <4>. QED
        BY <4>1, <4>2, <2>3
    <3>. QED
      BY <2>8, <3>1, <3>2, <2>1, <2>3 DEF SoFar
  <2>9. PresentServed'
    <3> SUFFICES ASSUME NEW c \in present, NEW s \in Slots, m_clients[s] = c
                 PROVE  /\ s < i => c \in cut' \/ Whole(heard'[c])
                        /\ s > i => heard'[c] = <<>>
                        /\ s = i => c \in cut' \/ SoFar(heard[c])'
      BY <2>1, <1>V, Zenon DEF PresentServed, SoFar, Whole
    <3>1. c \in Clients /\ c # None /\ (socket = c <=> m_clients[i] = c)
      BY <2>1, NoneAssumption DEF BroadcastInv, DaemonTypes
    <3>2. c = socket <=> s = i
      BY <3>1, <2>1 DEF SlotInv, SlotsMatchConnections
    <3>3. /\ s < i => c \in cut \/ Whole(heard[c])
          /\ s > i => heard[c] = <<>>
          /\ s = i => c \in cut \/ SoFar(heard[c])
      BY <2>1 DEF BroadcastInv, PresentServed
    <3>4. CASE s = i
      <4>1. socket \in cut' \/ SoFar(heard[socket])'
        BY <3>2, <3>3, <3>4, <2>7, <2>8
      <4>2. c = socket
        BY <3>2, <3>4
      <4>3. SoFar(heard[socket])' => SoFar(heard[c])'
        BY <4>2, <2>1 DEF SoFar, Whole
      <4>. QED
        BY <4>1, <4>2, <4>3, <3>4, <1>0
    <3>5. CASE s # i
      BY <3>1, <3>2, <3>3, <3>5, <2>4, <2>7
    <3>. QED
      BY <3>4, <3>5
  <2>10. DaemonTypes'
    BY <2>1, <2>2, <2>3, <2>6, <2>7 DEF BroadcastInv, DaemonTypes
  <2>11. length' \in Nat
    BY <2>2, <2>3
  <2>. QED
    BY <2>1, <2>9, <2>10, <1>V DEF BroadcastInv, FreshStart, Open
<1>5. CASE EndSend
  <2>1. /\ daemon = "send" /\ daemon' = "slot" /\ i \in Slots /\ i' = i + 1 /\ socket' = None
        /\ socket \in Clients /\ length' = 0 /\ lastSent' = 0
        /\ cut' = (IF length = 0 THEN cut ELSE cut \cup {socket})
        /\ UNCHANGED <<heard, present>>
    BY <1>5 DEF EndSend, BroadcastInv, DaemonTypes
  <2>2. PresentServed'
    <3> SUFFICES ASSUME NEW c \in present, NEW s \in Slots, m_clients[s] = c
                 PROVE  /\ s < i + 1 => c \in cut' \/ Whole(heard[c])
                        /\ s > i + 1 \/ s = i + 1 => heard[c] = <<>>
      BY <2>1, <1>V DEF PresentServed, Whole
    <3>1. /\ s < i => c \in cut \/ Whole(heard[c])
          /\ s > i => heard[c] = <<>>
          /\ s = i => c \in cut \/ SoFar(heard[c])
      BY <2>1 DEF BroadcastInv, PresentServed
    <3>2. CASE s = i
      <4>1. socket = c
        BY <3>2, <2>1 DEF BroadcastInv
      <4>2. length = 0 /\ SoFar(heard[c]) => Whole(heard[c])
        BY <1>0 DEF SoFar, Whole
      <4>. QED
        BY <3>1, <3>2, <4>1, <4>2, <2>1, <1>0
    <3>3. CASE s # i
      BY <3>1, <3>3, <2>1, <1>0
    <3>. QED
      BY <3>2, <3>3
  <2>3. DaemonTypes'
    BY <2>1, <1>0 DEF BroadcastInv, DaemonTypes
  <2>. QED
    BY <2>1, <2>2, <2>3, <1>V DEF BroadcastInv, FreshStart, Open
<1>6. CASE Returns
  BY <1>6, <1>0, <1>V DEF Returns, BroadcastInv, DaemonTypes, FreshStart, NothingHeard, PresentServed
<1>. QED
  BY <1>1, <1>2, <1>3, <1>4, <1>5, <1>6 DEF Daemon
-----------------------------------------------------------------------------

\* sendToClients reaches every connection that is served all the time it runs, though
\* slots are emptied and filled under it; what Winsock takes in at most two parts
\* arrives whole and in order (sendToClients and sendData, server.cpp:120-153).
THEOREM BroadcastReaches == BSpec => []BroadcastArrives
<1> DEFINE Inv == SlotInv /\ BroadcastInv
<1>1. BInit => Inv
  BY SlotsAtStart, BroadcastAtStart DEF BInit
<1>2. Inv /\ [BNext]_bVars => Inv'
  <2> SUFFICES ASSUME Inv, [BNext]_bVars PROVE Inv'
    OBVIOUS
  <2>1. SlotInv'
    <3>1. [Next]_vars
      BY DEF BNext, Daemon, Decoded, TestSlot, ReadSlot, SendPart, EndSend, Returns,
             OtherThreads, bVars
    <3>. QED
      BY <3>1, SlotInvKept
  <2>2. CASE Daemon
    BY <2>1, <2>2, DaemonKeepsBroadcast
  <2>3. CASE OtherThreads
    BY <2>1, <2>3, OthersKeepBroadcast
  <2>4. CASE UNCHANGED bVars
    BY <2>1, <2>4
    DEF bVars, vars, threadVars, daemonVars, history, BroadcastInv, DaemonTypes, FreshStart,
        PresentServed, SoFar, Whole, Open
  <2>. QED
    BY <2>2, <2>3, <2>4 DEF BNext
<1>3. Inv => BroadcastArrives
  <2> SUFFICES ASSUME Inv, daemon = "end", NEW c \in present \ cut PROVE Whole(heard[c])
    BY DEF BroadcastArrives, Whole
  <2>1. i = MaxClients /\ c \in Clients /\ Open(c)
    BY DEF BroadcastInv, DaemonTypes
  <2>2. PICK s \in Slots : m_clients[s] = c
    BY <2>1 DEF SlotInv, SlotsMatchConnections
  <2>3. s < i
    BY <2>1, <2>2, MaxClientsAssumption DEF Slots
  <2>. QED
    BY <2>2, <2>3 DEF BroadcastInv, PresentServed
<1>. QED
  BY <1>1, <1>2, <1>3, PTL DEF BSpec
=============================================================================
