----------------------------- MODULE Broadcast -----------------------------
(***************************************************************************)
(* Server together with the daemon thread, which hands every decoded       *)
(* message to all clients (Cserver::sendToClients and sendData).  It goes  *)
(* through m_clients without a lock while the server thread fills and      *)
(* empties the slots.  It keeps the handle of a socket over several calls  *)
(* of send(); a handle that was closed may be given to the next accepted   *)
(* connection.  The sockets do not block, because WSAEventSelect was       *)
(* called for the listening one: Winsock takes a part of the data or       *)
(* nothing.                                                                *)
(***************************************************************************)
EXTENDS Server

CONSTANT MessageLength  \* bytes of a message

ASSUME MessageLengthAssumption == MessageLength \in Nat \ {0}

VARIABLES
  daemon,     \* where the daemon thread is: "decode", "slot", "read", "send", "end"
  i,          \* the slot of sendToClients
  socket,     \* the connection that the handle in sendData means
  length, lastSent,  \* the variables length and sent of sendData
  heard,      \* client -> the parts of the message it got, as <<first, last>> byte
  cut,        \* clients that Winsock did not take the message from in two parts
  present     \* connections served since before the message was decoded

history    == <<heard, cut, present>>
daemonVars == <<daemon, i, socket, length, lastSent, history>>
bVars      == <<vars, daemonVars>>

NothingHeard == [c \in Clients |-> <<>>]

BInit ==
  /\ Init
  /\ daemon = "decode" /\ i = 0
  /\ socket = None /\ length = 0 /\ lastSent = 0
  /\ heard = NothingHeard /\ cut = {} /\ present = {}
-----------------------------------------------------------------------------
(* The daemon thread.                                                      *)

\* decodeIR has a message: sendToClients starts with slot 0.
Decoded ==
  /\ daemon = "decode"
  /\ daemon' = "slot" /\ i' = 0
  /\ present' = {c \in Clients : Settled(c)}
  /\ UNCHANGED <<vars, socket, length, lastSent, heard, cut>>

TestSlotStops ==
  /\ daemon = "slot" /\ UNCHANGED i
  /\ daemon' = IF i = MaxClients \/ m_clients[i] = None THEN "end" ELSE "read"
  /\ UNCHANGED <<vars, socket, length, lastSent, history>>

\* The test of m_clients[i] ...
TestSlot ==
  /\ daemon = "slot"
  /\ IF i = MaxClients THEN daemon' = "end" /\ UNCHANGED i
     ELSE IF m_clients[i] = None THEN i' = i + 1 /\ UNCHANGED daemon
     ELSE daemon' = "read" /\ UNCHANGED i
  /\ UNCHANGED <<vars, socket, length, lastSent, history>>

\* ... and its use as the argument of sendData, where it may have changed.
ReadSlot ==
  /\ daemon = "read"
  /\ IF m_clients[i] = None
     THEN daemon' = "slot" /\ i' = i + 1 /\ UNCHANGED <<socket, length, lastSent>>
     ELSE /\ socket' = m_clients[i]
          /\ length' = MessageLength /\ lastSent' = 0
          /\ daemon' = "send" /\ UNCHANGED i
  /\ UNCHANGED <<vars, history>>

\* send(socket, s+sent, length): s+sent does not add up what the earlier calls sent.
SendPart ==
  /\ daemon = "send" /\ length > 0 /\ Open(socket)
  /\ \E n \in 1 .. length :
       /\ heard' = [heard EXCEPT ![socket] = Append(@, <<lastSent + 1, lastSent + n>>)]
       /\ cut' = IF length < MessageLength /\ n < length THEN cut \cup {socket} ELSE cut
       /\ length' = length - n
       /\ lastSent' = n
  /\ UNCHANGED <<vars, daemon, i, socket, present>>

\* All is sent, or send() fails: the connection is closed or Winsock has no room.
EndSend ==
  /\ daemon = "send"
  /\ cut' = IF length = 0 THEN cut ELSE cut \cup {socket}
  /\ daemon' = "slot" /\ i' = i + 1 /\ socket' = None
  /\ length' = 0 /\ lastSent' = 0
  /\ UNCHANGED <<vars, heard, present>>

\* sendToClients returns; the next message starts a new history.
Returns ==
  /\ daemon = "end" /\ daemon' = "decode" /\ i' = 0
  /\ heard' = NothingHeard /\ cut' = {} /\ present' = {}
  /\ UNCHANGED <<vars, socket, length, lastSent>>

Daemon == Decoded \/ TestSlot \/ ReadSlot \/ SendPart \/ EndSend \/ Returns
-----------------------------------------------------------------------------
(* The server thread and the network meanwhile.                            *)

\* A closed handle may be the number of a connection accepted later.
ReuseHandle ==
  \/ UNCHANGED socket
  \/ /\ socket # None /\ ~Open(socket)
     /\ \E c \in Clients : ~Open(c) /\ conn'[c] = "open" /\ socket' = c

OtherThreads ==
  /\ Next
  /\ ReuseHandle
  /\ present' = present \cap {c \in Clients : conn'[c] = "open"}
  /\ UNCHANGED <<daemon, i, length, lastSent, heard, cut>>

BNext == Daemon \/ OtherThreads

BSpec == BInit /\ [][BNext]_bVars
-----------------------------------------------------------------------------
(* What must hold.                                                         *)

\* sendToClients reaches every connection that is served all the time it runs,
\* though slots are emptied and filled under it, and what Winsock takes in at most
\* two parts arrives whole.
BroadcastArrives ==
  daemon = "end" => \A c \in present \ cut :
    \/ heard[c] = <<<<1, MessageLength>>>>
    \/ \E n \in 1 .. MessageLength - 1 : heard[c] = <<<<1, n>>, <<n + 1, MessageLength>>>>
=============================================================================
