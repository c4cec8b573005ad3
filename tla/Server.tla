------------------------------- MODULE Server -------------------------------
(***************************************************************************)
(* The TCP server of WinLIRC, winlirc/server.cpp: one thread accepts       *)
(* clients into MAX_CLIENTS slots, waits for the events of all of them at  *)
(* once, reads lines and replies to each.                                  *)
(*                                                                         *)
(* Winsock is external: per socket it records FD_READ or FD_CLOSE once,    *)
(* sets the event object selected for it, and records FD_READ again only   *)
(* after the next recv.  FD_CLOSE is recorded when all data is read.       *)
(***************************************************************************)
EXTENDS LineBuffer, Commands

CONSTANTS
  Clients,     \* the programs that connect, each once
  None,        \* INVALID_SOCKET
  MaxClients,  \* MAX_CLIENTS (8)
  MaxData,     \* MAX_DATA (1024)
  Script,      \* Script[c]: the tokens client c sends, in pieces of any size
  Text,        \* Text[t]: the words that token t of a script stands for
  Leavers,     \* clients that may close their connection at any time
  Eager        \* clients that may send before the server has selected events

ASSUME MaxClientsAssumption == MaxClients \in Nat \ {0}
ASSUME MaxDataAssumption    == MaxData \in Nat \ {0}
ASSUME NoneAssumption       == None \notin Clients
ASSUME ScriptAssumption     == \A c \in Clients : Script[c] \in Seq(Range(Script[c]))

VARIABLES
  m_clients,           \* slot -> client or None
  clientData,          \* slot -> the text of its line buffer
  clientEvent,         \* slot -> its auto-reset event
  serverEvent,         \* auto-reset event of the listening socket
  m_serverThreadEvent, \* auto-reset event that ends the thread
  stopping,            \* how far stopServer is: "no", "asked", "closing", "stopped"
  pc, slot,            \* where the server thread is, and the slot it fills
  backlog,             \* connections not yet accepted
  acceptRec,           \* FD_ACCEPT is recorded
  conn,                \* client -> state of its connection
  sent,                \* client -> tokens of its script it has sent
  gone,                \* client -> it has closed its end
  inbox,               \* client -> tokens received and not yet read
  watched,             \* client -> WSAEventSelect was called for its socket
  readRec, closeRec,   \* client -> FD_READ, FD_CLOSE is recorded
  replies              \* client -> the replies it was sent

netVars    == <<sent, gone>>
threadVars == <<m_clients, clientData, pc, slot, m_serverThreadEvent, replies, stopping>>
vars       == <<threadVars, clientEvent, serverEvent, backlog, acceptRec, conn,
                netVars, inbox, watched, readRec, closeRec>>

Slots == 0 .. MaxClients - 1

Open(c) == conn[c] = "open"

Tokens == UNION {Range(Script[c]) : c \in Clients}

TypeOK ==
  /\ m_clients \in [Slots -> Clients \cup {None}]
  /\ clientData \in [Slots -> Seq(Tokens)]
  /\ \A i \in Slots : Len(clientData[i]) < MaxData
  /\ clientEvent \in [Slots -> BOOLEAN] /\ serverEvent \in BOOLEAN
  /\ m_serverThreadEvent \in BOOLEAN
  /\ pc \in {"wait", "accept", "select", "reset", "ended"}
  /\ stopping \in {"no", "asked", "closing", "stopped"}
  /\ slot \in Slots
  /\ pc \in {"select", "reset"} /\ stopping \in {"no", "asked"} => m_clients[slot] # None
  /\ backlog \in Seq(Clients) /\ acceptRec \in BOOLEAN
  /\ conn \in [Clients -> {"idle", "queued", "open", "refused", "aborted", "closed"}]
  /\ sent \in [Clients -> Nat] /\ \A c \in Clients : sent[c] <= Len(Script[c])
  /\ inbox \in [Clients -> Seq(Tokens)]
  /\ gone \in [Clients -> BOOLEAN] /\ watched \in [Clients -> BOOLEAN]
  /\ readRec \in [Clients -> BOOLEAN] /\ closeRec \in [Clients -> BOOLEAN]
  /\ \A c \in Clients : inbox[c] # <<>> => sent[c] > 0

\* startServer has bound the socket and ThreadProc has selected FD_ACCEPT.
Init ==
  /\ m_clients = [i \in Slots |-> None]
  /\ clientData = [i \in Slots |-> <<>>]
  /\ clientEvent = [i \in Slots |-> FALSE] /\ serverEvent = FALSE
  /\ m_serverThreadEvent = FALSE /\ stopping = "no"
  /\ pc = "wait" /\ slot = 0
  /\ backlog = <<>> /\ acceptRec = FALSE
  /\ conn = [c \in Clients |-> "idle"]
  /\ sent = [c \in Clients |-> 0]
  /\ inbox = [c \in Clients |-> <<>>]
  /\ gone = [c \in Clients |-> FALSE] /\ watched = [c \in Clients |-> FALSE]
  /\ readRec = [c \in Clients |-> FALSE] /\ closeRec = [c \in Clients |-> FALSE]
  /\ replies = [c \in Clients |-> <<>>]

SlotOf(c) == CHOOSE i \in Slots : m_clients[i] = c

-----------------------------------------------------------------------------
(* The clients and Winsock.                                                *)

Connect(c) ==
  /\ conn[c] = "idle" /\ stopping # "stopped"
  /\ conn' = [conn EXCEPT ![c] = "queued"]
  /\ backlog' = Append(backlog, c)
  /\ UNCHANGED <<threadVars, clientEvent, serverEvent, acceptRec, netVars, inbox,
                 watched, readRec, closeRec>>

\* A connection reset before it was accepted leaves the queue.
Abort(c) ==
  /\ conn[c] = "queued" /\ c \in Leavers
  /\ conn' = [conn EXCEPT ![c] = "aborted"]
  /\ \E k \in DOMAIN backlog : backlog[k] = c /\ backlog' = RemoveAt(backlog, k)
  /\ UNCHANGED <<threadVars, clientEvent, serverEvent, acceptRec, netVars, inbox,
                 watched, readRec, closeRec>>

\* The thread has finished with the accept of c.
Settled(c) == Open(c) /\ watched[c] /\ ~(pc = "reset" /\ m_clients[slot] = c)

Send(c) ==
  /\ Settled(c) \/ (c \in Eager /\ conn[c] \in {"queued", "open"})
  /\ ~gone[c]
  /\ \E n \in sent[c] + 1 .. Len(Script[c]) :
       /\ sent' = [sent EXCEPT ![c] = n]
       /\ inbox' = [inbox EXCEPT ![c] = @ \o SubSeq(Script[c], sent[c] + 1, n)]
  /\ UNCHANGED <<threadVars, clientEvent, serverEvent, backlog, acceptRec, conn, gone,
                 watched, readRec, closeRec>>

Leave(c) ==
  /\ c \in Leavers /\ conn[c] \in {"queued", "open"} /\ ~gone[c]
  /\ gone' = [gone EXCEPT ![c] = TRUE]
  /\ UNCHANGED <<threadVars, clientEvent, serverEvent, backlog, acceptRec, conn, sent,
                 inbox, watched, readRec, closeRec>>

\* Winsock records a network event and sets the selected event object.
Signal(c) ==
  /\ Open(c) /\ watched[c]
  /\ \/ /\ inbox[c] # <<>> /\ ~readRec[c]
        /\ readRec' = [readRec EXCEPT ![c] = TRUE]
        /\ UNCHANGED closeRec
     \/ /\ inbox[c] = <<>> /\ gone[c] /\ ~closeRec[c]
        /\ closeRec' = [closeRec EXCEPT ![c] = TRUE]
        /\ UNCHANGED readRec
  /\ clientEvent' = [clientEvent EXCEPT ![SlotOf(c)] = TRUE]
  /\ UNCHANGED <<threadVars, serverEvent, backlog, acceptRec, conn, netVars, inbox, watched>>

SignalAccept ==
  /\ backlog # <<>> /\ ~acceptRec
  /\ acceptRec' = TRUE /\ serverEvent' = TRUE
  /\ UNCHANGED <<threadVars, clientEvent, backlog, conn, netVars, inbox, watched,
                 readRec, closeRec>>

Network == SignalAccept \/ \E c \in Clients :
             Connect(c) \/ Abort(c) \/ Send(c) \/ Leave(c) \/ Signal(c)
-----------------------------------------------------------------------------
(* The server thread: Cserver::ThreadProc.                                 *)

\* WaitForMultipleObjects takes the first signalled event of
\* exit event, serverEvent, events of the open slots.
WaitExit ==
  /\ pc = "wait" /\ m_serverThreadEvent
  /\ m_serverThreadEvent' = FALSE
  /\ pc' = "ended"
  /\ UNCHANGED <<stopping, m_clients, clientData, slot, replies, clientEvent, serverEvent, backlog,
                 acceptRec, conn, netVars, inbox, watched, readRec, closeRec>>

WaitAccept ==
  /\ pc = "wait" /\ ~m_serverThreadEvent /\ serverEvent
  /\ serverEvent' = FALSE
  /\ pc' = "accept"
  /\ UNCHANGED <<stopping, m_clients, clientData, slot, m_serverThreadEvent, replies, clientEvent,
                 backlog, acceptRec, conn, netVars, inbox, watched, readRec, closeRec>>

Full == \A i \in Slots : m_clients[i] # None

AcceptFullSkips ==
  /\ pc = "accept" /\ Full
  /\ pc' = "wait"
  /\ UNCHANGED <<stopping, m_clients, clientData, slot, m_serverThreadEvent, replies, clientEvent,
                 serverEvent, acceptRec, backlog, conn, netVars, inbox, watched, readRec,
                 closeRec>>

\* accept() makes Winsock watch for FD_ACCEPT again.
AcceptFull ==
  /\ pc = "accept" /\ Full
  /\ pc' = "wait"
  /\ acceptRec' = FALSE
  /\ IF backlog = <<>> THEN UNCHANGED <<backlog, conn>>
     ELSE /\ conn' = [conn EXCEPT ![Head(backlog)] = "refused"]
          /\ backlog' = Tail(backlog)
  /\ UNCHANGED <<stopping, m_clients, clientData, slot, m_serverThreadEvent, replies, clientEvent,
                 serverEvent, netVars, inbox, watched, readRec, closeRec>>

AcceptClient ==
  /\ pc = "accept" /\ ~Full
  /\ acceptRec' = FALSE
  /\ IF backlog = <<>>
     THEN pc' = "wait" /\ UNCHANGED <<m_clients, slot, backlog, conn>>
     ELSE \E i \in Slots :
              /\ m_clients[i] = None /\ \A j \in Slots : j < i => m_clients[j] # None
              /\ m_clients' = [m_clients EXCEPT ![i] = Head(backlog)]
              /\ conn' = [conn EXCEPT ![Head(backlog)] = "open"]
              /\ backlog' = Tail(backlog)
              /\ slot' = i
              /\ pc' = "select"
  /\ UNCHANGED <<stopping, clientData, m_serverThreadEvent, replies, clientEvent, serverEvent,
                 netVars, inbox, watched, readRec, closeRec>>

\* stopServer may have emptied the slot meanwhile.
SelectEvents ==
  /\ pc = "select"
  /\ watched' = [c \in Clients |-> watched[c] \/ c = m_clients[slot]]
  /\ pc' = "reset"
  /\ UNCHANGED <<stopping, m_clients, clientData, slot, m_serverThreadEvent, replies, clientEvent,
                 serverEvent, backlog, acceptRec, conn, netVars, inbox, readRec, closeRec>>

ResetSlotKeepsData ==
  /\ pc = "reset"
  /\ clientEvent' = [clientEvent EXCEPT ![slot] = FALSE]
  /\ pc' = "wait"
  /\ UNCHANGED <<stopping, m_clients, clientData, slot, m_serverThreadEvent, replies, serverEvent,
                 backlog, acceptRec, conn, netVars, inbox, watched, readRec, closeRec>>

\* clientEvent[i].ResetEvent() comes after WSAEventSelect.
ResetSlot ==
  /\ pc = "reset"
  /\ clientEvent' = [clientEvent EXCEPT ![slot] = FALSE]
  /\ clientData' = [clientData EXCEPT ![slot] = <<>>]
  /\ pc' = "wait"
  /\ UNCHANGED <<stopping, m_clients, slot, m_serverThreadEvent, replies, serverEvent, backlog,
                 acceptRec, conn, netVars, inbox, watched, readRec, closeRec>>

\* The words of a line.  Tokens that touch make a word nobody knows.
Words(line) ==
  FlattenSeq([k \in DOMAIN Groups(line) |->
                IF Len(Groups(line)[k]) = 1 THEN Text[Groups(line)[k][1]] ELSE <<"unknown">>])

\* A reply echoes the line.
Reply(line, driver) == [command |-> line, success |-> Succeeds(Words(line), driver)]

CloseSlotKeepsHandle(i) ==
  /\ conn' = [conn EXCEPT ![m_clients[i]] = "closed"]
  /\ inbox' = [inbox EXCEPT ![m_clients[i]] = <<>>]
  /\ UNCHANGED <<m_clients, clientData, readRec, replies>>

CloseSlot(i) ==
  /\ m_clients' = [m_clients EXCEPT ![i] = None]
  /\ conn' = [conn EXCEPT ![m_clients[i]] = "closed"]
  /\ inbox' = [inbox EXCEPT ![m_clients[i]] = <<>>]
  /\ UNCHANGED <<clientData, readRec, replies>>

RoomWithoutNul(i) == MaxData - Len(clientData[i])

\* One place stays free for the terminating 0.
Room(i) == MaxData - Len(clientData[i]) - 1

\* recv and the loop over the lines.  recv returns 0 for a full line buffer or a
\* connection that ended, and fails when there is nothing to read: all close.  The
\* plug-in is asked anew for each line.  If stopServer closes the socket meanwhile, the
\* rest of the replies is not sent (server.cpp:170).
Receive(i) ==
  LET c == m_clients[i] IN
  \E n \in {Min({Room(i), Len(inbox[c])})} :
    IF n = 0 THEN CloseSlot(i)
    ELSE \E text \in {clientData[i] \o SubSeq(inbox[c], 1, n)} :
           /\ inbox' = [inbox EXCEPT ![c] = SubSeq(@, n + 1, Len(@))]
           /\ readRec' = [readRec EXCEPT ![c] = FALSE]
           /\ clientData' = [clientData EXCEPT ![i] = Kept(text)]
           /\ \E lines \in {LinesRead(text)} : \E driver \in [DOMAIN lines -> BOOLEAN] :
                replies' = [replies EXCEPT ![c] =
                  @ \o [k \in DOMAIN lines |-> Reply(lines[k], driver[k])]]
           /\ UNCHANGED <<m_clients, conn>>

\* Mutant: the slot after it.
ServedSlotOneOff(i) == (1 + Cardinality({j \in Slots : j < i /\ m_clients[j] # None})) % MaxClients

\* events[] holds the client events of the open slots only, in slot order: the slot
\* that is served for the event of slot i has the number of the open ones below it.
ServedSlot(i) == Cardinality({j \in Slots : j < i /\ m_clients[j] # None})

\* The first signalled event of the open slots is taken and reset.
WaitClient ==
  /\ pc = "wait" /\ ~m_serverThreadEvent /\ ~serverEvent
  /\ \E i \in Slots :
       /\ m_clients[i] # None /\ clientEvent[i]
       /\ \A j \in Slots : j < i /\ m_clients[j] # None => ~clientEvent[j]
       /\ clientEvent' = [clientEvent EXCEPT ![i] = FALSE]
       /\ IF m_clients[ServedSlot(i)] = None
          THEN UNCHANGED <<m_clients, conn, inbox, clientData, readRec, replies>>
          ELSE Receive(ServedSlot(i))
  /\ UNCHANGED <<stopping, pc, slot, m_serverThreadEvent, serverEvent, backlog, acceptRec,
                 netVars, watched, closeRec>>

ServerThread == WaitExit \/ WaitAccept \/ AcceptFull \/ AcceptClient \/ SelectEvents
                \/ ResetSlot \/ WaitClient
-----------------------------------------------------------------------------
(* stopServer, called by another thread.                                   *)

KillThread ==
  /\ stopping = "no"
  /\ stopping' = "asked" /\ m_serverThreadEvent' = TRUE
  /\ UNCHANGED <<m_clients, clientData, pc, slot, replies, clientEvent, serverEvent,
                 backlog, acceptRec, conn, netVars, inbox, watched, readRec, closeRec>>

\* KillThread waits 250 ms for the end of the thread and then gives up (globals.cpp:73):
\* the thread may be anywhere when its sockets are closed.
CloseClients ==
  /\ stopping = "asked" /\ stopping' = "closing"
  /\ m_clients' = [i \in Slots |-> None]
  /\ conn' = [c \in Clients |-> IF Open(c) THEN "closed" ELSE conn[c]]
  /\ UNCHANGED <<clientData, pc, slot, m_serverThreadEvent, replies, clientEvent,
                 serverEvent, backlog, acceptRec, netVars, inbox, watched, readRec, closeRec>>

\* A thread that was not waited for may have accepted one more client before.
CloseServer ==
  /\ stopping = "closing" /\ stopping' = "stopped"
  /\ conn' = [c \in Clients |-> IF conn[c] = "queued" THEN "aborted" ELSE conn[c]]
  /\ backlog' = <<>>
  /\ UNCHANGED <<m_clients, clientData, pc, slot, m_serverThreadEvent, replies, clientEvent,
                 serverEvent, acceptRec, netVars, inbox, watched, readRec, closeRec>>

Next == Network \/ ServerThread \/ KillThread \/ CloseClients \/ CloseServer

\* What happens without the clients: Winsock delivers, the thread runs, stopServer goes on.
Work == SignalAccept \/ (\E c \in Clients : Signal(c)) \/ CloseClients \/ CloseServer
        \/ ServerThread

\* Every client sends a finite script once, so that no part of Work can go on for ever
\* and keep another from its turn: fairness of the whole is that of each part.
Fairness == WF_vars(Work)

Spec == Init /\ [][Next]_vars /\ Fairness
-----------------------------------------------------------------------------
(* What must hold.                                                         *)

\* Each open connection has exactly one slot and a slot holds only an open one.
SlotsMatchConnections ==
  /\ \A c \in Clients : Open(c) <=> \E i \in Slots : m_clients[i] = c
  /\ \A i, j \in Slots : m_clients[i] = m_clients[j] /\ m_clients[i] # None => i = j

SentLines(c) ==
  LET t == SubSeq(Script[c], 1, sent[c])
  IN  LinesAt(t, Newlines(t) \ BlankLines(t))

\* A client's replies answer its own complete lines, in order and each at most
\* once, whoever used its slot before and however its bytes were cut; and only what
\* asks for something that exists succeeds (winlirc-readme.txt:36, "Fixed invalid
\* commands reporting success") - but for LIST of an unknown code, where the code
\* still reports success.
RepliesMatch(c) ==
  /\ IsPrefix([k \in DOMAIN replies[c] |-> replies[c][k].command], SentLines(c))
  /\ \A k \in DOMAIN replies[c] : replies[c][k].success =>
       \E words \in {Words(replies[c][k].command)} : Valid(words) \/ ListsUnknownCode(words)

RepliesMatchLines == \A c \in Clients : RepliesMatch(c)

\* Every connection attempt is dealt with, also after the server was full once
\* (winlirc-readme.txt:37, "Fixed the server breaking if the max number of
\* clients connected"): again and again nobody waits in the queue.
ConnectionsHandled == []<>(\A c \in Clients : conn[c] # "queued")

\* c has sent as many tokens without a newline as the line buffer can hold.
LineTooLong(c) ==
  \E i \in 0 .. sent[c] - (MaxData - 1) :
    \A k \in i + 1 .. i + MaxData - 1 : Script[c][k] # NL

\* server.cpp:257, "either we got data or the connection closed": the server
\* closes only a connection whose client left or sent a line without end.
HealthyClientsStay ==
  [][\A c \in Clients : Open(c) /\ conn'[c] = "closed" =>
       gone[c] \/ LineTooLong(c) \/ stopping' # stopping]_vars

\* No slot below an open one is free: events[] and the slots agree.
NoGap == \A i, j \in Slots : i < j /\ m_clients[j] # None => m_clients[i] # None

\* Position p of a script is where a line begins, or 0.
LineStart(c, p) == p = 0 \/ Script[c][p] = NL

\* c has sent a line of blanks.  What is left in its line buffer then is not the
\* line it is sending.
SentBlankLine(c) ==
  \E p \in 1 .. sent[c] : Script[c][p] = NL /\ \E q \in 0 .. p - 1 :
    LineStart(c, q) /\ \A j \in q + 1 .. p - 1 : Script[c][j] = SP

\* The same as long as there is no gap and c sends no blank line, whatever the other
\* clients do.
ClosedForAReason ==
  [][\A c \in Clients : Open(c) /\ conn'[c] = "closed" =>
       gone[c] \/ LineTooLong(c) \/ SentBlankLine(c) \/ stopping' # stopping \/ ~NoGap]_vars

\* The newlines of a script that end a line which is not blank.
LineEnds == [c \in Clients |-> Newlines(Script[c]) \ BlankLines(Script[c])]

AllAnswered ==
  \A c \in Clients \ Eager : Open(c) =>
    Len(replies[c]) >= Cardinality({p \in LineEnds[c] : p <= sent[c]})

\* Again and again all complete lines are answered, of all clients that are connected
\* and waited for the accept, unless the server stops or a gap among the slots diverts
\* events.
LinesAnswered == []NoGap => []<>(AllAnswered \/ stopping = "stopped")
=============================================================================
