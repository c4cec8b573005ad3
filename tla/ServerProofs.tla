---------------------------- MODULE ServerProofs ----------------------------
(***************************************************************************)
(* Proofs about Server, for any number of slots and clients, any line      *)
(* buffer and any scripts: types, with the bound of the line buffers; that *)
(* slots and open connections are the same at any moment; that the server  *)
(* closes a connection only for a reason; that the replies to a client     *)
(* answer its lines, in order, and succeed only where they may.            *)
(***************************************************************************)
EXTENDS Server, FiniteSetTheorems, SequenceTheorems, NaturalsInduction, TLAPS

-----------------------------------------------------------------------------
(* Least and greatest members.                                             *)

LEMMA LeastOfNaturals ==
  \A S \in SUBSET Nat : S # {} => Min(S) \in S /\ \A y \in S : Min(S) <= y
<1> SUFFICES ASSUME NEW S \in SUBSET Nat, S # {}
             PROVE  Min(S) \in S /\ \A y \in S : Min(S) <= y
  OBVIOUS
<1> DEFINE R == {ss \in Nat \X Nat : ss[1] < ss[2]}
<1>1. IsWellFoundedOn(R, Nat)
  BY NatLessThanWellFounded, Zenon DEF OpToRel
<1>2. PICK x \in S : \A y \in S : ~(<<y, x>> \in R)
  <2> HIDE DEF R
  <2>. QED
    BY <1>1, WFMin
<1>3. \A y \in S : x <= y
  <2> TAKE y \in S
  <2>1. x \in Nat /\ y \in Nat /\ ~(<<y, x>> \in R)
    BY <1>2
  <2>2. ~(y < x)
    BY <2>1
  <2>. QED
    BY <2>1, <2>2
<1>. QED
  BY <1>3 DEF Min

LEMMA GreatestOfBounded ==
  \A n \in Nat : \A S \in SUBSET (0 .. n) :
    S # {} => Max(S) \in S /\ \A y \in S : y <= Max(S)
<1> SUFFICES ASSUME NEW n \in Nat, NEW S \in SUBSET (0 .. n), S # {}
             PROVE  Max(S) \in S /\ \A y \in S : y <= Max(S)
  OBVIOUS
<1> DEFINE T == {n - y : y \in S}
<1>1. T \in SUBSET Nat /\ T # {}
  <2>1. \A y \in S : n - y \in Nat
    OBVIOUS
  <2>. QED
    BY <2>1
<1>2. Min(T) \in T /\ \A y \in T : Min(T) <= y
  BY <1>1, LeastOfNaturals
<1>3. PICK x \in S : Min(T) = n - x
  BY <1>2
<1>4. \A y \in S : y <= x
  <2> TAKE y \in S
  <2>1. n - x <= n - y
    BY <1>2, <1>3
  <2>. QED
    BY <2>1
<1>. QED
  BY <1>4 DEF Max
-----------------------------------------------------------------------------
(* The line buffer.                                                        *)

\* What stays in a line buffer is a part of the text.
LEMMA KeptIsShorter ==
  \A S : \A t \in Seq(S) : Kept(t) \in Seq(S) /\ Len(Kept(t)) <= Len(t)
<1> SUFFICES ASSUME NEW S, NEW t \in Seq(S)
             PROVE  Kept(t) \in Seq(S) /\ Len(Kept(t)) <= Len(t)
  OBVIOUS
<1> DEFINE n == Len(t)
<1>0. n \in Nat /\ DOMAIN t = 1 .. n
  OBVIOUS
<1>1. Newlines(t) \subseteq 1 .. n
  BY <1>0 DEF Newlines
<1>2. ASSUME NEW a \in 1 .. n + 1, NEW b \in 0 .. n
      PROVE  SubSeq(t, a, b) \in Seq(S) /\ Len(SubSeq(t, a, b)) <= n
  <2>1. \A k \in a .. b : t[k] \in S
    BY <1>0, ElementOfSeq
  <2>. QED
    BY <2>1, <1>0, SubSeqProperties
<1>3. CASE BlankLines(t) = {}
  <2>1. Max(Newlines(t) \cup {0}) \in 0 .. n
    <3>1. Newlines(t) \cup {0} \in SUBSET (0 .. n) /\ Newlines(t) \cup {0} # {}
      BY <1>0, <1>1
    <3>. QED
      BY <3>1, <1>0, GreatestOfBounded
  <2>2. Kept(t) = SubSeq(t, Max(Newlines(t) \cup {0}) + 1, n)
    BY <1>3 DEF Kept
  <2>3. Max(Newlines(t) \cup {0}) + 1 \in 1 .. n + 1 /\ n \in 0 .. n
    BY <2>1, <1>0
  <2>. QED
    BY <2>2, <2>3, <1>2
<1>4. CASE BlankLines(t) # {}
  <2> DEFINE p == Min(Newlines(t))
             before == {q \in Newlines(t) : q < p} \cup {0}
  <2>1. p \in 1 .. n
    <3>1. Newlines(t) # {} /\ Newlines(t) \in SUBSET Nat
      BY <1>0, <1>1, <1>4 DEF BlankLines
    <3>. QED
      BY <3>1, <1>1, LeastOfNaturals
  <2>2. Max(before) \in 0 .. n
    <3>1. before \in SUBSET (0 .. n) /\ before # {}
      BY <1>0, <1>1
    <3>. QED
      BY <3>1, <1>0, GreatestOfBounded
  <2>3. Kept(t) = SubSeq(t, Max(before) + 1, p - 1)
    BY <1>4 DEF Kept, LineAt
  <2>4. Max(before) + 1 \in 1 .. n + 1 /\ p - 1 \in 0 .. n
    BY <2>1, <2>2, <1>0
  <2>. QED
    BY <2>3, <2>4, <1>2
<1>. QED
  BY <1>3, <1>4
-----------------------------------------------------------------------------
(* The backlog.                                                            *)

LEMMA EntryRemoved ==
  ASSUME NEW S, NEW s \in Seq(S), NEW k \in DOMAIN s
  PROVE  /\ RemoveAt(s, k) \in Seq(S)
         /\ Len(RemoveAt(s, k)) = Len(s) - 1
         /\ \A j \in 1 .. Len(s) - 1 : RemoveAt(s, k)[j] = s[IF j < k THEN j ELSE j + 1]
<1> DEFINE n == Len(s)
           a == SubSeq(s, 1, k - 1)
           b == SubSeq(s, k + 1, n)
<1>1. n \in Nat /\ k \in 1 .. n /\ DOMAIN s = 1 .. n
  OBVIOUS
<1>2. a \in Seq(S) /\ Len(a) = k - 1 /\ \A j \in 1 .. k - 1 : a[j] = s[j]
  <2>1. \A j \in 1 .. k - 1 : s[j] \in S
    BY <1>1, ElementOfSeq
  <2>2. a \in Seq(S) /\ Len(a) = (IF 1 <= k - 1 THEN k - 1 - 1 + 1 ELSE 0)
        /\ \A j \in 1 .. k - 1 - 1 + 1 : a[j] = s[1 + j - 1]
    BY <2>1, <1>1, SubSeqProperties
  <2>. QED
    BY <2>2, <1>1
<1>3. b \in Seq(S) /\ Len(b) = n - k /\ \A j \in 1 .. n - k : b[j] = s[k + j]
  <2>1. \A j \in k + 1 .. n : s[j] \in S
    BY <1>1, ElementOfSeq
  <2>2. b \in Seq(S) /\ Len(b) = (IF k + 1 <= n THEN n - (k + 1) + 1 ELSE 0)
        /\ \A j \in 1 .. n - (k + 1) + 1 : b[j] = s[k + 1 + j - 1]
    BY <2>1, <1>1, SubSeqProperties
  <2> HIDE DEF b, n
  <2>3. k \in Int /\ n \in Int /\ n - (k + 1) + 1 = n - k /\ (~(k + 1 <= n) => n - k = 0)
    BY <1>1
  <2>4. ASSUME NEW j \in 1 .. n - k PROVE b[j] = s[k + j]
    <3>1. b[j] = s[k + 1 + j - 1]
      BY <2>2, <2>3
    <3>2. k + 1 + j - 1 = k + j
      BY <2>3
    <3>. QED
      BY <3>1, <3>2
  <2>5. Len(b) = n - k
    <3>1. Len(b) = IF k + 1 <= n THEN n - (k + 1) + 1 ELSE 0
      BY <2>2
    <3>. QED
      BY <3>1, <2>3
  <2>. QED
    BY <2>2, <2>4, <2>5
<1>4. RemoveAt(s, k) = a \o b
  BY DEF RemoveAt
<1> HIDE DEF a, b
<1>5. /\ a \o b \in Seq(S) /\ Len(a \o b) = n - 1
      /\ \A j \in 1 .. n - 1 : (a \o b)[j] = IF j <= k - 1 THEN a[j] ELSE b[j - (k - 1)]
  <2>1. /\ a \o b \in Seq(S) /\ Len(a \o b) = Len(a) + Len(b)
        /\ \A j \in 1 .. Len(a) + Len(b) :
              (a \o b)[j] = IF j <= Len(a) THEN a[j] ELSE b[j - Len(a)]
    BY <1>2, <1>3, ConcatProperties
  <2>2. Len(a) = k - 1 /\ Len(a) + Len(b) = n - 1
    BY <1>1, <1>2, <1>3
  <2>. QED
    BY <2>1, <2>2
<1>6. \A j \in 1 .. n - 1 : (a \o b)[j] = s[IF j < k THEN j ELSE j + 1]
  <2> TAKE j \in 1 .. n - 1
  <2>1. CASE j < k
    BY <2>1, <1>1, <1>2, <1>5
  <2>2. CASE ~(j < k)
    <3>1. j - (k - 1) \in 1 .. n - k /\ k + (j - (k - 1)) = j + 1 /\ ~(j <= k - 1)
      BY <2>2, <1>1
    <3>. QED
      BY <2>2, <3>1, <1>3, <1>5
  <2>. QED
    BY <2>1, <2>2
<1>. QED
  BY <1>4, <1>5, <1>6
-----------------------------------------------------------------------------
(* Types.                                                                  *)

\* events[] is not longer than the slots, so its index names a slot.
LEMMA ServedSlotIsSlot == \A i \in Slots : ServedSlot(i) \in Slots
<1> SUFFICES ASSUME NEW i \in Slots PROVE ServedSlot(i) \in Slots
  OBVIOUS
<1> DEFINE below == {j \in Slots : j < i /\ m_clients[j] # None}
<1>1. MaxClients \in Nat \ {0} /\ i \in Nat /\ i < MaxClients
  BY MaxClientsAssumption DEF Slots
<1>2. below \in SUBSET (0 .. i - 1)
  BY <1>1 DEF Slots
<1>3. IsFiniteSet(0 .. i - 1) /\ Cardinality(0 .. i - 1) = i
  <2>1. IsFiniteSet(0 .. i - 1)
        /\ Cardinality(0 .. i - 1) = (IF 0 > i - 1 THEN 0 ELSE i - 1 - 0 + 1)
    BY <1>1, FS_Interval
  <2>. QED
    BY <2>1, <1>1
<1>4. Cardinality(below) \in Nat /\ Cardinality(below) <= i
  BY <1>2, <1>3, FS_Subset, FS_CardinalityType
<1>. QED
  BY <1>1, <1>4 DEF ServedSlot, Slots

LEMMA TypesAtStart == Init => TypeOK
<1> SUFFICES ASSUME Init PROVE TypeOK
  OBVIOUS
<1>1. 0 \in Slots
  BY MaxClientsAssumption DEF Slots
<1>2. \A c \in Clients : Len(Script[c]) \in Nat
  BY ScriptAssumption, LenProperties
<1>3. \A i \in Slots : Len(clientData[i]) < MaxData
  BY MaxDataAssumption DEF Init
<1>5. /\ clientData \in [Slots -> Seq(Tokens)] /\ inbox \in [Clients -> Seq(Tokens)]
      /\ backlog \in Seq(Clients)
  BY DEF Init
<1>4. sent \in [Clients -> Nat] /\ \A c \in Clients : sent[c] <= Len(Script[c])
  BY <1>2 DEF Init
<1>. QED
  BY <1>1, <1>3, <1>4, <1>5 DEF Init, TypeOK

\* The steps of the clients and of Winsock.
LEMMA NetworkKeepsTypes == TypeOK /\ Network => TypeOK'
<1> SUFFICES ASSUME TypeOK, Network PROVE TypeOK'
  OBVIOUS
<1> USE DEF threadVars, netVars
<1>1. CASE SignalAccept
  BY <1>1 DEF TypeOK, SignalAccept
<1>2. ASSUME NEW c \in Clients, Connect(c) PROVE TypeOK'
  <2>1. backlog' \in Seq(Clients)
    BY <1>2 DEF TypeOK, Connect
  <2>. QED
    BY <1>2, <2>1 DEF TypeOK, Connect
<1>3. ASSUME NEW c \in Clients, Abort(c) PROVE TypeOK'
  <2>1. backlog' \in Seq(Clients)
    <3>1. PICK k \in DOMAIN backlog : backlog' = RemoveAt(backlog, k)
      BY <1>3 DEF Abort
    <3>. QED
      BY <3>1, EntryRemoved DEF TypeOK
  <2>. QED
    BY <1>3, <2>1 DEF TypeOK, Abort
<1>4. ASSUME NEW c \in Clients, Send(c) PROVE TypeOK'
  <2>1. PICK n \in sent[c] + 1 .. Len(Script[c]) :
          /\ sent' = [sent EXCEPT ![c] = n]
          /\ inbox' = [inbox EXCEPT ![c] = @ \o SubSeq(Script[c], sent[c] + 1, n)]
    BY <1>4 DEF Send
  <2>2. Len(Script[c]) \in Nat /\ sent[c] \in Nat /\ n \in Nat /\ n <= Len(Script[c]) /\ n > 0
    <3>1. Len(Script[c]) \in Nat
      BY ScriptAssumption, LenProperties
    <3>. QED
      BY <3>1 DEF TypeOK
  <2>3. SubSeq(Script[c], sent[c] + 1, n) \in Seq(Tokens)
    <3>1. \A k \in sent[c] + 1 .. n : Script[c][k] \in Tokens
      <4> TAKE k \in sent[c] + 1 .. n
      <4>1. k \in 1 .. Len(Script[c])
        BY <2>2
      <4>2. Script[c] \in Seq(Range(Script[c]))
        BY ScriptAssumption
      <4>3. Script[c][k] \in Range(Script[c])
        BY <4>1, <4>2, ElementOfSeq
      <4>. QED
        BY <4>3 DEF Tokens
    <3>. QED
      BY <3>1, <2>2, SubSeqProperties
  <2>4. inbox[c] \in Seq(Tokens)
    BY DEF TypeOK
  <2>5. inbox[c] \o SubSeq(Script[c], sent[c] + 1, n) \in Seq(Tokens)
    BY <2>3, <2>4, ConcatProperties
  <2>6. inbox' \in [Clients -> Seq(Tokens)]
    BY <2>1, <2>5 DEF TypeOK
  <2>7. sent' \in [Clients -> Nat] /\ \A d \in Clients : sent'[d] <= Len(Script[d])
    BY <2>1, <2>2 DEF TypeOK
  <2>8. \A d \in Clients : inbox'[d] # <<>> => sent'[d] > 0
    BY <2>1, <2>2 DEF TypeOK
  <2>. QED
    BY <1>4, <2>6, <2>7, <2>8 DEF TypeOK, Send
<1>5. ASSUME NEW c \in Clients, Leave(c) PROVE TypeOK'
  BY <1>5 DEF TypeOK, Leave
<1>6. ASSUME NEW c \in Clients, Signal(c) PROVE TypeOK'
  BY <1>6 DEF TypeOK, Signal
<1>. QED
  BY <1>1, <1>2, <1>3, <1>4, <1>5, <1>6 DEF Network

LEMMA SelectKeepsTypes == TypeOK /\ SelectEvents => TypeOK'
<1> SUFFICES ASSUME TypeOK, SelectEvents PROVE TypeOK'
  OBVIOUS
<1>1. watched' \in [Clients -> BOOLEAN]
  BY Zenon DEF SelectEvents
<1>. QED
  BY <1>1 DEF TypeOK, SelectEvents, netVars

\* recv and the loop over the lines.
LEMMA ReceiveTypes ==
  ASSUME TypeOK, NEW i \in Slots, m_clients[i] # None, Receive(i)
  PROVE  /\ m_clients' \in [Slots -> Clients \cup {None}]
         /\ clientData' \in [Slots -> Seq(Tokens)]
         /\ \A j \in Slots : Len(clientData'[j]) < MaxData
         /\ conn' \in [Clients -> {"idle", "queued", "open", "refused", "aborted", "closed"}]
         /\ inbox' \in [Clients -> Seq(Tokens)]
         /\ \A d \in Clients : inbox'[d] # <<>> => inbox[d] # <<>>
         /\ readRec' \in [Clients -> BOOLEAN]
<1> DEFINE c == m_clients[i]
           n == Min({Room(i), Len(inbox[c])})
           text == clientData[i] \o SubSeq(inbox[c], 1, n)
<1>1. c \in Clients
  BY DEF TypeOK
<1>2. IF n = 0 THEN CloseSlot(i)
      ELSE /\ inbox' = [inbox EXCEPT ![c] = SubSeq(@, n + 1, Len(@))]
           /\ readRec' = [readRec EXCEPT ![c] = FALSE]
           /\ clientData' = [clientData EXCEPT ![i] = Kept(text)]
           /\ UNCHANGED <<m_clients, conn>>
  BY DEF Receive
<1>T. text = clientData[i] \o SubSeq(inbox[c], 1, n)
  OBVIOUS
<1>N. n = Min({Room(i), Len(inbox[c])})
  OBVIOUS
<1> HIDE DEF n, text
<1>3. CASE n = 0
  <2>1. /\ m_clients' = [m_clients EXCEPT ![i] = None]
        /\ conn' = [conn EXCEPT ![c] = "closed"] /\ inbox' = [inbox EXCEPT ![c] = <<>>]
        /\ UNCHANGED <<clientData, readRec>>
    BY <1>2, <1>3 DEF CloseSlot
  <2> HIDE DEF c
  <2>2. inbox' \in [Clients -> Seq(Tokens)] /\ \A d \in Clients : inbox'[d] # <<>> => inbox[d] # <<>>
    BY <2>1, <1>1 DEF TypeOK
  <2>. QED
    BY <2>1, <2>2, <1>1 DEF TypeOK
<1>4. CASE n # 0
  <2>1. /\ inbox' = [inbox EXCEPT ![c] = SubSeq(@, n + 1, Len(@))]
        /\ readRec' = [readRec EXCEPT ![c] = FALSE]
        /\ clientData' = [clientData EXCEPT ![i] = Kept(text)]
        /\ UNCHANGED <<m_clients, conn>>
    BY <1>2, <1>4
  <2>2. /\ inbox[c] \in Seq(Tokens) /\ clientData[i] \in Seq(Tokens)
        /\ Len(clientData[i]) \in Nat /\ Len(inbox[c]) \in Nat /\ Len(clientData[i]) < MaxData
    BY <1>1, LenProperties DEF TypeOK
  <2>3. MaxData \in Nat /\ Room(i) \in Nat /\ Room(i) = MaxData - Len(clientData[i]) - 1
    BY <2>2, MaxDataAssumption DEF Room
  <2>4. n \in Nat /\ n <= Room(i) /\ n <= Len(inbox[c])
    <3>1. {Room(i), Len(inbox[c])} \in SUBSET Nat /\ {Room(i), Len(inbox[c])} # {}
      BY <2>2, <2>3
    <3>. QED
      BY <3>1, <1>N, LeastOfNaturals
  <2>5. \A k \in 1 .. Len(inbox[c]) : inbox[c][k] \in Tokens
    BY <2>2, ElementOfSeq
  <2>6. SubSeq(inbox[c], 1, n) \in Seq(Tokens) /\ Len(SubSeq(inbox[c], 1, n)) = n
    <3>1. /\ SubSeq(inbox[c], 1, n) \in Seq(Tokens)
          /\ Len(SubSeq(inbox[c], 1, n)) = IF 1 <= n THEN n - 1 + 1 ELSE 0
      BY <2>2, <2>4, <2>5, SubSeqProperties
    <3>. QED
      BY <3>1, <2>4
  <2>7. SubSeq(inbox[c], n + 1, Len(inbox[c])) \in Seq(Tokens)
    BY <2>2, <2>4, <2>5, SubSeqProperties
  <2>8. text \in Seq(Tokens) /\ Len(text) = Len(clientData[i]) + n
    BY <1>T, <2>2, <2>6, ConcatProperties
  <2>9. Kept(text) \in Seq(Tokens) /\ Len(Kept(text)) < MaxData
    <3>1. Kept(text) \in Seq(Tokens) /\ Len(Kept(text)) <= Len(text)
      BY <2>8, KeptIsShorter
    <3>2. Len(Kept(text)) \in Nat
      BY <3>1, LenProperties
    <3>3. Len(Kept(text)) <= Len(clientData[i]) + n /\ n <= MaxData - Len(clientData[i]) - 1
      BY <3>1, <2>3, <2>4, <2>8
    <3>4. \A k, l, m \in Nat : k <= l + m /\ m <= MaxData - l - 1 => k < MaxData
      BY <2>3
    <3>. QED
      BY <3>1, <3>2, <3>3, <3>4, <2>2, <2>4
  <2> HIDE DEF c
  <2>10. clientData' \in [Slots -> Seq(Tokens)] /\ \A j \in Slots : Len(clientData'[j]) < MaxData
    BY <2>1, <2>9 DEF TypeOK
  <2>11. inbox' \in [Clients -> Seq(Tokens)]
    BY <2>1, <2>7, <1>1 DEF TypeOK
  <2>12. \A d \in Clients : inbox'[d] # <<>> => inbox[d] # <<>>
    <3>1. inbox[c] # <<>>
      BY <2>2, <2>4, <1>4, EmptySeq
    <3>. QED
      BY <3>1, <2>1, <1>1 DEF TypeOK
  <2>. QED
    BY <2>1, <2>10, <2>11, <2>12, <1>1 DEF TypeOK
<1>. QED
  BY <1>3, <1>4

LEMMA WaitClientKeepsTypes == TypeOK /\ WaitClient => TypeOK'
<1> SUFFICES ASSUME TypeOK, WaitClient PROVE TypeOK'
  OBVIOUS
<1>1. PICK i \in Slots :
         /\ clientEvent' = [clientEvent EXCEPT ![i] = FALSE]
         /\ IF m_clients[ServedSlot(i)] = None
            THEN UNCHANGED <<m_clients, conn, inbox, clientData, readRec, replies>>
            ELSE Receive(ServedSlot(i))
  BY DEF WaitClient
<1>2. /\ m_clients' \in [Slots -> Clients \cup {None}]
      /\ clientData' \in [Slots -> Seq(Tokens)]
      /\ \A j \in Slots : Len(clientData'[j]) < MaxData
      /\ conn' \in [Clients -> {"idle", "queued", "open", "refused", "aborted", "closed"}]
      /\ inbox' \in [Clients -> Seq(Tokens)]
      /\ \A d \in Clients : inbox'[d] # <<>> => inbox[d] # <<>>
      /\ readRec' \in [Clients -> BOOLEAN]
  <2>1. CASE m_clients[ServedSlot(i)] = None
    BY <1>1, <2>1 DEF TypeOK
  <2>2. CASE m_clients[ServedSlot(i)] # None
    BY <1>1, <2>2, ServedSlotIsSlot, ReceiveTypes
  <2>. QED
    BY <2>1, <2>2
<1>. QED
  BY <1>1, <1>2 DEF WaitClient, TypeOK, netVars

LEMMA TypesKept == TypeOK /\ [Next]_vars => TypeOK'
<1> SUFFICES ASSUME TypeOK, [Next]_vars PROVE TypeOK'
  OBVIOUS
<1> USE DEF netVars
<1>1. CASE Network
  BY <1>1, NetworkKeepsTypes
<1>2. CASE WaitExit
  BY <1>2 DEF TypeOK, WaitExit
<1>3. CASE WaitAccept
  BY <1>3 DEF TypeOK, WaitAccept
<1>4. CASE AcceptFull
  <2>1. backlog # <<>> => Head(backlog) \in Clients /\ Tail(backlog) \in Seq(Clients)
    BY HeadTailProperties DEF TypeOK
  <2>2. backlog' \in Seq(Clients)
        /\ conn' \in [Clients -> {"idle", "queued", "open", "refused", "aborted", "closed"}]
    BY <1>4, <2>1 DEF TypeOK, AcceptFull
  <2>. QED
    BY <1>4, <2>2 DEF TypeOK, AcceptFull
<1>5. CASE AcceptClient
  <2>1. CASE backlog = <<>>
    BY <1>5, <2>1 DEF TypeOK, AcceptClient
  <2>2. CASE backlog # <<>>
    <3>1. Head(backlog) \in Clients /\ Tail(backlog) \in Seq(Clients)
      BY <2>2, HeadTailProperties DEF TypeOK
    <3>2. PICK i \in Slots :
              /\ m_clients' = [m_clients EXCEPT ![i] = Head(backlog)]
              /\ conn' = [conn EXCEPT ![Head(backlog)] = "open"]
              /\ backlog' = Tail(backlog)
              /\ slot' = i
              /\ pc' = "select"
      BY <1>5, <2>2 DEF AcceptClient
    <3>3. Head(backlog) # None
      BY <3>1, NoneAssumption
    <3>4. /\ m_clients' \in [Slots -> Clients \cup {None}] /\ m_clients'[slot'] # None
          /\ conn' \in [Clients -> {"idle", "queued", "open", "refused", "aborted", "closed"}]
      BY <3>1, <3>2, <3>3 DEF TypeOK
    <3>5. backlog' \in Seq(Clients)
      BY <3>1, <3>2
    <3>. QED
      BY <1>5, <3>2, <3>4, <3>5 DEF TypeOK, AcceptClient
  <2>. QED
    BY <2>1, <2>2
<1>6. CASE SelectEvents
  BY <1>6, SelectKeepsTypes
<1>7. CASE ResetSlot
  <2>1. clientData' \in [Slots -> Seq(Tokens)] /\ \A i \in Slots : Len(clientData'[i]) < MaxData
    BY <1>7, MaxDataAssumption DEF TypeOK, ResetSlot
  <2>. QED
    BY <1>7, <2>1 DEF TypeOK, ResetSlot
<1>8. CASE WaitClient
  BY <1>8, WaitClientKeepsTypes
<1>9. CASE KillThread
  BY <1>9 DEF TypeOK, KillThread
<1>10. CASE CloseClients
  <2>1. /\ m_clients' \in [Slots -> Clients \cup {None}]
        /\ conn' \in [Clients -> {"idle", "queued", "open", "refused", "aborted", "closed"}]
    BY <1>10 DEF TypeOK, CloseClients
  <2>. QED
    BY <1>10, <2>1 DEF TypeOK, CloseClients
<1>12. CASE CloseServer
  <2>1. /\ backlog' \in Seq(Clients)
        /\ conn' \in [Clients -> {"idle", "queued", "open", "refused", "aborted", "closed"}]
    BY <1>12 DEF TypeOK, CloseServer
  <2>. QED
    BY <1>12, <2>1 DEF TypeOK, CloseServer
<1>11. CASE UNCHANGED vars
  BY <1>11 DEF TypeOK, vars, threadVars
<1>. QED
  BY <1>1, <1>2, <1>3, <1>4, <1>5, <1>6, <1>7, <1>8, <1>9, <1>10, <1>11, <1>12
  DEF Next, ServerThread

\* Every variable has its type in every reachable state, and no line buffer takes
\* the place of its terminating 0 (ThreadProc, server.cpp:259-318).
THEOREM TypeCorrect == Spec => []TypeOK
<1>1. Init => TypeOK
  BY TypesAtStart
<1>2. TypeOK /\ [Next]_vars => TypeOK'
  BY TypesKept
<1>. QED
  BY <1>1, <1>2, PTL DEF Spec
-----------------------------------------------------------------------------
(* Slots and connections.                                                  *)

\* The backlog holds queued connections, each once.
BacklogQueued ==
  /\ \A k \in DOMAIN backlog : conn[backlog[k]] = "queued"
  /\ \A k, l \in DOMAIN backlog : backlog[k] = backlog[l] => k = l

\* The thread that was told to end has not overlooked it.
StopSeen == stopping = "no" \/ pc = "ended" \/ m_serverThreadEvent

SlotInv == TypeOK /\ BacklogQueued /\ SlotsMatchConnections /\ StopSeen

LEMMA SlotsAtStart == Init => SlotInv
<1> SUFFICES ASSUME Init PROVE SlotInv
  OBVIOUS
<1>1. \A c \in Clients : c # None
  BY NoneAssumption
<1>. QED
  BY <1>1, TypesAtStart DEF Init, SlotInv, StopSeen, BacklogQueued, SlotsMatchConnections, Open

\* A slot that is closed: its connection is closed, and was in no other slot.
LEMMA CloseKeepsSlots ==
  ASSUME SlotInv, NEW i \in Slots, m_clients[i] # None,
         m_clients' = [m_clients EXCEPT ![i] = None],
         conn' = [conn EXCEPT ![m_clients[i]] = "closed"], UNCHANGED backlog
  PROVE  BacklogQueued' /\ SlotsMatchConnections'
<1>1. m_clients[i] \in Clients /\ conn[m_clients[i]] = "open"
  BY DEF SlotInv, TypeOK, SlotsMatchConnections, Open
<1>2. SlotsMatchConnections'
  BY <1>1, NoneAssumption DEF SlotInv, TypeOK, SlotsMatchConnections, Open
<1>3. BacklogQueued'
  <2>1. \A k \in DOMAIN backlog : backlog[k] \in Clients /\ conn[backlog[k]] = "queued"
    BY DEF SlotInv, TypeOK, BacklogQueued
  <2>. QED
    BY <1>1, <2>1 DEF SlotInv, TypeOK, BacklogQueued
<1>. QED
  BY <1>2, <1>3

\* The connection at the head of the backlog leaves it.
LEMMA HeadLeaves ==
  ASSUME SlotInv, backlog # <<>>, backlog' = Tail(backlog),
         NEW s, s # "queued", conn' = [conn EXCEPT ![Head(backlog)] = s]
  PROVE  /\ Head(backlog) \in Clients /\ conn[Head(backlog)] = "queued"
         /\ BacklogQueued'
<1>1. backlog \in Seq(Clients) /\ Head(backlog) = backlog[1] /\ 1 \in DOMAIN backlog
  BY DEF SlotInv, TypeOK
<1>2. Head(backlog) \in Clients /\ conn[Head(backlog)] = "queued"
  BY <1>1, HeadTailProperties DEF SlotInv, BacklogQueued
<1>3. /\ Len(backlog') = Len(backlog) - 1 /\ DOMAIN backlog' = 1 .. Len(backlog')
      /\ \A k \in DOMAIN backlog' : k + 1 \in DOMAIN backlog /\ backlog'[k] = backlog[k + 1]
  BY <1>1, HeadTailProperties, LenProperties
<1>4. \A k \in DOMAIN backlog' : backlog'[k] \in Clients /\ backlog'[k] # Head(backlog)
  <2> TAKE k \in DOMAIN backlog'
  <2>1. k + 1 # 1 /\ k + 1 \in DOMAIN backlog /\ backlog'[k] = backlog[k + 1]
    BY <1>3
  <2>. QED
    BY <2>1, <1>1 DEF SlotInv, BacklogQueued
<1>5. \A k \in DOMAIN backlog' : conn'[backlog'[k]] = "queued"
  BY <1>3, <1>4 DEF SlotInv, TypeOK, BacklogQueued
<1>6. \A k, l \in DOMAIN backlog' : backlog'[k] = backlog'[l] => k = l
  <2> TAKE k, l \in DOMAIN backlog'
  <2> HAVE backlog'[k] = backlog'[l]
  <2>1. k + 1 = l + 1
    BY <1>3 DEF SlotInv, BacklogQueued
  <2>. QED
    BY <2>1, <1>3
<1>. QED
  BY <1>2, <1>5, <1>6 DEF BacklogQueued

\* A step that touches neither slots nor backlog nor connections.
LEMMA NothingMoves ==
  SlotInv /\ UNCHANGED <<m_clients, conn, backlog>> => BacklogQueued' /\ SlotsMatchConnections'
  BY DEF SlotInv, BacklogQueued, SlotsMatchConnections, Open

LEMMA ConnectionsKept == SlotInv /\ [Next]_vars => BacklogQueued' /\ SlotsMatchConnections'
<1> SUFFICES ASSUME SlotInv, [Next]_vars PROVE BacklogQueued' /\ SlotsMatchConnections'
  OBVIOUS
<1> USE DEF netVars, threadVars
<1>1. ASSUME NEW c \in Clients, Connect(c) PROVE BacklogQueued' /\ SlotsMatchConnections'
  <2>1. backlog \in Seq(Clients) /\ conn[c] = "idle" /\ backlog' = Append(backlog, c)
        /\ conn' = [conn EXCEPT ![c] = "queued"] /\ m_clients' = m_clients
    BY <1>1 DEF SlotInv, TypeOK, Connect
  <2>2. \A k \in DOMAIN backlog : backlog[k] \in Clients /\ backlog[k] # c
    BY <2>1 DEF SlotInv, BacklogQueued
  <2>3. DOMAIN backlog = 1 .. Len(backlog) /\ DOMAIN backlog' = 1 .. Len(backlog) + 1
        /\ \A k \in 1 .. Len(backlog) + 1 :
              backlog'[k] = IF k = Len(backlog) + 1 THEN c ELSE backlog[k]
    BY <2>1
  <2>4. \A k \in DOMAIN backlog' : conn'[backlog'[k]] = "queued"
    <3>1. DOMAIN conn = Clients /\ \A k \in DOMAIN backlog : conn[backlog[k]] = "queued"
      BY DEF SlotInv, TypeOK, BacklogQueued
    <3> QED
      BY <3>1, <2>1, <2>2, <2>3
  <2>5. \A k, l \in DOMAIN backlog' : backlog'[k] = backlog'[l] => k = l
    <3> TAKE k, l \in DOMAIN backlog'
    <3>1. Len(backlog) \in Nat
      BY <2>1
    <3>2. CASE k \in DOMAIN backlog /\ l \in DOMAIN backlog
      BY <3>1, <3>2, <2>3 DEF SlotInv, BacklogQueued
    <3>3. CASE k = Len(backlog) + 1 \/ l = Len(backlog) + 1
      BY <3>1, <3>3, <2>2, <2>3
    <3>. QED
      BY <3>1, <3>2, <3>3, <2>3
  <2>6. SlotsMatchConnections'
    BY <1>1, <2>1 DEF SlotInv, TypeOK, SlotsMatchConnections, Open
  <2>. QED
    BY <2>4, <2>5, <2>6 DEF BacklogQueued
<1>2. ASSUME NEW c \in Clients, Abort(c) PROVE BacklogQueued' /\ SlotsMatchConnections'
  <2>1. backlog \in Seq(Clients) /\ conn[c] = "queued"
        /\ conn' = [conn EXCEPT ![c] = "aborted"] /\ m_clients' = m_clients
    BY <1>2 DEF SlotInv, TypeOK, Abort
  <2>2. PICK k \in DOMAIN backlog : backlog[k] = c /\ backlog' = RemoveAt(backlog, k)
    BY <1>2 DEF Abort
  <2> DEFINE old(j) == IF j < k THEN j ELSE j + 1
  <2>3. Len(backlog) \in Nat /\ DOMAIN backlog = 1 .. Len(backlog) /\ k \in Nat
    BY <2>1
  <2>4. DOMAIN backlog' = 1 .. Len(backlog) - 1
        /\ \A j \in DOMAIN backlog' : backlog'[j] = backlog[old(j)]
    <3>1. /\ backlog' \in Seq(Clients) /\ Len(backlog') = Len(backlog) - 1
          /\ \A j \in 1 .. Len(backlog) - 1 : backlog'[j] = backlog[IF j < k THEN j ELSE j + 1]
      BY <2>1, <2>2, EntryRemoved
    <3>2. DOMAIN backlog' = 1 .. Len(backlog')
      BY <3>1, LenProperties
    <3>. QED
      BY <3>1, <3>2
  <2>5. \A j \in DOMAIN backlog' : old(j) \in DOMAIN backlog /\ old(j) # k
    BY <2>2, <2>3, <2>4
  <2>6. \A j, l \in DOMAIN backlog' : old(j) = old(l) => j = l
    BY <2>3, <2>4
  <2> HIDE DEF old
  <2>7. \A j \in DOMAIN backlog' : backlog'[j] \in Clients /\ backlog'[j] # c
    BY <2>1, <2>2, <2>4, <2>5 DEF SlotInv, BacklogQueued
  <2>8. \A j \in DOMAIN backlog' : conn'[backlog'[j]] = "queued"
    BY <2>1, <2>4, <2>5, <2>7 DEF SlotInv, TypeOK, BacklogQueued
  <2>9. \A j, l \in DOMAIN backlog' : backlog'[j] = backlog'[l] => j = l
    BY <2>4, <2>5, <2>6 DEF SlotInv, BacklogQueued
  <2>10. SlotsMatchConnections'
    BY <2>1 DEF SlotInv, TypeOK, SlotsMatchConnections, Open
  <2>. QED
    BY <2>8, <2>9, <2>10 DEF BacklogQueued
<1>3. ASSUME NEW c \in Clients, Send(c) \/ Leave(c) \/ Signal(c)
      PROVE  BacklogQueued' /\ SlotsMatchConnections'
  BY <1>3, NothingMoves DEF Send, Leave, Signal
<1>4. CASE SignalAccept \/ WaitExit \/ WaitAccept \/ SelectEvents \/ ResetSlot \/ KillThread
           \/ UNCHANGED vars
  BY <1>4, NothingMoves
  DEF SignalAccept, WaitExit, WaitAccept, SelectEvents, ResetSlot, KillThread, vars
<1>5. CASE AcceptFull
  <2>1. CASE backlog = <<>>
    BY <1>5, <2>1, NothingMoves DEF AcceptFull
  <2>2. CASE backlog # <<>>
    <3>1. conn' = [conn EXCEPT ![Head(backlog)] = "refused"] /\ backlog' = Tail(backlog)
          /\ m_clients' = m_clients
      BY <1>5, <2>2 DEF AcceptFull
    <3>2. /\ Head(backlog) \in Clients /\ conn[Head(backlog)] = "queued"
          /\ BacklogQueued'
      BY <2>2, <3>1, HeadLeaves
    <3>3. SlotsMatchConnections'
      BY <3>1, <3>2 DEF SlotInv, TypeOK, SlotsMatchConnections, Open
    <3>. QED
      BY <3>2, <3>3
  <2>. QED
    BY <2>1, <2>2
<1>6. CASE AcceptClient
  <2>1. CASE backlog = <<>>
    BY <1>6, <2>1, NothingMoves DEF AcceptClient
  <2>2. CASE backlog # <<>>
    <3>1. PICK i \in Slots :
              /\ m_clients[i] = None
              /\ m_clients' = [m_clients EXCEPT ![i] = Head(backlog)]
              /\ conn' = [conn EXCEPT ![Head(backlog)] = "open"]
              /\ backlog' = Tail(backlog)
      BY <1>6, <2>2 DEF AcceptClient
    <3>2. /\ Head(backlog) \in Clients /\ conn[Head(backlog)] = "queued"
          /\ BacklogQueued'
      BY <2>2, <3>1, HeadLeaves
    <3> DEFINE h == Head(backlog)
    <3> HIDE DEF h
    <3>3. \A j \in Slots : m_clients[j] # h
      BY <3>2 DEF SlotInv, SlotsMatchConnections, Open, h
    <3>4. m_clients' = [m_clients EXCEPT ![i] = h] /\ conn' = [conn EXCEPT ![h] = "open"]
          /\ h \in Clients /\ h # None
      BY <3>1, <3>2, NoneAssumption DEF h
    <3>5. \A c \in Clients : Open(c)' <=> \E j \in Slots : m_clients'[j] = c
      BY <3>1, <3>3, <3>4, NoneAssumption DEF SlotInv, TypeOK, SlotsMatchConnections, Open
    <3>6. \A j, k \in Slots : m_clients'[j] = m_clients'[k] /\ m_clients'[j] # None => j = k
      BY <3>1, <3>3, <3>4 DEF SlotInv, TypeOK, SlotsMatchConnections
    <3>. QED
      BY <3>2, <3>5, <3>6 DEF SlotsMatchConnections
  <2>. QED
    BY <2>1, <2>2
<1>7. CASE WaitClient
  <2>1. PICK i \in Slots :
           IF m_clients[ServedSlot(i)] = None
           THEN UNCHANGED <<m_clients, conn, inbox, clientData, readRec, replies>>
           ELSE Receive(ServedSlot(i))
    BY <1>7 DEF WaitClient
  <2>2. backlog' = backlog /\ ServedSlot(i) \in Slots
    BY <1>7, ServedSlotIsSlot DEF WaitClient
  <2>3. CASE m_clients[ServedSlot(i)] = None
    BY <2>1, <2>2, <2>3, NothingMoves
  <2>4. CASE m_clients[ServedSlot(i)] # None
    <3> DEFINE s == ServedSlot(i)
    <3>1. CloseSlot(s) \/ UNCHANGED <<m_clients, conn>>
      BY <2>1, <2>4 DEF Receive
    <3>2. CASE CloseSlot(s)
      BY <2>2, <2>4, <3>2, CloseKeepsSlots DEF CloseSlot
    <3>3. CASE UNCHANGED <<m_clients, conn>>
      BY <2>2, <3>3, NothingMoves
    <3>. QED
      BY <3>1, <3>2, <3>3
  <2>. QED
    BY <2>3, <2>4
<1>8. CASE CloseClients
  <2>1. m_clients' = [i \in Slots |-> None] /\ backlog' = backlog
        /\ conn' = [c \in Clients |-> IF Open(c) THEN "closed" ELSE conn[c]]
    BY <1>8 DEF CloseClients
  <2>2. SlotsMatchConnections'
    BY <2>1, NoneAssumption DEF SlotsMatchConnections, Open
  <2>3. \A k \in DOMAIN backlog : backlog[k] \in Clients /\ conn[backlog[k]] = "queued"
    BY DEF SlotInv, TypeOK, BacklogQueued
  <2>4. BacklogQueued'
    BY <2>1, <2>3 DEF SlotInv, BacklogQueued, Open
  <2>. QED
    BY <2>2, <2>4
<1>9. CASE CloseServer
  <2>1. m_clients' = m_clients /\ backlog' = <<>>
        /\ conn' = [c \in Clients |-> IF conn[c] = "queued" THEN "aborted" ELSE conn[c]]
    BY <1>9 DEF CloseServer
  <2>2. \A c \in Clients : Open(c)' <=> Open(c)
    BY <2>1 DEF Open
  <2>3. SlotsMatchConnections'
    BY <2>1, <2>2 DEF SlotInv, SlotsMatchConnections
  <2>. QED
    BY <2>1, <2>3 DEF BacklogQueued
<1>. QED
  BY <1>1, <1>2, <1>3, <1>4, <1>5, <1>6, <1>7, <1>8, <1>9 DEF Next, Network, ServerThread

LEMMA StopSeenKept == StopSeen /\ [Next]_vars => StopSeen'
<1> SUFFICES ASSUME StopSeen, [Next]_vars PROVE StopSeen'
  OBVIOUS
<1> USE DEF StopSeen, netVars, threadVars
<1>1. CASE Network
  BY <1>1 DEF Network, SignalAccept, Connect, Abort, Send, Leave, Signal
<1>2. CASE WaitExit \/ WaitAccept \/ AcceptFull \/ AcceptClient \/ SelectEvents \/ ResetSlot
  BY <1>2 DEF WaitExit, WaitAccept, AcceptFull, AcceptClient, SelectEvents, ResetSlot
<1>3. CASE WaitClient
  BY <1>3 DEF WaitClient
<1>4. CASE KillThread \/ CloseClients \/ CloseServer
  BY <1>4 DEF KillThread, CloseClients, CloseServer
<1>5. CASE UNCHANGED vars
  BY <1>5 DEF vars
<1> QED
  BY <1>1, <1>2, <1>3, <1>4, <1>5 DEF Next, ServerThread

LEMMA SlotInvKept == SlotInv /\ [Next]_vars => SlotInv'
  BY TypesKept, ConnectionsKept, StopSeenKept DEF SlotInv

\* At any moment the open connections and the occupied slots are the same, however
\* clients come, leave and are cut off (ThreadProc and stopServer, server.cpp:99-262).
THEOREM SlotsCorrect == Spec => []SlotsMatchConnections
<1>1. Init => SlotInv
  BY SlotsAtStart
<1>2. SlotInv /\ [Next]_vars => SlotInv'
  BY SlotInvKept
<1>3. SlotInv => SlotsMatchConnections
  BY DEF SlotInv
<1>. QED
  BY <1>1, <1>2, <1>3, PTL DEF Spec
-----------------------------------------------------------------------------
(* Lines of a script.                                                      *)

\* t is what script c holds from position k on, where a line begins.
TextFrom(t, c, k) ==
  k \in Nat /\ LineStart(c, k) /\ \A j \in DOMAIN t : t[j] = Script[c][k + j]

NoNewline(t) == \A j \in DOMAIN t : t[j] # NL

\* The last newline before p, or 0.
LastBefore(t, p) == Max({q \in Newlines(t) : q < p} \cup {0})

LEMMA LineBegins ==
  ASSUME NEW S, NEW t \in Seq(S), NEW p \in 1 .. Len(t) + 1
  PROVE  LET m == LastBefore(t, p)
         IN  /\ m \in 0 .. p - 1 /\ (m = 0 \/ t[m] = NL)
             /\ \A q \in Newlines(t) : q < p => q <= m
<1> DEFINE before == {q \in Newlines(t) : q < p} \cup {0}
<1>1. Len(t) \in Nat /\ DOMAIN t = 1 .. Len(t)
  OBVIOUS
<1>2. before \in SUBSET (0 .. Len(t)) /\ before # {}
  BY <1>1 DEF Newlines
<1>3. Max(before) \in before /\ \A y \in before : y <= Max(before)
  BY <1>1, <1>2, GreatestOfBounded
<1>4. LastBefore(t, p) = Max(before)
  BY DEF LastBefore
<1>5. \A q \in before : q \in 0 .. p - 1 /\ (q = 0 \/ t[q] = NL)
  BY <1>1, <1>2 DEF Newlines
<1> HIDE DEF before
<1>6. \A q \in Newlines(t) : q < p => q \in before
  BY DEF before
<1> QED
  BY <1>3, <1>4, <1>5, <1>6

\* The characters of the line that ends at p.
LEMMA LineHolds ==
  ASSUME NEW S, NEW t \in Seq(S), NEW p \in 1 .. Len(t) + 1
  PROVE  LET m == LastBefore(t, p)
         IN  /\ LineAt(t, p) \in Seq(S) /\ Len(LineAt(t, p)) = p - 1 - m
             /\ \A j \in 1 .. p - 1 - m : LineAt(t, p)[j] = t[m + j]
<1> DEFINE m == LastBefore(t, p)
<1>1. Len(t) \in Nat /\ DOMAIN t = 1 .. Len(t)
  OBVIOUS
<1>2. m \in 0 .. p - 1
  BY LineBegins
<1>3. LineAt(t, p) = SubSeq(t, m + 1, p - 1)
  BY DEF LineAt, LastBefore
<1> HIDE DEF m
<1>4. m \in Nat /\ p \in Nat /\ m + 1 \in 1 .. Len(t) + 1 /\ p - 1 \in 0 .. Len(t)
  BY <1>1, <1>2
<1>5. \A j \in m + 1 .. p - 1 : t[j] \in S
  BY <1>1, <1>4, ElementOfSeq
<1>6. /\ LineAt(t, p) \in Seq(S)
      /\ Len(LineAt(t, p)) = IF m + 1 <= p - 1 THEN (p - 1) - (m + 1) + 1 ELSE 0
      /\ \A j \in 1 .. (p - 1) - (m + 1) + 1 : LineAt(t, p)[j] = t[m + 1 + j - 1]
  BY <1>3, <1>4, <1>5, SubSeqProperties
<1>7. Len(LineAt(t, p)) = p - 1 - m
  BY <1>2, <1>4, <1>6
<1>8. ASSUME NEW j \in 1 .. p - 1 - m
      PROVE  LineAt(t, p)[j] = t[m + j]
  <2>1. j \in 1 .. (p - 1) - (m + 1) + 1 /\ m + 1 + j - 1 = m + j
    BY <1>4
  <2> QED
    BY <1>6, <2>1
<1> QED
  BY <1>6, <1>7, <1>8 DEF m

\* Where c's text has a blank line, c has sent one.
LEMMA BlankLineFound ==
  ASSUME NEW c \in Clients, NEW S, NEW t \in Seq(S), NEW k, TextFrom(t, c, k), BlankLines(t) # {},
         sent[c] \in Nat, k + Len(t) <= sent[c]
  PROVE  SentBlankLine(c)
<1>1. k \in Nat /\ Len(t) \in Nat /\ DOMAIN t = 1 .. Len(t)
  BY DEF TextFrom
<1>2. PICK p \in Newlines(t) : Blank(LineAt(t, p))
  BY DEF BlankLines
<1>3. p \in 1 .. Len(t) /\ p \in 1 .. Len(t) + 1 /\ t[p] = NL
  BY <1>1, <1>2 DEF Newlines
<1> DEFINE m == LastBefore(t, p)
<1>4. m \in 0 .. p - 1 /\ (m = 0 \/ t[m] = NL)
  BY <1>3, LineBegins
<1>5. /\ LineAt(t, p) \in Seq(S) /\ Len(LineAt(t, p)) = p - 1 - m
      /\ \A j \in 1 .. p - 1 - m : LineAt(t, p)[j] = t[m + j]
  BY <1>3, LineHolds
<1> HIDE DEF m
<1>6. \A j \in 1 .. p - 1 - m : t[m + j] = SP
  <2>1. DOMAIN LineAt(t, p) = 1 .. p - 1 - m
    BY <1>3, <1>4, <1>5
  <2> QED
    BY <1>2, <1>5, <2>1 DEF Blank
<1>7. k + p \in 1 .. sent[c] /\ Script[c][k + p] = NL
  BY <1>1, <1>3 DEF TextFrom
<1>8. k + m \in 0 .. (k + p) - 1 /\ LineStart(c, k + m)
  <2>1. CASE m = 0
    BY <1>1, <1>3, <2>1 DEF TextFrom
  <2>2. CASE m # 0
    <3>1. m \in DOMAIN t
      BY <1>1, <1>3, <1>4, <2>2
    <3> QED
      BY <1>1, <1>3, <1>4, <2>2, <3>1 DEF TextFrom, LineStart
  <2> QED
    BY <2>1, <2>2
<1>9. \A j \in (k + m) + 1 .. (k + p) - 1 : Script[c][j] = SP
  <2> TAKE j \in (k + m) + 1 .. (k + p) - 1
  <2>1. j - k \in DOMAIN t /\ k + (j - k) = j /\ j - k - m \in 1 .. p - 1 - m
        /\ m + (j - k - m) = j - k
    BY <1>1, <1>3, <1>4
  <2>2. t[j - k] = SP
    BY <1>6, <2>1
  <2> QED
    BY <2>1, <2>2 DEF TextFrom
<1> QED
  BY <1>7, <1>8, <1>9 DEF SentBlankLine

\* Without one, what is kept is the line that is not finished.
LEMMA KeptBegins ==
  ASSUME NEW c \in Clients, NEW S, NEW t \in Seq(S), NEW k, TextFrom(t, c, k), BlankLines(t) = {}
  PROVE  LET m == LastBefore(t, Len(t) + 1)
         IN  /\ m \in 0 .. Len(t) /\ Len(Kept(t)) = Len(t) - m
             /\ TextFrom(Kept(t), c, k + m) /\ NoNewline(Kept(t))
             /\ \A q \in Newlines(t) : q <= m
<1> DEFINE n == Len(t)
           m == LastBefore(t, n + 1)
<1>1. k \in Nat /\ n \in Nat /\ DOMAIN t = 1 .. n
  BY DEF TextFrom
<1>2. n + 1 \in 1 .. n + 1
  BY <1>1
<1>3. /\ m \in 0 .. (n + 1) - 1 /\ (m = 0 \/ t[m] = NL)
      /\ \A q \in Newlines(t) : q < n + 1 => q <= m
  BY <1>2, LineBegins
<1>4. /\ LineAt(t, n + 1) \in Seq(S) /\ Len(LineAt(t, n + 1)) = (n + 1) - 1 - m
      /\ \A j \in 1 .. (n + 1) - 1 - m : LineAt(t, n + 1)[j] = t[m + j]
  BY <1>2, LineHolds
<1>5. Kept(t) = LineAt(t, n + 1)
  <2>1. {q \in Newlines(t) : q < n + 1} = Newlines(t)
    BY <1>1 DEF Newlines
  <2>2. (n + 1) - 1 = n
    BY <1>1
  <2> QED
    BY <2>1, <2>2 DEF Kept, LineAt
<1> HIDE DEF m, n
<1>6. m \in 0 .. n /\ Len(Kept(t)) = n - m /\ DOMAIN Kept(t) = 1 .. n - m
  BY <1>1, <1>3, <1>4, <1>5
<1>7. \A q \in Newlines(t) : q <= m
  BY <1>1, <1>3 DEF Newlines
<1>8. ASSUME NEW j \in 1 .. n - m
      PROVE  Kept(t)[j] = Script[c][(k + m) + j] /\ Kept(t)[j] # NL
  <2>1. m + j \in DOMAIN t /\ ~(m + j <= m) /\ k + (m + j) = (k + m) + j
    BY <1>1, <1>6
  <2>2. Kept(t)[j] = t[m + j]
    <3>1. j \in 1 .. (n + 1) - 1 - m
      BY <1>1, <1>6
    <3> QED
      BY <1>4, <1>5, <3>1
  <2>3. t[m + j] # NL
    BY <1>7, <2>1 DEF Newlines
  <2> QED
    BY <2>1, <2>2, <2>3 DEF TextFrom
<1>9. LineStart(c, k + m)
  <2>1. CASE m = 0
    BY <1>1, <2>1 DEF TextFrom
  <2>2. CASE m # 0
    <3>1. m \in DOMAIN t
      BY <1>1, <1>6, <2>2
    <3> QED
      BY <1>1, <1>3, <2>2, <3>1 DEF TextFrom, LineStart
  <2> QED
    BY <2>1, <2>2
<1>10. TextFrom(Kept(t), c, k + m) /\ NoNewline(Kept(t))
  BY <1>1, <1>6, <1>8, <1>9 DEF TextFrom, NoNewline
<1> QED
  BY <1>6, <1>7, <1>10 DEF m, n
-----------------------------------------------------------------------------
(* What is in sockets and line buffers, and what a set event means.        *)

\* The tokens of c that recv has returned.
ReadBy(c) == sent[c] - Len(inbox[c])

\* The script of c from here on is not yet executed; slot i is c's.
Begun(i) == ReadBy(m_clients[i]) - Len(clientData[i])

\* The thread has not come to the end of c's accept.
NotServed(c) ==
  conn[c] \in {"idle", "queued"} \/ (pc \in {"select", "reset"} /\ m_clients[slot] = c)

InboxHolds(c) ==
  /\ Len(inbox[c]) <= sent[c]
  /\ \A j \in DOMAIN inbox[c] : inbox[c][j] = Script[c][ReadBy(c) + j]
  /\ NotServed(c) => ReadBy(c) = 0

\* stopServer has emptied the slots.
Closing == stopping \in {"closing", "stopped"}

\* A set event is not stale: there is something to read, or the client is gone.
EventMeans(i) ==
  clientEvent[i] =>
    Closing \/ (m_clients[i] # None /\ (inbox[m_clients[i]] # <<>> \/ gone[m_clients[i]]))

HoldsLine(t, c, k) == TextFrom(t, c, k) /\ NoNewline(t)

BufferHolds(i) ==
  LET c == m_clients[i]
  IN  c # None /\ ~NotServed(c) => SentBlankLine(c) \/ HoldsLine(clientData[i], c, Begun(i))

ReadInv ==
  /\ \A c \in Clients : InboxHolds(c)
  /\ \A i \in Slots : EventMeans(i) /\ BufferHolds(i)

LEMMA ReadTypes ==
  ASSUME TypeOK, NEW c \in Clients
  PROVE  /\ sent[c] \in Nat /\ inbox[c] \in Seq(Tokens) /\ Len(inbox[c]) \in Nat
         /\ Script[c] \in Seq(Tokens) /\ Len(Script[c]) \in Nat /\ sent[c] <= Len(Script[c])
         /\ DOMAIN inbox[c] = 1 .. Len(inbox[c]) /\ DOMAIN Script[c] = 1 .. Len(Script[c])
<1>1. sent[c] \in Nat /\ inbox[c] \in Seq(Tokens) /\ sent[c] <= Len(Script[c])
  BY DEF TypeOK
<1>2. Script[c] \in Seq(Tokens)
  <2>1. Script[c] \in Seq(Range(Script[c]))
    BY ScriptAssumption
  <2>2. Range(Script[c]) \subseteq Tokens
    BY DEF Tokens
  <2> HIDE DEF Tokens
  <2>3. \A k \in 1 .. Len(Script[c]) : Script[c][k] \in Tokens
    BY <2>1, <2>2, ElementOfSeq
  <2> QED
    BY <2>1, <2>3, SeqDef
<1> QED
  BY <1>1, <1>2, LenProperties

LEMMA BlankLineStays ==
  ASSUME NEW c \in Clients, SentBlankLine(c), sent[c] \in Nat, sent'[c] \in Nat, sent[c] <= sent'[c]
  PROVE  SentBlankLine(c)'
<1>1. PICK p \in 1 .. sent[c] : Script[c][p] = NL /\ \E q \in 0 .. p - 1 :
             LineStart(c, q) /\ \A j \in q + 1 .. p - 1 : Script[c][j] = SP
  BY DEF SentBlankLine
<1>2. p \in 1 .. sent'[c]
  BY <1>1
<1> QED
  BY <1>1, <1>2 DEF SentBlankLine, LineStart

LEMMA ReadAtStart == Init => ReadInv
<1> SUFFICES ASSUME Init PROVE ReadInv
  OBVIOUS
<1>1. \A c \in Clients : InboxHolds(c)
  BY DEF Init, InboxHolds, ReadBy
<1>2. \A i \in Slots : EventMeans(i) /\ BufferHolds(i)
  BY DEF Init, EventMeans, BufferHolds
<1> QED
  BY <1>1, <1>2 DEF ReadInv

\* Steps that read and send nothing and serve the same clients.
Quiet ==
  /\ UNCHANGED <<m_clients, clientData, sent, inbox, clientEvent, replies>>
  /\ \A c \in Clients : /\ NotServed(c)' => NotServed(c)
                        /\ NotServed(c) => NotServed(c)' \/ \A i \in Slots : m_clients[i] # c
                        /\ gone[c] => gone'[c]
  /\ Closing => Closing'

LEMMA ReadStays ==
  ASSUME SlotInv, ReadInv, Quiet
  PROVE  ReadInv'
<1> USE DEF Quiet
<1>1. ASSUME NEW c \in Clients PROVE InboxHolds(c)'
  BY DEF ReadInv, InboxHolds, ReadBy
<1>2. ASSUME NEW i \in Slots PROVE EventMeans(i)' /\ BufferHolds(i)'
  <2>1. m_clients[i] \in Clients \cup {None}
    BY DEF SlotInv, TypeOK
  <2>2. EventMeans(i) /\ BufferHolds(i)
    BY DEF ReadInv
  <2>3. EventMeans(i)'
    BY <2>1, <2>2 DEF EventMeans, Closing
  <2>4. BufferHolds(i)'
    <3> SUFFICES ASSUME m_clients[i] # None, ~NotServed(m_clients[i])'
                 PROVE  (SentBlankLine(m_clients[i])
                          \/ HoldsLine(clientData[i], m_clients[i], Begun(i)))'
      BY DEF BufferHolds
    <3>1. ~NotServed(m_clients[i])
      BY <2>1
    <3>2. SentBlankLine(m_clients[i]) \/ HoldsLine(clientData[i], m_clients[i], Begun(i))
      BY <2>2, <3>1 DEF BufferHolds
    <3> QED
      BY <3>2 DEF SentBlankLine, HoldsLine, TextFrom, NoNewline, LineStart, Begun, ReadBy
  <2> QED
    BY <2>3, <2>4
<1> QED
  BY <1>1, <1>2 DEF ReadInv

LEMMA PieceOf ==
  ASSUME NEW S, NEW s \in Seq(S), NEW a \in 0 .. Len(s), NEW b \in a .. Len(s)
  PROVE  /\ SubSeq(s, a + 1, b) \in Seq(S) /\ Len(SubSeq(s, a + 1, b)) = b - a
         /\ \A j \in 1 .. b - a : SubSeq(s, a + 1, b)[j] = s[a + j]
<1>1. Len(s) \in Nat /\ DOMAIN s = 1 .. Len(s) /\ a \in Nat /\ b \in Nat /\ a <= b
  OBVIOUS
<1>2. \A j \in a + 1 .. b : s[j] \in S
  BY <1>1, ElementOfSeq
<1>3. a + 1 \in 1 .. Len(s) + 1 /\ b \in 0 .. Len(s)
  BY <1>1
<1>4. /\ SubSeq(s, a + 1, b) \in Seq(S)
      /\ Len(SubSeq(s, a + 1, b)) = IF a + 1 <= b THEN b - (a + 1) + 1 ELSE 0
      /\ \A j \in 1 .. b - (a + 1) + 1 : SubSeq(s, a + 1, b)[j] = s[a + 1 + j - 1]
  BY <1>2, <1>3, SubSeqProperties
<1> DEFINE t == SubSeq(s, a + 1, b)
<1> HIDE DEF t
<1>5. Len(t) = b - a
  BY <1>1, <1>4 DEF t
<1>6. ASSUME NEW j \in 1 .. b - a PROVE t[j] = s[a + j]
  <2>1. j \in 1 .. b - (a + 1) + 1 /\ a + 1 + j - 1 = a + j
    BY <1>1
  <2> QED
    BY <1>4, <2>1 DEF t
<1> QED
  BY <1>4, <1>5, <1>6 DEF t

LEMMA StartOf ==
  ASSUME NEW S, NEW s \in Seq(S), NEW b \in 0 .. Len(s)
  PROVE  /\ SubSeq(s, 1, b) \in Seq(S) /\ Len(SubSeq(s, 1, b)) = b
         /\ \A j \in 1 .. b : SubSeq(s, 1, b)[j] = s[j]
<1>1. 0 \in 0 .. Len(s) /\ b \in 0 .. Len(s) /\ b \in Nat
  OBVIOUS
<1>2. /\ SubSeq(s, 0 + 1, b) \in Seq(S) /\ Len(SubSeq(s, 0 + 1, b)) = b - 0
      /\ \A j \in 1 .. b - 0 : SubSeq(s, 0 + 1, b)[j] = s[0 + j]
  BY <1>1, PieceOf
<1>3. 0 + 1 = 1 /\ b - 0 = b /\ \A j \in 1 .. b : 0 + j = j
  BY <1>1
<1> QED
  BY <1>2, <1>3

LEMMA SendKeepsRead ==
  ASSUME SlotInv, ReadInv, NEW c \in Clients, Send(c)
  PROVE  ReadInv'
<1> USE DEF netVars, threadVars
<1>1. PICK n \in sent[c] + 1 .. Len(Script[c]) :
         /\ sent' = [sent EXCEPT ![c] = n]
         /\ inbox' = [inbox EXCEPT ![c] = @ \o SubSeq(Script[c], sent[c] + 1, n)]
  BY DEF Send
<1>2. UNCHANGED <<stopping, m_clients, clientData, pc, slot, clientEvent, conn, gone>>
  BY DEF Send
<1>3. TypeOK /\ \A d \in Clients : InboxHolds(d)
  BY DEF SlotInv, ReadInv
<1>4. /\ sent[c] \in Nat /\ inbox[c] \in Seq(Tokens) /\ Len(inbox[c]) \in Nat
      /\ Script[c] \in Seq(Tokens) /\ Len(Script[c]) \in Nat /\ sent[c] <= Len(Script[c])
      /\ DOMAIN inbox[c] = 1 .. Len(inbox[c]) /\ DOMAIN Script[c] = 1 .. Len(Script[c])
  BY <1>3, ReadTypes
<1> DEFINE new == SubSeq(Script[c], sent[c] + 1, n)
<1>5. /\ new \in Seq(Tokens) /\ Len(new) = n - sent[c]
      /\ \A j \in 1 .. n - sent[c] : new[j] = Script[c][sent[c] + j]
  <2>1. sent[c] \in 0 .. Len(Script[c]) /\ n \in sent[c] .. Len(Script[c])
    BY <1>4
  <2> QED
    BY <1>4, <2>1, PieceOf
<1>6. sent' = [sent EXCEPT ![c] = n] /\ inbox' = [inbox EXCEPT ![c] = inbox[c] \o new]
  BY <1>1
<1> HIDE DEF new
<1>7. /\ inbox[c] \o new \in Seq(Tokens) /\ Len(inbox[c] \o new) = Len(inbox[c]) + (n - sent[c])
      /\ \A j \in 1 .. Len(inbox[c]) + (n - sent[c]) :
           (inbox[c] \o new)[j] = IF j <= Len(inbox[c]) THEN inbox[c][j] ELSE new[j - Len(inbox[c])]
  <2>1. /\ inbox[c] \o new \in Seq(Tokens) /\ Len(inbox[c] \o new) = Len(inbox[c]) + Len(new)
        /\ \A j \in 1 .. Len(inbox[c]) + Len(new) :
             (inbox[c] \o new)[j] = IF j <= Len(inbox[c]) THEN inbox[c][j] ELSE new[j - Len(inbox[c])]
    BY <1>4, <1>5, ConcatProperties
  <2>2. Len(new) = n - sent[c]
    BY <1>5
  <2> QED
    BY <2>1, <2>2
<1>8. sent'[c] = n /\ inbox'[c] = inbox[c] \o new
      /\ \A d \in Clients : d # c => sent'[d] = sent[d] /\ inbox'[d] = inbox[d]
  BY <1>3, <1>6 DEF TypeOK
<1>9. ReadBy(c)' = ReadBy(c) /\ n \in Nat /\ sent[c] <= n
  <2>1. n \in Nat /\ sent[c] <= n
    BY <1>4
  <2>2. Len(inbox'[c]) = Len(inbox[c]) + (n - sent[c])
    BY <1>7, <1>8
  <2>3. n - (Len(inbox[c]) + (n - sent[c])) = sent[c] - Len(inbox[c])
    BY <1>4, <2>1
  <2> QED
    BY <1>8, <2>1, <2>2, <2>3 DEF ReadBy
<1>10. \A d \in Clients : ReadBy(d)' = ReadBy(d)
  BY <1>8, <1>9 DEF ReadBy
<1>11. \A d \in Clients : NotServed(d)' <=> NotServed(d)
  BY <1>2 DEF NotServed
<1>12. InboxHolds(c)'
  <2>1. /\ Len(inbox[c]) <= sent[c] /\ (NotServed(c) => ReadBy(c) = 0)
        /\ \A j \in DOMAIN inbox[c] : inbox[c][j] = Script[c][ReadBy(c) + j]
    BY <1>3 DEF InboxHolds
  <2>2. Len(inbox'[c]) <= sent'[c]
    BY <1>4, <1>7, <1>8, <1>9, <2>1
  <2>3. ASSUME NEW j \in DOMAIN inbox'[c] PROVE inbox'[c][j] = Script[c][ReadBy(c) + j]
    <3>1. j \in 1 .. Len(inbox[c]) + (n - sent[c])
      BY <1>7, <1>8
    <3>2. CASE j <= Len(inbox[c])
      BY <1>4, <1>7, <1>8, <2>1, <3>1, <3>2
    <3>3. CASE ~(j <= Len(inbox[c]))
      <4>1. /\ j - Len(inbox[c]) \in 1 .. n - sent[c]
            /\ sent[c] + (j - Len(inbox[c])) = ReadBy(c) + j
        BY <1>4, <1>9, <3>1, <3>3 DEF ReadBy
      <4> QED
        BY <1>5, <1>7, <1>8, <3>1, <3>3, <4>1
    <3> QED
      BY <3>2, <3>3
  <2> QED
    BY <1>9, <1>11, <2>1, <2>2, <2>3 DEF InboxHolds
<1>13. ASSUME NEW d \in Clients, d # c PROVE InboxHolds(d)'
  BY <1>3, <1>8, <1>10, <1>11, <1>13 DEF InboxHolds
<1>14. ASSUME NEW i \in Slots PROVE EventMeans(i)' /\ BufferHolds(i)'
  <2>1. EventMeans(i) /\ BufferHolds(i) /\ m_clients[i] \in Clients \cup {None}
    BY <1>3 DEF ReadInv, TypeOK
  <2>2. inbox[c] # <<>> => inbox'[c] # <<>>
    BY <1>4, <1>7, <1>8, <1>9, EmptySeq
  <2>3. EventMeans(i)'
    BY <1>2, <1>8, <2>1, <2>2 DEF EventMeans, Closing
  <2>4. BufferHolds(i)'
    <3> SUFFICES ASSUME m_clients[i] # None, ~NotServed(m_clients[i])
                 PROVE  (SentBlankLine(m_clients[i])
                          \/ HoldsLine(clientData[i], m_clients[i], Begun(i)))'
      BY <1>2, <1>11, <2>1 DEF BufferHolds
    <3>1. CASE SentBlankLine(m_clients[i])
      <4>1. sent[m_clients[i]] \in Nat /\ sent'[m_clients[i]] \in Nat
            /\ sent[m_clients[i]] <= sent'[m_clients[i]]
        BY <1>3, <1>8, <1>9, <2>1, ReadTypes
      <4> QED
        BY <1>2, <2>1, <3>1, <4>1, BlankLineStays
    <3>2. CASE HoldsLine(clientData[i], m_clients[i], Begun(i))
      <4>1. Begun(i)' = Begun(i)
        BY <1>2, <1>10, <2>1 DEF Begun
      <4> QED
        BY <1>2, <3>2, <4>1 DEF HoldsLine, TextFrom, NoNewline, LineStart
    <3> QED
      BY <2>1, <3>1, <3>2 DEF BufferHolds
  <2> QED
    BY <2>3, <2>4
<1> QED
  BY <1>12, <1>13, <1>14 DEF ReadInv

LEMMA SignalKeepsRead ==
  ASSUME SlotInv, ReadInv, NEW c \in Clients, Signal(c)
  PROVE  ReadInv'
<1> USE DEF netVars, threadVars
<1>1. UNCHANGED <<stopping, m_clients, clientData, pc, slot, conn, sent, gone, inbox>>
      /\ clientEvent' = [clientEvent EXCEPT ![SlotOf(c)] = TRUE]
      /\ Open(c) /\ (inbox[c] # <<>> \/ gone[c])
  BY DEF Signal
<1>2. SlotOf(c) \in Slots /\ m_clients[SlotOf(c)] = c
  BY <1>1 DEF SlotInv, SlotsMatchConnections, SlotOf
<1>3. ASSUME NEW d \in Clients PROVE InboxHolds(d)'
  BY <1>1 DEF ReadInv, InboxHolds, ReadBy, NotServed
<1>4. ASSUME NEW i \in Slots PROVE EventMeans(i)'
  <2>1. EventMeans(i) /\ c # None
    BY NoneAssumption DEF ReadInv
  <2>2. CASE i = SlotOf(c)
    BY <1>1, <1>2, <2>1, <2>2 DEF EventMeans, Closing
  <2>3. CASE i # SlotOf(c)
    <3>1. clientEvent'[i] = clientEvent[i]
      BY <1>1, <2>3 DEF SlotInv, TypeOK
    <3> QED
      BY <1>1, <2>1, <3>1 DEF EventMeans, Closing
  <2> QED
    BY <2>2, <2>3
<1>5. ASSUME NEW i \in Slots PROVE BufferHolds(i)'
  <2>1. BufferHolds(i)
    BY DEF ReadInv
  <2> QED
    BY <1>1, <2>1 DEF BufferHolds, SentBlankLine, HoldsLine, TextFrom, NoNewline, LineStart,
                      Begun, ReadBy, NotServed
<1> QED
  BY <1>3, <1>4, <1>5 DEF ReadInv

LEMMA AcceptKeepsRead ==
  ASSUME SlotInv, ReadInv, AcceptClient, backlog # <<>>
  PROVE  ReadInv'
<1> USE DEF netVars, threadVars
<1>1. PICK i \in Slots :
         /\ m_clients[i] = None
         /\ m_clients' = [m_clients EXCEPT ![i] = Head(backlog)]
         /\ conn' = [conn EXCEPT ![Head(backlog)] = "open"]
         /\ backlog' = Tail(backlog) /\ slot' = i /\ pc' = "select"
  BY DEF AcceptClient
<1>2. /\ pc = "accept" /\ UNCHANGED <<stopping, clientData, clientEvent, sent, gone, inbox>>
  BY DEF AcceptClient
<1>0. Head(backlog) \in Clients /\ conn[Head(backlog)] = "queued"
  BY <1>1, HeadLeaves
<1>3. PICK h \in Clients : h = Head(backlog) /\ conn[h] = "queued"
  BY <1>0
<1>4. m_clients' = [m_clients EXCEPT ![i] = h] /\ conn' = [conn EXCEPT ![h] = "open"] /\ h # None
  BY <1>1, <1>3, NoneAssumption
<1>5. /\ m_clients'[i] = h /\ \A j \in Slots : j # i => m_clients'[j] = m_clients[j]
      /\ \A j \in Slots : m_clients[j] # h
  BY <1>3, <1>4 DEF SlotInv, TypeOK, SlotsMatchConnections, Open
<1>6. NotServed(h) /\ NotServed(h)' /\ \A d \in Clients : d # h => (NotServed(d)' <=> NotServed(d))
  <2>1. NotServed(h)
    BY <1>3 DEF NotServed
  <2>2. pc' = "select" /\ m_clients'[slot'] = h
    BY <1>1, <1>5
  <2>3. NotServed(h)'
    BY <2>2 DEF NotServed
  <2>4. ASSUME NEW d \in Clients, d # h PROVE NotServed(d)' <=> NotServed(d)
    <3>1. conn'[d] = conn[d]
      BY <1>4, <2>4 DEF SlotInv, TypeOK
    <3> QED
      BY <1>2, <2>2, <2>4, <3>1 DEF NotServed
  <2> QED
    BY <2>1, <2>3, <2>4
<1>7. ASSUME NEW d \in Clients PROVE InboxHolds(d)'
  BY <1>2, <1>6 DEF ReadInv, InboxHolds, ReadBy
<1>8. ASSUME NEW j \in Slots PROVE EventMeans(j)'
  <2>1. EventMeans(j)
    BY DEF ReadInv
  <2>2. CASE j = i
    BY <1>1, <1>2, <2>1, <2>2 DEF EventMeans, Closing
  <2>3. CASE j # i
    BY <1>2, <1>5, <2>1, <2>3 DEF EventMeans, Closing
  <2> QED
    BY <2>2, <2>3
<1>9. ASSUME NEW j \in Slots PROVE BufferHolds(j)'
  <2>1. CASE j = i
    BY <1>5, <1>6, <2>1 DEF BufferHolds, NotServed
  <2>2. CASE j # i
    <3>1. BufferHolds(j) /\ m_clients[j] \in Clients \cup {None}
      BY DEF ReadInv, SlotInv, TypeOK
    <3>2. m_clients'[j] = m_clients[j] /\ m_clients[j] # h
      BY <1>5, <2>2
    <3>3. m_clients[j] # None => (NotServed(m_clients[j])' <=> NotServed(m_clients[j]))
      BY <1>6, <3>1, <3>2
    <3> QED
      BY <1>2, <3>1, <3>2, <3>3
      DEF BufferHolds, SentBlankLine, HoldsLine, TextFrom, NoNewline, LineStart, Begun, ReadBy
  <2> QED
    BY <2>1, <2>2
<1> QED
  BY <1>7, <1>8, <1>9 DEF ReadInv

LEMMA ResetKeepsRead ==
  ASSUME SlotInv, ReadInv, ResetSlot
  PROVE  ReadInv'
<1> USE DEF netVars, threadVars
<1>1. /\ pc = "reset" /\ pc' = "wait"
      /\ clientEvent' = [clientEvent EXCEPT ![slot] = FALSE]
      /\ clientData' = [clientData EXCEPT ![slot] = <<>>]
      /\ UNCHANGED <<stopping, m_clients, slot, conn, sent, gone, inbox>>
  BY DEF ResetSlot
<1>0. slot \in Slots /\ m_clients[slot] \in Clients \cup {None}
  BY <1>1 DEF SlotInv, TypeOK
<1>2. PICK h \in Clients \cup {None} : h = m_clients[slot] /\ slot \in Slots
  BY <1>0
<1>3. /\ \A i \in Slots : i # slot /\ m_clients[i] # None => m_clients[i] # h
      /\ h # None => h \in Clients /\ NotServed(h)
  BY <1>1, <1>2 DEF SlotInv, SlotsMatchConnections, NotServed
<1>4. \A d \in Clients : /\ NotServed(d)' => NotServed(d)
                         /\ d # h => (NotServed(d)' <=> NotServed(d))
  BY <1>1, <1>2 DEF NotServed
<1>5. ASSUME NEW d \in Clients PROVE InboxHolds(d)'
  BY <1>1, <1>4 DEF ReadInv, InboxHolds, ReadBy
<1>6. ASSUME NEW i \in Slots PROVE EventMeans(i)'
  <2>1. EventMeans(i) /\ clientEvent \in [Slots -> BOOLEAN]
    BY DEF ReadInv, SlotInv, TypeOK
  <2>2. clientEvent'[i] => clientEvent[i]
    BY <1>1, <1>2, <2>1
  <2> QED
    BY <1>1, <2>1, <2>2 DEF EventMeans, Closing
<1>7. ASSUME NEW i \in Slots PROVE BufferHolds(i)'
  <2>1. CASE i = slot
    <3> SUFFICES ASSUME h # None PROVE BufferHolds(i)'
      BY <1>1, <1>2, <2>1 DEF BufferHolds
    <3>1. clientData'[i] = <<>>
      BY <1>1, <1>2, <2>1 DEF SlotInv, TypeOK
    <3>2. ReadBy(h) = 0 /\ Len(<<>>) = 0 /\ DOMAIN <<>> = {}
      BY <1>3 DEF ReadInv, InboxHolds
    <3>3. Begun(i)' = 0
      BY <1>1, <1>2, <2>1, <3>1, <3>2 DEF Begun, ReadBy
    <3>4. HoldsLine(clientData[i], m_clients[i], Begun(i))'
      BY <3>1, <3>2, <3>3 DEF HoldsLine, TextFrom, NoNewline, LineStart
    <3> QED
      BY <3>4 DEF BufferHolds
  <2>2. CASE i # slot
    <3>1. BufferHolds(i) /\ m_clients[i] \in Clients \cup {None} /\ clientData'[i] = clientData[i]
      BY <1>1, <2>2 DEF ReadInv, SlotInv, TypeOK
    <3>2. m_clients[i] # None => (NotServed(m_clients[i])' <=> NotServed(m_clients[i]))
      <4> SUFFICES ASSUME m_clients[i] # None
                   PROVE  NotServed(m_clients[i])' <=> NotServed(m_clients[i])
        OBVIOUS
      <4>1. PICK d \in Clients : d = m_clients[i] /\ d # h
        BY <1>2, <1>3, <2>2, <3>1
      <4>2. NotServed(d)' <=> NotServed(d)
        BY <1>4, <4>1
      <4> QED
        BY <1>1, <4>1, <4>2 DEF NotServed
    <3> QED
      BY <1>1, <3>1, <3>2
      DEF BufferHolds, SentBlankLine, HoldsLine, TextFrom, NoNewline, LineStart, Begun, ReadBy
  <2> QED
    BY <2>1, <2>2
<1> QED
  BY <1>5, <1>6, <1>7 DEF ReadInv

\* recv has returned n tokens of c, with which text is in the buffer of slot i.
ReadsText(i, c, n, text, driver) ==
  /\ driver \in [DOMAIN LinesRead(text) -> BOOLEAN]
  /\ inbox' = [inbox EXCEPT ![c] = SubSeq(@, n + 1, Len(@))]
  /\ clientData' = [clientData EXCEPT ![i] = Kept(text)]
  /\ replies' = [replies EXCEPT ![c] =
       @ \o [k \in DOMAIN LinesRead(text) |-> Reply(LinesRead(text)[k], driver[k])]]
  /\ UNCHANGED <<m_clients, conn>>

LEMMA ReceiveCases ==
  ASSUME NEW i \in Slots, NEW c \in Clients, c = m_clients[i], Receive(i)
  PROVE  LET n == Min({Room(i), Len(inbox[c])})
         IN  IF n = 0 THEN CloseSlot(i)
             ELSE \E driver : ReadsText(i, c, n, clientData[i] \o SubSeq(inbox[c], 1, n), driver)
<1> DEFINE d == m_clients[i]
           n == Min({Room(i), Len(inbox[d])})
           text == clientData[i] \o SubSeq(inbox[d], 1, n)
           Reads(m) ==
             \E t \in {clientData[i] \o SubSeq(inbox[d], 1, m)} :
               /\ inbox' = [inbox EXCEPT ![d] = SubSeq(@, m + 1, Len(@))]
               /\ readRec' = [readRec EXCEPT ![d] = FALSE]
               /\ clientData' = [clientData EXCEPT ![i] = Kept(t)]
               /\ \E lines \in {LinesRead(t)} : \E driver \in [DOMAIN lines -> BOOLEAN] :
                    replies' = [replies EXCEPT ![d] =
                      @ \o [k \in DOMAIN lines |-> Reply(lines[k], driver[k])]]
               /\ UNCHANGED <<m_clients, conn>>
<1>1. \E m \in {n} : IF m = 0 THEN CloseSlot(i) ELSE Reads(m)
  BY DEF Receive
<1>2. ASSUME Reads(n) PROVE \E driver : ReadsText(i, d, n, text, driver)
  <2> HIDE DEF n
  <2>1. PICK t \in {clientData[i] \o SubSeq(inbox[d], 1, n)} :
          /\ inbox' = [inbox EXCEPT ![d] = SubSeq(@, n + 1, Len(@))]
          /\ clientData' = [clientData EXCEPT ![i] = Kept(t)]
          /\ \E lines \in {LinesRead(t)} : \E driver \in [DOMAIN lines -> BOOLEAN] :
               replies' = [replies EXCEPT ![d] =
                 @ \o [k \in DOMAIN lines |-> Reply(lines[k], driver[k])]]
          /\ UNCHANGED <<m_clients, conn>>
    BY <1>2
  <2>2. t = text
    BY <2>1
  <2>3. PICK lines \in {LinesRead(text)} : \E driver \in [DOMAIN lines -> BOOLEAN] :
          replies' = [replies EXCEPT ![d] =
            @ \o [k \in DOMAIN lines |-> Reply(lines[k], driver[k])]]
    BY <2>1, <2>2
  <2>4. lines = LinesRead(text)
    BY <2>3
  <2>5. PICK driver \in [DOMAIN lines -> BOOLEAN] :
          replies' = [replies EXCEPT ![d] =
            @ \o [k \in DOMAIN lines |-> Reply(lines[k], driver[k])]]
    BY <2>3
  <2> HIDE DEF text, d
  <2>6. ReadsText(i, d, n, text, driver)
    BY <2>1, <2>2, <2>4, <2>5 DEF ReadsText
  <2> QED
    BY <2>6
<1>3. c = d
  OBVIOUS
<1> HIDE DEF n, text, Reads, d
<1>4. IF n = 0 THEN CloseSlot(i) ELSE \E driver : ReadsText(i, d, n, text, driver)
  BY <1>1, <1>2
<1>5. IF n = 0 THEN CloseSlot(i) ELSE \E driver : ReadsText(i, c, n, text, driver)
  BY <1>3, <1>4
<1> QED
  BY <1>3, <1>5 DEF n, text

\* recv fills the free part of the line buffer, or the slot is closed.
LEMMA ReceiveOutcome ==
  ASSUME TypeOK, NEW i \in Slots, NEW c \in Clients, c = m_clients[i], Receive(i)
  PROVE  \/ CloseSlot(i) /\ (Room(i) = 0 \/ inbox[c] = <<>>)
         \/ \E n \in 1 .. Len(inbox[c]), text \in Seq(Tokens) : \E driver :
              /\ Len(text) = Len(clientData[i]) + n
              /\ \A j \in 1 .. Len(text) :
                   text[j] = IF j <= Len(clientData[i]) THEN clientData[i][j]
                             ELSE inbox[c][j - Len(clientData[i])]
              /\ ReadsText(i, c, n, text, driver)
<1> DEFINE n == Min({Room(i), Len(inbox[c])})
           text == clientData[i] \o SubSeq(inbox[c], 1, n)
<1>1. /\ inbox[c] \in Seq(Tokens) /\ clientData[i] \in Seq(Tokens)
      /\ Len(clientData[i]) \in Nat /\ Len(inbox[c]) \in Nat /\ Len(clientData[i]) < MaxData
  BY LenProperties DEF TypeOK
<1>2. n \in {Room(i), Len(inbox[c])} /\ n \in Nat /\ n <= Len(inbox[c])
  <2>1. Room(i) \in Nat
    BY <1>1, MaxDataAssumption DEF Room
  <2>2. {Room(i), Len(inbox[c])} \in SUBSET Nat /\ {Room(i), Len(inbox[c])} # {}
    BY <1>1, <2>1
  <2> QED
    BY <2>2, LeastOfNaturals
<1>3. IF n = 0 THEN CloseSlot(i) ELSE \E driver : ReadsText(i, c, n, text, driver)
  BY ReceiveCases
<1>T. text = clientData[i] \o SubSeq(inbox[c], 1, n)
  OBVIOUS
<1> HIDE DEF n, text
<1>4. CASE n = 0
  <2>1. Len(inbox[c]) = 0 => inbox[c] = <<>>
    BY <1>1, EmptySeq
  <2> QED
    BY <1>2, <1>3, <1>4, <2>1
<1>5. CASE n # 0
  <2>1. n \in 1 .. Len(inbox[c]) /\ n \in 0 .. Len(inbox[c]) /\ 0 \in 0 .. Len(inbox[c])
    BY <1>1, <1>2, <1>5
  <2> DEFINE new == SubSeq(inbox[c], 1, n)
  <2>2. new \in Seq(Tokens) /\ Len(new) = n /\ \A j \in 1 .. n : new[j] = inbox[c][j]
    <3>1. /\ SubSeq(inbox[c], 0 + 1, n) \in Seq(Tokens) /\ Len(SubSeq(inbox[c], 0 + 1, n)) = n - 0
          /\ \A j \in 1 .. n - 0 : SubSeq(inbox[c], 0 + 1, n)[j] = inbox[c][0 + j]
      <4>1. n \in 0 .. Len(inbox[c])
        BY <2>1
      <4> QED
        BY <1>1, <2>1, <4>1, PieceOf
    <3>2. 0 + 1 = 1 /\ n - 0 = n /\ \A j \in 1 .. n : 0 + j = j
      BY <1>2
    <3> QED
      BY <3>1, <3>2
  <2>3. text = clientData[i] \o new
    BY <1>T
  <2> HIDE DEF new
  <2>4. /\ text \in Seq(Tokens) /\ Len(text) = Len(clientData[i]) + Len(new)
        /\ \A j \in 1 .. Len(clientData[i]) + Len(new) :
             text[j] = IF j <= Len(clientData[i]) THEN clientData[i][j]
                       ELSE new[j - Len(clientData[i])]
    BY <1>1, <2>2, <2>3, ConcatProperties
  <2>5. ASSUME NEW j \in 1 .. Len(text)
        PROVE  text[j] = IF j <= Len(clientData[i]) THEN clientData[i][j]
                         ELSE inbox[c][j - Len(clientData[i])]
    <3>1. j \in 1 .. Len(clientData[i]) + Len(new)
      BY <2>4
    <3>2. ~(j <= Len(clientData[i])) => j - Len(clientData[i]) \in 1 .. n
      BY <1>1, <2>2, <3>1
    <3> QED
      BY <2>2, <2>4, <3>1, <3>2
  <2>6. Len(text) = Len(clientData[i]) + n
    BY <2>2, <2>4
  <2>7. PICK driver : ReadsText(i, c, n, text, driver)
    BY <1>3, <1>5
  <2> QED
    BY <2>1, <2>4, <2>5, <2>6, <2>7
<1> QED
  BY <1>4, <1>5

\* The slot that is served is not above the one whose event was set.
LEMMA ServedBelow ==
  ASSUME NEW i \in Slots
  PROVE  ServedSlot(i) \in 0 .. i /\ (NoGap /\ m_clients[i] # None => ServedSlot(i) = i)
<1> DEFINE open == {j \in Slots : j < i /\ m_clients[j] # None}
<1>1. i \in Nat /\ i < MaxClients /\ MaxClients \in Nat
  BY MaxClientsAssumption DEF Slots
<1>2. open \subseteq 0 .. i - 1
  BY <1>1 DEF Slots
<1>3. IsFiniteSet(0 .. i - 1) /\ Cardinality(0 .. i - 1) = i
  <2>1. IsFiniteSet(0 .. i - 1) /\ Cardinality(0 .. i - 1) = IF 0 > i - 1 THEN 0 ELSE (i - 1) - 0 + 1
    BY <1>1, FS_Interval
  <2> QED
    BY <1>1, <2>1
<1>4. Cardinality(open) \in Nat /\ Cardinality(open) <= i
  <2>1. IsFiniteSet(open) /\ Cardinality(open) <= Cardinality(0 .. i - 1)
    BY <1>2, <1>3, FS_Subset
  <2> QED
    BY <1>3, <2>1, FS_CardinalityType
<1>5. ASSUME NoGap, m_clients[i] # None PROVE open = 0 .. i - 1
  BY <1>1, <1>5 DEF NoGap, Slots
<1>6. ServedSlot(i) = Cardinality(open)
  BY DEF ServedSlot
<1> HIDE DEF open
<1> QED
  BY <1>1, <1>3, <1>4, <1>5, <1>6

\* A slot that is closed takes its text out of the game.
LEMMA CloseKeepsRead ==
  ASSUME SlotInv, ReadInv, pc = "wait", UNCHANGED <<stopping, pc, slot, sent, gone>>,
         NEW s \in Slots, m_clients[s] # None, CloseSlot(s), ~clientEvent'[s],
         \A j \in Slots : clientEvent'[j] => clientEvent[j]
  PROVE  ReadInv'
<1>0. m_clients[s] \in Clients /\ conn[m_clients[s]] = "open"
  BY DEF SlotInv, TypeOK, SlotsMatchConnections, Open
<1>1. PICK c \in Clients : c = m_clients[s] /\ conn[c] = "open"
  BY <1>0
<1>2. /\ m_clients' = [m_clients EXCEPT ![s] = None] /\ conn' = [conn EXCEPT ![c] = "closed"]
      /\ inbox' = [inbox EXCEPT ![c] = <<>>] /\ clientData' = clientData
  BY <1>1 DEF CloseSlot
<1>3. /\ m_clients'[s] = None /\ conn'[c] = "closed" /\ inbox'[c] = <<>>
      /\ \A j \in Slots : j # s => m_clients'[j] = m_clients[j] /\ m_clients[j] # c
      /\ \A d \in Clients : d # c => conn'[d] = conn[d] /\ inbox'[d] = inbox[d]
  BY <1>1, <1>2, NoneAssumption DEF SlotInv, TypeOK, SlotsMatchConnections
<1>4. \A d \in Clients : NotServed(d) <=> NotServed(d)'
  BY <1>1, <1>3 DEF NotServed
<1>5. ~NotServed(c)
  BY <1>1 DEF NotServed
<1>6. ASSUME NEW d \in Clients PROVE InboxHolds(d)'
  <2>1. InboxHolds(d)
    BY DEF ReadInv
  <2>2. CASE d = c
    <3>1. Len(<<>>) = 0 /\ DOMAIN <<>> = {} /\ sent[c] \in Nat
      BY DEF SlotInv, TypeOK
    <3> QED
      BY <1>3, <1>4, <1>5, <2>2, <3>1 DEF InboxHolds, ReadBy
  <2>3. CASE d # c
    BY <1>3, <1>4, <2>1, <2>3 DEF InboxHolds, ReadBy
  <2> QED
    BY <2>2, <2>3
<1>7. ASSUME NEW j \in Slots PROVE EventMeans(j)' /\ BufferHolds(j)'
  <2>1. EventMeans(j) /\ BufferHolds(j) /\ m_clients[j] \in Clients \cup {None}
    BY DEF ReadInv, SlotInv, TypeOK
  <2>2. CASE j = s
    BY <1>3, <2>2 DEF EventMeans, Closing, BufferHolds
  <2>3. CASE j # s
    <3>1. EventMeans(j)'
      BY <1>3, <2>1, <2>3 DEF EventMeans, Closing
    <3>2. m_clients[j] # None => (NotServed(m_clients[j])' <=> NotServed(m_clients[j]))
      <4> SUFFICES ASSUME m_clients[j] # None
                   PROVE  NotServed(m_clients[j])' <=> NotServed(m_clients[j])
        OBVIOUS
      <4>1. PICK d \in Clients : d = m_clients[j]
        BY <2>1
      <4> QED
        BY <1>3, <1>4, <2>3, <4>1 DEF NotServed
    <3>3. BufferHolds(j)'
      BY <1>2, <1>3, <2>1, <2>3, <3>2
      DEF BufferHolds, SentBlankLine, HoldsLine, TextFrom, NoNewline, LineStart, Begun, ReadBy
    <3> QED
      BY <3>1, <3>3
  <2> QED
    BY <2>2, <2>3
<1> QED
  BY <1>6, <1>7 DEF ReadInv

\* The text that recv completed is the script of the client from where it had begun.
LEMMA TextOfScript ==
  ASSUME SlotInv, ReadInv, NEW i \in Slots, NEW c \in Clients, c = m_clients[i], ~NotServed(c),
         NEW n \in 1 .. Len(inbox[c]), NEW text \in Seq(Tokens),
         Len(text) = Len(clientData[i]) + n,
         \A j \in 1 .. Len(text) :
           text[j] = IF j <= Len(clientData[i]) THEN clientData[i][j]
                     ELSE inbox[c][j - Len(clientData[i])]
  PROVE  \/ SentBlankLine(c)
         \/ TextFrom(text, c, Begun(i)) /\ Begun(i) + Len(text) <= sent[c]
<1>1. CASE SentBlankLine(c)
  BY <1>1
<1>2. CASE ~SentBlankLine(c)
  <2> DEFINE k == Begun(i)
             l == Len(clientData[i])
  <2>1. HoldsLine(clientData[i], c, k) /\ InboxHolds(c)
    BY <1>2, NoneAssumption DEF ReadInv, BufferHolds
  <2>2. /\ sent[c] \in Nat /\ Len(inbox[c]) \in Nat /\ DOMAIN inbox[c] = 1 .. Len(inbox[c])
    BY ReadTypes DEF SlotInv
  <2>3. clientData[i] \in Seq(Tokens) /\ l \in Nat /\ DOMAIN clientData[i] = 1 .. l
    <3>1. clientData[i] \in Seq(Tokens)
      BY DEF SlotInv, TypeOK
    <3> QED
      BY <3>1, LenProperties
  <2>4. k \in Nat /\ LineStart(c, k) /\ \A j \in 1 .. l : clientData[i][j] = Script[c][k + j]
    BY <2>1, <2>3 DEF HoldsLine, TextFrom
  <2>5. k = ReadBy(c) - l /\ ReadBy(c) = sent[c] - Len(inbox[c])
    BY DEF Begun, ReadBy
  <2>6. ReadBy(c) \in Int
    BY <2>2, <2>5
  <2> HIDE DEF k, l
  <2>7. DOMAIN text = 1 .. l + n /\ Len(text) = l + n
    BY LenProperties DEF l
  <2>8. ASSUME NEW j \in DOMAIN text PROVE text[j] = Script[c][k + j]
    <3>1. j \in 1 .. l + n /\ j \in 1 .. Len(text)
      BY <2>7, <2>8
    <3>2. CASE j <= l
      <4>1. text[j] = clientData[i][j]
        BY <3>1, <3>2 DEF l
      <4>2. j \in 1 .. l
        BY <2>3, <3>1, <3>2
      <4> QED
        BY <2>4, <4>1, <4>2
    <3>3. CASE ~(j <= l)
      <4>1. text[j] = inbox[c][j - l]
        BY <3>1, <3>3 DEF l
      <4>2. j - l \in DOMAIN inbox[c] /\ ReadBy(c) + (j - l) = k + j
        <5>1. j - l \in 1 .. n
          BY <2>3, <3>1, <3>3
        <5>2. \A r \in Int : k = r - l => r + (j - l) = k + j
          BY <2>3, <2>4, <3>1
        <5> QED
          BY <2>2, <2>5, <2>6, <5>1, <5>2
      <4>3. inbox[c][j - l] = Script[c][ReadBy(c) + (j - l)]
        BY <2>1, <4>2 DEF InboxHolds
      <4> QED
        BY <4>1, <4>2, <4>3
    <3> QED
      BY <3>2, <3>3
  <2>9. k + Len(text) <= sent[c]
    <3>1. Len(inbox[c]) \in n .. Len(inbox[c]) /\ n \in Nat
      BY <2>2
    <3>2. sent[c] - Len(inbox[c]) = k + l
      BY <2>3, <2>4, <2>5, <2>6
    <3> QED
      BY <2>2, <2>3, <2>4, <2>7, <3>1, <3>2
  <2> QED
    BY <2>4, <2>8, <2>9 DEF TextFrom, k
<1> QED
  BY <1>1, <1>2

\* The text without its complete lines stays in the line buffer of slot i.
LinesTaken(i, c, text) ==
  \E k \in Nat, m \in 0 .. Len(text) :
    /\ k = Begun(i) /\ Begun(i)' = k + m
    /\ TextFrom(text, c, k) /\ k + Len(text) <= sent[c] /\ BlankLines(text) = {}
    /\ TextFrom(Kept(text), c, k + m) /\ NoNewline(Kept(text))
    /\ \A q \in Newlines(text) : q <= m

TextTaken(i, c, n, text) ==
  /\ conn[c] = "open" /\ UNCHANGED <<m_clients, conn>>
  /\ inbox'[c] = SubSeq(inbox[c], n + 1, Len(inbox[c])) /\ clientData'[i] = Kept(text)
  /\ \A j \in Slots : j # i => clientData'[j] = clientData[j] /\ m_clients[j] # c
  /\ \A d \in Clients : d # c => inbox'[d] = inbox[d]
  /\ ReadBy(c)' = ReadBy(c) + n /\ ReadBy(c) \in Int
  /\ SentBlankLine(c) \/ LinesTaken(i, c, text)

LEMMA TextOutcome ==
  ASSUME SlotInv, ReadInv, pc = "wait", UNCHANGED <<stopping, pc, slot, sent, gone>>,
         NEW i \in Slots, NEW c \in Clients, c = m_clients[i],
         NEW n \in 1 .. Len(inbox[c]), NEW text \in Seq(Tokens), NEW driver,
         Len(text) = Len(clientData[i]) + n,
         \A j \in 1 .. Len(text) :
           text[j] = IF j <= Len(clientData[i]) THEN clientData[i][j]
                     ELSE inbox[c][j - Len(clientData[i])],
         ReadsText(i, c, n, text, driver)
  PROVE  TextTaken(i, c, n, text)
<1>1. /\ inbox' = [inbox EXCEPT ![c] = SubSeq(inbox[c], n + 1, Len(inbox[c]))]
      /\ clientData' = [clientData EXCEPT ![i] = Kept(text)]
      /\ UNCHANGED <<m_clients, conn>>
  BY DEF ReadsText
<1>2. conn[c] = "open" /\ ~NotServed(c)
  BY DEF SlotInv, TypeOK, SlotsMatchConnections, Open, NotServed
<1>3. /\ inbox'[c] = SubSeq(inbox[c], n + 1, Len(inbox[c])) /\ clientData'[i] = Kept(text)
      /\ \A j \in Slots : j # i => clientData'[j] = clientData[j] /\ m_clients[j] # c
      /\ \A d \in Clients : d # c => inbox'[d] = inbox[d]
  BY <1>1, NoneAssumption DEF SlotInv, TypeOK, SlotsMatchConnections
<1>4. /\ sent[c] \in Nat /\ inbox[c] \in Seq(Tokens) /\ Len(inbox[c]) \in Nat
  BY ReadTypes DEF SlotInv
<1>5. Len(inbox'[c]) = Len(inbox[c]) - n
  <2>1. n \in 0 .. Len(inbox[c]) /\ Len(inbox[c]) \in n .. Len(inbox[c])
    BY <1>4
  <2> QED
    BY <1>3, <1>4, <2>1, PieceOf
<1>6. ReadBy(c)' = ReadBy(c) + n /\ ReadBy(c) \in Int
  BY <1>4, <1>5 DEF ReadBy
<1>7. ASSUME ~SentBlankLine(c) PROVE LinesTaken(i, c, text)
  <2>1. TextFrom(text, c, Begun(i)) /\ Begun(i) + Len(text) <= sent[c]
    BY <1>2, <1>7, TextOfScript
  <2>2. PICK k \in Nat : k = Begun(i)
    BY <2>1 DEF TextFrom
  <2>3. TextFrom(text, c, k) /\ k + Len(text) <= sent[c]
    BY <2>1, <2>2
  <2>4. BlankLines(text) = {}
    BY <1>4, <1>7, <2>1, BlankLineFound
  <2>5. PICK m \in 0 .. Len(text) :
           /\ Len(Kept(text)) = Len(text) - m /\ TextFrom(Kept(text), c, k + m)
           /\ NoNewline(Kept(text)) /\ \A q \in Newlines(text) : q <= m
    BY <2>3, <2>4, KeptBegins, Zenon
  <2>6. Len(text) \in Nat /\ Len(clientData[i]) \in Nat
    BY DEF SlotInv, TypeOK
  <2>7. Begun(i)' = k + m
    <3>1. Begun(i)' = (ReadBy(c) + n) - (Len(text) - m)
      BY <1>1, <1>3, <1>6, <2>5 DEF Begun, ReadBy
    <3>2. k = ReadBy(c) - Len(clientData[i])
      BY <2>2 DEF Begun
    <3> QED
      BY <1>6, <2>6, <3>1, <3>2
  <2> QED
    BY <2>2, <2>3, <2>4, <2>5, <2>7 DEF LinesTaken
<1> QED
  BY <1>1, <1>2, <1>3, <1>6, <1>7 DEF TextTaken

LEMMA TextKeepsRead ==
  ASSUME SlotInv, ReadInv, pc = "wait", UNCHANGED <<stopping, pc, slot, sent, gone>>,
         NEW i \in Slots, NEW c \in Clients, c = m_clients[i],
         NEW n \in 1 .. Len(inbox[c]), NEW text \in Seq(Tokens), NEW driver,
         Len(text) = Len(clientData[i]) + n,
         \A j \in 1 .. Len(text) :
           text[j] = IF j <= Len(clientData[i]) THEN clientData[i][j]
                     ELSE inbox[c][j - Len(clientData[i])],
         ReadsText(i, c, n, text, driver), ~clientEvent'[i],
         \A j \in Slots : clientEvent'[j] => clientEvent[j]
  PROVE  ReadInv'
<1>0. TextTaken(i, c, n, text)
  BY TextOutcome
<1>1. /\ conn[c] = "open" /\ UNCHANGED <<m_clients, conn>>
      /\ inbox'[c] = SubSeq(inbox[c], n + 1, Len(inbox[c])) /\ clientData'[i] = Kept(text)
      /\ \A j \in Slots : j # i => clientData'[j] = clientData[j] /\ m_clients[j] # c
      /\ \A d \in Clients : d # c => inbox'[d] = inbox[d]
      /\ ReadBy(c)' = ReadBy(c) + n /\ ReadBy(c) \in Int
  BY <1>0 DEF TextTaken
<1>2. /\ ~NotServed(c) /\ \A d \in Clients : NotServed(d) <=> NotServed(d)'
  BY <1>1 DEF NotServed
<1>3. /\ sent[c] \in Nat /\ inbox[c] \in Seq(Tokens) /\ Len(inbox[c]) \in Nat
      /\ DOMAIN inbox[c] = 1 .. Len(inbox[c])
  BY ReadTypes DEF SlotInv
<1>4. /\ inbox'[c] \in Seq(Tokens) /\ Len(inbox'[c]) = Len(inbox[c]) - n
      /\ \A j \in 1 .. Len(inbox[c]) - n : inbox'[c][j] = inbox[c][n + j]
  <2>1. n \in 0 .. Len(inbox[c]) /\ Len(inbox[c]) \in n .. Len(inbox[c])
    BY <1>3
  <2> QED
    BY <1>1, <1>3, <2>1, PieceOf
<1>5. InboxHolds(c)'
  <2>1. InboxHolds(c) /\ DOMAIN inbox'[c] = 1 .. Len(inbox[c]) - n
    BY <1>4, LenProperties DEF ReadInv
  <2>2. Len(inbox'[c]) <= sent[c]
    BY <1>3, <1>4, <2>1 DEF InboxHolds
  <2>3. ASSUME NEW j \in DOMAIN inbox'[c] PROVE inbox'[c][j] = Script[c][ReadBy(c)' + j]
    <3>1. j \in 1 .. Len(inbox[c]) - n /\ n + j \in DOMAIN inbox[c]
          /\ ReadBy(c) + (n + j) = (ReadBy(c) + n) + j
      BY <1>1, <1>3, <2>1
    <3>2. inbox[c][n + j] = Script[c][ReadBy(c) + (n + j)]
      BY <2>1, <3>1 DEF InboxHolds
    <3> QED
      BY <1>1, <1>4, <3>1, <3>2
  <2> QED
    BY <1>2, <2>2, <2>3 DEF InboxHolds
<1>6. ASSUME NEW d \in Clients, d # c PROVE InboxHolds(d)'
  <2>1. inbox'[d] = inbox[d] /\ sent' = sent /\ (NotServed(d)' => NotServed(d)) /\ InboxHolds(d)
    BY <1>1, <1>2, <1>6 DEF ReadInv
  <2> QED
    BY <2>1 DEF InboxHolds, ReadBy
<1>7. BufferHolds(i)'
  <2>1. CASE SentBlankLine(c)
    BY <1>1, <2>1 DEF BufferHolds, SentBlankLine, LineStart
  <2>2. CASE ~SentBlankLine(c)
    <3>1. PICK k \in Nat, m \in 0 .. Len(text) :
            Begun(i)' = k + m /\ TextFrom(Kept(text), c, k + m) /\ NoNewline(Kept(text))
      BY <1>0, <2>2 DEF TextTaken, LinesTaken
    <3>2. HoldsLine(clientData[i], m_clients[i], Begun(i))'
      BY <1>1, <3>1 DEF HoldsLine, TextFrom, NoNewline, LineStart
    <3> QED
      BY <3>2 DEF BufferHolds
  <2> QED
    BY <2>1, <2>2
<1>8. ASSUME NEW j \in Slots, j # i PROVE EventMeans(j)' /\ BufferHolds(j)'
  <2>1. EventMeans(j) /\ BufferHolds(j) /\ m_clients[j] \in Clients \cup {None}
    BY DEF ReadInv, SlotInv, TypeOK
  <2>2. EventMeans(j)'
    BY <1>1, <1>8, <2>1 DEF EventMeans, Closing
  <2>3. BufferHolds(j)'
    <3>1. CASE m_clients[j] = None
      BY <1>1, <3>1 DEF BufferHolds
    <3>2. CASE m_clients[j] # None
      <4>1. PICK d \in Clients : d = m_clients[j]
        BY <2>1, <3>2
      <4>2. /\ m_clients'[j] = d /\ clientData'[j] = clientData[j] /\ inbox'[d] = inbox[d]
            /\ (NotServed(d) <=> NotServed(d)')
        BY <1>1, <1>2, <1>8, <4>1
      <4>3. Begun(j)' = Begun(j)
        BY <4>1, <4>2 DEF Begun, ReadBy
      <4>4. SentBlankLine(d)' <=> SentBlankLine(d)
        BY DEF SentBlankLine, LineStart
      <4>5. ~NotServed(d) => SentBlankLine(d) \/ HoldsLine(clientData[j], d, Begun(j))
        BY <2>1, <3>2, <4>1 DEF BufferHolds
      <4> QED
        BY <4>2, <4>3, <4>4, <4>5 DEF BufferHolds, HoldsLine, TextFrom, NoNewline, LineStart
    <3> QED
      BY <3>1, <3>2
  <2> QED
    BY <2>2, <2>3
<1>9. EventMeans(i)'
  BY DEF EventMeans, Closing
<1> QED
  BY <1>5, <1>6, <1>7, <1>8, <1>9 DEF ReadInv

LEMMA WaitKeepsRead ==
  ASSUME SlotInv, ReadInv, WaitClient
  PROVE  ReadInv'
<1> USE DEF netVars
<1>1. PICK i \in Slots :
         /\ m_clients[i] # None /\ clientEvent[i]
         /\ \A j \in Slots : j < i /\ m_clients[j] # None => ~clientEvent[j]
         /\ clientEvent' = [clientEvent EXCEPT ![i] = FALSE]
         /\ IF m_clients[ServedSlot(i)] = None
            THEN UNCHANGED <<m_clients, conn, inbox, clientData, readRec, replies>>
            ELSE Receive(ServedSlot(i))
  BY DEF WaitClient
<1>2. pc = "wait" /\ UNCHANGED <<stopping, pc, slot, sent, gone>>
  BY DEF WaitClient
<1>3. TypeOK /\ clientEvent \in [Slots -> BOOLEAN]
  BY DEF SlotInv, TypeOK
<1>4. \A j \in Slots : clientEvent'[j] => clientEvent[j]
  BY <1>1, <1>3
<1>0. ServedSlot(i) \in Slots /\ ServedSlot(i) \in 0 .. i
  BY ServedSlotIsSlot, ServedBelow
<1>5. PICK s \in Slots : s = ServedSlot(i) /\ s \in 0 .. i
  BY <1>0
<1>6. CASE m_clients[s] = None
  <2>1. UNCHANGED <<m_clients, conn, inbox, clientData>>
    BY <1>1, <1>5, <1>6
  <2>2. \A d \in Clients : InboxHolds(d)'
    BY <1>2, <2>1 DEF ReadInv, InboxHolds, ReadBy, NotServed
  <2>3. ASSUME NEW j \in Slots PROVE EventMeans(j)' /\ BufferHolds(j)'
    <3>1. EventMeans(j) /\ BufferHolds(j)
      BY DEF ReadInv
    <3>2. EventMeans(j)'
      BY <1>2, <1>4, <2>1, <3>1 DEF EventMeans, Closing
    <3>3. BufferHolds(j)'
      BY <1>2, <2>1, <3>1
      DEF BufferHolds, SentBlankLine, HoldsLine, TextFrom, NoNewline, LineStart, Begun, ReadBy, NotServed
    <3> QED
      BY <3>2, <3>3
  <2> QED
    BY <2>2, <2>3 DEF ReadInv
<1>7. CASE m_clients[s] # None
  <2>1. Receive(s)
    BY <1>1, <1>5, <1>7
  <2>2. ~clientEvent'[s]
    <3>1. s = i \/ s < i
      BY <1>5 DEF Slots
    <3> QED
      BY <1>1, <1>3, <1>4, <1>7, <3>1
  <2>3. PICK c \in Clients : c = m_clients[s]
    BY <1>3, <1>7 DEF TypeOK
  <2>4. CASE CloseSlot(s)
    BY <1>2, <1>4, <1>7, <2>2, <2>4, CloseKeepsRead
  <2>5. CASE \E n \in 1 .. Len(inbox[c]), text \in Seq(Tokens) : \E driver :
               /\ Len(text) = Len(clientData[s]) + n
               /\ \A j \in 1 .. Len(text) :
                    text[j] = IF j <= Len(clientData[s]) THEN clientData[s][j]
                              ELSE inbox[c][j - Len(clientData[s])]
               /\ ReadsText(s, c, n, text, driver)
    <3>1. PICK n \in 1 .. Len(inbox[c]), text \in Seq(Tokens) : \E driver :
               /\ Len(text) = Len(clientData[s]) + n
               /\ \A j \in 1 .. Len(text) :
                    text[j] = IF j <= Len(clientData[s]) THEN clientData[s][j]
                              ELSE inbox[c][j - Len(clientData[s])]
               /\ ReadsText(s, c, n, text, driver)
      BY <2>5
    <3> QED
      BY <1>2, <1>4, <2>2, <2>3, <3>1, TextKeepsRead
  <2> QED
    BY <1>3, <2>1, <2>3, <2>4, <2>5, ReceiveOutcome
<1> QED
  BY <1>6, <1>7

LEMMA CloseClientsKeepsRead ==
  ASSUME SlotInv, ReadInv, CloseClients
  PROVE  ReadInv'
<1>1. /\ stopping' = "closing" /\ UNCHANGED <<pc, slot, sent, inbox>> /\ slot \in Slots
      /\ \A i \in Slots : m_clients'[i] = None
      /\ \A d \in Clients : conn'[d] = IF conn[d] = "open" THEN "closed" ELSE conn[d]
  BY DEF CloseClients, netVars, Open, SlotInv, TypeOK
<1>2. \A d \in Clients : NotServed(d)' => NotServed(d)
  BY <1>1, NoneAssumption DEF NotServed
<1>3. \A d \in Clients : InboxHolds(d)'
  BY <1>1, <1>2 DEF ReadInv, InboxHolds, ReadBy
<1>4. \A i \in Slots : EventMeans(i)' /\ BufferHolds(i)'
  BY <1>1 DEF EventMeans, Closing, BufferHolds
<1> QED
  BY <1>3, <1>4 DEF ReadInv

\* All but these steps are quiet.
LEMMA QuietSteps ==
  ASSUME SlotInv, [Next]_vars,
         ~(\E c \in Clients : Send(c) \/ Signal(c)), ~(AcceptClient /\ backlog # <<>>),
         ~ResetSlot, ~WaitClient, ~CloseClients
  PROVE  Quiet
<1> USE DEF netVars, threadVars
<1>1. ASSUME NEW c \in Clients, Connect(c) PROVE Quiet
  <2>1. /\ UNCHANGED <<m_clients, clientData, sent, inbox, clientEvent, replies, gone, pc, slot, stopping>>
        /\ conn[c] = "idle" /\ conn' = [conn EXCEPT ![c] = "queued"]
    BY <1>1 DEF Connect
  <2>2. \A d \in Clients : NotServed(d)' <=> NotServed(d)
    BY <2>1 DEF NotServed, SlotInv, TypeOK
  <2> QED
    BY <2>1, <2>2 DEF Quiet, Closing
<1>2. ASSUME NEW c \in Clients, Abort(c) PROVE Quiet
  <2>1. /\ UNCHANGED <<m_clients, clientData, sent, inbox, clientEvent, replies, gone, pc, slot, stopping>>
        /\ conn[c] = "queued" /\ conn' = [conn EXCEPT ![c] = "aborted"]
    BY <1>2 DEF Abort
  <2>2. \A d \in Clients : /\ NotServed(d)' => NotServed(d)
                           /\ d # c => (NotServed(d)' <=> NotServed(d))
    BY <2>1 DEF NotServed, SlotInv, TypeOK
  <2>3. \A i \in Slots : m_clients[i] # c
    BY <2>1 DEF SlotInv, SlotsMatchConnections, Open
  <2> QED
    BY <2>1, <2>2, <2>3 DEF Quiet, Closing
<1>3. ASSUME NEW c \in Clients, Leave(c) PROVE Quiet
  <2>1. /\ UNCHANGED <<m_clients, clientData, sent, inbox, clientEvent, replies, pc, slot, conn, stopping>>
        /\ gone' = [gone EXCEPT ![c] = TRUE]
    BY <1>3 DEF Leave
  <2>2. \A d \in Clients : (NotServed(d)' <=> NotServed(d)) /\ (gone[d] => gone'[d])
    BY <2>1 DEF NotServed, SlotInv, TypeOK
  <2> QED
    BY <2>1, <2>2 DEF Quiet, Closing
<1>4. CASE SignalAccept \/ KillThread \/ UNCHANGED vars
  <2>1. /\ UNCHANGED <<m_clients, clientData, sent, inbox, clientEvent, replies, gone, pc, slot,
                       conn>>
        /\ Closing => Closing'
    BY <1>4 DEF SignalAccept, KillThread, vars, Closing
  <2>2. \A d \in Clients : NotServed(d)' <=> NotServed(d)
    BY <2>1 DEF NotServed
  <2> QED
    BY <2>1, <2>2 DEF Quiet, Closing
<1>5. CASE WaitExit \/ WaitAccept \/ SelectEvents
  <2>1. /\ UNCHANGED <<m_clients, clientData, sent, inbox, clientEvent, replies, gone, slot, conn, stopping>>
        /\ (pc = "wait" /\ pc' \in {"ended", "accept"}) \/ (pc = "select" /\ pc' = "reset")
    BY <1>5 DEF WaitExit, WaitAccept, SelectEvents
  <2>2. \A d \in Clients : NotServed(d)' <=> NotServed(d)
    BY <2>1 DEF NotServed
  <2> QED
    BY <2>1, <2>2 DEF Quiet, Closing
<1>6. CASE AcceptFull \/ (AcceptClient /\ backlog = <<>>)
  <2>1. /\ UNCHANGED <<m_clients, clientData, sent, inbox, clientEvent, replies, gone, slot, stopping>>
        /\ pc = "accept" /\ pc' = "wait"
    BY <1>6 DEF AcceptFull, AcceptClient
  <2>2. CASE backlog = <<>>
    <3>1. conn' = conn
      BY <1>6, <2>2 DEF AcceptFull, AcceptClient
    <3>2. \A d \in Clients : NotServed(d)' <=> NotServed(d)
      BY <2>1, <3>1 DEF NotServed
    <3> QED
      BY <2>1, <3>2 DEF Quiet, Closing
  <2>3. CASE backlog # <<>>
    <3>1. conn' = [conn EXCEPT ![Head(backlog)] = "refused"] /\ backlog' = Tail(backlog)
      BY <1>6, <2>3 DEF AcceptFull
    <3>2. Head(backlog) \in Clients /\ conn[Head(backlog)] = "queued"
      BY <2>3, <3>1, HeadLeaves
    <3>3. PICK h \in Clients : conn' = [conn EXCEPT ![h] = "refused"] /\ conn[h] = "queued"
      BY <3>1, <3>2
    <3>4. \A d \in Clients : /\ NotServed(d)' => NotServed(d)
                             /\ d # h => (NotServed(d)' <=> NotServed(d))
      BY <2>1, <3>3 DEF NotServed, SlotInv, TypeOK
    <3>5. \A i \in Slots : m_clients[i] # h
      BY <3>3 DEF SlotInv, SlotsMatchConnections, Open
    <3> QED
      BY <2>1, <3>4, <3>5 DEF Quiet, Closing
  <2> QED
    BY <2>2, <2>3
<1>7. CASE Network
  BY <1>1, <1>2, <1>3, <1>4, <1>7 DEF Network
<1>8. CASE ServerThread
  BY <1>5, <1>6, <1>8 DEF ServerThread
<1>9. CASE CloseServer
  <2>1. /\ UNCHANGED <<m_clients, clientData, sent, inbox, clientEvent, replies, gone, pc, slot>>
        /\ stopping' = "stopped"
        /\ \A d \in Clients : conn'[d] = IF conn[d] = "queued" THEN "aborted" ELSE conn[d]
    BY <1>9 DEF CloseServer
  <2>2. ASSUME NEW d \in Clients
        PROVE  /\ NotServed(d)' => NotServed(d)
               /\ NotServed(d) => NotServed(d)' \/ \A i \in Slots : m_clients[i] # d
    <3>1. CASE conn[d] = "queued"
      BY <2>1, <3>1 DEF NotServed, SlotInv, SlotsMatchConnections, Open
    <3>2. CASE conn[d] # "queued"
      BY <2>1, <3>2 DEF NotServed
    <3> QED
      BY <3>1, <3>2
  <2> QED
    BY <2>1, <2>2 DEF Quiet, Closing
<1> QED
  BY <1>4, <1>7, <1>8, <1>9 DEF Next

LEMMA ReadKept == SlotInv /\ ReadInv /\ [Next]_vars => ReadInv'
<1> SUFFICES ASSUME SlotInv, ReadInv, [Next]_vars PROVE ReadInv'
  OBVIOUS
<1>1. ASSUME NEW c \in Clients, Send(c) \/ Signal(c) PROVE ReadInv'
  BY <1>1, SendKeepsRead, SignalKeepsRead
<1>2. CASE AcceptClient /\ backlog # <<>>
  BY <1>2, AcceptKeepsRead
<1>3. CASE ResetSlot
  BY <1>3, ResetKeepsRead
<1>4. CASE WaitClient
  BY <1>4, WaitKeepsRead
<1>5. CASE CloseClients
  BY <1>5, CloseClientsKeepsRead
<1> QED
  BY <1>1, <1>2, <1>3, <1>4, <1>5, QuietSteps, ReadStays
-----------------------------------------------------------------------------
(* Why a connection is closed.                                             *)

\* The reasons that ClosedForAReason names.
Reason(c) ==
  gone[c] \/ LineTooLong(c) \/ SentBlankLine(c) \/ stopping' # stopping \/ ~NoGap

\* A full line buffer is a line without end.
LEMMA FullBufferIsLongLine ==
  ASSUME SlotInv, ReadInv, NEW i \in Slots, NEW c \in Clients, c = m_clients[i], ~NotServed(c),
         Room(i) = 0
  PROVE  SentBlankLine(c) \/ LineTooLong(c)
<1>1. SUFFICES ASSUME ~SentBlankLine(c) PROVE LineTooLong(c)
  OBVIOUS
<1>2. HoldsLine(clientData[i], c, Begun(i)) /\ InboxHolds(c)
  BY <1>1, NoneAssumption DEF ReadInv, BufferHolds
<1>3. PICK k \in Nat : k = Begun(i)
  BY <1>2 DEF HoldsLine, TextFrom
<1> DEFINE l == Len(clientData[i])
<1>4. l \in Nat /\ DOMAIN clientData[i] = 1 .. l
  <2>1. clientData[i] \in Seq(Tokens)
    BY DEF SlotInv, TypeOK
  <2> QED
    BY <2>1, LenProperties
<1>5. l = MaxData - 1 /\ MaxData \in Nat
  BY <1>4, MaxDataAssumption DEF Room
<1>6. sent[c] \in Nat /\ Len(inbox[c]) \in Nat
  BY ReadTypes DEF SlotInv
<1>7. k = sent[c] - Len(inbox[c]) - l
  BY <1>3 DEF Begun, ReadBy
<1>8. \A j \in 1 .. l : Script[c][k + j] # NL
  BY <1>2, <1>3, <1>4 DEF HoldsLine, TextFrom, NoNewline
<1> HIDE DEF l
<1>9. k \in 0 .. sent[c] - (MaxData - 1)
  BY <1>4, <1>5, <1>6, <1>7
<1>10. ASSUME NEW j \in k + 1 .. k + MaxData - 1 PROVE Script[c][j] # NL
  <2>1. j - k \in 1 .. l /\ k + (j - k) = j
    BY <1>5
  <2> QED
    BY <1>8, <2>1
<1> QED
  BY <1>9, <1>10 DEF LineTooLong

LEMMA WaitClosesForAReason ==
  ASSUME SlotInv, ReadInv, WaitClient, NEW c \in Clients, Open(c), conn'[c] = "closed"
  PROVE  Reason(c)
<1> SUFFICES ASSUME NoGap PROVE Reason(c)
  BY DEF Reason
<1>1. PICK i \in Slots :
         /\ m_clients[i] # None /\ clientEvent[i]
         /\ IF m_clients[ServedSlot(i)] = None
            THEN UNCHANGED <<m_clients, conn, inbox, clientData, readRec, replies>>
            ELSE Receive(ServedSlot(i))
  BY DEF WaitClient
<1>2. ServedSlot(i) = i
  BY <1>1, ServedBelow
<1>3. Receive(i)
  BY <1>1, <1>2
<1>4. TypeOK /\ m_clients[i] \in Clients /\ pc = "wait"
  BY <1>1 DEF SlotInv, TypeOK, WaitClient
<1>5. PICK d \in Clients : d = m_clients[i]
  BY <1>4
<1>6. (CloseSlot(i) /\ (Room(i) = 0 \/ inbox[d] = <<>>)) \/ UNCHANGED conn
  BY <1>3, <1>4, <1>5, ReceiveOutcome DEF ReadsText
<1>7. CloseSlot(i) /\ (Room(i) = 0 \/ inbox[d] = <<>>)
  BY <1>6 DEF Open
<1>8. c = d
  BY <1>4, <1>5, <1>7 DEF CloseSlot, TypeOK, Open
<1>9. EventMeans(i) /\ ~NotServed(c) /\ c # None
  BY <1>4, NoneAssumption DEF ReadInv, NotServed, Open
<1>10. CASE Room(i) = 0
  BY <1>5, <1>8, <1>9, <1>10, FullBufferIsLongLine DEF Reason
<1>11. CASE inbox[d] = <<>>
  <2>1. ~Closing
    BY DEF SlotInv, StopSeen, WaitClient, Closing
  <2> QED
    BY <1>1, <1>5, <1>8, <1>9, <1>11, <2>1 DEF EventMeans, Reason
<1> QED
  BY <1>7, <1>10, <1>11

\* Until it ends, and as long as no slot below an open one is free, the server closes
\* only connections of clients that left or sent a line that does not fit, and those of
\* clients that sent a blank line (ThreadProc, server.cpp:236-318).
THEOREM CutOffForAReason == Spec => ClosedForAReason
<1>1. Init => SlotInv /\ ReadInv
  BY SlotsAtStart, ReadAtStart
<1>2. SlotInv /\ ReadInv /\ [Next]_vars => SlotInv' /\ ReadInv'
  BY SlotInvKept, ReadKept
<1>3. SlotInv /\ ReadInv /\ [Next]_vars =>
        [\A c \in Clients : Open(c) /\ conn'[c] = "closed" =>
           gone[c] \/ LineTooLong(c) \/ SentBlankLine(c) \/ stopping' # stopping \/ ~NoGap]_vars
  <2> SUFFICES ASSUME SlotInv, ReadInv, Next, NEW c \in Clients, Open(c), conn'[c] = "closed"
               PROVE  Reason(c)
    BY DEF Reason
  <2> USE DEF netVars, threadVars
  <2>1. CASE WaitClient
    BY <2>1, WaitClosesForAReason
  <2>2. CASE CloseClients
    BY <2>2 DEF CloseClients, Reason
  <2>7. CASE CloseServer
    BY <2>7 DEF CloseServer, Open
  <2>3. CASE Network
    BY <2>3 DEF Network, SignalAccept, Connect, Abort, Send, Leave, Signal, Open, SlotInv, TypeOK
  <2>4. CASE AcceptFull
    BY <2>4 DEF AcceptFull, Open, SlotInv, TypeOK
  <2>5. CASE AcceptClient
    BY <2>5 DEF AcceptClient, Open, SlotInv, TypeOK
  <2>6. CASE WaitExit \/ WaitAccept \/ SelectEvents \/ ResetSlot \/ KillThread
    BY <2>6 DEF WaitExit, WaitAccept, SelectEvents, ResetSlot, KillThread, Open
  <2> QED
    BY <2>1, <2>2, <2>3, <2>4, <2>5, <2>6, <2>7 DEF Next, ServerThread
<1> QED
  BY <1>1, <1>2, <1>3, PTL DEF Spec, ClosedForAReason
-----------------------------------------------------------------------------
(* Counting positions.                                                     *)

\* The members of S up to p.
UpTo(S, p) == {q \in S : q <= p}

LEMMA CountUpTo ==
  ASSUME NEW n \in Nat, NEW S \in SUBSET (1 .. n)
  PROVE  /\ IsFiniteSet(S) /\ Cardinality(S) \in Nat
         /\ \A p : IsFiniteSet(UpTo(S, p)) /\ Cardinality(UpTo(S, p)) \in Nat
         /\ \A p, q \in Int : p <= q => Cardinality(UpTo(S, p)) <= Cardinality(UpTo(S, q))
         /\ \A p \in S : \A q \in Int : q < p => Cardinality(UpTo(S, q)) < Cardinality(UpTo(S, p))
<1>0. \A q \in S : q \in Int
  OBVIOUS
<1>1. IsFiniteSet(1 .. n)
  BY FS_Interval
<1>2. IsFiniteSet(S) /\ Cardinality(S) \in Nat
  BY <1>1, FS_Subset, FS_CardinalityType
<1>3. ASSUME NEW p PROVE IsFiniteSet(UpTo(S, p)) /\ Cardinality(UpTo(S, p)) \in Nat
  <2>1. UpTo(S, p) \in SUBSET S
    BY DEF UpTo
  <2> QED
    BY <1>2, <2>1, FS_Subset, FS_CardinalityType
<1>4. ASSUME NEW p \in Int, NEW q \in Int, p <= q
      PROVE  Cardinality(UpTo(S, p)) <= Cardinality(UpTo(S, q))
  <2>1. UpTo(S, p) \in SUBSET UpTo(S, q)
    <3>1. \A x \in S : x <= p => x <= q
      BY <1>0, <1>4
    <3> QED
      BY <3>1 DEF UpTo
  <2> QED
    BY <1>3, <2>1, FS_Subset
<1>5. ASSUME NEW p \in S, NEW q \in Int, q < p
      PROVE  Cardinality(UpTo(S, q)) < Cardinality(UpTo(S, p))
  <2>1. p \in Int
    BY <1>0
  <2>2. UpTo(S, q) \in SUBSET UpTo(S, p)
    <3>1. \A x \in S : x <= q => x <= p
      BY <1>0, <1>5, <2>1
    <3> QED
      BY <3>1 DEF UpTo
  <2>3. p \in UpTo(S, p) /\ p \notin UpTo(S, q)
    BY <1>5, <2>1 DEF UpTo
  <2>4. /\ Cardinality(UpTo(S, q)) <= Cardinality(UpTo(S, p))
        /\ Cardinality(UpTo(S, p)) # Cardinality(UpTo(S, q))
    BY <1>3, <2>2, <2>3, FS_Subset
  <2> QED
    BY <1>3, <2>4
<1> QED
  BY <1>2, <1>3, <1>4, <1>5

\* A position with j positions up to it is the j-th.
LEMMA NthIs ==
  ASSUME NEW n \in Nat, NEW S \in SUBSET (1 .. n), NEW p \in S
  PROVE  Nth(S, Cardinality(UpTo(S, p))) = p
<1>1. ASSUME NEW q \in S, Cardinality(UpTo(S, q)) = Cardinality(UpTo(S, p)) PROVE q = p
  <2>1. p \in Int /\ q \in Int
    OBVIOUS
  <2>2. /\ Cardinality(UpTo(S, p)) \in Nat /\ Cardinality(UpTo(S, q)) \in Nat
        /\ q < p => Cardinality(UpTo(S, q)) < Cardinality(UpTo(S, p))
        /\ p < q => Cardinality(UpTo(S, p)) < Cardinality(UpTo(S, q))
    BY <2>1, CountUpTo
  <2>3. ~(q < p) /\ ~(p < q)
    BY <1>1, <2>1, <2>2
  <2> QED
    BY <2>1, <2>3
<1>2. Nth(S, Cardinality(UpTo(S, p))) = CHOOSE x \in S : Cardinality(UpTo(S, x)) = Cardinality(UpTo(S, p))
  BY DEF Nth, UpTo
<1> QED
  BY <1>1, <1>2

\* There is one for each number.
LEMMA NthFound ==
  ASSUME NEW n \in Nat, NEW S \in SUBSET (1 .. n), NEW j \in 1 .. Cardinality(S)
  PROVE  Nth(S, j) \in S /\ Cardinality(UpTo(S, Nth(S, j))) = j
<1> DEFINE B == {p \in S : j <= Cardinality(UpTo(S, p))}
<1>1. /\ IsFiniteSet(S) /\ Cardinality(S) \in Nat /\ j \in Nat /\ j >= 1
      /\ \A p : IsFiniteSet(UpTo(S, p)) /\ Cardinality(UpTo(S, p)) \in Nat
  <2>1. /\ IsFiniteSet(S) /\ Cardinality(S) \in Nat
        /\ \A p : IsFiniteSet(UpTo(S, p)) /\ Cardinality(UpTo(S, p)) \in Nat
    BY CountUpTo
  <2> QED
    BY <2>1
<1>2. B # {}
  <2>1. S # {}
    BY <1>1, FS_EmptySet
  <2>2. S \in SUBSET (0 .. n)
    OBVIOUS
  <2>3. Max(S) \in S /\ \A q \in S : q <= Max(S)
    BY <2>1, <2>2, GreatestOfBounded
  <2>4. UpTo(S, Max(S)) = S
    BY <2>3 DEF UpTo
  <2>5. Max(S) \in B
    BY <1>1, <2>3, <2>4
  <2> QED
    BY <2>5
<1>3. B \in SUBSET Nat
  <2>1. \A q \in S : q \in Nat
    OBVIOUS
  <2> QED
    BY <2>1
<1>4. PICK p \in B : \A q \in B : p <= q
  <2> HIDE DEF B
  <2> QED
    BY <1>2, <1>3, LeastOfNaturals
<1>5. p \in S /\ p \in Nat /\ j <= Cardinality(UpTo(S, p))
  OBVIOUS
<1>6. Cardinality(UpTo(S, p)) = j
  <2> SUFFICES ASSUME j < Cardinality(UpTo(S, p)) PROVE FALSE
    BY <1>1, <1>5
  <2> DEFINE below == UpTo(S, p) \ {p}
  <2>1. IsFiniteSet(below) /\ Cardinality(below) = Cardinality(UpTo(S, p)) - 1
    <3>1. p \in UpTo(S, p)
      BY <1>5 DEF UpTo
    <3> QED
      BY <1>1, <3>1, FS_RemoveElement
  <2>2. below # {} /\ below \in SUBSET (0 .. n)
    <3>1. Cardinality(below) # 0
      BY <1>1, <2>1
    <3> QED
      <4>1. below # {}
        BY <2>1, <3>1, FS_EmptySet
      <4>2. \A q \in S : q \in 0 .. n
        OBVIOUS
      <4>3. below \in SUBSET S
        BY DEF UpTo
      <4> QED
        BY <4>1, <4>2, <4>3
  <2>3. Max(below) \in below /\ \A q \in below : q <= Max(below)
    BY <2>2, GreatestOfBounded
  <2>4. PICK r \in below : \A q \in below : q <= r
    BY <2>3
  <2>5. r \in S /\ r < p /\ r \in Nat
    BY <1>5 DEF UpTo
  <2>6. UpTo(S, r) = below
    <3>1. \A q \in S : q \in Int
      OBVIOUS
    <3>2. \A q \in S : q <= r <=> q <= p /\ q # p
      <4> TAKE q \in S
      <4>1. q <= p /\ q # p => q <= r
        BY <2>4 DEF UpTo
      <4> QED
        BY <1>5, <2>5, <3>1, <4>1
    <3> QED
      BY <3>2 DEF UpTo
  <2>7. r \in B
    BY <1>1, <1>5, <2>1, <2>5, <2>6
  <2> QED
    BY <1>4, <1>5, <2>5, <2>7
<1> QED
  BY <1>5, <1>6, NthIs

\* Positions moved by k are as many.
LEMMA CountMoved ==
  ASSUME NEW n \in Nat, NEW S \in SUBSET (1 .. n), NEW k \in Nat
  PROVE  /\ IsFiniteSet({k + q : q \in S})
         /\ Cardinality({k + q : q \in S}) = Cardinality(S)
<1> DEFINE T == {k + q : q \in S}
           f == [q \in S |-> k + q]
<1>1. IsFiniteSet(S) /\ Cardinality(S) \in Nat
  BY CountUpTo
<1>2. f \in Bijection(S, T)
  <2>1. f \in [S -> T] /\ \A t \in T : \E q \in S : f[q] = t
    OBVIOUS
  <2>2. \A p, q \in S : f[p] = f[q] => p = q
    OBVIOUS
  <2> QED
    BY <2>1, <2>2 DEF Bijection, Injection, Surjection, IsInjective
<1>3. ExistsBijection(S, T)
  BY <1>2 DEF ExistsBijection
<1> HIDE DEF T
<1>4. IsFiniteSet(T) /\ Cardinality(T) = Cardinality(S)
  BY <1>1, <1>3, FS_Bijection
<1> QED
  BY <1>4 DEF T
-----------------------------------------------------------------------------
(* The lines of a script and those of a part of it.                        *)

\* Lines of c that end at or before position k.
LinesTo(c, k) == Cardinality(UpTo(Newlines(Script[c]), k))

LEMMA NewlinePlaces ==
  ASSUME NEW S, NEW t \in Seq(S)
  PROVE  Len(t) \in Nat /\ DOMAIN t = 1 .. Len(t) /\ Newlines(t) \in SUBSET (1 .. Len(t))
<1>1. Len(t) \in Nat /\ DOMAIN t = 1 .. Len(t)
  OBVIOUS
<1> QED
  BY <1>1 DEF Newlines

LEMMA SameLine ==
  ASSUME NEW c \in Clients, Script[c] \in Seq(Tokens), NEW t \in Seq(Tokens), NEW k \in Nat,
         TextFrom(t, c, k), k + Len(t) <= Len(Script[c]), NEW p \in Newlines(t)
  PROVE  k + p \in Newlines(Script[c]) /\ LineAt(Script[c], k + p) = LineAt(t, p)
<1> DEFINE s == Script[c]
           m == LastBefore(t, p)
           M == LastBefore(s, k + p)
<1>1. /\ Len(t) \in Nat /\ DOMAIN t = 1 .. Len(t) /\ p \in 1 .. Len(t) /\ p \in 1 .. Len(t) + 1
      /\ t[p] = NL
  <2>1. Len(t) \in Nat /\ DOMAIN t = 1 .. Len(t)
    BY NewlinePlaces
  <2> QED
    BY <2>1 DEF Newlines
<1>2. /\ Len(s) \in Nat /\ DOMAIN s = 1 .. Len(s)
      /\ k + p \in 1 .. Len(s) /\ k + p \in 1 .. Len(s) + 1
  <2>1. Len(s) \in Nat /\ DOMAIN s = 1 .. Len(s)
    BY NewlinePlaces
  <2> QED
    BY <1>1, <2>1
<1>3. \A j \in 1 .. Len(t) : t[j] = s[k + j]
  BY <1>1 DEF TextFrom
<1>4. /\ m \in 0 .. p - 1 /\ (m = 0 \/ t[m] = NL)
      /\ \A q \in Newlines(t) : q < p => q <= m
  BY <1>1, LineBegins
<1>5. /\ M \in 0 .. (k + p) - 1 /\ (M = 0 \/ s[M] = NL)
      /\ \A q \in Newlines(s) : q < k + p => q <= M
  BY <1>2, LineBegins
<1>6. /\ LineAt(t, p) \in Seq(Tokens) /\ Len(LineAt(t, p)) = p - 1 - m
      /\ \A j \in 1 .. p - 1 - m : LineAt(t, p)[j] = t[m + j]
  BY <1>1, LineHolds
<1>7. /\ LineAt(s, k + p) \in Seq(Tokens) /\ Len(LineAt(s, k + p)) = (k + p) - 1 - M
      /\ \A j \in 1 .. (k + p) - 1 - M : LineAt(s, k + p)[j] = s[M + j]
  BY <1>2, LineHolds
<1> HIDE DEF m, M
<1>8. M = k + m
  <2>1. k + m <= M
    <3>1. CASE m = 0
      <4>1. k = 0 \/ s[k] = NL
        BY DEF TextFrom, LineStart
      <4>2. CASE k = 0
        BY <1>1, <1>5, <3>1, <4>2
      <4>3. CASE k # 0 /\ s[k] = NL
        <5>1. k \in Newlines(s) /\ k < k + p
          BY <1>1, <1>2, <4>3 DEF Newlines
        <5> QED
          BY <1>5, <3>1, <5>1
      <4> QED
        BY <4>1, <4>2, <4>3
    <3>2. CASE m # 0
      <4>1. m \in 1 .. Len(t) /\ t[m] = NL /\ k + m < k + p /\ k + m \in 1 .. Len(s)
        BY <1>1, <1>2, <1>4, <3>2
      <4>2. k + m \in Newlines(s)
        BY <1>2, <1>3, <4>1 DEF Newlines
      <4> QED
        BY <1>5, <4>1, <4>2
    <3> QED
      BY <3>1, <3>2
  <2>2. ~(k + m < M)
    <3> SUFFICES ASSUME k + m < M PROVE FALSE
      OBVIOUS
    <3>1. M - k \in 1 .. Len(t) /\ k + (M - k) = M /\ M - k < p /\ ~(M - k <= m) /\ M # 0
      BY <1>1, <1>4, <1>5
    <3>2. t[M - k] = NL
      BY <1>3, <1>5, <3>1
    <3>3. M - k \in Newlines(t)
      BY <1>1, <3>1, <3>2 DEF Newlines
    <3> QED
      BY <1>4, <3>1, <3>3
  <2> QED
    BY <1>4, <1>5, <2>1, <2>2
<1>9. (k + p) - 1 - M = p - 1 - m
  BY <1>1, <1>4, <1>8
<1>10. ASSUME NEW j \in 1 .. p - 1 - m PROVE LineAt(s, k + p)[j] = LineAt(t, p)[j]
  <2>1. m + j \in 1 .. Len(t) /\ k + (m + j) = M + j
    BY <1>1, <1>4, <1>8
  <2> QED
    BY <1>3, <1>6, <1>7, <1>9, <2>1
<1>11. LineAt(s, k + p) = LineAt(t, p)
  <2> DEFINE a == LineAt(s, k + p)
             b == LineAt(t, p)
  <2>1. a \in Seq(Tokens) /\ b \in Seq(Tokens) /\ Len(a) = Len(b)
        /\ \A j \in 1 .. Len(a) : a[j] = b[j]
    BY <1>6, <1>7, <1>9, <1>10
  <2> HIDE DEF a, b
  <2>2. a = b
    BY <2>1, SeqEqual
  <2> QED
    BY <2>2 DEF a, b
<1>12. k + p \in Newlines(s)
  BY <1>1, <1>2, <1>3 DEF Newlines
<1> QED
  BY <1>11, <1>12

LEMMA LinesCounted ==
  ASSUME NEW c \in Clients, Script[c] \in Seq(Tokens), NEW t \in Seq(Tokens), NEW k \in Nat,
         TextFrom(t, c, k), k + Len(t) <= Len(Script[c]), NEW p \in 0 .. Len(t)
  PROVE  LinesTo(c, k + p) = LinesTo(c, k) + Cardinality(UpTo(Newlines(t), p))
<1> DEFINE s == Script[c]
           A == UpTo(Newlines(s), k)
           B == UpTo(Newlines(t), p)
           D == {k + q : q \in B}
<1>1. /\ Len(t) \in Nat /\ DOMAIN t = 1 .. Len(t) /\ Newlines(t) \in SUBSET (1 .. Len(t))
      /\ Len(s) \in Nat /\ DOMAIN s = 1 .. Len(s) /\ Newlines(s) \in SUBSET (1 .. Len(s))
  BY NewlinePlaces
<1>2. IsFiniteSet(A) /\ Cardinality(A) \in Nat /\ IsFiniteSet(B) /\ Cardinality(B) \in Nat
  BY <1>1, CountUpTo
<1>3. B \in SUBSET (1 .. Len(t))
  BY <1>1 DEF UpTo
<1>4. IsFiniteSet(D) /\ Cardinality(D) = Cardinality(B)
  <2> HIDE DEF B
  <2> QED
    BY <1>1, <1>3, CountMoved
<1>5. A \cap D = {}
  <2>1. \A x \in A : x <= k
    BY DEF UpTo
  <2>2. \A x \in D : \E q \in 1 .. Len(t) : x = k + q
    BY <1>3
  <2>3. \A q \in 1 .. Len(t) : ~(k + q <= k)
    OBVIOUS
  <2> HIDE DEF A, D
  <2> QED
    BY <2>1, <2>2, <2>3
<1>6. UpTo(Newlines(s), k + p) = A \cup D
  <2>1. ASSUME NEW x \in UpTo(Newlines(s), k + p), ~(x <= k) PROVE x \in D
    <3>1. x \in Newlines(s) /\ x \in 1 .. Len(s) /\ x <= k + p /\ s[x] = NL
      BY <1>1 DEF UpTo, Newlines
    <3>2. x - k \in 1 .. Len(t) /\ x - k <= p /\ k + (x - k) = x
      BY <1>1, <2>1, <3>1
    <3>3. t[x - k] = NL
      BY <1>1, <3>1, <3>2 DEF TextFrom
    <3>4. x - k \in B
      BY <1>1, <3>2, <3>3 DEF UpTo, Newlines
    <3> HIDE DEF B
    <3> QED
      BY <3>2, <3>4
  <2>2. ASSUME NEW x \in UpTo(Newlines(s), k + p), x <= k PROVE x \in A
    BY <2>2 DEF UpTo
  <2>3. ASSUME NEW x \in A PROVE x \in UpTo(Newlines(s), k + p)
    <3>1. x \in Int /\ x <= k /\ x \in Newlines(s)
      BY <1>1 DEF UpTo
    <3>2. x <= k + p
      BY <1>1, <3>1
    <3> QED
      BY <3>1, <3>2 DEF UpTo
  <2>4. ASSUME NEW x \in D PROVE x \in UpTo(Newlines(s), k + p)
    <3>1. PICK q \in B : x = k + q
      OBVIOUS
    <3>2. q \in Newlines(t) /\ q <= p /\ q \in 1 .. Len(t)
      BY <1>1 DEF UpTo
    <3>3. k + q \in Newlines(s)
      BY <3>2, SameLine
    <3> QED
      BY <3>1, <3>2, <3>3 DEF UpTo
  <2> HIDE DEF A, D
  <2> QED
    BY <2>1, <2>2, <2>3, <2>4
<1> HIDE DEF A, B, D, s
<1>7. Cardinality(A \cup D) = Cardinality(A) + Cardinality(D)
  <2>1. Cardinality(A \cup D) = Cardinality(A) + Cardinality(D) - Cardinality(A \cap D)
    BY <1>2, <1>4, FS_Union
  <2>2. Cardinality(A \cap D) = 0
    BY <1>5, FS_EmptySet
  <2> QED
    BY <1>2, <1>4, <2>1, <2>2
<1> QED
  BY <1>4, <1>6, <1>7 DEF LinesTo, A, B, s

\* The lines of a text are the next lines of the script.
LEMMA LinesOfText ==
  ASSUME NEW c \in Clients, Script[c] \in Seq(Tokens), NEW t \in Seq(Tokens), NEW k \in Nat,
         TextFrom(t, c, k), k + Len(t) <= Len(Script[c]),
         NEW j \in 1 .. Cardinality(Newlines(t))
  PROVE  LineAt(Script[c], Nth(Newlines(Script[c]), LinesTo(c, k) + j))
           = LineAt(t, Nth(Newlines(t), j))
<1> DEFINE s == Script[c]
<1>1. /\ Len(t) \in Nat /\ Newlines(t) \in SUBSET (1 .. Len(t))
      /\ Len(s) \in Nat /\ Newlines(s) \in SUBSET (1 .. Len(s))
  BY NewlinePlaces
<1>2. Nth(Newlines(t), j) \in Newlines(t) /\ Cardinality(UpTo(Newlines(t), Nth(Newlines(t), j))) = j
  BY <1>1, NthFound
<1>3. PICK p \in Newlines(t) : p = Nth(Newlines(t), j) /\ Cardinality(UpTo(Newlines(t), p)) = j
  BY <1>2
<1>4. p \in 0 .. Len(t)
  BY <1>1
<1>5. LinesTo(c, k + p) = LinesTo(c, k) + j
  BY <1>3, <1>4, LinesCounted
<1>6. k + p \in Newlines(s) /\ LineAt(s, k + p) = LineAt(t, p)
  BY SameLine
<1>7. Nth(Newlines(s), LinesTo(c, k + p)) = k + p
  <2> HIDE DEF s
  <2>1. Nth(Newlines(s), Cardinality(UpTo(Newlines(s), k + p))) = k + p
    BY <1>1, <1>6, NthIs
  <2> QED
    BY <2>1 DEF LinesTo, s
<1> QED
  BY <1>3, <1>5, <1>6, <1>7
-----------------------------------------------------------------------------
(* Replies and lines.                                                      *)

AnyReply == {Reply(line, driver) : line \in Seq(Tokens), driver \in BOOLEAN}

\* c was answered its lines up to position k, each once and in their order.
RepliesTo(c, k) ==
  /\ Len(replies[c]) = LinesTo(c, k)
  /\ \A j \in 1 .. Len(replies[c]) :
       replies[c][j].command = LineAt(Script[c], Nth(Newlines(Script[c]), j))

\* While c is served that is the position where its line buffer begins.
Answered(c) ==
  \E k \in 0 .. sent[c] :
    /\ RepliesTo(c, k)
    /\ NotServed(c) => k = 0
    /\ \A i \in Slots : m_clients[i] = c /\ ~NotServed(c) => k = Begun(i)

ReplyInv ==
  /\ replies \in [Clients -> Seq(AnyReply)]
  /\ \A c \in Clients : SentBlankLine(c) \/ Answered(c)

\* Where the step leaves c's replies and what of its script is executed.
Untouched(c) ==
  /\ replies'[c] = replies[c] /\ sent[c] <= sent'[c]
  /\ NotServed(c)' => NotServed(c)
  /\ \A i \in Slots : m_clients'[i] = c /\ ~NotServed(c)' =>
       \/ m_clients[i] = c /\ ~NotServed(c) /\ Begun(i)' = Begun(i)
       \/ NotServed(c) /\ Begun(i)' = 0

LEMMA AnswersStay ==
  ASSUME TypeOK, TypeOK', NEW c \in Clients, SentBlankLine(c) \/ Answered(c), Untouched(c)
  PROVE  SentBlankLine(c)' \/ Answered(c)'
<1>1. sent[c] \in Nat /\ sent'[c] \in Nat /\ sent[c] <= sent'[c]
  BY DEF TypeOK, Untouched
<1>2. CASE SentBlankLine(c)
  BY <1>1, <1>2, BlankLineStays
<1>3. CASE Answered(c)
  <2>1. PICK k \in 0 .. sent[c] :
          /\ RepliesTo(c, k) /\ (NotServed(c) => k = 0)
          /\ \A i \in Slots : m_clients[i] = c /\ ~NotServed(c) => k = Begun(i)
    BY <1>3 DEF Answered
  <2>2. k \in 0 .. sent'[c]
    BY <1>1
  <2>3. RepliesTo(c, k)'
    BY <2>1 DEF Untouched, RepliesTo, LinesTo, UpTo
  <2>4. NotServed(c)' => k = 0
    BY <2>1 DEF Untouched
  <2>5. ASSUME NEW i \in Slots, m_clients'[i] = c, ~NotServed(c)' PROVE k = Begun(i)'
    BY <2>1, <2>5 DEF Untouched
  <2> QED
    BY <2>2, <2>3, <2>4, <2>5 DEF Answered
<1> QED
  BY <1>2, <1>3

LEMMA AnswersAtStart == Init => ReplyInv
<1> SUFFICES ASSUME Init PROVE ReplyInv
  OBVIOUS
<1>1. replies \in [Clients -> Seq(AnyReply)]
  BY DEF Init
<1>2. ASSUME NEW c \in Clients PROVE Answered(c)
  <2>1. sent[c] = 0 /\ replies[c] = <<>> /\ conn[c] = "idle" /\ Len(<<>>) = 0
    BY DEF Init
  <2>2. NotServed(c)
    BY <2>1 DEF NotServed
  <2>3. LinesTo(c, 0) = 0
    <3>1. Script[c] \in Seq(Tokens)
      BY ReadTypes, TypesAtStart
    <3>2. Newlines(Script[c]) \in SUBSET (1 .. Len(Script[c])) /\ Len(Script[c]) \in Nat
      BY <3>1, NewlinePlaces
    <3>3. UpTo(Newlines(Script[c]), 0) = {}
      BY <3>2 DEF UpTo
    <3> QED
      BY <3>3, FS_EmptySet DEF LinesTo
  <2>4. RepliesTo(c, 0)
    BY <2>1, <2>3 DEF RepliesTo
  <2>5. 0 \in 0 .. sent[c]
    BY <2>1
  <2> QED
    BY <2>2, <2>4, <2>5 DEF Answered
<1> QED
  BY <1>1, <1>2 DEF ReplyInv

LEMMA QuietAnswers ==
  ASSUME TypeOK, Quiet, NEW c \in Clients
  PROVE  Untouched(c)
<1>1. UNCHANGED <<m_clients, clientData, sent, inbox, replies>> /\ sent[c] \in Nat
      /\ (NotServed(c)' => NotServed(c))
      /\ (NotServed(c) => NotServed(c)' \/ \A i \in Slots : m_clients[i] # c)
  BY DEF Quiet, TypeOK
<1>2. \A i \in Slots : Begun(i)' = Begun(i)
  BY <1>1 DEF Begun, ReadBy
<1> QED
  BY <1>1, <1>2 DEF Untouched

LEMMA SendAnswers ==
  ASSUME TypeOK, NEW d \in Clients, Send(d), NEW c \in Clients
  PROVE  Untouched(c)
<1> USE DEF netVars, threadVars
<1>1. PICK n \in sent[d] + 1 .. Len(Script[d]) :
         /\ sent' = [sent EXCEPT ![d] = n]
         /\ inbox' = [inbox EXCEPT ![d] = @ \o SubSeq(Script[d], sent[d] + 1, n)]
  BY DEF Send
<1>2. UNCHANGED <<m_clients, clientData, pc, slot, conn, replies>>
  BY DEF Send
<1>3. /\ sent[d] \in Nat /\ inbox[d] \in Seq(Tokens) /\ Len(inbox[d]) \in Nat
      /\ Script[d] \in Seq(Tokens) /\ Len(Script[d]) \in Nat /\ sent[d] <= Len(Script[d])
  BY ReadTypes
<1>4. /\ SubSeq(Script[d], sent[d] + 1, n) \in Seq(Tokens)
      /\ Len(SubSeq(Script[d], sent[d] + 1, n)) = n - sent[d]
  <2>1. sent[d] \in 0 .. Len(Script[d]) /\ n \in sent[d] .. Len(Script[d])
    BY <1>3
  <2> QED
    BY <1>3, <2>1, PieceOf
<1>5. Len(inbox[d] \o SubSeq(Script[d], sent[d] + 1, n)) = Len(inbox[d]) + (n - sent[d])
  BY <1>3, <1>4, ConcatProperties
<1>6. sent'[d] = n /\ Len(inbox'[d]) = Len(inbox[d]) + (n - sent[d])
      /\ \A e \in Clients : e # d => sent'[e] = sent[e] /\ inbox'[e] = inbox[e]
  BY <1>1, <1>5 DEF TypeOK
<1>7. ReadBy(d)' = ReadBy(d)
  <2>1. n - (Len(inbox[d]) + (n - sent[d])) = sent[d] - Len(inbox[d])
    BY <1>3
  <2> QED
    BY <1>6, <2>1 DEF ReadBy
<1>8. \A e \in Clients : ReadBy(e)' = ReadBy(e)
  BY <1>6, <1>7 DEF ReadBy
<1>9. sent[c] <= sent'[c]
  <2>1. CASE c = d
    BY <1>3, <1>6, <2>1
  <2>2. CASE c # d
    BY <1>6, <2>2 DEF TypeOK
  <2> QED
    BY <2>1, <2>2
<1>10. NotServed(c)' <=> NotServed(c)
  BY <1>2 DEF NotServed
<1>11. ASSUME NEW i \in Slots, m_clients'[i] = c PROVE m_clients[i] = c /\ Begun(i)' = Begun(i)
  BY <1>2, <1>8, <1>11 DEF Begun
<1> QED
  BY <1>2, <1>9, <1>10, <1>11 DEF Untouched

LEMMA SignalAnswers ==
  ASSUME TypeOK, NEW d \in Clients, Signal(d), NEW c \in Clients
  PROVE  Untouched(c)
<1>1. UNCHANGED <<m_clients, clientData, pc, slot, conn, sent, inbox, replies>> /\ sent[c] \in Nat
  BY DEF Signal, TypeOK, netVars, threadVars
<1>2. (NotServed(c)' <=> NotServed(c)) /\ \A i \in Slots : Begun(i)' = Begun(i)
  BY <1>1 DEF NotServed, Begun, ReadBy
<1> QED
  BY <1>1, <1>2 DEF Untouched

LEMMA AcceptAnswers ==
  ASSUME SlotInv, AcceptClient, backlog # <<>>, NEW c \in Clients
  PROVE  Untouched(c)
<1> USE DEF netVars, threadVars
<1>1. PICK i \in Slots :
         /\ m_clients' = [m_clients EXCEPT ![i] = Head(backlog)]
         /\ conn' = [conn EXCEPT ![Head(backlog)] = "open"]
         /\ backlog' = Tail(backlog) /\ slot' = i /\ pc' = "select"
  BY DEF AcceptClient
<1>2. pc = "accept" /\ UNCHANGED <<clientData, sent, inbox, replies>> /\ sent[c] \in Nat
  BY DEF AcceptClient, SlotInv, TypeOK
<1>0. Head(backlog) \in Clients /\ conn[Head(backlog)] = "queued"
  BY <1>1, HeadLeaves
<1>3. PICK h \in Clients : h = Head(backlog) /\ conn[h] = "queued"
  BY <1>0
<1>4. m_clients' = [m_clients EXCEPT ![i] = h] /\ conn' = [conn EXCEPT ![h] = "open"]
  BY <1>1, <1>3
<1>5. m_clients'[i] = h /\ \A j \in Slots : j # i => m_clients'[j] = m_clients[j]
  BY <1>4 DEF SlotInv, TypeOK
<1>6. pc' = "select" /\ m_clients'[slot'] = h
  BY <1>1, <1>5
<1>7. CASE c = h
  <2>1. NotServed(c) /\ NotServed(c)'
    BY <1>3, <1>6, <1>7 DEF NotServed
  <2> QED
    BY <1>2, <2>1 DEF Untouched
<1>8. CASE c # h
  <2>1. conn'[c] = conn[c]
    BY <1>4, <1>8 DEF SlotInv, TypeOK
  <2>2. NotServed(c)' <=> NotServed(c)
    BY <1>2, <1>6, <1>8, <2>1 DEF NotServed
  <2>3. ASSUME NEW j \in Slots, m_clients'[j] = c PROVE m_clients[j] = c /\ Begun(j)' = Begun(j)
    <3>1. m_clients'[j] = m_clients[j]
      BY <1>5, <1>8, <2>3
    <3> QED
      BY <1>2, <2>3, <3>1 DEF Begun, ReadBy
  <2> QED
    BY <1>2, <2>2, <2>3 DEF Untouched
<1> QED
  BY <1>7, <1>8

LEMMA ResetAnswers ==
  ASSUME SlotInv, ReadInv, ResetSlot, NEW c \in Clients
  PROVE  Untouched(c)
<1> USE DEF netVars, threadVars
<1>1. /\ pc = "reset" /\ pc' = "wait" /\ clientData' = [clientData EXCEPT ![slot] = <<>>]
      /\ UNCHANGED <<m_clients, slot, conn, sent, inbox, replies>>
      /\ sent[c] \in Nat
  BY DEF ResetSlot, SlotInv, TypeOK
<1>2. slot \in Slots
  BY <1>1 DEF SlotInv, TypeOK
<1>3. NotServed(c)' => NotServed(c)
  BY <1>1 DEF NotServed
<1>4. ASSUME NEW i \in Slots, m_clients'[i] = c, ~NotServed(c)'
      PROVE  \/ m_clients[i] = c /\ ~NotServed(c) /\ Begun(i)' = Begun(i)
             \/ NotServed(c) /\ Begun(i)' = 0
  <2>1. m_clients[i] = c
    BY <1>1, <1>4
  <2>2. CASE i = slot
    <3>1. NotServed(c)
      BY <1>1, <2>1, <2>2 DEF NotServed
    <3>2. ReadBy(c) = 0 /\ Len(<<>>) = 0
      BY <3>1 DEF ReadInv, InboxHolds
    <3>3. clientData'[i] = <<>>
      BY <1>1, <1>2, <2>2 DEF SlotInv, TypeOK
    <3>4. Begun(i)' = 0
      BY <1>1, <2>1, <3>2, <3>3 DEF Begun, ReadBy
    <3> QED
      BY <3>1, <3>4
  <2>3. CASE i # slot
    <3>1. m_clients[slot] # c
      BY <1>2, <2>1, <2>3, NoneAssumption DEF SlotInv, SlotsMatchConnections
    <3>2. ~NotServed(c)
      BY <1>1, <1>4, <3>1 DEF NotServed
    <3>3. clientData'[i] = clientData[i]
      BY <1>1, <2>3 DEF SlotInv, TypeOK
    <3>4. Begun(i)' = Begun(i)
      BY <1>1, <3>3 DEF Begun, ReadBy
    <3> QED
      BY <2>1, <3>2, <3>4
  <2> QED
    BY <2>2, <2>3
<1> QED
  BY <1>1, <1>3, <1>4 DEF Untouched

LEMMA CloseClientsAnswers ==
  ASSUME TypeOK, CloseClients, NEW c \in Clients
  PROVE  Untouched(c)
<1>1. /\ UNCHANGED <<pc, slot, sent, replies>> /\ sent[c] \in Nat /\ slot \in Slots
      /\ \A i \in Slots : m_clients'[i] = None
      /\ conn'[c] = IF conn[c] = "open" THEN "closed" ELSE conn[c]
  BY DEF CloseClients, netVars, TypeOK, Open
<1>2. NotServed(c)' => NotServed(c)
  BY <1>1, NoneAssumption DEF NotServed
<1> QED
  BY <1>1, <1>2, NoneAssumption DEF Untouched

LEMMA CloseAnswers ==
  ASSUME SlotInv, pc = "wait", UNCHANGED <<pc, slot, sent>>,
         NEW s \in Slots, m_clients[s] # None, CloseSlot(s), NEW c \in Clients
  PROVE  Untouched(c)
<1>1. /\ m_clients' = [m_clients EXCEPT ![s] = None]
      /\ conn' = [conn EXCEPT ![m_clients[s]] = "closed"]
      /\ inbox' = [inbox EXCEPT ![m_clients[s]] = <<>>]
      /\ UNCHANGED <<clientData, replies>> /\ sent[c] \in Nat
  BY DEF CloseSlot, SlotInv, TypeOK
<1>2. m_clients[s] \in Clients /\ c # None
  BY NoneAssumption DEF SlotInv, TypeOK
<1>3. NotServed(c)' => NotServed(c)
  BY <1>1 DEF NotServed, SlotInv, TypeOK
<1>4. ASSUME NEW i \in Slots, m_clients'[i] = c, ~NotServed(c)'
      PROVE  m_clients[i] = c /\ ~NotServed(c) /\ Begun(i)' = Begun(i)
  <2>1. i # s /\ m_clients[i] = c
    BY <1>1, <1>2, <1>4 DEF SlotInv, TypeOK
  <2>2. c # m_clients[s]
    BY <1>2, <2>1 DEF SlotInv, SlotsMatchConnections
  <2>3. conn'[c] = conn[c] /\ inbox'[c] = inbox[c]
    BY <1>1, <2>2 DEF SlotInv, TypeOK
  <2>4. ~NotServed(c)
    BY <1>4, <2>3 DEF NotServed
  <2>5. Begun(i)' = Begun(i)
    BY <1>1, <1>4, <2>1, <2>3 DEF Begun, ReadBy
  <2> QED
    BY <2>1, <2>4, <2>5
<1> QED
  BY <1>1, <1>3, <1>4 DEF Untouched

\* The lines that the loop takes from a text.
LEMMA LinesReadAre ==
  ASSUME NEW t \in Seq(Tokens)
  PROVE  /\ LinesRead(t) \in Seq(Seq(Tokens))
         /\ BlankLines(t) = {} =>
              /\ Cardinality(Newlines(t)) \in Nat /\ Len(LinesRead(t)) = Cardinality(Newlines(t))
              /\ \A k \in 1 .. Cardinality(Newlines(t)) :
                   LinesRead(t)[k] = LineAt(t, Nth(Newlines(t), k))
<1> DEFINE e == {p \in Newlines(t) : \A b \in BlankLines(t) : p < b}
<1>1. /\ Len(t) \in Nat /\ Newlines(t) \in SUBSET (1 .. Len(t))
  BY NewlinePlaces
<1>2. e \in SUBSET (1 .. Len(t))
  BY <1>1
<1>3. LinesRead(t) = [k \in 1 .. Cardinality(e) |-> LineAt(t, Nth(e, k))]
  BY DEF LinesRead, LinesAt
<1>4. BlankLines(t) = {} => e = Newlines(t)
  OBVIOUS
<1> HIDE DEF e
<1>5. Cardinality(e) \in Nat
  BY <1>1, <1>2, CountUpTo
<1>6. \A k \in 1 .. Cardinality(e) : LineAt(t, Nth(e, k)) \in Seq(Tokens)
  <2> TAKE k \in 1 .. Cardinality(e)
  <2>1. Nth(e, k) \in e
    BY <1>1, <1>2, NthFound
  <2>2. PICK p \in 1 .. Len(t) : p = Nth(e, k)
    BY <1>2, <2>1
  <2>3. p \in 1 .. Len(t) + 1
    BY <1>1
  <2> QED
    BY <2>2, <2>3, LineHolds
<1>7. LinesRead(t) \in Seq(Seq(Tokens)) /\ Len(LinesRead(t)) = Cardinality(e)
  BY <1>3, <1>5, <1>6
<1> QED
  BY <1>3, <1>4, <1>5, <1>7

LEMMA ReplyEchoes ==
  ASSUME NEW line, NEW driver
  PROVE  Reply(line, driver).command = line
  BY Zenon DEF Reply

LEMMA ReplyIsAny ==
  ASSUME NEW line \in Seq(Tokens), NEW driver \in BOOLEAN
  PROVE  Reply(line, driver) \in AnyReply
  BY DEF AnyReply

\* The replies to lines, in their order.
LEMMA RepliesAdded ==
  ASSUME NEW r \in Seq(AnyReply), NEW lines \in Seq(Seq(Tokens)),
         NEW driver \in [DOMAIN lines -> BOOLEAN]
  PROVE  LET new == [k \in DOMAIN lines |-> Reply(lines[k], driver[k])]
         IN  /\ r \o new \in Seq(AnyReply) /\ Len(r \o new) = Len(r) + Len(lines)
             /\ Len(r) \in Nat /\ Len(lines) \in Nat
             /\ \A j \in 1 .. Len(r) : (r \o new)[j] = r[j]
             /\ \A j \in 1 .. Len(lines) : (r \o new)[Len(r) + j].command = lines[j]
<1> DEFINE new == [k \in DOMAIN lines |-> Reply(lines[k], driver[k])]
<1>1. Len(r) \in Nat /\ Len(lines) \in Nat /\ DOMAIN lines = 1 .. Len(lines)
  OBVIOUS
<1>2. \A k \in 1 .. Len(lines) : lines[k] \in Seq(Tokens) /\ driver[k] \in BOOLEAN
  BY <1>1, ElementOfSeq
<1>3. \A k \in 1 .. Len(lines) : Reply(lines[k], driver[k]) \in AnyReply
  <2> TAKE k \in 1 .. Len(lines)
  <2>1. lines[k] \in Seq(Tokens) /\ driver[k] \in BOOLEAN
    BY <1>2
  <2> QED
    BY <2>1, ReplyIsAny
<1>4. new \in Seq(AnyReply) /\ Len(new) = Len(lines)
      /\ \A k \in 1 .. Len(lines) : new[k] = Reply(lines[k], driver[k])
  BY <1>1, <1>3
<1> HIDE DEF new
<1>5. /\ r \o new \in Seq(AnyReply) /\ Len(r \o new) = Len(r) + Len(new)
      /\ \A j \in 1 .. Len(r) + Len(new) :
           (r \o new)[j] = IF j <= Len(r) THEN r[j] ELSE new[j - Len(r)]
  BY <1>4, ConcatProperties
<1>6. \A j \in 1 .. Len(r) : (r \o new)[j] = r[j]
  BY <1>1, <1>4, <1>5
<1>7. ASSUME NEW j \in 1 .. Len(lines) PROVE (r \o new)[Len(r) + j].command = lines[j]
  <2>1. Len(r) + j \in 1 .. Len(r) + Len(new) /\ ~(Len(r) + j <= Len(r)) /\ (Len(r) + j) - Len(r) = j
    BY <1>1, <1>4
  <2>2. (r \o new)[Len(r) + j] = new[j]
    BY <1>5, <2>1
  <2> QED
    BY <1>4, <2>2, ReplyEchoes
<1>8. Len(r \o new) = Len(r) + Len(lines)
  BY <1>4, <1>5
<1> QED
  BY <1>1, <1>5, <1>6, <1>7, <1>8 DEF new

LEMMA TextAnswers ==
  ASSUME SlotInv, ReplyInv, pc = "wait", UNCHANGED <<pc, slot, sent>>,
         NEW i \in Slots, NEW c \in Clients, c = m_clients[i], NEW n, NEW text \in Seq(Tokens),
         NEW driver, ReadsText(i, c, n, text, driver), TextTaken(i, c, n, text)
  PROVE  ReplyInv'
<1> DEFINE new == [k \in DOMAIN LinesRead(text) |-> Reply(LinesRead(text)[k], driver[k])]
<1>1. replies \in [Clients -> Seq(AnyReply)] /\ replies[c] \in Seq(AnyReply)
  BY DEF ReplyInv
<1>2. replies' = [replies EXCEPT ![c] = replies[c] \o new]
  BY DEF ReadsText
<1>3. LinesRead(text) \in Seq(Seq(Tokens)) /\ driver \in [DOMAIN LinesRead(text) -> BOOLEAN]
  BY LinesReadAre DEF ReadsText
<1>4. /\ replies[c] \o new \in Seq(AnyReply) /\ Len(replies[c] \o new) = Len(replies[c]) + Len(LinesRead(text))
      /\ Len(replies[c]) \in Nat /\ Len(LinesRead(text)) \in Nat
      /\ \A j \in 1 .. Len(replies[c]) : (replies[c] \o new)[j] = replies[c][j]
      /\ \A j \in 1 .. Len(LinesRead(text)) :
            (replies[c] \o new)[Len(replies[c]) + j].command = LinesRead(text)[j]
  BY <1>1, <1>3, RepliesAdded
<1> HIDE DEF new
<1>5. /\ replies' \in [Clients -> Seq(AnyReply)] /\ replies'[c] = replies[c] \o new
      /\ \A d \in Clients : d # c => replies'[d] = replies[d]
  BY <1>1, <1>2, <1>4
<1>6. /\ conn[c] = "open" /\ UNCHANGED <<m_clients, conn>>
      /\ \A j \in Slots : j # i => clientData'[j] = clientData[j] /\ m_clients[j] # c
      /\ \A d \in Clients : d # c => inbox'[d] = inbox[d]
  BY DEF TextTaken
<1>7. ASSUME NEW d \in Clients, d # c PROVE SentBlankLine(d)' \/ Answered(d)'
  <2>1. sent[d] \in Nat /\ (NotServed(d)' <=> NotServed(d))
    BY <1>6 DEF SlotInv, TypeOK, NotServed
  <2>2. ASSUME NEW j \in Slots, m_clients'[j] = d PROVE m_clients[j] = d /\ Begun(j)' = Begun(j)
    <3>1. m_clients[j] = d /\ j # i
      BY <1>6, <1>7, <2>2
    <3> QED
      BY <1>6, <1>7, <2>2, <3>1 DEF Begun, ReadBy
  <2>3. Untouched(d)
    BY <1>5, <1>7, <2>1, <2>2 DEF Untouched
  <2>4. SentBlankLine(d) \/ Answered(d)
    BY DEF ReplyInv
  <2>5. SentBlankLine(d)' = SentBlankLine(d)
    BY DEF SentBlankLine, LineStart
  <2>6. CASE SentBlankLine(d)
    BY <2>5, <2>6
  <2>7. CASE Answered(d)
    <3>1. PICK k \in 0 .. sent[d] :
            /\ RepliesTo(d, k) /\ (NotServed(d) => k = 0)
            /\ \A j \in Slots : m_clients[j] = d /\ ~NotServed(d) => k = Begun(j)
      BY <2>7 DEF Answered
    <3>2. RepliesTo(d, k)'
      BY <1>5, <1>7, <3>1 DEF RepliesTo, LinesTo, UpTo
    <3> QED
      BY <2>1, <2>2, <3>1, <3>2 DEF Answered
  <2> QED
    BY <2>4, <2>6, <2>7
<1>8. CASE SentBlankLine(c)
  <2>1. SentBlankLine(c)'
    BY <1>8 DEF SentBlankLine, LineStart
  <2> QED
    BY <1>5, <1>7, <2>1 DEF ReplyInv
<1>9. CASE ~SentBlankLine(c)
  <2>1. PICK k \in Nat, m \in 0 .. Len(text) :
          /\ k = Begun(i) /\ Begun(i)' = k + m
          /\ TextFrom(text, c, k) /\ k + Len(text) <= sent[c] /\ BlankLines(text) = {}
          /\ \A q \in Newlines(text) : q <= m
    BY <1>9 DEF TextTaken, LinesTaken
  <2>2. /\ sent[c] \in Nat /\ Script[c] \in Seq(Tokens) /\ Len(Script[c]) \in Nat
        /\ sent[c] <= Len(Script[c]) /\ Len(text) \in Nat
    BY ReadTypes DEF SlotInv
  <2>3. k + Len(text) <= Len(Script[c]) /\ k + m \in 0 .. sent[c]
    BY <2>1, <2>2
  <2>4. ~NotServed(c) /\ ~NotServed(c)'
    BY <1>6 DEF NotServed
  <2>5. RepliesTo(c, k)
    <3>1. Answered(c)
      BY <1>9 DEF ReplyInv
    <3> QED
      BY <2>1, <2>4, <3>1 DEF Answered
  <2> DEFINE l == LinesTo(c, k)
             w == Cardinality(Newlines(text))
  <2>6. Len(replies[c]) = l /\ l \in Nat
        /\ \A j \in 1 .. l : replies[c][j].command = LineAt(Script[c], Nth(Newlines(Script[c]), j))
    BY <1>4, <2>5 DEF RepliesTo
  <2>7. w \in Nat /\ Len(LinesRead(text)) = w
        /\ \A j \in 1 .. w : LinesRead(text)[j] = LineAt(text, Nth(Newlines(text), j))
    BY <2>1, LinesReadAre
  <2>8. LinesTo(c, k + m) = l + w
    <3>1. UpTo(Newlines(text), m) = Newlines(text)
      BY <2>1 DEF UpTo
    <3>2. LinesTo(c, k + m) = LinesTo(c, k) + Cardinality(UpTo(Newlines(text), m))
      BY <2>1, <2>2, <2>3, LinesCounted
    <3> QED
      BY <3>1, <3>2
  <2>9. \A j \in 1 .. w : LinesRead(text)[j] = LineAt(Script[c], Nth(Newlines(Script[c]), l + j))
    <3> TAKE j \in 1 .. w
    <3>1. LineAt(Script[c], Nth(Newlines(Script[c]), LinesTo(c, k) + j))
            = LineAt(text, Nth(Newlines(text), j))
      BY <2>1, <2>2, <2>3, LinesOfText
    <3> QED
      BY <2>7, <3>1
  <2> HIDE DEF l, w
  <2>10. Len(replies'[c]) = l + w
    BY <1>4, <1>5, <2>6, <2>7
  <2>11. ASSUME NEW j \in 1 .. l + w
         PROVE  replies'[c][j].command = LineAt(Script[c], Nth(Newlines(Script[c]), j))
    <3>1. CASE j <= l
      <4>1. j \in 1 .. l
        BY <2>6, <2>7, <3>1
      <4> QED
        BY <1>4, <1>5, <2>6, <4>1
    <3>2. CASE ~(j <= l)
      <4>1. PICK h \in 1 .. w : j = l + h
        <5>1. j - l \in 1 .. w /\ j = l + (j - l)
          BY <2>6, <2>7, <3>2
        <5> QED
          BY <5>1
      <4>2. replies'[c][l + h].command = LinesRead(text)[h]
        BY <1>4, <1>5, <2>6, <2>7
      <4> QED
        BY <2>9, <4>1, <4>2
    <3> QED
      BY <3>1, <3>2
  <2>12. RepliesTo(c, k + m)'
    <3>1. LinesTo(c, k + m)' = LinesTo(c, k + m)
      BY DEF LinesTo, UpTo
    <3> QED
      BY <2>8, <2>10, <2>11, <3>1 DEF RepliesTo
  <2>13. \A j \in Slots : m_clients'[j] = c => Begun(j)' = k + m
    BY <1>6, <2>1
  <2>14. Answered(c)'
    BY <2>3, <2>4, <2>12, <2>13 DEF Answered
  <2> QED
    BY <1>5, <1>7, <2>14 DEF ReplyInv
<1> QED
  BY <1>8, <1>9

LEMMA WaitAnswers ==
  ASSUME SlotInv, ReadInv, ReplyInv, TypeOK', WaitClient
  PROVE  ReplyInv'
<1> USE DEF netVars
<1>1. PICK i \in Slots :
         IF m_clients[ServedSlot(i)] = None
         THEN UNCHANGED <<m_clients, conn, inbox, clientData, readRec, replies>>
         ELSE Receive(ServedSlot(i))
  BY DEF WaitClient
<1>2. pc = "wait" /\ UNCHANGED <<stopping, pc, slot, sent, gone>>
  BY DEF WaitClient
<1>3. PICK s \in Slots : s = ServedSlot(i)
  BY ServedSlotIsSlot
<1>4. TypeOK /\ \A c \in Clients : sent[c] \in Nat
  BY DEF SlotInv, TypeOK
<1>5. ASSUME replies' = replies, \A c \in Clients : Untouched(c) PROVE ReplyInv'
  BY <1>4, <1>5, AnswersStay DEF ReplyInv
<1>6. CASE m_clients[s] = None
  <2>1. UNCHANGED <<m_clients, conn, inbox, clientData, replies>>
    BY <1>1, <1>3, <1>6
  <2>2. ASSUME NEW c \in Clients PROVE Untouched(c)
    <3>1. (NotServed(c)' <=> NotServed(c)) /\ \A j \in Slots : Begun(j)' = Begun(j)
      BY <1>2, <2>1 DEF NotServed, Begun, ReadBy
    <3> QED
      BY <1>2, <1>4, <2>1, <3>1 DEF Untouched
  <2> QED
    BY <1>5, <2>1, <2>2
<1>7. CASE m_clients[s] # None
  <2>1. Receive(s)
    BY <1>1, <1>3, <1>7
  <2>2. PICK c \in Clients : c = m_clients[s]
    BY <1>4, <1>7 DEF TypeOK
  <2>3. CASE CloseSlot(s)
    <3>1. replies' = replies
      BY <2>3 DEF CloseSlot
    <3>2. \A d \in Clients : Untouched(d)
      BY <1>2, <1>7, <2>3, CloseAnswers
    <3> QED
      BY <1>5, <3>1, <3>2
  <2>4. CASE \E n \in 1 .. Len(inbox[c]), text \in Seq(Tokens) : \E driver :
               /\ Len(text) = Len(clientData[s]) + n
               /\ \A j \in 1 .. Len(text) :
                    text[j] = IF j <= Len(clientData[s]) THEN clientData[s][j]
                              ELSE inbox[c][j - Len(clientData[s])]
               /\ ReadsText(s, c, n, text, driver)
    <3>1. PICK n \in 1 .. Len(inbox[c]), text \in Seq(Tokens) : \E driver :
               /\ Len(text) = Len(clientData[s]) + n
               /\ \A j \in 1 .. Len(text) :
                    text[j] = IF j <= Len(clientData[s]) THEN clientData[s][j]
                              ELSE inbox[c][j - Len(clientData[s])]
               /\ ReadsText(s, c, n, text, driver)
      BY <2>4
    <3>2. TextTaken(s, c, n, text)
      BY <1>2, <2>2, <3>1, TextOutcome
    <3> QED
      BY <1>2, <2>2, <3>1, <3>2, TextAnswers
  <2> QED
    BY <1>4, <2>1, <2>2, <2>3, <2>4, ReceiveOutcome
<1> QED
  BY <1>6, <1>7

LEMMA AnswersKept == SlotInv /\ ReadInv /\ ReplyInv /\ TypeOK' /\ [Next]_vars => ReplyInv'
<1> SUFFICES ASSUME SlotInv, ReadInv, ReplyInv, TypeOK', [Next]_vars PROVE ReplyInv'
  OBVIOUS
<1>0. TypeOK
  BY DEF SlotInv
<1>1. ASSUME replies' = replies, \A c \in Clients : Untouched(c) PROVE ReplyInv'
  BY <1>0, <1>1, AnswersStay DEF ReplyInv
<1> USE DEF netVars, threadVars
<1>2. ASSUME NEW d \in Clients, Send(d) PROVE ReplyInv'
  <2>1. replies' = replies
    BY <1>2 DEF Send
  <2> QED
    BY <1>0, <1>1, <1>2, <2>1, SendAnswers
<1>3. ASSUME NEW d \in Clients, Signal(d) PROVE ReplyInv'
  <2>1. replies' = replies
    BY <1>3 DEF Signal
  <2> QED
    BY <1>0, <1>1, <1>3, <2>1, SignalAnswers
<1>4. CASE AcceptClient /\ backlog # <<>>
  <2>1. replies' = replies
    BY <1>4 DEF AcceptClient
  <2> QED
    BY <1>1, <1>4, <2>1, AcceptAnswers
<1>5. CASE ResetSlot
  <2>1. replies' = replies
    BY <1>5 DEF ResetSlot
  <2> QED
    BY <1>1, <1>5, <2>1, ResetAnswers
<1>6. CASE WaitClient
  BY <1>6, WaitAnswers
<1>7. CASE CloseClients
  <2>1. replies' = replies
    BY <1>7 DEF CloseClients
  <2> QED
    BY <1>0, <1>1, <1>7, <2>1, CloseClientsAnswers
<1>8. CASE Quiet
  <2>1. replies' = replies
    BY <1>8 DEF Quiet
  <2> QED
    BY <1>0, <1>1, <1>8, <2>1, QuietAnswers
<1> QED
  BY <1>2, <1>3, <1>4, <1>5, <1>6, <1>7, <1>8, QuietSteps

\* atoi reads no negative number in any word of a command.
NoNegativeNumber == \A w \in DOMAIN Number : Number[w] \in Nat

LEMMA UpToThirtyTwo == \A n \in Nat : n <= 32 => n \in 0 .. 32
OBVIOUS

LEMMA SuccessIsValid ==
  ASSUME NoNegativeNumber, NEW words, NEW driver, Succeeds(words, driver)
  PROVE  Valid(words) \/ ListsUnknownCode(words)
<1>1. CASE words[1] = "VERSION"
  BY <1>1 DEF Succeeds, Valid, VersionSucceeds
<1>2. CASE words[1] = "LIST"
  BY <1>2 DEF Succeeds, Valid, ListsUnknownCode, ListSucceeds
<1>3. CASE words[1] = "SET_TRANSMITTERS"
  <2>1. \A k \in 2 .. Len(words) : words[k] \in DOMAIN Number => Number[words[k]] <= 32
    <3>1. TransmittersSucceed(words, driver)
      BY <1>3 DEF Succeeds
    <3> QED
      BY <3>1, Zenon DEF TransmittersSucceed
  <2>2. \A k \in 2 .. Len(words) : words[k] \in DOMAIN Number => Number[words[k]] \in 0 .. 32
    <3> SUFFICES ASSUME NEW k \in 2 .. Len(words), words[k] \in DOMAIN Number
                 PROVE  Number[words[k]] \in 0 .. 32
      BY Zenon
    <3>1. Number[words[k]] <= 32
      BY <2>1
    <3>2. Number[words[k]] \in Nat
      BY Zenon DEF NoNegativeNumber
    <3> QED
      BY <3>1, <3>2, UpToThirtyTwo, Zenon
  <2> QED
    BY <1>3, <2>2 DEF Valid
<1>4. CASE words[1] = "SEND_ONCE"
  BY <1>4 DEF Succeeds, Valid, SendSucceeds
<1> QED
  BY <1>1, <1>2, <1>3, <1>4 DEF Succeeds

\* Such replies are a beginning of the answers to what c has sent.
LEMMA RepliesArePrefix ==
  ASSUME TypeOK, ReplyInv, NEW c \in Clients, ~SentBlankLine(c)
  PROVE  IsPrefix([k \in DOMAIN replies[c] |-> replies[c][k].command], SentLines(c))
<1>1. /\ sent[c] \in Nat /\ Script[c] \in Seq(Tokens) /\ Len(Script[c]) \in Nat
      /\ sent[c] <= Len(Script[c])
  BY ReadTypes
<1>2. PICK k \in 0 .. sent[c] : RepliesTo(c, k)
  BY DEF ReplyInv, Answered
<1> DEFINE t == SubSeq(Script[c], 1, sent[c])
<1>3. t \in Seq(Tokens) /\ Len(t) = sent[c] /\ \A j \in 1 .. sent[c] : t[j] = Script[c][j]
  <2>1. sent[c] \in 0 .. Len(Script[c])
    BY <1>1
  <2> QED
    BY <1>1, <2>1, StartOf
<1>4. SentLines(c) = LinesAt(t, Newlines(t) \ BlankLines(t))
  BY DEF SentLines
<1> HIDE DEF t
<1>5. TextFrom(t, c, 0) /\ 0 + Len(t) <= sent[c] /\ 0 + Len(t) <= Len(Script[c])
  BY <1>1, <1>3 DEF TextFrom, LineStart
<1>6. BlankLines(t) = {}
  BY <1>1, <1>3, <1>5, BlankLineFound
<1> DEFINE w == Cardinality(Newlines(t))
           cmds == [j \in DOMAIN replies[c] |-> replies[c][j].command]
<1>7. SentLines(c) = [j \in 1 .. w |-> LineAt(t, Nth(Newlines(t), j))]
  BY <1>4, <1>6 DEF LinesAt
<1>8. /\ Newlines(t) \in SUBSET (1 .. Len(t))
      /\ Newlines(Script[c]) \in SUBSET (1 .. Len(Script[c]))
  BY <1>1, <1>3, NewlinePlaces
<1>9. LinesTo(c, 0) = 0 /\ w \in Nat /\ LinesTo(c, sent[c]) = w /\ LinesTo(c, k) <= w
  <2>1. UpTo(Newlines(Script[c]), 0) = {}
    BY <1>1, <1>8 DEF UpTo
  <2>2. LinesTo(c, 0) = 0
    BY <2>1, FS_EmptySet DEF LinesTo
  <2>3. w \in Nat
    BY <1>1, <1>3, <1>8, CountUpTo
  <2>4. UpTo(Newlines(t), Len(t)) = Newlines(t)
    BY <1>8 DEF UpTo
  <2>5. LinesTo(c, 0 + Len(t)) = LinesTo(c, 0) + Cardinality(UpTo(Newlines(t), Len(t)))
    <3>1. Len(t) \in 0 .. Len(t) /\ 0 \in Nat
      BY <1>1, <1>3
    <3> QED
      BY <1>1, <1>3, <1>5, <3>1, LinesCounted
  <2>6. LinesTo(c, sent[c]) = w
    BY <1>1, <1>3, <2>2, <2>3, <2>4, <2>5
  <2>7. LinesTo(c, k) <= LinesTo(c, sent[c])
    <3>1. k \in Int /\ sent[c] \in Int /\ k <= sent[c]
      BY <1>1
    <3>2. Cardinality(UpTo(Newlines(Script[c]), k)) <= Cardinality(UpTo(Newlines(Script[c]), sent[c]))
      BY <1>1, <1>8, <3>1, CountUpTo
    <3> QED
      BY <3>2 DEF LinesTo
  <2> QED
    BY <2>2, <2>3, <2>6, <2>7
<1>10. ASSUME NEW j \in 1 .. w
       PROVE  SentLines(c)[j] = LineAt(Script[c], Nth(Newlines(Script[c]), j))
              /\ SentLines(c)[j] \in Seq(Tokens)
  <2>1. LineAt(Script[c], Nth(Newlines(Script[c]), LinesTo(c, 0) + j)) = LineAt(t, Nth(Newlines(t), j))
    <3>1. 0 \in Nat
      OBVIOUS
    <3> QED
      BY <1>1, <1>3, <1>5, <3>1, LinesOfText
  <2>2. LinesTo(c, 0) + j = j
    BY <1>9
  <2>3. Nth(Newlines(t), j) \in Newlines(t)
    BY <1>1, <1>3, <1>8, NthFound
  <2>4. PICK p \in 1 .. Len(t) : p = Nth(Newlines(t), j)
    BY <1>8, <2>3
  <2>5. p \in 1 .. Len(t) + 1
    BY <1>1, <1>3
  <2>6. LineAt(t, p) \in Seq(Tokens)
    BY <1>3, <2>5, LineHolds
  <2> QED
    BY <1>7, <2>1, <2>2, <2>4, <2>6
<1>11. Len(replies[c]) \in Nat /\ DOMAIN replies[c] = 1 .. Len(replies[c])
       /\ Len(replies[c]) = LinesTo(c, k)
  <2>1. replies[c] \in Seq(AnyReply)
    BY DEF ReplyInv
  <2> QED
    BY <1>2, <2>1, LenProperties DEF RepliesTo
<1>12. \A j \in 1 .. Len(replies[c]) :
         j \in 1 .. w /\ cmds[j] = SentLines(c)[j] /\ cmds[j] \in Seq(Tokens)
  <2> TAKE j \in 1 .. Len(replies[c])
  <2>1. j \in 1 .. w
    BY <1>9, <1>11
  <2>2. cmds[j] = LineAt(Script[c], Nth(Newlines(Script[c]), j))
    BY <1>2, <1>11 DEF RepliesTo
  <2> QED
    BY <1>10, <2>1, <2>2
<1>13. cmds \in Seq(Seq(Tokens)) /\ Len(cmds) = Len(replies[c])
  <2>1. cmds = [j \in 1 .. Len(replies[c]) |-> cmds[j]]
    BY <1>11
  <2> HIDE DEF cmds
  <2> QED
    BY <1>11, <1>12, <2>1
<1>14. SentLines(c) \in Seq(Seq(Tokens)) /\ Len(SentLines(c)) = w
  <2>1. SentLines(c) = [j \in 1 .. w |-> SentLines(c)[j]]
    BY <1>7
  <2> HIDE DEF w
  <2> QED
    BY <1>9, <1>10, <2>1
<1> HIDE DEF cmds, w
<1>15. IsPrefix(cmds, SentLines(c))
  <2> DEFINE r == Len(cmds)
             a == SubSeq(cmds, 1, r)
             b == SubSeq(SentLines(c), 1, r)
  <2>1. r \in Nat /\ r <= w /\ w \in Nat
    BY <1>9, <1>11, <1>13
  <2>2. a \in Seq(Seq(Tokens)) /\ Len(a) = r /\ \A j \in 1 .. r : a[j] = cmds[j]
    BY <1>13, <2>1, StartOf
  <2>3. b \in Seq(Seq(Tokens)) /\ Len(b) = r /\ \A j \in 1 .. r : b[j] = SentLines(c)[j]
    BY <1>14, <2>1, StartOf
  <2>4. \A j \in 1 .. r : cmds[j] = SentLines(c)[j]
    BY <1>12, <1>13
  <2> HIDE DEF a, b
  <2>5. a = b
    BY <2>2, <2>3, <2>4, SeqEqual
  <2> QED
    BY <1>14, <2>1, <2>5 DEF a, b, IsPrefix
<1> QED
  BY <1>15 DEF cmds

LEMMA RepliesAreRight ==
  ASSUME NoNegativeNumber, TypeOK, ReplyInv, NEW c \in Clients, ~SentBlankLine(c)
  PROVE  RepliesMatch(c)
<1>1. ASSUME NEW k \in DOMAIN replies[c], replies[c][k].success
      PROVE  \E words \in {Words(replies[c][k].command)} :
               Valid(words) \/ ListsUnknownCode(words)
  <2>1. replies[c][k] \in AnyReply
    <3>1. replies[c] \in Seq(AnyReply)
      BY DEF ReplyInv
    <3> QED
      BY <3>1, ElementOfSeq
  <2>2. PICK line \in Seq(Tokens), driver \in BOOLEAN : replies[c][k] = Reply(line, driver)
    BY <2>1 DEF AnyReply
  <2>3. Reply(line, driver).command = line
    BY ReplyEchoes
  <2>4. Reply(line, driver).success = Succeeds(Words(line), driver)
    BY Zenon DEF Reply
  <2>5. Succeeds(Words(line), driver)
    BY <1>1, <2>2, <2>4, Zenon
  <2>6. Valid(Words(line)) \/ ListsUnknownCode(Words(line))
    BY <2>5, SuccessIsValid
  <2>7. Words(replies[c][k].command) = Words(line)
    BY <2>2, <2>3, Zenon
  <2> QED
    BY <2>6, <2>7, Zenon
<1>2. IsPrefix([k \in DOMAIN replies[c] |-> replies[c][k].command], SentLines(c))
  BY RepliesArePrefix
<1> QED
  BY <1>1, <1>2, Zenon DEF RepliesMatch

AllInv == SlotInv /\ ReadInv /\ ReplyInv

LEMMA AllKept == AllInv /\ [Next]_vars => AllInv'
<1>1. SlotInv /\ [Next]_vars => SlotInv'
  BY SlotInvKept
<1>2. SlotInv' => TypeOK'
  BY DEF SlotInv
<1> QED
  BY <1>1, <1>2, ReadKept, AnswersKept DEF AllInv

\* The replies to a client answer its complete lines, in order and each at most once,
\* and only what asks for something that exists succeeds - but for LIST of an unknown
\* code, which succeeds as well -, for every client that has sent no blank line,
\* whatever the others send (ThreadProc, reply, server.cpp:155-322, 421-509).
THEOREM EachAnsweredRightly ==
  ASSUME NoNegativeNumber
  PROVE  Spec => [](\A c \in Clients : SentBlankLine(c) \/ RepliesMatch(c))
<1>1. Init => AllInv
  BY SlotsAtStart, ReadAtStart, AnswersAtStart DEF AllInv
<1>2. AllInv /\ [Next]_vars => AllInv'
  BY AllKept
<1>3. AllInv => \A c \in Clients : SentBlankLine(c) \/ RepliesMatch(c)
  BY RepliesAreRight DEF AllInv, SlotInv
<1> QED
  BY <1>1, <1>2, <1>3, PTL DEF Spec

\* No script has a line of blanks.
NoBlankLine ==
  \A c \in Clients : \A p \in 1 .. Len(Script[c]) : Script[c][p] = NL =>
    ~\E q \in 0 .. p - 1 : LineStart(c, q) /\ \A j \in q + 1 .. p - 1 : Script[c][j] = SP

\* Hence RepliesMatchLines, with its exception for LIST, when nobody sends a blank line.
THEOREM RepliesRight ==
  ASSUME NoNegativeNumber, NoBlankLine
  PROVE  Spec => []RepliesMatchLines
<1>1. Init => AllInv
  BY SlotsAtStart, ReadAtStart, AnswersAtStart DEF AllInv
<1>2. AllInv /\ [Next]_vars => AllInv'
  BY AllKept
<1>3. AllInv => RepliesMatchLines
  <2> SUFFICES ASSUME AllInv, NEW c \in Clients PROVE RepliesMatch(c)
    BY DEF RepliesMatchLines
  <2>1. sent[c] \in Nat /\ sent[c] <= Len(Script[c]) /\ Len(Script[c]) \in Nat
    BY ReadTypes DEF AllInv, SlotInv
  <2>2. ~SentBlankLine(c)
    BY <2>1 DEF NoBlankLine, SentBlankLine
  <2> QED
    BY <2>2, RepliesAreRight DEF AllInv, SlotInv
<1> QED
  BY <1>1, <1>2, <1>3, PTL DEF Spec
=============================================================================
