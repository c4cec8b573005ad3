----------------------------- MODULE SendProofs -----------------------------
(***************************************************************************)
(* What TLAPS proves of Send, for every buffer size, every table of        *)
(* remotes and codes whose frames start with a pulse, every number of      *)
(* repeats, and with the daemon thread decoding at any time.               *)
(***************************************************************************)
EXTENDS Send, FiniteSetTheorems, SequenceTheorems, NaturalsInduction, TLAPS

BufferType == [data : Seq(Mark), too_long : BOOLEAN, pendingp : Nat, pendings : Nat, sum : Int]

Alternating(data) ==
  \A i \in DOMAIN data : (data[i].kind = "pulse" <=> i % 2 = 1) /\ data[i].us > 0

Even(n) == n % 2 = 0
Odd(n)  == n % 2 = 1

Pending(b) == b.pendingp > 0 \/ b.pendings > 0

Whole(b) == b \in BufferType /\ Alternating(b.data) /\ Len(b.data) <= WBUF_SIZE

\* The kind of the pending mark fits its place in the array, unless the array is
\* full and nothing will be stored any more.
Fits(b) ==
  /\ b.pendingp = 0 \/ b.pendings = 0
  /\ IF b.too_long THEN Len(b.data) = WBUF_SIZE
     ELSE /\ b.pendingp > 0 => Even(Len(b.data))
          /\ b.pendings > 0 => Odd(Len(b.data))

-----------------------------------------------------------------------------
(* The operations on the buffer.                                           *)

LEMMA Parity ==
  ASSUME NEW n \in Nat
  PROVE  (Odd(n) <=> ~Even(n)) /\ (Odd(n + 1) <=> Even(n)) /\ (Even(n + 1) <=> Odd(n))
BY DEF Even, Odd

LEMMA ParityOfSum ==
  ASSUME NEW n \in Nat, NEW i \in Nat, Even(n)
  PROVE  (n + i) % 2 = 1 <=> i % 2 = 1
BY DEF Even

LEMMA Shifted ==
  ASSUME NEW n \in Nat, NEW i \in Int
  PROVE  (n + 1) + i = n + (i + 1)
OBVIOUS

LEMMA AppendAlternates ==
  ASSUME NEW data \in Seq(Mark), NEW m \in Mark, Alternating(data), m.us > 0,
         m.kind = "pulse" <=> Even(Len(data))
  PROVE  /\ Append(data, m) \in Seq(Mark) /\ Len(Append(data, m)) = Len(data) + 1
         /\ Alternating(Append(data, m))
<1>1. Append(data, m) \in Seq(Mark) /\ Len(Append(data, m)) = Len(data) + 1
  OBVIOUS
<1>2. ASSUME NEW i \in 1 .. Len(data) + 1
      PROVE  (Append(data, m)[i].kind = "pulse" <=> i % 2 = 1) /\ Append(data, m)[i].us > 0
  <2>1. CASE i = Len(data) + 1
    <3>1. Append(data, m)[i] = m
      BY <2>1
    <3>2. Even(Len(data)) <=> i % 2 = 1
      BY <2>1 DEF Even
    <3> QED
      BY <3>1, <3>2
  <2>2. CASE i \in 1 .. Len(data)
    <3>1. Append(data, m)[i] = data[i]
      BY <2>2
    <3> QED
      BY <2>2, <3>1 DEF Alternating
  <2> QED
    BY <2>1, <2>2
<1> QED
  BY <1>1, <1>2 DEF Alternating

LEMMA AddStores ==
  ASSUME NEW b, Whole(b), ~b.too_long, NEW m \in Mark, m.us > 0,
         m.kind = "pulse" <=> Even(Len(b.data))
  PROVE  LET c == Add(b, m)
         IN  /\ Whole(c) /\ c.pendingp = b.pendingp /\ c.pendings = b.pendings
             /\ IF c.too_long THEN Len(c.data) = WBUF_SIZE ELSE Len(c.data) = Len(b.data) + 1
<1>1. b \in BufferType /\ Len(b.data) \in Nat /\ b.data \in Seq(Mark) /\ m.us \in Nat
  BY DEF Whole, BufferType, Mark
<1>2. CASE Len(b.data) < WBUF_SIZE
  <2>1. Add(b, m) = [b EXCEPT !.sum = @ + m.us, !.data = Append(@, m)]
    BY <1>2 DEF Add
  <2>2. Append(b.data, m) \in Seq(Mark) /\ Len(Append(b.data, m)) = Len(b.data) + 1
        /\ Alternating(Append(b.data, m))
    BY <1>1, AppendAlternates DEF Whole
  <2>0. b.sum + m.us \in Int
    BY <1>1 DEF BufferType
  <2>3. Add(b, m) \in BufferType
    BY <1>1, <2>0, <2>1, <2>2 DEF BufferType
  <2>4. /\ Add(b, m).data = Append(b.data, m) /\ Add(b, m).too_long = b.too_long
        /\ Add(b, m).pendingp = b.pendingp /\ Add(b, m).pendings = b.pendings
    BY <1>1, <2>1 DEF BufferType
  <2> QED
    BY <1>1, <1>2, <2>2, <2>3, <2>4, BufferAssumption DEF Whole
<1>3. CASE ~(Len(b.data) < WBUF_SIZE)
  <2>1. Add(b, m) = [b EXCEPT !.too_long = TRUE]
    BY <1>3 DEF Add
  <2>2. /\ Add(b, m).data = b.data /\ Add(b, m).too_long
        /\ Add(b, m).pendingp = b.pendingp /\ Add(b, m).pendings = b.pendings
        /\ Add(b, m) \in BufferType
    BY <1>1, <2>1 DEF BufferType
  <2> QED
    BY <1>1, <1>3, <2>2, BufferAssumption DEF Whole
<1> QED
  BY <1>2, <1>3

LEMMA AddDrops ==
  ASSUME NEW b, Whole(b), b.too_long, Len(b.data) = WBUF_SIZE, NEW m \in Mark
  PROVE  Add(b, m) = b
<1>1. Add(b, m) = [b EXCEPT !.too_long = TRUE]
  BY BufferAssumption DEF Add
<1> QED
  BY <1>1, b.too_long = TRUE DEF Whole, BufferType

\* After either of these the other kind may follow.
LEMMA PendingPulseAdded ==
  ASSUME NEW b, Whole(b), Fits(b)
  PROVE  LET c == AddPendingPulse(b)
         IN  /\ Whole(c) /\ Fits(c) /\ c.pendingp = 0 /\ c.pendings = b.pendings
             /\ b.pendingp > 0 => c.too_long \/ Odd(Len(c.data))
             /\ b.pendingp = 0 => c = b
             /\ b.too_long => c.data = b.data
<1>1. b \in BufferType /\ b.pendingp \in Nat /\ Len(b.data) \in Nat /\ b.too_long \in BOOLEAN
  BY DEF Whole, BufferType
<1>2. CASE b.pendingp = 0
  BY <1>1, <1>2 DEF AddPendingPulse
<1>3. CASE b.pendingp > 0
  <2> DEFINE m == PulseMark(b.pendingp)
             a == Add(b, m)
  <2>1. m \in Mark /\ m.us > 0 /\ m.kind = "pulse"
    BY <1>1, <1>3 DEF PulseMark, Mark
  <2>2. AddPendingPulse(b) = [a EXCEPT !.pendingp = 0]
    BY <1>3 DEF AddPendingPulse
  <2>3. CASE ~b.too_long
    <3>1. Even(Len(b.data)) /\ b.pendings = 0
      BY <1>1, <1>3, <2>3 DEF Fits, Whole, BufferType
    <3>2. /\ Whole(a) /\ a.pendings = b.pendings
          /\ IF a.too_long THEN Len(a.data) = WBUF_SIZE ELSE Len(a.data) = Len(b.data) + 1
      BY <2>1, <2>3, <3>1, AddStores
    <3> HIDE DEF a
    <3>3. a \in BufferType
      BY <3>2 DEF Whole
    <3>4. [a EXCEPT !.pendingp = 0] \in BufferType
      BY <3>3 DEF BufferType
    <3>5. LET c == [a EXCEPT !.pendingp = 0]
          IN  c.data = a.data /\ c.too_long = a.too_long /\ c.pendingp = 0 /\ c.pendings = a.pendings
      BY <3>3 DEF BufferType
    <3>6. ASSUME ~a.too_long PROVE Odd(Len(a.data))
      <4>1. Len(a.data) = Len(b.data) + 1 /\ Len(b.data) \in Nat
        BY <1>1, <3>2, <3>6
      <4> QED
        BY <3>1, <4>1, Parity
    <3> QED
      BY <1>3, <2>2, <2>3, <3>1, <3>2, <3>4, <3>5, <3>6 DEF Whole, Fits
  <2>4. CASE b.too_long
    <3>1. a = b
      BY <2>1, <2>4, AddDrops DEF Fits
    <3>2. AddPendingPulse(b) = [b EXCEPT !.pendingp = 0]
      BY <2>2, <3>1
    <3> HIDE DEF a
    <3>3. [b EXCEPT !.pendingp = 0] \in BufferType
      BY <1>1 DEF BufferType
    <3>4. LET c == [b EXCEPT !.pendingp = 0]
          IN  c.data = b.data /\ c.too_long = b.too_long /\ c.pendingp = 0 /\ c.pendings = b.pendings
      BY <1>1 DEF BufferType
    <3> QED
      BY <1>3, <2>4, <3>2, <3>3, <3>4 DEF Whole, Fits
  <2> QED
    BY <2>3, <2>4
<1> QED
  BY <1>1, <1>2, <1>3

LEMMA PendingSpaceAdded ==
  ASSUME NEW b, Whole(b), Fits(b)
  PROVE  LET c == AddPendingSpace(b)
         IN  /\ Whole(c) /\ Fits(c) /\ c.pendings = 0 /\ c.pendingp = b.pendingp
             /\ b.pendings > 0 => c.too_long \/ Even(Len(c.data))
             /\ b.pendings = 0 => c = b
             /\ b.too_long => c.data = b.data
<1>1. b \in BufferType /\ b.pendings \in Nat /\ Len(b.data) \in Nat /\ b.too_long \in BOOLEAN
  BY DEF Whole, BufferType
<1>2. CASE b.pendings = 0
  BY <1>1, <1>2 DEF AddPendingSpace
<1>3. CASE b.pendings > 0
  <2> DEFINE m == SpaceMark(b.pendings)
             a == Add(b, m)
  <2>1. m \in Mark /\ m.us > 0 /\ m.kind # "pulse"
    BY <1>1, <1>3 DEF SpaceMark, Mark
  <2>2. AddPendingSpace(b) = [a EXCEPT !.pendings = 0]
    BY <1>3 DEF AddPendingSpace
  <2>3. CASE ~b.too_long
    <3>1. Odd(Len(b.data)) /\ ~Even(Len(b.data)) /\ b.pendingp = 0
      BY <1>1, <1>3, <2>3 DEF Fits, Whole, BufferType, Odd, Even
    <3>2. /\ Whole(a) /\ a.pendingp = b.pendingp
          /\ IF a.too_long THEN Len(a.data) = WBUF_SIZE ELSE Len(a.data) = Len(b.data) + 1
      BY <2>1, <2>3, <3>1, AddStores
    <3> HIDE DEF a
    <3>3. a \in BufferType
      BY <3>2 DEF Whole
    <3>4. [a EXCEPT !.pendings = 0] \in BufferType
      BY <3>3 DEF BufferType
    <3>5. LET c == [a EXCEPT !.pendings = 0]
          IN  c.data = a.data /\ c.too_long = a.too_long /\ c.pendings = 0 /\ c.pendingp = a.pendingp
      BY <3>3 DEF BufferType
    <3>6. ASSUME ~a.too_long PROVE Even(Len(a.data))
      <4>1. Len(a.data) = Len(b.data) + 1 /\ Len(b.data) \in Nat
        BY <1>1, <3>2, <3>6
      <4> QED
        BY <3>1, <4>1, Parity
    <3> QED
      BY <1>3, <2>2, <2>3, <3>1, <3>2, <3>4, <3>5, <3>6 DEF Whole, Fits
  <2>4. CASE b.too_long
    <3>1. a = b
      BY <2>1, <2>4, AddDrops DEF Fits
    <3>2. AddPendingSpace(b) = [b EXCEPT !.pendings = 0]
      BY <2>2, <3>1
    <3> HIDE DEF a
    <3>3. [b EXCEPT !.pendings = 0] \in BufferType
      BY <1>1 DEF BufferType
    <3>4. LET c == [b EXCEPT !.pendings = 0]
          IN  c.data = b.data /\ c.too_long = b.too_long /\ c.pendings = 0 /\ c.pendingp = b.pendingp
      BY <1>1 DEF BufferType
    <3> QED
      BY <1>3, <2>4, <3>2, <3>3, <3>4 DEF Whole, Fits
  <2> QED
    BY <2>3, <2>4
<1> QED
  BY <1>1, <1>2, <1>3

\* A mark that is pending, or a first pulse, or a first space after a pulse.
LEMMA PulseSent ==
  ASSUME NEW b, Whole(b), Fits(b), NEW us \in Nat, us > 0,
         Pending(b) \/ b.too_long \/ Even(Len(b.data))
  PROVE  LET c == Pulse(b, us)
         IN  Whole(c) /\ Fits(c) /\ Pending(c)
<1>1. b \in BufferType /\ b.pendingp \in Nat /\ b.pendings \in Nat
  BY DEF Whole, BufferType
<1>2. CASE b.pendingp > 0
  <2>1. Pulse(b, us) = [b EXCEPT !.pendingp = @ + us]
    BY <1>2 DEF Pulse
  <2>2. b.pendingp + us \in Nat /\ b.pendingp + us > 0 /\ b.pendings = 0
    BY <1>1, <1>2 DEF Fits
  <2>3. [b EXCEPT !.pendingp = @ + us] \in BufferType
    BY <1>1, <2>2 DEF BufferType
  <2>4. LET c == [b EXCEPT !.pendingp = @ + us]
        IN  /\ c.data = b.data /\ c.too_long = b.too_long /\ c.pendingp = b.pendingp + us
            /\ c.pendings = b.pendings
    BY <1>1 DEF BufferType
  <2> QED
    BY <1>2, <2>1, <2>2, <2>3, <2>4 DEF Whole, Fits, Pending
<1>3. CASE b.pendingp = 0
  <2> DEFINE a == AddPendingSpace(b)
  <2>1. Pulse(b, us) = [a EXCEPT !.pendingp = us]
    BY <1>3 DEF Pulse
  <2>2. /\ Whole(a) /\ Fits(a) /\ a.pendings = 0 /\ a.pendingp = 0
        /\ b.pendings > 0 => a.too_long \/ Even(Len(a.data))
        /\ b.pendings = 0 => a = b
    BY <1>3, PendingSpaceAdded
  <2>3. a.too_long \/ Even(Len(a.data))
    BY <1>1, <1>3, <2>2 DEF Pending
  <2> HIDE DEF a
  <2>4. a \in BufferType
    BY <2>2 DEF Whole
  <2>5. [a EXCEPT !.pendingp = us] \in BufferType
    BY <2>4 DEF BufferType
  <2>6. LET c == [a EXCEPT !.pendingp = us]
        IN  c.data = a.data /\ c.too_long = a.too_long /\ c.pendingp = us /\ c.pendings = 0
    BY <2>2, <2>4 DEF BufferType
  <2> QED
    BY <2>1, <2>2, <2>3, <2>5, <2>6 DEF Whole, Fits, Pending
<1> QED
  BY <1>1, <1>2, <1>3

LEMMA SpaceSent ==
  ASSUME NEW b, Whole(b), Fits(b), NEW us \in Nat, us > 0,
         Pending(b) \/ b.too_long \/ Odd(Len(b.data))
  PROVE  LET c == Space(b, us)
         IN  Whole(c) /\ Fits(c) /\ c.pendingp = 0 /\ c.pendings > 0
<1>1. b \in BufferType /\ b.pendingp \in Nat /\ b.pendings \in Nat /\ Len(b.data) \in Nat
  BY DEF Whole, BufferType
<1>2. ~(b.data = <<>> /\ b.pendingp = 0)
  <2> SUFFICES ASSUME b.data = <<>>, b.pendingp = 0 PROVE FALSE
    OBVIOUS
  <2>1. Len(b.data) = 0 /\ Even(0) /\ ~Odd(0)
    BY DEF Even, Odd
  <2>2. b.too_long => FALSE
    BY <2>1, BufferAssumption DEF Fits
  <2> QED
    BY <1>1, <2>1, <2>2 DEF Fits, Pending
<1>3. CASE b.pendings > 0
  <2>1. Space(b, us) = [b EXCEPT !.pendings = @ + us]
    BY <1>2, <1>3 DEF Space
  <2>2. b.pendings + us \in Nat /\ b.pendings + us > 0 /\ b.pendingp = 0
    BY <1>1, <1>3 DEF Fits
  <2>3. [b EXCEPT !.pendings = @ + us] \in BufferType
    BY <1>1, <2>2 DEF BufferType
  <2>4. LET c == [b EXCEPT !.pendings = @ + us]
        IN  /\ c.data = b.data /\ c.too_long = b.too_long /\ c.pendings = b.pendings + us
            /\ c.pendingp = b.pendingp
    BY <1>1 DEF BufferType
  <2> QED
    BY <1>3, <2>1, <2>2, <2>3, <2>4 DEF Whole, Fits
<1>4. CASE b.pendings = 0
  <2> DEFINE a == AddPendingPulse(b)
  <2>1. Space(b, us) = [a EXCEPT !.pendings = us]
    BY <1>2, <1>4 DEF Space
  <2>2. /\ Whole(a) /\ Fits(a) /\ a.pendingp = 0 /\ a.pendings = 0
        /\ b.pendingp > 0 => a.too_long \/ Odd(Len(a.data))
        /\ b.pendingp = 0 => a = b
    BY <1>4, PendingPulseAdded
  <2>3. a.too_long \/ Odd(Len(a.data))
    BY <1>1, <1>4, <2>2 DEF Pending
  <2> HIDE DEF a
  <2>4. a \in BufferType
    BY <2>2 DEF Whole
  <2>5. [a EXCEPT !.pendings = us] \in BufferType
    BY <2>4 DEF BufferType
  <2>6. LET c == [a EXCEPT !.pendings = us]
        IN  c.data = a.data /\ c.too_long = a.too_long /\ c.pendings = us /\ c.pendingp = 0
    BY <2>2, <2>4 DEF BufferType
  <2> QED
    BY <2>1, <2>2, <2>3, <2>5, <2>6 DEF Whole, Fits
<1> QED
  BY <1>1, <1>3, <1>4

\* After a frame: a pulse is last, or the send fails.
LEMMA SyncEndsInPulse ==
  ASSUME NEW b, Whole(b), Fits(b), Pending(b) \/ Len(b.data) > 0
  PROVE  LET c == Sync(b)
         IN  Whole(c) /\ (~Bad(c) => Fits(c) /\ ~c.too_long /\ Odd(Len(c.data)))
<1> DEFINE a == AddPendingPulse(b)
<1>1. /\ Whole(a) /\ Fits(a) /\ a.pendingp = 0 /\ a.pendings = b.pendings
      /\ b.pendingp > 0 => a.too_long \/ Odd(Len(a.data))
      /\ b.pendingp = 0 => a = b
  BY PendingPulseAdded
<1>2. Sync(b) = IF a.data # <<>> /\ Len(a.data) % 2 = 0 THEN DropLast(a) ELSE a
  BY DEF Sync
<1>3. a.too_long \/ Len(a.data) > 0
  <2>1. b.pendingp \in Nat /\ b.pendings \in Nat /\ ~Odd(0)
    BY DEF Whole, BufferType, Odd
  <2>2. Len(a.data) \in Nat
    BY <1>1 DEF Whole, BufferType
  <2>3. CASE b.pendingp > 0
    BY <1>1, <2>1, <2>2, <2>3
  <2>4. CASE b.pendingp = 0 /\ b.pendings > 0
    BY <1>1, <2>1, <2>2, <2>4 DEF Fits
  <2>5. CASE b.pendingp = 0 /\ Len(b.data) > 0
    BY <1>1, <2>5
  <2> QED
    BY <2>1, <2>3, <2>4, <2>5 DEF Pending
<1> HIDE DEF a
<1>4. a \in BufferType /\ a.data \in Seq(Mark) /\ Len(a.data) \in Nat /\ Alternating(a.data)
      /\ Len(a.data) <= WBUF_SIZE
  BY <1>1 DEF Whole, BufferType
<1>5. CASE a.data # <<>> /\ Even(Len(a.data))
  <2> DEFINE d == SubSeq(a.data, 1, Len(a.data) - 1)
  <2>1. Sync(b) = [a EXCEPT !.data = d]
    BY <1>2, <1>5 DEF DropLast, Even
  <2>2. Len(a.data) >= 1 /\ Len(a.data) - 1 \in Nat
    BY <1>4, <1>5
  <2>3. d \in Seq(Mark) /\ Len(d) = Len(a.data) - 1 /\ \A i \in 1 .. Len(d) : d[i] = a.data[i]
    BY <1>4, <2>2
  <2>4. Alternating(d)
    BY <1>4, <2>2, <2>3 DEF Alternating
  <2>5. Odd(Len(d))
    BY <1>5, <2>2, <2>3, Parity
  <2> HIDE DEF d
  <2>6. [a EXCEPT !.data = d] \in BufferType
    BY <1>4, <2>3 DEF BufferType
  <2>7. LET c == [a EXCEPT !.data = d]
        IN  c.data = d /\ c.too_long = a.too_long /\ c.pendingp = 0 /\ c.pendings = a.pendings
    BY <1>1, <1>4 DEF BufferType
  <2> QED
    BY <1>1, <1>4, <2>1, <2>2, <2>3, <2>4, <2>5, <2>6, <2>7, BufferAssumption DEF Whole, Fits, Bad
<1>6. CASE ~(a.data # <<>> /\ Even(Len(a.data)))
  <2>1. Sync(b) = a
    BY <1>2, <1>6 DEF Even
  <2>2. ~Bad(a) => Odd(Len(a.data))
    BY <1>3, <1>4, <1>6, Parity DEF Bad
  <2> QED
    BY <1>1, <2>1, <2>2 DEF Bad
<1> QED
  BY <1>5, <1>6

\* The gap after a frame: then a pulse may follow.
LEMMA GapSent ==
  ASSUME NEW b, Whole(b), Fits(b), ~b.too_long, Odd(Len(b.data)), NEW us \in Nat, us > 0
  PROVE  LET c == Flush(Space(b, us))
         IN  Whole(c) /\ Fits(c) /\ ~Pending(c) /\ (c.too_long \/ Even(Len(c.data)))
<1> DEFINE a == Space(b, us)
<1>1. Whole(a) /\ Fits(a) /\ a.pendingp = 0 /\ a.pendings > 0
  BY SpaceSent
<1> HIDE DEF a
<1>2. AddPendingPulse(a) = a
  BY <1>1, PendingPulseAdded
<1>3. Flush(a) = AddPendingSpace(a)
  BY <1>2 DEF Flush
<1>4. LET c == AddPendingSpace(a)
      IN  Whole(c) /\ Fits(c) /\ c.pendings = 0 /\ c.pendingp = 0 /\ (c.too_long \/ Even(Len(c.data)))
  BY <1>1, PendingSpaceAdded
<1> QED
  BY <1>3, <1>4 DEF Pending, a

-----------------------------------------------------------------------------
(* The invariant of init_send.                                             *)

SendsRaw == raw /\ ~SendsRepeat

GapOf(r) == min_remaining_gap[r]

\* The marks that are left fit what is in the buffer: a raw code's entries go
\* directly to their places, any other frame begins with a pulse.
MarksFit ==
  /\ todo \in Seq(Mark) /\ \A i \in DOMAIN todo : todo[i].us > 0
  /\ IF SendsRaw
     THEN /\ ~Pending(send_buffer) /\ (todo = <<>> => Len(send_buffer.data) > 0)
          /\ \/ send_buffer.too_long
             \/ \A i \in DOMAIN todo :
                  todo[i].kind = "pulse" <=> (Len(send_buffer.data) + i) % 2 = 1
     ELSE \/ Pending(send_buffer)
          \/ /\ todo # <<>> /\ todo[1].kind = "pulse"
             /\ send_buffer.too_long \/ Even(Len(send_buffer.data))

SendInv ==
  /\ TypeOK
  /\ Alternating(send_buffer.data)
  /\ pc # "idle" => Fits(send_buffer)
  /\ pc = "frame" => /\ ~Pending(send_buffer)
                     /\ send_buffer.too_long \/ Even(Len(send_buffer.data))
  /\ pc = "marks" => MarksFit
  /\ pc \in {"gap", "space"} => ~send_buffer.too_long /\ Odd(Len(send_buffer.data))
  /\ pc = "space" => GapOf(Code[code].remote) > 0

\* An empty buffer may take a pulse.
LEMMA ClearedFits ==
  Whole(Cleared) /\ Fits(Cleared) /\ ~Pending(Cleared) /\ Even(Len(Cleared.data))
<1>1. Cleared \in BufferType /\ Cleared.data = <<>>
  BY DEF Cleared, BufferType
<1> QED
  BY <1>1, BufferAssumption DEF Whole, Fits, Pending, Alternating, Cleared, Even

LEMMA SendInit == Init => SendInv
<1> SUFFICES ASSUME Init PROVE SendInv
  OBVIOUS
<1>1. send_buffer \in BufferType /\ Len(send_buffer.data) <= WBUF_SIZE
      /\ Alternating(send_buffer.data)
  BY ClearedFits DEF Init, Whole
<1>2. \A c \in Codes : Len(Code[c].parts) \in Nat /\ 0 < Len(Code[c].parts)
  BY CodeAssumption
<1>3. TypeOK
  <2>1. repeat \in BOOLEAN
    BY DEF Init
  <2> QED
    BY <1>1, <1>2, <2>1 DEF Init, TypeOK, BufferType
<1> QED
  BY <1>1, <1>3 DEF Init, SendInv

\* Facts every step needs.
LEMMA Facts ==
  ASSUME SendInv
  PROVE  /\ Whole(send_buffer)
         /\ code \in Codes /\ Code[code].remote \in Remotes
         /\ \A r \in Remotes : /\ Remote[r].toggle_bit_mask \in SUBSET Nat
                               /\ min_gap(Remote[r]) \in Nat /\ min_gap(Remote[r]) > 0
                               /\ Remote[r].repeat_gap \in Nat /\ Remote[r].min_repeat \in Nat
BY CodeAssumption, RemoteAssumption DEF SendInv, TypeOK, Whole, BufferType

LEMMA SendStart ==
  ASSUME SendInv, NEW c \in Codes, NEW repeats \in Int, MayStart, Start(c, repeats)
  PROVE  SendInv'
<1> DEFINE r == Code[c].remote
<1>1. r \in Remotes /\ Remote[r].min_repeat \in Nat
  BY CodeAssumption, Facts
<1>2. Larger(Remote[r].min_repeat, repeats) \in Nat
  BY <1>1 DEF Larger
<1>3. /\ toggle_mask_state' \in [Remotes -> 0 .. 3]
      /\ toggle_bit_mask_state' \in [Remotes -> SUBSET Nat]
      /\ \A q \in Remotes : toggle_bit_mask_state'[q] \subseteq Remote[q].toggle_bit_mask
  <2>1. toggle_mask_state' \in [Remotes -> 0 .. 3]
    BY <1>1 DEF Start, SendInv, TypeOK
  <2>2. Remote[r].toggle_bit_mask \ toggle_bit_mask_state[r] \in SUBSET Nat
    BY <1>1, Facts
  <2> QED
    BY <1>1, <2>1, <2>2 DEF Start, SendInv, TypeOK
<1>4. /\ code' \in Codes /\ UNCHANGED <<transmit_state, min_remaining_gap>>
      /\ result' \in {"none", "ok", "failed"}
  BY DEF Start
<1>5. repeat' \in BOOLEAN
  BY DEF Start
<1>6. CASE Unsupported(r)
  <2>1. UNCHANGED <<send_buffer, repeat_countdown, pc>> /\ pc' = "idle"
    BY <1>6 DEF Start, MayStart
  <2> QED
    BY <1>3, <1>4, <1>5, <2>1 DEF SendInv, TypeOK
<1>7. CASE ~Unsupported(r)
  <2>1. /\ pc' = "frame" /\ send_buffer' = Cleared
        /\ repeat_countdown' =
             [repeat_countdown EXCEPT ![r] = Larger(Remote[r].min_repeat, repeats)]
    BY <1>7 DEF Start
  <2>2. repeat_countdown' \in [Remotes -> Nat]
    BY <1>1, <1>2, <2>1 DEF SendInv, TypeOK
  <2>3. TypeOK'
    BY <1>3, <1>4, <1>5, <2>1, <2>2, ClearedFits DEF SendInv, TypeOK, Whole, BufferType
  <2> QED
    BY <2>1, <2>3, ClearedFits DEF SendInv, Whole
<1> QED
  BY <1>6, <1>7

LEMMA SendRequest == SendInv /\ (parseSendString \/ OnSendcode) => SendInv'
<1>1. ASSUME SendInv, parseSendString PROVE SendInv'
  <2>1. PICK c \in Codes, n \in Repeats :
          Start(c, Smaller(Larger(n, Remote[Code[c].remote].min_repeat), RepeatCap))
    BY <1>1 DEF parseSendString
  <2>2. Smaller(Larger(n, Remote[Code[c].remote].min_repeat), RepeatCap) \in Int
    <3>1. n \in Int /\ RepeatCap \in Int /\ Remote[Code[c].remote].min_repeat \in Int
      BY <1>1, BoundsAssumption, CodeAssumption, Facts
    <3> QED
      BY <3>1 DEF Larger, Smaller
  <2> QED
    BY <1>1, <2>1, <2>2, SendStart DEF parseSendString
<1>2. ASSUME SendInv, OnSendcode PROVE SendInv'
  <2>1. PICK c \in Codes, n \in Repeats \cap Nat :
          Start(c, Larger(n, Remote[Code[c].remote].min_repeat))
    BY <1>2 DEF OnSendcode
  <2>2. Larger(n, Remote[Code[c].remote].min_repeat) \in Int
    <3>1. n \in Int /\ Remote[Code[c].remote].min_repeat \in Int
      BY <1>2, CodeAssumption, Facts
    <3> QED
      BY <3>1 DEF Larger
  <2> QED
    BY <1>2, <2>1, <2>2, SendStart DEF OnSendcode
<1> QED
  BY <1>1, <1>2

LEMMA SendBegin == SendInv /\ BeginFrame => SendInv'
<1> SUFFICES ASSUME SendInv, BeginFrame PROVE SendInv'
  OBVIOUS
<1>1. /\ pc = "frame"
      /\ UNCHANGED <<send_buffer, transmit_state, toggle_mask_state, toggle_bit_mask_state,
                     min_remaining_gap, repeat_countdown, code, repeat>>
  BY DEF BeginFrame, remoteVars
<1>2. /\ ~Pending(send_buffer) /\ (send_buffer.too_long \/ Even(Len(send_buffer.data)))
      /\ Fits(send_buffer) /\ Alternating(send_buffer.data) /\ TypeOK
  BY <1>1 DEF SendInv
<1>3. Whole(send_buffer) /\ code \in Codes /\ Code[code].remote \in Remotes
      /\ Len(send_buffer.data) \in Nat
  BY Facts DEF Whole, BufferType
<1>4. CASE raw /\ ~SendsRepeat /\ Code[code].signals = <<>>
  <2>1. pc' = "idle" /\ result' = "failed"
    BY <1>4 DEF BeginFrame, Fail
  <2> QED
    BY <1>1, <1>2, <2>1 DEF SendInv, TypeOK
<1>5. CASE ~(raw /\ ~SendsRepeat /\ Code[code].signals = <<>>)
  <2>1. pc' = "marks" /\ UNCHANGED result
    BY <1>5 DEF BeginFrame
  <2>2. TypeOK'
    BY <1>1, <1>2, <2>1 DEF TypeOK
  <2>3. SendsRaw' <=> SendsRaw
    BY <1>1 DEF SendsRaw, SendsRepeat, raw, R
  <2>4. CASE SendsRaw
    <3> DEFINE signals == Code[code].signals
    <3>1. todo' = RawMarks(signals)
      <4>1. raw /\ ~SendsRepeat
        BY <2>4 DEF SendsRaw
      <4> QED
        BY <1>5, <4>1 DEF BeginFrame
    <3>2. signals \in Seq(Nat \ {0}) /\ signals # <<>>
      BY <1>3, <1>5, <2>4, CodeAssumption DEF SendsRaw
    <3> HIDE DEF signals
    <3>3. /\ todo' \in Seq(Mark) /\ Len(todo') = Len(signals)
          /\ \A i \in 1 .. Len(signals) :
               todo'[i].us > 0 /\ (todo'[i].kind = "pulse" <=> i % 2 = 1)
      <4>1. DOMAIN signals = 1 .. Len(signals) /\ Len(signals) \in Nat
            /\ \A i \in 1 .. Len(signals) : signals[i] \in Nat /\ signals[i] > 0
        BY <3>2
      <4>2. ASSUME NEW i \in 1 .. Len(signals)
            PROVE  /\ RawMarks(signals)[i] \in Mark /\ RawMarks(signals)[i].us > 0
                   /\ RawMarks(signals)[i].kind = "pulse" <=> i % 2 = 1
        BY <4>1 DEF RawMarks, PulseMark, SpaceMark, Mark
      <4>3. RawMarks(signals) \in [1 .. Len(signals) -> Mark]
        <5>1. RawMarks(signals) = [i \in 1 .. Len(signals) |-> RawMarks(signals)[i]]
          BY <4>1 DEF RawMarks
        <5> QED
          BY <4>2, <5>1
      <4>4. RawMarks(signals) \in Seq(Mark) /\ Len(RawMarks(signals)) = Len(signals)
        BY <4>1, <4>3
      <4> QED
        BY <3>1, <4>2, <4>4
    <3>4. todo' # <<>> /\ DOMAIN todo' = 1 .. Len(signals)
      BY <3>2, <3>3
    <3>5. ASSUME ~send_buffer.too_long, NEW i \in 1 .. Len(signals)
          PROVE  todo'[i].kind = "pulse" <=> (Len(send_buffer.data) + i) % 2 = 1
      <4>1. i \in Nat /\ Even(Len(send_buffer.data))
        BY <1>2, <3>2, <3>5
      <4>2. (Len(send_buffer.data) + i) % 2 = 1 <=> i % 2 = 1
        BY <1>3, <4>1, ParityOfSum
      <4>3. todo'[i].kind = "pulse" <=> i % 2 = 1
        BY <3>3
      <4> QED
        BY <4>2, <4>3
    <3>6. MarksFit'
      BY <1>1, <1>2, <2>3, <2>4, <3>3, <3>4, <3>5 DEF MarksFit, Pending
    <3> QED
      BY <1>1, <1>2, <2>1, <2>2, <3>6 DEF SendInv
  <2>5. CASE ~SendsRaw
    <3>1. PulsesFirst(todo')
      <4>1. CASE SendsRepeat
        <5>1. todo' = RepeatMarks(R)
          BY <1>5, <4>1 DEF BeginFrame
        <5> QED
          BY <1>3, <4>1, <5>1, FrameAssumption DEF SendsRepeat, R
      <4>2. CASE ~SendsRepeat
        <5> DEFINE r == Code[code].remote
        <5>1. ~raw
          BY <2>5, <4>2 DEF SendsRaw
        <5>2. todo' = CodeMarks(R, Code[code].parts[PartNo], repeat, ToggleOf(r))
          BY <4>2, <5>1 DEF BeginFrame
        <5>3. PartNo \in DOMAIN Code[code].parts
          <6>1. Code[code].parts \in Seq(Seq({0, 1})) /\ transmit_state[code] \in Nat
                /\ transmit_state[code] < Len(Code[code].parts)
            BY <1>2, <1>3, CodeAssumption DEF TypeOK
          <6> QED
            BY <6>1 DEF PartNo
        <5>4. toggle_mask_state[r] \in 0 .. 3
              /\ toggle_bit_mask_state[r] \in SUBSET Remote[r].toggle_bit_mask
          BY <1>2, <1>3 DEF TypeOK
        <5>5. repeat \in BOOLEAN
          BY <1>2 DEF TypeOK
        <5> QED
          BY <1>3, <5>1, <5>2, <5>3, <5>4, <5>5, FrameAssumption DEF R, raw, ToggleOf
      <4> QED
        BY <4>1, <4>2
    <3>2. MarksFit'
      BY <1>1, <1>2, <2>3, <2>5, <3>1 DEF MarksFit, PulsesFirst
    <3> QED
      BY <1>1, <1>2, <2>1, <2>2, <3>2 DEF SendInv
  <2> QED
    BY <2>4, <2>5
<1> QED
  BY <1>4, <1>5

LEMMA SendMarkKeeps == SendInv /\ SendMark => SendInv'
<1> SUFFICES ASSUME SendInv, SendMark PROVE SendInv'
  OBVIOUS
<1> DEFINE mark == Head(todo)
<1>1. /\ pc = "marks" /\ todo # <<>> /\ todo' = Tail(todo)
      /\ send_buffer' = IF raw /\ ~SendsRepeat THEN Add(send_buffer, mark)
                        ELSE IF mark.kind = "pulse" THEN Pulse(send_buffer, mark.us)
                        ELSE Space(send_buffer, mark.us)
      /\ UNCHANGED <<transmit_state, toggle_mask_state, toggle_bit_mask_state,
                     min_remaining_gap, repeat_countdown, pc, code, repeat, result>>
  BY DEF SendMark, remoteVars
<1>2. MarksFit /\ Fits(send_buffer) /\ Whole(send_buffer) /\ TypeOK
  BY <1>1, Facts DEF SendInv
<1>3. /\ todo \in Seq(Mark) /\ Len(todo) \in Nat /\ Len(todo) > 0
      /\ \A i \in 1 .. Len(todo) : todo[i].us > 0
  BY <1>1, <1>2 DEF MarksFit
<1>4. mark = todo[1] /\ mark \in Mark /\ mark.us > 0
  BY <1>3
<1>5. /\ todo' \in Seq(Mark) /\ DOMAIN todo' = 1 .. Len(todo) - 1
      /\ \A i \in 1 .. Len(todo) - 1 : todo'[i] = todo[i + 1] /\ todo'[i].us > 0
  BY <1>1, <1>3
<1> HIDE DEF mark
<1>6. SendsRaw' <=> SendsRaw
  BY <1>1 DEF SendsRaw, SendsRepeat, raw, R
<1>7. Len(send_buffer.data) \in Nat /\ Len(send_buffer.data) <= WBUF_SIZE
  BY <1>2 DEF Whole, BufferType
<1>8. CASE SendsRaw
  <2>1. send_buffer' = Add(send_buffer, mark)
    BY <1>1, <1>8 DEF SendsRaw
  <2>2. ~Pending(send_buffer)
    BY <1>2, <1>8 DEF MarksFit
  <2>3. CASE send_buffer.too_long
    <3>1. Len(send_buffer.data) = WBUF_SIZE
      BY <1>2, <2>3 DEF Fits
    <3>2. send_buffer' = send_buffer
      BY <1>2, <1>4, <2>1, <2>3, <3>1, AddDrops
    <3>3. MarksFit'
      BY <1>5, <1>6, <1>8, <2>2, <2>3, <3>1, <3>2, BufferAssumption DEF MarksFit, Pending
    <3> QED
      BY <1>1, <1>2, <3>2, <3>3 DEF SendInv, TypeOK
  <2>4. CASE ~send_buffer.too_long
    <3>1. \A i \in 1 .. Len(todo) :
            todo[i].kind = "pulse" <=> (Len(send_buffer.data) + i) % 2 = 1
      <4>1. DOMAIN todo = 1 .. Len(todo)
        BY <1>3
      <4> QED
        BY <1>2, <1>8, <2>4, <4>1 DEF MarksFit
    <3>2. mark.kind = "pulse" <=> Even(Len(send_buffer.data))
      <4>1. 1 \in 1 .. Len(todo)
        BY <1>3
      <4>2. mark.kind = "pulse" <=> Odd(Len(send_buffer.data) + 1)
        BY <1>4, <3>1, <4>1 DEF Odd
      <4> QED
        BY <1>7, <4>2, Parity
    <3>3. /\ Whole(send_buffer') /\ send_buffer'.pendingp = send_buffer.pendingp
          /\ send_buffer'.pendings = send_buffer.pendings
          /\ IF send_buffer'.too_long THEN Len(send_buffer'.data) = WBUF_SIZE
             ELSE Len(send_buffer'.data) = Len(send_buffer.data) + 1
      BY <1>2, <1>4, <2>1, <2>4, <3>2, AddStores
    <3>4. ~Pending(send_buffer')
      BY <2>2, <3>3 DEF Pending
    <3>5. Fits(send_buffer')
      BY <3>3, <3>4 DEF Fits, Pending, Whole, BufferType
    <3>6. ASSUME ~send_buffer'.too_long, NEW i \in 1 .. Len(todo) - 1
          PROVE  todo'[i].kind = "pulse" <=> (Len(send_buffer'.data) + i) % 2 = 1
      <4>1. i + 1 \in 1 .. Len(todo)
        BY <1>3
      <4>2. todo'[i] = todo[i + 1]
        BY <1>5
      <4>3. Len(send_buffer'.data) + i = Len(send_buffer.data) + (i + 1)
        <5>1. Len(send_buffer'.data) = Len(send_buffer.data) + 1
          BY <3>3, <3>6
        <5>2. i \in Int
          BY <1>3
        <5> QED
          BY <1>7, <5>1, <5>2, Shifted
      <4> QED
        BY <3>1, <4>1, <4>2, <4>3
    <3>7. Len(send_buffer'.data) > 0
      BY <1>7, <3>3, BufferAssumption
    <3>8. MarksFit'
      BY <1>5, <1>6, <1>8, <3>4, <3>6, <3>7 DEF MarksFit, Pending
    <3>9. TypeOK' /\ Alternating(send_buffer'.data)
      BY <1>1, <1>2, <3>3 DEF TypeOK, Whole, BufferType
    <3> QED
      BY <1>1, <3>5, <3>8, <3>9 DEF SendInv, Fits
  <2> QED
    BY <2>3, <2>4
<1>9. CASE ~SendsRaw
  <2>1. send_buffer' = IF mark.kind = "pulse" THEN Pulse(send_buffer, mark.us)
                       ELSE Space(send_buffer, mark.us)
    BY <1>1, <1>9 DEF SendsRaw
  <2>2. mark.us \in Nat /\ mark.us > 0
    BY <1>4 DEF Mark
  <2>3. \/ Pending(send_buffer)
        \/ mark.kind = "pulse" /\ (send_buffer.too_long \/ Even(Len(send_buffer.data)))
    BY <1>2, <1>4, <1>9 DEF MarksFit
  <2>4. Whole(send_buffer') /\ Fits(send_buffer') /\ Pending(send_buffer')
    <3>1. CASE mark.kind = "pulse"
      BY <1>2, <2>1, <2>2, <2>3, <3>1, PulseSent
    <3>2. CASE mark.kind # "pulse"
      BY <1>2, <2>1, <2>2, <2>3, <3>2, SpaceSent DEF Pending
    <3> QED
      BY <3>1, <3>2
  <2>5. MarksFit'
    BY <1>5, <1>6, <1>9, <2>4 DEF MarksFit, Pending
  <2>6. TypeOK' /\ Alternating(send_buffer'.data)
    BY <1>1, <1>2, <2>4 DEF TypeOK, Whole, BufferType
  <2> QED
    BY <1>1, <2>4, <2>5, <2>6 DEF SendInv, Fits
<1> QED
  BY <1>8, <1>9

LEMMA AdvanceStays ==
  ASSUME NEW state \in 0 .. 3
  PROVE  Advance(state) \in 0 .. 3
BY DEF Advance

LEMMA EndFrameKeeps == SendInv /\ EndFrame => SendInv'
<1> SUFFICES ASSUME SendInv, EndFrame PROVE SendInv'
  OBVIOUS
<1> DEFINE counted == [send_buffer EXCEPT !.sum = @ - HeaderLeftOut]
           r       == Code[code].remote
<1>1. /\ pc = "marks" /\ todo = <<>> /\ send_buffer' = Sync(counted)
      /\ IF Bad(Sync(counted)) THEN Fail ELSE pc' = "gap" /\ UNCHANGED result
      /\ UNCHANGED <<transmit_state, toggle_bit_mask_state, min_remaining_gap,
                     repeat_countdown, code, repeat>>
      /\ toggle_mask_state' = IF SendsRepeat \/ raw \/ R.toggle_mask = {} THEN toggle_mask_state
                              ELSE [toggle_mask_state EXCEPT ![r] = Advance(@)]
  BY DEF EndFrame
<1>2. MarksFit /\ Fits(send_buffer) /\ Whole(send_buffer) /\ TypeOK /\ r \in Remotes
  BY <1>1, Facts DEF SendInv
<1>3. Pending(send_buffer) \/ Len(send_buffer.data) > 0
  BY <1>1, <1>2 DEF MarksFit
<1>4. Whole(counted) /\ Fits(counted) /\ (Pending(counted) \/ Len(counted.data) > 0)
  <2>1. HeaderLeftOut \in Int
    <3>1. R.header[1] \in Nat /\ R.header[2] \in Nat
      BY <1>2, RemoteAssumption DEF R
    <3> QED
      BY <3>1 DEF HeaderLeftOut
  <2>2. send_buffer \in BufferType /\ send_buffer.sum - HeaderLeftOut \in Int
    BY <1>2, <2>1 DEF Whole, BufferType
  <2>3. counted \in BufferType
    BY <2>2 DEF BufferType
  <2>4. /\ counted.data = send_buffer.data /\ counted.too_long = send_buffer.too_long
        /\ counted.pendingp = send_buffer.pendingp /\ counted.pendings = send_buffer.pendings
    BY <2>2 DEF BufferType
  <2> HIDE DEF counted
  <2> QED
    BY <1>2, <1>3, <2>3, <2>4 DEF Whole, Fits, Pending
<1> HIDE DEF counted
<1>5. Whole(send_buffer')
      /\ (~Bad(send_buffer') => /\ Fits(send_buffer') /\ ~send_buffer'.too_long
                                /\ Odd(Len(send_buffer'.data)))
  BY <1>1, <1>4, SyncEndsInPulse
<1>6. toggle_mask_state' \in [Remotes -> 0 .. 3]
  <2>1. toggle_mask_state \in [Remotes -> 0 .. 3] /\ toggle_mask_state[r] \in 0 .. 3
    BY <1>2 DEF TypeOK
  <2>2. Advance(toggle_mask_state[r]) \in 0 .. 3
    BY <2>1, AdvanceStays
  <2> QED
    BY <1>1, <1>2, <2>1, <2>2
<1>7. CASE Bad(send_buffer')
  <2>1. pc' = "idle" /\ result' = "failed"
    BY <1>1, <1>7 DEF Fail
  <2> QED
    BY <1>1, <1>2, <1>5, <1>6, <2>1 DEF SendInv, TypeOK, Whole, BufferType
<1>8. CASE ~Bad(send_buffer')
  <2>1. pc' = "gap" /\ UNCHANGED result
    BY <1>1, <1>8
  <2>2. TypeOK'
    BY <1>1, <1>2, <1>5, <1>6, <2>1 DEF TypeOK, Whole, BufferType
  <2> QED
    BY <1>5, <1>8, <2>1, <2>2 DEF SendInv, Whole
<1> QED
  BY <1>7, <1>8

LEMMA ComputeGapKeeps == SendInv /\ ComputeGap => SendInv'
<1> SUFFICES ASSUME SendInv, ComputeGap PROVE SendInv'
  OBVIOUS
<1> DEFINE r      == Code[code].remote
           ownGap == R.repeat_gap > 0 /\ SendsRepeat
           const  == ~ownGap /\ is_const(R)
           fits   == min_gap(R) > send_buffer.sum
           gap    == IF ownGap THEN R.repeat_gap
                     ELSE IF const /\ fits THEN RemainingGap ELSE min_gap(R)
<1>1. /\ pc = "gap" /\ min_remaining_gap' = [min_remaining_gap EXCEPT ![r] = gap]
      /\ IF const /\ ~fits
         THEN Fail /\ UNCHANGED transmit_state
         ELSE /\ pc' = "space" /\ UNCHANGED result
              /\ transmit_state' = [transmit_state EXCEPT ![code] = NextPart]
      /\ UNCHANGED <<send_buffer, toggle_mask_state, toggle_bit_mask_state, repeat_countdown,
                     code, repeat>>
  BY DEF ComputeGap
<1>2. /\ TypeOK /\ Fits(send_buffer) /\ Alternating(send_buffer.data)
      /\ ~send_buffer.too_long /\ Odd(Len(send_buffer.data))
  BY <1>1 DEF SendInv
<1>3. /\ code \in Codes /\ r \in Remotes /\ min_gap(R) \in Nat /\ min_gap(R) > 0
      /\ R.repeat_gap \in Nat /\ send_buffer.sum \in Int
  BY <1>2, Facts DEF R, TypeOK
<1>4. gap \in Nat /\ gap > 0
  BY <1>3 DEF RemainingGap
<1> HIDE DEF gap
<1>5. min_remaining_gap' \in [Remotes -> Nat] /\ min_remaining_gap'[r] > 0
  BY <1>1, <1>2, <1>3, <1>4 DEF TypeOK
<1>6. CASE const /\ ~fits
  <2>1. pc' = "idle" /\ result' = "failed" /\ UNCHANGED transmit_state
    BY <1>1, <1>6 DEF Fail
  <2> QED
    BY <1>1, <1>2, <1>5, <2>1 DEF SendInv, TypeOK
<1>7. CASE ~(const /\ ~fits)
  <2>1. /\ pc' = "space" /\ UNCHANGED result
        /\ transmit_state' = [transmit_state EXCEPT ![code] = NextPart]
    BY <1>1, <1>7
  <2>2. NextPart \in Nat /\ NextPart < Len(Code[code].parts)
    <3> DEFINE n == Len(Code[code].parts)
               t == transmit_state[code]
    <3>1. n \in Nat /\ n > 0 /\ t \in Nat /\ t < n
      <4>1. t \in Nat /\ t < n
        BY <1>2, <1>3 DEF TypeOK
      <4>2. Code[code].parts \in Seq(Seq({0, 1})) /\ Code[code].parts # <<>>
        BY <1>3, CodeAssumption
      <4> QED
        BY <4>1, <4>2
    <3>2. NextPart = IF n = 1 THEN 0
                     ELSE IF t = n - 1 THEN (IF R.protocol = "xmp" THEN 1 ELSE 0) ELSE t + 1
      BY DEF NextPart
    <3> HIDE DEF n, t
    <3>3. NextPart \in Nat /\ NextPart < n
      BY <3>1, <3>2
    <3> QED
      BY <3>3 DEF n
  <2>3. /\ transmit_state' \in [Codes -> Nat]
        /\ \A c \in Codes : transmit_state'[c] < Len(Code[c].parts)
    BY <1>2, <1>3, <2>1, <2>2 DEF TypeOK
  <2>4. TypeOK'
    BY <1>1, <1>2, <1>5, <2>1, <2>3 DEF TypeOK
  <2> QED
    BY <1>1, <1>2, <1>5, <2>1, <2>4 DEF SendInv, GapOf, Fits
<1> QED
  BY <1>6, <1>7

LEMMA SendGapKeeps == SendInv /\ SendGap => SendInv'
<1> SUFFICES ASSUME SendInv, SendGap PROVE SendInv'
  OBVIOUS
<1> DEFINE r       == Code[code].remote
           flushed == Flush(Space(send_buffer, min_remaining_gap[r]))
<1>1. /\ pc = "space"
      /\ UNCHANGED <<transmit_state, toggle_mask_state, toggle_bit_mask_state,
                     min_remaining_gap, code>>
  BY DEF SendGap, remoteVars
<1>2. /\ TypeOK /\ Fits(send_buffer) /\ Whole(send_buffer) /\ ~send_buffer.too_long
      /\ Odd(Len(send_buffer.data)) /\ min_remaining_gap[r] > 0
  BY <1>1, Facts DEF SendInv, GapOf
<1>3. code \in Codes /\ r \in Remotes /\ min_remaining_gap[r] \in Nat
  BY <1>2, Facts DEF TypeOK
<1>4. /\ Whole(flushed) /\ Fits(flushed) /\ ~Pending(flushed)
      /\ flushed.too_long \/ Even(Len(flushed.data))
  BY <1>2, <1>3, GapSent
<1>5. CASE GoesOn(r)
  <2>1. /\ pc' = "frame" /\ UNCHANGED result
        /\ send_buffer' = [flushed EXCEPT !.sum = 0]
        /\ IF transmit_state[code] = 0
           THEN /\ repeat_countdown' = [repeat_countdown EXCEPT ![r] = @ - 1]
                /\ repeat' = TRUE
           ELSE UNCHANGED <<repeat_countdown, repeat>>
    BY <1>5 DEF SendGap
  <2> HIDE DEF flushed
  <2>2. /\ Whole(send_buffer') /\ Fits(send_buffer') /\ ~Pending(send_buffer')
        /\ send_buffer'.too_long \/ Even(Len(send_buffer'.data))
    <3>1. flushed \in BufferType
      BY <1>4 DEF Whole
    <3>2. [flushed EXCEPT !.sum = 0] \in BufferType
      BY <3>1 DEF BufferType
    <3>3. LET b == [flushed EXCEPT !.sum = 0]
          IN  /\ b.data = flushed.data /\ b.too_long = flushed.too_long
              /\ b.pendingp = flushed.pendingp /\ b.pendings = flushed.pendings
      BY <3>1 DEF BufferType
    <3> QED
      BY <1>4, <2>1, <3>2, <3>3 DEF Whole, Fits, Pending
  <2>3. repeat_countdown' \in [Remotes -> Nat]
    <3>1. CASE transmit_state[code] = 0
      <4>1. repeat_countdown \in [Remotes -> Nat] /\ repeat_countdown[r] - 1 \in Nat
        BY <1>2, <1>3, <1>5, <3>1 DEF TypeOK, GoesOn
      <4> QED
        BY <2>1, <3>1, <4>1
    <3>2. CASE transmit_state[code] # 0
      BY <1>2, <2>1, <3>2 DEF TypeOK
    <3> QED
      BY <3>1, <3>2
  <2>4. repeat' \in BOOLEAN
    BY <1>2, <2>1 DEF TypeOK
  <2>5. TypeOK'
    BY <1>1, <1>2, <2>1, <2>2, <2>3, <2>4 DEF TypeOK, Whole, BufferType
  <2> QED
    BY <2>1, <2>2, <2>5 DEF SendInv, Whole, Pending, Fits
<1>6. CASE ~GoesOn(r)
  <2>1. /\ send_buffer' = flushed /\ pc' = "idle" /\ result' \in {"ok", "failed"}
        /\ UNCHANGED <<repeat_countdown, repeat>>
    BY <1>6 DEF SendGap
  <2> HIDE DEF flushed
  <2> QED
    BY <1>1, <1>2, <1>4, <2>1 DEF SendInv, TypeOK, Whole, BufferType
<1> QED
  BY <1>5, <1>6

LEMMA DecodeKeeps == SendInv /\ Decode => SendInv'
<1> SUFFICES ASSUME SendInv, Decode PROVE SendInv'
  OBVIOUS
<1>1. PICK q \in Remotes : Decoded(q) \/ NotDecoded(q)
  BY DEF Decode
<1>2. UNCHANGED <<send_buffer, transmit_state, repeat_countdown, pc, code, repeat, todo, result>>
  BY DEF Decode
<1>3. TypeOK /\ Code[code].remote \in Remotes
      /\ Remote[q].toggle_bit_mask \in SUBSET Nat /\ min_gap(Remote[q]) \in Nat
      /\ min_gap(Remote[q]) > 0
  BY Facts DEF SendInv
<1>4. /\ toggle_mask_state' \in [Remotes -> 0 .. 3]
      /\ toggle_bit_mask_state' \in [Remotes -> SUBSET Nat]
      /\ \A r \in Remotes : toggle_bit_mask_state'[r] \subseteq Remote[r].toggle_bit_mask
      /\ min_remaining_gap' \in [Remotes -> Nat]
      /\ \A r \in Remotes : min_remaining_gap[r] > 0 => min_remaining_gap'[r] > 0
  <2>1. CASE Decoded(q)
    <3>1. PICK bits \in SUBSET Remote[q].toggle_bit_mask :
            toggle_bit_mask_state' = [toggle_bit_mask_state EXCEPT ![q] = bits]
      BY <2>1 DEF Decoded
    <3>2. PICK length \in HeardLengths :
            min_remaining_gap' = [min_remaining_gap EXCEPT ![q] =
              IF ~is_const(Remote[q]) THEN min_gap(Remote[q])
              ELSE IF min_gap(Remote[q]) > length THEN min_gap(Remote[q]) - length ELSE 0]
      BY <2>1 DEF Decoded
    <3>3. length \in Nat /\ (is_const(Remote[q]) => length < min_gap(Remote[q]))
      BY HeardAssumption
    <3> DEFINE gap == IF ~is_const(Remote[q]) THEN min_gap(Remote[q])
                      ELSE IF min_gap(Remote[q]) > length THEN min_gap(Remote[q]) - length ELSE 0
    <3>4. gap \in Nat /\ gap > 0 /\ min_remaining_gap' = [min_remaining_gap EXCEPT ![q] = gap]
      <4>1. CASE ~is_const(Remote[q])
        BY <1>3, <3>2, <4>1
      <4>2. CASE is_const(Remote[q])
        <5>1. /\ min_gap(Remote[q]) > length /\ min_gap(Remote[q]) - length \in Nat
              /\ min_gap(Remote[q]) - length > 0
          BY <1>3, <3>3, <4>2
        <5> QED
          BY <3>2, <4>2, <5>1
      <4> QED
        BY <4>1, <4>2
    <3> HIDE DEF gap
    <3>5. toggle_mask_state \in [Remotes -> 0 .. 3] /\ toggle_mask_state[q] \in 0 .. 3
      BY <1>3 DEF TypeOK
    <3>6. Advance(toggle_mask_state[q]) \in 0 .. 3
      BY <3>5, AdvanceStays
    <3>7. toggle_mask_state' \in [Remotes -> 0 .. 3]
      <4>1. CASE Remote[q].toggle_mask = {}
        BY <2>1, <3>5, <4>1 DEF Decoded
      <4>2. CASE Remote[q].toggle_mask # {}
        <5>1. PICK state \in {1, Advance(toggle_mask_state[q])} :
                toggle_mask_state' = [toggle_mask_state EXCEPT ![q] = state]
          BY <2>1, <4>2 DEF Decoded
        <5>2. state \in 0 .. 3
          BY <3>6
        <5> QED
          BY <3>5, <5>1, <5>2
      <4> QED
        BY <4>1, <4>2
    <3>8. /\ toggle_bit_mask_state' \in [Remotes -> SUBSET Nat]
          /\ \A r \in Remotes : toggle_bit_mask_state'[r] \subseteq Remote[r].toggle_bit_mask
      <4>1. bits \in SUBSET Nat
        BY <1>3
      <4> QED
        BY <1>3, <3>1, <4>1 DEF TypeOK
    <3>9. /\ min_remaining_gap' \in [Remotes -> Nat]
          /\ \A r \in Remotes : min_remaining_gap[r] > 0 => min_remaining_gap'[r] > 0
      BY <1>3, <3>4 DEF TypeOK
    <3> QED
      BY <3>7, <3>8, <3>9
  <2>2. CASE NotDecoded(q)
    BY <1>3, <2>2 DEF NotDecoded, TypeOK
  <2> QED
    BY <1>1, <2>1, <2>2
<1>5. TypeOK'
  BY <1>2, <1>3, <1>4 DEF TypeOK
<1>6. MarksFit' <=> MarksFit
  BY <1>2 DEF MarksFit, SendsRaw, SendsRepeat, raw, R, Pending
<1> QED
  BY <1>2, <1>3, <1>4, <1>5, <1>6 DEF SendInv, GapOf, Fits, Pending

LEMMA SendInvariant == Spec => []SendInv
<1>1. ASSUME SendInv, [Next]_vars PROVE SendInv'
  <2>1. CASE parseSendString \/ OnSendcode
    BY <1>1, <2>1, SendRequest
  <2>2. CASE BeginFrame
    BY <1>1, <2>2, SendBegin
  <2>3. CASE SendMark
    BY <1>1, <2>3, SendMarkKeeps
  <2>4. CASE EndFrame
    BY <1>1, <2>4, EndFrameKeeps
  <2>5. CASE ComputeGap
    BY <1>1, <2>5, ComputeGapKeeps
  <2>6. CASE SendGap
    BY <1>1, <2>6, SendGapKeeps
  <2>7. CASE Decode
    BY <1>1, <2>7, DecodeKeeps
  <2>8. CASE UNCHANGED vars
    <3>1. UNCHANGED <<send_buffer, transmit_state, toggle_mask_state, toggle_bit_mask_state,
                      min_remaining_gap, repeat_countdown, pc, code, repeat, todo, result>>
      BY <2>8 DEF vars, remoteVars
    <3> QED
      BY <1>1, <3>1 DEF SendInv, TypeOK, MarksFit, SendsRaw, SendsRepeat, raw, R, Fits, Pending,
                        GapOf
  <2> QED
    BY <1>1, <2>1, <2>2, <2>3, <2>4, <2>5, <2>6, <2>7, <2>8 DEF Next, init_send
<1> QED
  BY SendInit, <1>1, PTL DEF Spec

\* The types: the part that init_send sends next is a part of the code, the array
\* never holds more than WBUF_SIZE entries, the countdown never goes below 0.
THEOREM TypeCorrect == Spec => []TypeOK
<1>1. SendInv => TypeOK
  BY DEF SendInv
<1> QED
  BY SendInvariant, <1>1, PTL

\* add_send_buffer stores pulses at odd places and spaces at even ones (counted
\* from 1), and never an empty entry, whatever the frames and wherever the array
\* fills up, and also while the daemon thread decodes.
THEOREM BufferAlternates == Spec => []Alternates
<1>1. SendInv => Alternates
  BY DEF SendInv, Alternating, Alternates
<1> QED
  BY SendInvariant, <1>1, PTL
-----------------------------------------------------------------------------
(* Parts and repeats: no frame of a send that reports success is left out. *)

Asked ==
  [repeats : Nat, bits : SUBSET Nat, part : Nat, from : Nat, frames : Nat, disturbed : BOOLEAN]

Parts == Len(Code[code].parts)

\* What the rounds that repeat_countdown has counted off come to.
RoundsBefore == Parts * (asked.repeats - repeat_countdown[Code[code].remote])

FramesSent == asked.part + asked.frames

\* transmit_state is the part that is sent now, until ComputeGap moves it on.
CountInv ==
  /\ asked \in Asked
  /\ pc # "idle" => result = "none"
  /\ pc = "frame" => Endless \/ FramesSent = RoundsBefore + transmit_state[code]
  /\ pc \in {"marks", "gap"} =>
       Endless \/ FramesSent = RoundsBefore + transmit_state[code] + 1
  /\ pc = "space" =>
       IF transmit_state[code] = 0 THEN ~Endless /\ FramesSent = RoundsBefore + Parts
       ELSE Endless \/ FramesSent = RoundsBefore + transmit_state[code]
  /\ WholeSend

LEMMA RoundTaken ==
  ASSUME NEW n \in Nat, NEW k \in Int
  PROVE  n * k \in Int /\ n * (k + 1) = n * k + n /\ n * 0 = 0
OBVIOUS

\* The last gap before the end of the array always finds a place: it stands at an
\* even place, and WBUF_SIZE is even.
LEMMA GapStored ==
  ASSUME NEW b, Whole(b), Fits(b), ~b.too_long, Odd(Len(b.data)), NEW us \in Nat, us > 0
  PROVE  ~Flush(Space(b, us)).too_long
<1> DEFINE a == Space(b, us)
<1>1. /\ b \in BufferType /\ b.pendingp \in Nat /\ b.pendings \in Nat /\ Len(b.data) \in Nat
      /\ Len(b.data) <= WBUF_SIZE
  BY DEF Whole, BufferType
<1>2. b.pendingp = 0
  BY <1>1, Parity DEF Fits
<1>3. Len(b.data) < WBUF_SIZE /\ b.data # <<>>
  <2>0. WBUF_SIZE % 2 = 0
    BY BufferAssumption
  <2>1. Len(b.data) # WBUF_SIZE
    <3> HIDE DEF a
    <3>1. WBUF_SIZE % 2 # 1
      BY <2>0
    <3> QED
      BY <3>1 DEF Odd
  <2>2. Len(<<>>) = 0 /\ ~Odd(0)
    BY DEF Odd
  <2> QED
    BY <1>1, <2>1, <2>2, BufferAssumption
<1>4. a \in BufferType /\ a.data = b.data /\ a.too_long = FALSE /\ a.pendingp = 0 /\ a.pendings > 0
  <2>1. AddPendingPulse(b) = b
    BY <1>2 DEF AddPendingPulse
  <2>2. CASE b.pendings > 0
    <3>1. a = [b EXCEPT !.pendings = @ + us] /\ b.pendings + us \in Nat /\ b.pendings + us > 0
      BY <1>1, <1>3, <2>2 DEF Space
    <3> QED
      BY <1>1, <1>2, <3>1 DEF BufferType
  <2>3. CASE ~(b.pendings > 0)
    <3>1. a = [b EXCEPT !.pendings = us]
      BY <1>3, <2>1, <2>3 DEF Space
    <3> QED
      BY <1>1, <1>2, <3>1 DEF BufferType
  <2> QED
    BY <2>2, <2>3
<1> HIDE DEF a
<1>5. AddPendingPulse(a) = a
  BY <1>4 DEF AddPendingPulse
<1>6. AddPendingSpace(a) = [Add(a, SpaceMark(a.pendings)) EXCEPT !.pendings = 0]
  BY <1>4 DEF AddPendingSpace
<1>7. Add(a, SpaceMark(a.pendings))
        = [a EXCEPT !.sum = @ + a.pendings, !.data = Append(@, SpaceMark(a.pendings))]
  BY <1>3, <1>4 DEF Add, SpaceMark
<1>8. Add(a, SpaceMark(a.pendings)).too_long = FALSE
  BY <1>4, <1>7 DEF BufferType
<1> QED
  BY <1>5, <1>6, <1>8 DEF Flush, a

LEMMA CountTypes ==
  ASSUME SendInv, CountInv
  PROVE  /\ code \in Codes /\ Code[code].remote \in Remotes
         /\ Parts \in Nat /\ Parts > 0
         /\ transmit_state[code] \in Nat /\ transmit_state[code] < Parts
         /\ repeat_countdown \in [Remotes -> Nat] /\ asked \in Asked
         /\ FramesSent \in Nat /\ RoundsBefore \in Int
<1>1. /\ code \in Codes /\ Code[code].remote \in Remotes
      /\ repeat_countdown \in [Remotes -> Nat] /\ asked \in Asked
  BY Facts DEF CountInv, SendInv, TypeOK
<1>2. transmit_state[code] \in Nat /\ transmit_state[code] < Parts
  BY <1>1 DEF SendInv, TypeOK, Parts
<1>3. Parts \in Nat /\ Parts > 0
  <2>1. Code[code].parts \in Seq(Seq({0, 1})) /\ Code[code].parts # <<>>
    BY <1>1, CodeAssumption
  <2> QED
    BY <2>1 DEF Parts
<1>4. FramesSent \in Nat
  BY <1>1 DEF FramesSent, Asked
<1>5. RoundsBefore \in Int
  <2>1. asked.repeats - repeat_countdown[Code[code].remote] \in Int
    BY <1>1 DEF Asked
  <2> QED
    BY <1>3, <2>1, RoundTaken DEF RoundsBefore
<1> QED
  BY <1>1, <1>2, <1>3, <1>4, <1>5

LEMMA CountInit == Init => CountInv
<1> SUFFICES ASSUME Init PROVE CountInv
  OBVIOUS
<1>1. asked \in Asked
  BY DEF Init, Asked
<1> QED
  BY <1>1 DEF Init, CountInv, WholeSend

LEMMA CountStart ==
  ASSUME SendInv, CountInv, NEW c \in Codes, NEW repeats \in Int, MayStart, Start(c, repeats)
  PROVE  CountInv'
<1> DEFINE r == Code[c].remote
           n == Larger(Remote[r].min_repeat, repeats)
<1>1. r \in Remotes /\ Remote[r].min_repeat \in Nat
  BY CodeAssumption, Facts
<1>2. n \in Nat
  BY <1>1 DEF Larger
<1>3. /\ code' = c /\ transmit_state' = transmit_state /\ result' \in {"none", "failed"}
      /\ asked' = [repeats |-> n, bits |-> Remote[r].toggle_bit_mask \ toggle_bit_mask_state[r],
                    part |-> transmit_state[c], from |-> 0, frames |-> 0, disturbed |-> FALSE]
  BY DEF Start
<1>4. transmit_state[c] \in Nat
  BY DEF SendInv, TypeOK
<1>5. asked' \in Asked
  <2>1. Remote[r].toggle_bit_mask \ toggle_bit_mask_state[r] \in SUBSET Nat
    BY <1>1, Facts
  <2> QED
    BY <1>2, <1>3, <1>4, <2>1 DEF Asked
<1>6. asked'.repeats = n /\ asked'.part = transmit_state[c] /\ asked'.frames = 0
  BY <1>3
<1> HIDE DEF n
<1>7. WholeSend'
  BY <1>3 DEF WholeSend
<1>8. CASE Unsupported(r)
  <2>1. pc' = "idle"
    BY <1>8 DEF Start, MayStart
  <2> QED
    BY <1>5, <1>7, <2>1 DEF CountInv
<1>9. CASE ~Unsupported(r)
  <2>1. pc' = "frame" /\ result' = "none" /\ repeat_countdown' = [repeat_countdown EXCEPT ![r] = n]
    BY <1>9 DEF Start, n
  <2>2. repeat_countdown'[r] = n
    BY <1>1, <2>1 DEF SendInv, TypeOK
  <2>3. Parts' \in Nat
    <3>1. Code[c].parts \in Seq(Seq({0, 1}))
      BY CodeAssumption
    <3> QED
      BY <1>3, <3>1 DEF Parts
  <2>4. RoundsBefore' = Parts' * (n - n)
    BY <1>3, <1>6, <2>2 DEF RoundsBefore, Parts
  <2>5. RoundsBefore' = 0
    BY <1>2, <2>3, <2>4, n - n = 0, RoundTaken
  <2>6. FramesSent' = transmit_state'[code']
    BY <1>3, <1>4, <1>6 DEF FramesSent
  <2> QED
    BY <1>3, <1>4, <1>5, <1>7, <2>1, <2>5, <2>6 DEF CountInv
<1> QED
  BY <1>8, <1>9

LEMMA CountRequest == SendInv /\ CountInv /\ (parseSendString \/ OnSendcode) => CountInv'
<1> SUFFICES ASSUME SendInv, CountInv, parseSendString \/ OnSendcode PROVE CountInv'
  OBVIOUS
<1>1. ASSUME NEW c \in Codes, NEW n \in Repeats
      PROVE  /\ Larger(n, Remote[Code[c].remote].min_repeat) \in Int
             /\ Smaller(Larger(n, Remote[Code[c].remote].min_repeat), RepeatCap) \in Int
  <2>1. n \in Int /\ RepeatCap \in Int /\ Remote[Code[c].remote].min_repeat \in Int
    BY <1>1, BoundsAssumption, CodeAssumption, Facts
  <2> QED
    BY <2>1 DEF Larger, Smaller
<1>2. CASE parseSendString
  BY <1>1, <1>2, CountStart DEF parseSendString
<1>3. CASE OnSendcode
  BY <1>1, <1>3, CountStart DEF OnSendcode
<1> QED
  BY <1>2, <1>3

LEMMA CountBegin == SendInv /\ CountInv /\ BeginFrame => CountInv'
<1> SUFFICES ASSUME SendInv, CountInv, BeginFrame PROVE CountInv'
  OBVIOUS
<1>1. /\ pc = "frame" /\ result = "none"
      /\ UNCHANGED <<send_buffer, transmit_state, repeat_countdown, code>>
      /\ asked' = [asked EXCEPT !.from = Len(send_buffer.data), !.frames = @ + 1]
      /\ \/ pc' = "idle" /\ result' = "failed"
         \/ pc' = "marks" /\ UNCHANGED result
  BY DEF BeginFrame, Fail, CountInv
<1>2. asked' \in Asked /\ asked'.repeats = asked.repeats /\ FramesSent' = FramesSent + 1
  <2>1. asked \in Asked /\ Len(send_buffer.data) \in Nat
    BY Facts, CountTypes DEF Whole, BufferType
  <2>2. /\ asked'.repeats = asked.repeats /\ asked'.part = asked.part
        /\ asked'.frames = asked.frames + 1
    BY <1>1, <2>1 DEF Asked
  <2>3. asked.part \in Nat /\ asked.frames \in Nat
    BY <2>1 DEF Asked
  <2>4. asked' \in Asked
    <3> DEFINE x == [asked EXCEPT !.from = Len(send_buffer.data)]
               m == asked.frames + 1
    <3>1. x \in Asked /\ m \in Nat
      BY <2>1, <2>3 DEF Asked
    <3>2. asked' = [x EXCEPT !.frames = m]
      BY <1>1, <2>1 DEF Asked
    <3> HIDE DEF x, m
    <3> QED
      BY <3>1, <3>2 DEF Asked
  <2>5. FramesSent' = FramesSent + 1
    BY <2>2, <2>3 DEF FramesSent
  <2> QED
    BY <2>2, <2>4, <2>5
<1>3. RoundsBefore' = RoundsBefore /\ (Endless' <=> Endless)
  BY <1>1, <1>2 DEF RoundsBefore, Parts, Endless, R
<1>4. Endless \/ FramesSent' = RoundsBefore' + transmit_state'[code'] + 1
  BY <1>1, <1>2, <1>3, CountTypes DEF CountInv
<1>5. WholeSend'
  BY <1>1 DEF WholeSend
<1> QED
  BY <1>1, <1>2, <1>3, <1>4, <1>5 DEF CountInv

\* Steps that leave the counts alone.
LEMMA CountKept ==
  ASSUME SendInv, CountInv, pc \in {"marks", "gap"},
         UNCHANGED <<transmit_state, repeat_countdown, code, asked>>,
         \/ pc' = "idle" /\ result' = "failed"
         \/ pc' \in {"marks", "gap"} /\ UNCHANGED result
  PROVE  CountInv'
<1>1. /\ FramesSent' = FramesSent /\ RoundsBefore' = RoundsBefore /\ (Endless' <=> Endless)
      /\ asked' \in Asked
  BY DEF FramesSent, RoundsBefore, Parts, Endless, R, CountInv
<1>2. result = "none" /\ (Endless \/ FramesSent = RoundsBefore + transmit_state[code] + 1)
  BY DEF CountInv
<1>3. WholeSend'
  BY <1>2 DEF WholeSend
<1> QED
  BY <1>1, <1>2, <1>3 DEF CountInv

LEMMA CountMarks == SendInv /\ CountInv /\ (SendMark \/ EndFrame) => CountInv'
<1> SUFFICES ASSUME SendInv, CountInv, SendMark \/ EndFrame PROVE CountInv'
  OBVIOUS
<1>1. CASE SendMark
  BY <1>1, CountKept DEF SendMark
<1>2. CASE EndFrame
  BY <1>2, CountKept DEF EndFrame, Fail
<1> QED
  BY <1>1, <1>2

LEMMA CountGap == SendInv /\ CountInv /\ ComputeGap => CountInv'
<1> SUFFICES ASSUME SendInv, CountInv, ComputeGap PROVE CountInv'
  OBVIOUS
<1>1. /\ pc = "gap" /\ UNCHANGED <<repeat_countdown, code, asked>>
      /\ \/ pc' = "idle" /\ result' = "failed"
         \/ /\ pc' = "space" /\ UNCHANGED result
            /\ transmit_state' = [transmit_state EXCEPT ![code] = NextPart]
  BY DEF ComputeGap, Fail
<1>2. /\ FramesSent' = FramesSent /\ RoundsBefore' = RoundsBefore /\ asked' \in Asked
      /\ Parts' = Parts /\ (Endless' <=> Endless)
  BY <1>1 DEF FramesSent, RoundsBefore, Parts, Endless, R, CountInv
<1>3. result = "none" /\ (Endless \/ FramesSent = RoundsBefore + transmit_state[code] + 1)
  BY <1>1 DEF CountInv
<1>4. WholeSend'
  BY <1>1, <1>3 DEF WholeSend
<1>5. CASE pc' = "idle"
  BY <1>1, <1>2, <1>4, <1>5 DEF CountInv
<1>6. CASE pc' = "space"
  <2> DEFINE t == transmit_state[code]
             u == NextPart
  <2>1. /\ Parts \in Nat /\ Parts > 0 /\ t \in Nat /\ t < Parts /\ RoundsBefore \in Int
        /\ FramesSent \in Nat
    BY CountTypes
  <2>2. transmit_state' [code'] = u /\ UNCHANGED result
    <3>1. transmit_state \in [Codes -> Nat] /\ code \in Codes
      BY CountTypes DEF SendInv, TypeOK
    <3> QED
      BY <1>1, <1>6, <3>1
  <2>3. u = IF Parts = 1 THEN 0
            ELSE IF t = Parts - 1 THEN (IF R.protocol = "xmp" THEN 1 ELSE 0) ELSE t + 1
    BY DEF NextPart, Parts
  <2>4. Endless <=> R.protocol = "xmp" /\ Parts > 1
    BY DEF Endless, Parts
  <2> HIDE DEF t, u
  <2>5. IF u = 0 THEN ~Endless /\ t = Parts - 1 ELSE Endless \/ u = t + 1
    BY <2>1, <2>3, <2>4
  <2>6. IF u = 0 THEN ~Endless /\ FramesSent = RoundsBefore + Parts
        ELSE Endless \/ FramesSent = RoundsBefore + u
    BY <1>3, <2>1, <2>5 DEF t
  <2> QED
    BY <1>2, <1>3, <1>4, <1>6, <2>2, <2>6 DEF CountInv
<1> QED
  BY <1>1, <1>5, <1>6

LEMMA CountSpace == SendInv /\ CountInv /\ SendGap => CountInv'
<1> SUFFICES ASSUME SendInv, CountInv, SendGap PROVE CountInv'
  OBVIOUS
<1> DEFINE r       == Code[code].remote
           t       == transmit_state[code]
           flushed == Flush(Space(send_buffer, min_remaining_gap[r]))
<1>1. /\ pc = "space" /\ result = "none"
      /\ UNCHANGED <<transmit_state, code, asked>>
  BY DEF SendGap, CountInv
<1>2. /\ r \in Remotes /\ Parts \in Nat /\ t \in Nat /\ repeat_countdown \in [Remotes -> Nat]
      /\ asked \in Asked /\ FramesSent \in Nat /\ RoundsBefore \in Int
  BY CountTypes
<1>3. IF t = 0 THEN ~Endless /\ FramesSent = RoundsBefore + Parts
      ELSE Endless \/ FramesSent = RoundsBefore + t
  BY <1>1 DEF CountInv
<1>4. /\ FramesSent' = FramesSent /\ asked' \in Asked /\ (Endless' <=> Endless)
      /\ Parts' = Parts
  BY <1>1, <1>2 DEF FramesSent, Parts, Endless, R
<1>5. CASE GoesOn(r)
  <2>1. /\ pc' = "frame" /\ result' = "none"
        /\ IF t = 0 THEN repeat_countdown' = [repeat_countdown EXCEPT ![r] = @ - 1]
           ELSE UNCHANGED repeat_countdown
    BY <1>1, <1>5 DEF SendGap
  <2>2. WholeSend'
    BY <2>1 DEF WholeSend
  <2>3. Endless \/ FramesSent' = RoundsBefore' + t
    <3>1. CASE t = 0
      <4> DEFINE k == asked.repeats - repeat_countdown[r]
      <4>1. k \in Int
        BY <1>2 DEF Asked
      <4>2. RoundsBefore = Parts * k
        BY DEF RoundsBefore
      <4>3. RoundsBefore' = Parts * (k + 1)
        <5>1. repeat_countdown'[r] = repeat_countdown[r] - 1
          BY <1>2, <2>1, <3>1
        <5>2. asked.repeats - (repeat_countdown[r] - 1) = k + 1
          BY <1>2 DEF Asked
        <5> QED
          BY <1>1, <1>4, <5>1, <5>2 DEF RoundsBefore
      <4> HIDE DEF k
      <4>4. Parts * (k + 1) = Parts * k + Parts
        BY <1>2, <4>1, RoundTaken
      <4>5. RoundsBefore' = RoundsBefore + Parts
        BY <4>2, <4>3, <4>4
      <4> QED
        BY <1>2, <1>3, <1>4, <3>1, <4>5
    <3>2. CASE t # 0
      <4>1. RoundsBefore' = RoundsBefore
        BY <1>1, <2>1, <3>2 DEF RoundsBefore, Parts
      <4> QED
        BY <1>3, <1>4, <3>2, <4>1
    <3> QED
      BY <3>1, <3>2
  <2> QED
    BY <1>1, <1>4, <2>1, <2>2, <2>3 DEF CountInv
<1>6. CASE ~GoesOn(r)
  <2>1. pc' = "idle" /\ send_buffer' = flushed
    BY <1>6 DEF SendGap
  <2>2. t = 0 /\ repeat_countdown[r] = 0
    BY <1>2, <1>6 DEF GoesOn
  <2>3. FramesSent' = Parts * (1 + asked.repeats)
    <3>1. asked.repeats \in Nat
      BY <1>2 DEF Asked
    <3>2. asked.repeats - repeat_countdown[r] = asked.repeats
      BY <2>2, <3>1
    <3>3. RoundsBefore = Parts * asked.repeats
      BY <3>2 DEF RoundsBefore
    <3>4. Parts * (asked.repeats + 1) = Parts * asked.repeats + Parts
      BY <1>2, <3>1, RoundTaken
    <3>5. 1 + asked.repeats = asked.repeats + 1
      BY <3>1
    <3> QED
      BY <1>3, <1>4, <2>2, <3>3, <3>4, <3>5
  <2>4. ~flushed.too_long
    <3>1. /\ Whole(send_buffer) /\ Fits(send_buffer) /\ ~send_buffer.too_long
          /\ Odd(Len(send_buffer.data)) /\ min_remaining_gap[r] > 0
      BY <1>1, Facts DEF SendInv, GapOf
    <3>2. min_remaining_gap[r] \in Nat
      BY <1>2 DEF SendInv, TypeOK
    <3> QED
      BY <3>1, <3>2, GapStored
  <2> HIDE DEF flushed
  <2>5. WholeSend'
    BY <1>1, <2>1, <2>3, <2>4 DEF WholeSend, FramesSent, Parts
  <2> QED
    BY <1>4, <2>1, <2>5 DEF CountInv
<1> QED
  BY <1>5, <1>6

LEMMA CountDecode == SendInv /\ CountInv /\ Decode => CountInv'
<1> SUFFICES ASSUME SendInv, CountInv, Decode PROVE CountInv'
  OBVIOUS
<1>1. /\ UNCHANGED <<send_buffer, transmit_state, repeat_countdown, pc, code, result>>
      /\ asked' = [asked EXCEPT !.disturbed = @ \/ pc # "idle"]
  BY DEF Decode
<1>2. asked \in Asked
  BY DEF CountInv
<1>3. /\ asked' \in Asked /\ asked'.repeats = asked.repeats /\ asked'.part = asked.part
      /\ asked'.frames = asked.frames
  <2> DEFINE d == asked.disturbed \/ pc # "idle"
  <2>1. d \in BOOLEAN /\ asked' = [asked EXCEPT !.disturbed = d]
    BY <1>1
  <2> HIDE DEF d
  <2> QED
    BY <1>2, <2>1 DEF Asked
<1>4. /\ FramesSent' = FramesSent /\ RoundsBefore' = RoundsBefore /\ (Endless' <=> Endless)
      /\ Parts' = Parts
  BY <1>1, <1>3 DEF FramesSent, RoundsBefore, Parts, Endless, R
<1>5. WholeSend'
  BY <1>1, <1>3 DEF CountInv, WholeSend
<1> QED
  BY <1>1, <1>3, <1>4, <1>5 DEF CountInv

LEMMA CountInvariant == Spec => []CountInv
<1>1. ASSUME SendInv, CountInv, [Next]_vars PROVE CountInv'
  <2>1. CASE parseSendString \/ OnSendcode
    BY <1>1, <2>1, CountRequest
  <2>2. CASE BeginFrame
    BY <1>1, <2>2, CountBegin
  <2>3. CASE SendMark \/ EndFrame
    BY <1>1, <2>3, CountMarks
  <2>4. CASE ComputeGap
    BY <1>1, <2>4, CountGap
  <2>5. CASE SendGap
    BY <1>1, <2>5, CountSpace
  <2>6. CASE Decode
    BY <1>1, <2>6, CountDecode
  <2>7. CASE UNCHANGED vars
    <3>1. UNCHANGED <<send_buffer, transmit_state, repeat_countdown, pc, code, result, asked>>
      BY <2>7 DEF vars
    <3> QED
      BY <1>1, <3>1 DEF CountInv, FramesSent, RoundsBefore, Parts, Endless, R, WholeSend
  <2> QED
    BY <1>1, <2>1, <2>2, <2>3, <2>4, <2>5, <2>6, <2>7 DEF Next, init_send
<1> QED
  BY SendInvariant, CountInit, <1>1, PTL DEF Spec

\* init_send reports success only when every part of every repeat is in the buffer
\* and no entry was lost, wherever a refused send left transmit_state, with the
\* daemon thread decoding at any time: repeat_countdown and transmit_state together
\* count the frames, and a full buffer is noticed before the last gap.
THEOREM SendIsWhole == Spec => []WholeSend
<1>1. CountInv => WholeSend
  BY DEF CountInv
<1> QED
  BY CountInvariant, <1>1, PTL

-----------------------------------------------------------------------------
(* Induction over the naturals, and what the folds of RemoteSignal compute: the *)
(* merged marks, the total of their lengths and the frames in a row are those of *)
(* all but the last one, and the last one.                                 *)

LEMMA LeastOfNaturals ==
  ASSUME NEW S \in SUBSET Nat, S # {}
  PROVE  \E x \in S : \A y \in S : x <= y
<1> DEFINE W == {ss \in Nat \X Nat : ss[1] < ss[2]}
<1>1. IsWellFoundedOn(W, Nat)
  BY NatLessThanWellFounded, Zenon DEF OpToRel
<1>2. PICK x \in S : \A y \in S : ~(<<y, x>> \in W)
  <2> HIDE DEF W
  <2> QED
    BY <1>1, WFMin
<1>3. ASSUME NEW y \in S PROVE x <= y
  <2>1. x \in Nat /\ y \in Nat /\ ~(<<y, x>> \in W)
    BY <1>2
  <2> QED
    BY <2>1
<1> QED
  BY <1>3

\* Induction, for a set of numbers.
LEMMA AllNaturals ==
  ASSUME NEW S, 0 \in S, \A n \in Nat : n \in S => n + 1 \in S
  PROVE  Nat \subseteq S
<1> SUFFICES ASSUME Nat \ S # {} PROVE FALSE
  OBVIOUS
<1>1. PICK x \in Nat \ S : \A y \in Nat \ S : x <= y
  BY LeastOfNaturals
<1>2. x # 0 /\ x - 1 \in Nat /\ (x - 1) + 1 = x
  BY <1>1
<1>3. x - 1 \in S
  BY <1>1, <1>2
<1> QED
  BY <1>1, <1>2, <1>3

LEMMA LastOfInterval ==
  ASSUME NEW n \in Nat
  PROVE  /\ Max(1 .. n + 1) = n + 1 /\ (1 .. n + 1) \ {n + 1} = 1 .. n /\ 1 .. n + 1 # {}
         /\ \A T \in SUBSET (1 .. n + 1) : n + 1 \in T => Max(T) = n + 1
<1>1. ASSUME NEW T \in SUBSET (1 .. n + 1), n + 1 \in T PROVE Max(T) = n + 1
  <2>1. n + 1 \in T /\ \A y \in T : n + 1 >= y
    BY <1>1
  <2>2. \A x \in T : (\A y \in T : x >= y) => x = n + 1
    BY <2>1
  <2> QED
    BY <2>1, <2>2 DEF Max
<1>2. 1 .. n + 1 \in SUBSET (1 .. n + 1) /\ n + 1 \in 1 .. n + 1
  OBVIOUS
<1>3. (1 .. n + 1) \ {n + 1} = 1 .. n
  OBVIOUS
<1> QED
  BY <1>1, <1>2, <1>3

\* The function that FoldLeft recurses on, for the first n entries of s.
Merging(f, s, n) ==
  f = [T \in SUBSET (1 .. n) |-> IF T = {} THEN <<>> ELSE Joined(f[T \ {Max(T)}], s[Max(T)])]

LEMMA MergingExists ==
  ASSUME NEW s
  PROVE  \A n \in Nat : \E f : Merging(f, s, n)
<1> DEFINE S == {n \in Nat : \E f : Merging(f, s, n)}
<1>1. 0 \in S
  <2> DEFINE f == [T \in SUBSET (1 .. 0) |-> <<>>]
  <2>1. \A T \in SUBSET (1 .. 0) : T = {}
    OBVIOUS
  <2>2. Merging(f, s, 0)
    BY <2>1 DEF Merging
  <2> QED
    BY <2>2
<1>2. ASSUME NEW n \in Nat, n \in S PROVE n + 1 \in S
  <2>1. PICK f : Merging(f, s, n)
    BY <1>2
  <2> DEFINE g == [T \in SUBSET (1 .. n + 1) |->
                     IF n + 1 \in T THEN Joined(f[T \ {n + 1}], s[n + 1]) ELSE f[T]]
  <2>2. ASSUME NEW T \in SUBSET (1 .. n + 1)
        PROVE  g[T] = IF T = {} THEN <<>> ELSE Joined(g[T \ {Max(T)}], s[Max(T)])
    <3>1. CASE n + 1 \in T
      <4>1. Max(T) = n + 1
        BY <3>1, LastOfInterval
      <4>2. T \ {n + 1} \in SUBSET (1 .. n + 1) /\ n + 1 \notin T \ {n + 1}
        OBVIOUS
      <4>3. g[T \ {n + 1}] = f[T \ {n + 1}]
        BY <4>2
      <4> QED
        BY <3>1, <4>1, <4>3
    <3>2. CASE n + 1 \notin T
      <4>1. T \in SUBSET (1 .. n)
        BY <3>2
      <4>2. f[T] = IF T = {} THEN <<>> ELSE Joined(f[T \ {Max(T)}], s[Max(T)])
        BY <2>1, <4>1 DEF Merging
      <4>3. T \ {Max(T)} \in SUBSET (1 .. n + 1) /\ n + 1 \notin T \ {Max(T)}
        BY <3>2
      <4>4. g[T \ {Max(T)}] = f[T \ {Max(T)}] /\ g[T] = f[T]
        BY <3>2, <4>3
      <4> QED
        BY <4>2, <4>4
    <3> QED
      BY <3>1, <3>2
  <2>3. g = [T \in SUBSET (1 .. n + 1) |-> g[T]]
    OBVIOUS
  <2> HIDE DEF g
  <2>4. Merging(g, s, n + 1)
    BY <2>2, <2>3 DEF Merging
  <2> QED
    BY <2>4
<1>3. Nat \subseteq S
  <2> HIDE DEF S
  <2> QED
    BY <1>1, <1>2, AllNaturals
<1> QED
  BY <1>3

LEMMA MergingStep ==
  ASSUME NEW s, NEW f, NEW n \in Nat, Merging(f, s, n)
  PROVE  /\ f[1 .. 0] = <<>>
         /\ \A k \in Nat : k < n => f[1 .. k + 1] = Joined(f[1 .. k], s[k + 1])
<1>1. f[1 .. 0] = <<>>
  <2>1. 1 .. 0 = {} /\ 1 .. 0 \in SUBSET (1 .. n)
    OBVIOUS
  <2> QED
    BY <2>1 DEF Merging
<1>2. ASSUME NEW k \in Nat, k < n PROVE f[1 .. k + 1] = Joined(f[1 .. k], s[k + 1])
  <2>1. 1 .. k + 1 \in SUBSET (1 .. n)
    BY <1>2
  <2>2. Max(1 .. k + 1) = k + 1 /\ (1 .. k + 1) \ {k + 1} = 1 .. k /\ 1 .. k + 1 # {}
    BY LastOfInterval
  <2>3. f[1 .. k + 1] = IF 1 .. k + 1 = {} THEN <<>>
                        ELSE Joined(f[(1 .. k + 1) \ {Max(1 .. k + 1)}], s[Max(1 .. k + 1)])
    BY <2>1 DEF Merging
  <2> QED
    BY <2>2, <2>3
<1> QED
  BY <1>1, <1>2

Agree(s, t, n) == \A i \in 1 .. n : s[i] = t[i]

LEMMA MergingSame ==
  ASSUME NEW s, NEW t, NEW f, NEW g, NEW n \in Nat, NEW m \in Nat, n <= m,
         Merging(f, s, n), Merging(g, t, m), Agree(s, t, n)
  PROVE  f[1 .. n] = g[1 .. n]
<1> DEFINE S == {k \in Nat : k <= n => f[1 .. k] = g[1 .. k]}
<1>1. 0 \in S
  BY MergingStep
<1>2. ASSUME NEW k \in Nat, k \in S PROVE k + 1 \in S
  <2> SUFFICES ASSUME k + 1 <= n PROVE f[1 .. k + 1] = g[1 .. k + 1]
    OBVIOUS
  <2>1. k < n /\ k < m /\ k + 1 \in 1 .. n
    OBVIOUS
  <2>2. f[1 .. k] = g[1 .. k] /\ s[k + 1] = t[k + 1]
    BY <1>2, <2>1 DEF Agree
  <2>3. f[1 .. k + 1] = Joined(f[1 .. k], s[k + 1])
    BY <2>1, MergingStep
  <2>4. g[1 .. k + 1] = Joined(g[1 .. k], t[k + 1])
    BY <2>1, MergingStep
  <2> QED
    BY <2>2, <2>3, <2>4
<1>3. Nat \subseteq S
  <2> HIDE DEF S
  <2> QED
    BY <1>1, <1>2, AllNaturals
<1> QED
  BY <1>3

LEMMA MergedIs ==
  ASSUME NEW s \in Seq(Mark)
  PROVE  \E f : Merging(f, s, Len(s)) /\ Merged(s) = f[1 .. Len(s)]
<1>1. Len(s) \in Nat /\ DOMAIN s = 1 .. Len(s)
  OBVIOUS
<1> DEFINE f == CHOOSE f : Merging(f, s, Len(s))
<1>2. Merging(f, s, Len(s))
  BY <1>1, MergingExists
<1>3. Merged(s) = f[1 .. Len(s)]
  BY <1>1 DEF Merged, FoldLeft, MapThenFoldSet, Merging
<1> QED
  BY <1>2, <1>3

LEMMA MergedAppend ==
  /\ Merged(<<>>) = <<>>
  /\ \A s \in Seq(Mark), m \in Mark : Merged(Append(s, m)) = Joined(Merged(s), m)
<1>1. Merged(<<>>) = <<>>
  <2> SUFFICES ASSUME NEW e, e = <<>> PROVE Merged(e) = <<>>
    OBVIOUS
  <2>1. e \in Seq(Mark) /\ Len(e) = 0
    BY EmptySeq
  <2>2. PICK f : Merging(f, e, Len(e)) /\ Merged(e) = f[1 .. Len(e)]
    BY <2>1, MergedIs
  <2>3. Merging(f, e, 0) /\ Merged(e) = f[1 .. 0]
    BY <2>1, <2>2
  <2>4. f[1 .. 0] = <<>>
    BY <2>3, MergingStep
  <2>5. Merged(e) = <<>>
    BY <2>3, <2>4
  <2> QED
    BY <2>5
<1>2. ASSUME NEW s \in Seq(Mark), NEW m \in Mark
      PROVE  Merged(Append(s, m)) = Joined(Merged(s), m)
  <2>0. PICK t : t = Append(s, m)
    OBVIOUS
  <2>1. PICK n \in Nat : n = Len(s)
    BY LenProperties
  <2>2. t \in Seq(Mark) /\ Len(t) = n + 1 /\ t[n + 1] = m
    BY <2>0, <2>1
  <2>8. Agree(s, t, n)
    BY <2>0, <2>1 DEF Agree
  <2>3. PICK f : Merging(f, s, n) /\ Merged(s) = f[1 .. n]
    BY <2>1, MergedIs
  <2>4. PICK g : Merging(g, t, n + 1) /\ Merged(t) = g[1 .. n + 1]
    BY <2>2, MergedIs
  <2>5. n + 1 \in Nat /\ n <= n + 1 /\ n < n + 1
    OBVIOUS
  <2>6. f[1 .. n] = g[1 .. n]
    <3>1. Merging(f, s, n) /\ Merging(g, t, n + 1) /\ n + 1 \in Nat /\ n <= n + 1
      BY <2>3, <2>4, <2>5
    <3>2. PICK k \in Nat : k = n + 1
      BY <3>1
    <3>3. n \in Nat /\ k \in Nat /\ n <= k
      BY <3>2
    <3>4. Merging(f, s, n) /\ Merging(g, t, k)
      BY <3>1, <3>2
    <3> QED
      BY <2>8, <3>3, <3>4, MergingSame
  <2>7. g[1 .. n + 1] = Joined(g[1 .. n], t[n + 1])
    BY <2>4, <2>5, MergingStep
  <2> QED
    BY <2>0, <2>2, <2>3, <2>4, <2>6, <2>7
<1> QED
  BY <1>1, <1>2
\* The same for Total.
Totalling(f, s, n) ==
  f = [T \in SUBSET (1 .. n) |-> IF T = {} THEN 0 ELSE f[T \ {Max(T)}] + s[Max(T)].us]

LEMMA TotallingExists ==
  ASSUME NEW s
  PROVE  \A n \in Nat : \E f : Totalling(f, s, n)
<1> DEFINE S == {n \in Nat : \E f : Totalling(f, s, n)}
<1>1. 0 \in S
  <2> DEFINE f == [T \in SUBSET (1 .. 0) |-> 0]
  <2>1. \A T \in SUBSET (1 .. 0) : T = {}
    OBVIOUS
  <2>2. Totalling(f, s, 0)
    BY <2>1 DEF Totalling
  <2> QED
    BY <2>2
<1>2. ASSUME NEW n \in Nat, n \in S PROVE n + 1 \in S
  <2>1. PICK f : Totalling(f, s, n)
    BY <1>2
  <2> DEFINE g == [T \in SUBSET (1 .. n + 1) |->
                     IF n + 1 \in T THEN f[T \ {n + 1}] + s[n + 1].us ELSE f[T]]
  <2>2. ASSUME NEW T \in SUBSET (1 .. n + 1)
        PROVE  g[T] = IF T = {} THEN 0 ELSE g[T \ {Max(T)}] + s[Max(T)].us
    <3>1. CASE n + 1 \in T
      <4>1. Max(T) = n + 1
        BY <3>1, LastOfInterval
      <4>2. T \ {n + 1} \in SUBSET (1 .. n + 1) /\ n + 1 \notin T \ {n + 1}
        OBVIOUS
      <4>3. g[T \ {n + 1}] = f[T \ {n + 1}]
        BY <4>2
      <4> QED
        BY <3>1, <4>1, <4>3
    <3>2. CASE n + 1 \notin T
      <4>1. T \in SUBSET (1 .. n)
        BY <3>2
      <4>2. f[T] = IF T = {} THEN 0 ELSE f[T \ {Max(T)}] + s[Max(T)].us
        BY <2>1, <4>1 DEF Totalling
      <4>3. T \ {Max(T)} \in SUBSET (1 .. n + 1) /\ n + 1 \notin T \ {Max(T)}
        BY <3>2
      <4>4. g[T \ {Max(T)}] = f[T \ {Max(T)}] /\ g[T] = f[T]
        BY <3>2, <4>3
      <4> QED
        BY <4>2, <4>4
    <3> QED
      BY <3>1, <3>2
  <2>3. g = [T \in SUBSET (1 .. n + 1) |-> g[T]]
    OBVIOUS
  <2> HIDE DEF g
  <2>4. Totalling(g, s, n + 1)
    BY <2>2, <2>3 DEF Totalling
  <2> QED
    BY <2>4
<1>3. Nat \subseteq S
  <2> HIDE DEF S
  <2> QED
    BY <1>1, <1>2, AllNaturals
<1> QED
  BY <1>3

LEMMA TotallingStep ==
  ASSUME NEW s, NEW f, NEW n \in Nat, Totalling(f, s, n)
  PROVE  /\ f[1 .. 0] = 0
         /\ \A k \in Nat : k < n => f[1 .. k + 1] = f[1 .. k] + s[k + 1].us
<1>1. f[1 .. 0] = 0
  <2>1. 1 .. 0 = {} /\ 1 .. 0 \in SUBSET (1 .. n)
    OBVIOUS
  <2> QED
    BY <2>1 DEF Totalling
<1>2. ASSUME NEW k \in Nat, k < n PROVE f[1 .. k + 1] = f[1 .. k] + s[k + 1].us
  <2>1. 1 .. k + 1 \in SUBSET (1 .. n)
    BY <1>2
  <2>2. Max(1 .. k + 1) = k + 1 /\ (1 .. k + 1) \ {k + 1} = 1 .. k /\ 1 .. k + 1 # {}
    BY LastOfInterval
  <2>3. f[1 .. k + 1] = IF 1 .. k + 1 = {} THEN 0
                        ELSE f[(1 .. k + 1) \ {Max(1 .. k + 1)}] + s[Max(1 .. k + 1)].us
    BY <2>1 DEF Totalling
  <2> QED
    BY <2>2, <2>3
<1> QED
  BY <1>1, <1>2

LEMMA TotallingSame ==
  ASSUME NEW s, NEW t, NEW f, NEW g, NEW n \in Nat, NEW m \in Nat, n <= m,
         Totalling(f, s, n), Totalling(g, t, m), Agree(s, t, n)
  PROVE  f[1 .. n] = g[1 .. n]
<1> DEFINE S == {k \in Nat : k <= n => f[1 .. k] = g[1 .. k]}
<1>1. 0 \in S
  BY TotallingStep
<1>2. ASSUME NEW k \in Nat, k \in S PROVE k + 1 \in S
  <2> SUFFICES ASSUME k + 1 <= n PROVE f[1 .. k + 1] = g[1 .. k + 1]
    OBVIOUS
  <2>1. k < n /\ k < m /\ k + 1 \in 1 .. n
    OBVIOUS
  <2>2. f[1 .. k] = g[1 .. k] /\ s[k + 1] = t[k + 1]
    BY <1>2, <2>1 DEF Agree
  <2>3. f[1 .. k + 1] = f[1 .. k] + s[k + 1].us
    BY <2>1, TotallingStep
  <2>4. g[1 .. k + 1] = g[1 .. k] + t[k + 1].us
    BY <2>1, TotallingStep
  <2> QED
    BY <2>2, <2>3, <2>4
<1>3. Nat \subseteq S
  <2> HIDE DEF S
  <2> QED
    BY <1>1, <1>2, AllNaturals
<1> QED
  BY <1>3

LEMMA TotalIs ==
  ASSUME NEW s \in Seq(Mark)
  PROVE  \E f : Totalling(f, s, Len(s)) /\ Total(s) = f[1 .. Len(s)]
<1>1. Len(s) \in Nat /\ DOMAIN s = 1 .. Len(s)
  OBVIOUS
<1> DEFINE f == CHOOSE f : Totalling(f, s, Len(s))
<1>2. Totalling(f, s, Len(s))
  BY <1>1, TotallingExists
<1>3. Total(s) = f[1 .. Len(s)]
  BY <1>1 DEF Total, FoldLeft, MapThenFoldSet, Totalling
<1> QED
  BY <1>2, <1>3

LEMMA TotalAppend ==
  /\ Total(<<>>) = 0
  /\ \A s \in Seq(Mark), m \in Mark : Total(Append(s, m)) = Total(s) + m.us
<1>1. Total(<<>>) = 0
  <2> SUFFICES ASSUME NEW e, e = <<>> PROVE Total(e) = 0
    OBVIOUS
  <2>1. e \in Seq(Mark) /\ Len(e) = 0
    BY EmptySeq
  <2>2. PICK f : Totalling(f, e, Len(e)) /\ Total(e) = f[1 .. Len(e)]
    BY <2>1, TotalIs
  <2>3. Totalling(f, e, 0) /\ Total(e) = f[1 .. 0]
    BY <2>1, <2>2
  <2>4. f[1 .. 0] = 0
    BY <2>3, TotallingStep
  <2>5. Total(e) = 0
    BY <2>3, <2>4
  <2> QED
    BY <2>5
<1>2. ASSUME NEW s \in Seq(Mark), NEW m \in Mark
      PROVE  Total(Append(s, m)) = Total(s) + m.us
  <2>0. PICK t : t = Append(s, m)
    OBVIOUS
  <2>1. PICK n \in Nat : n = Len(s)
    BY LenProperties
  <2>2. t \in Seq(Mark) /\ Len(t) = n + 1 /\ t[n + 1] = m
    BY <2>0, <2>1
  <2>8. Agree(s, t, n)
    BY <2>0, <2>1 DEF Agree
  <2>3. PICK f : Totalling(f, s, n) /\ Total(s) = f[1 .. n]
    BY <2>1, TotalIs
  <2>4. PICK g : Totalling(g, t, n + 1) /\ Total(t) = g[1 .. n + 1]
    BY <2>2, TotalIs
  <2>5. n + 1 \in Nat /\ n <= n + 1 /\ n < n + 1
    OBVIOUS
  <2>6. f[1 .. n] = g[1 .. n]
    <3>1. Totalling(f, s, n) /\ Totalling(g, t, n + 1) /\ n + 1 \in Nat /\ n <= n + 1
      BY <2>3, <2>4, <2>5
    <3>2. PICK k \in Nat : k = n + 1
      BY <3>1
    <3>3. n \in Nat /\ k \in Nat /\ n <= k
      BY <3>2
    <3>4. Totalling(f, s, n) /\ Totalling(g, t, k)
      BY <3>1, <3>2
    <3> QED
      BY <2>8, <3>3, <3>4, TotallingSame
  <2>7. g[1 .. n + 1] = g[1 .. n] + t[n + 1].us
    BY <2>4, <2>5, TotallingStep
  <2> QED
    BY <2>0, <2>2, <2>3, <2>4, <2>6, <2>7
<1> QED
  BY <1>1, <1>2

\* The same for FlattenSeq.
Flattening(f, s, n) == f = [i \in 1 .. n |-> IF i = 1 THEN s[i] ELSE f[i - 1] \o s[i]]

LEMMA FlatteningExists ==
  ASSUME NEW s
  PROVE  \A n \in Nat : \E f : Flattening(f, s, n)
<1> DEFINE S == {n \in Nat : \E f : Flattening(f, s, n)}
<1>1. 0 \in S
  <2> DEFINE f == [i \in 1 .. 0 |-> <<>>]
  <2>1. Flattening(f, s, 0)
    BY DEF Flattening
  <2> QED
    BY <2>1
<1>2. ASSUME NEW n \in Nat, n \in S PROVE n + 1 \in S
  <2>1. PICK f : Flattening(f, s, n)
    BY <1>2
  <2> DEFINE last == IF n = 0 THEN s[1] ELSE f[n] \o s[n + 1]
             g == [i \in 1 .. n + 1 |-> IF i = n + 1 THEN last ELSE f[i]]
  <2>2. ASSUME NEW i \in 1 .. n + 1
        PROVE  g[i] = IF i = 1 THEN s[i] ELSE g[i - 1] \o s[i]
    <3> HIDE DEF last
    <3>1. CASE i = n + 1
      <4>1. g[i] = last
        BY <3>1
      <4>2. CASE n = 0
        BY <3>1, <4>1, <4>2 DEF last
      <4>3. CASE n # 0
        <5>1. i # 1 /\ i - 1 = n /\ n \in 1 .. n + 1 /\ n # n + 1
          BY <3>1, <4>3
        <5>2. g[n] = f[n]
          BY <5>1
        <5>3. g[i - 1] = f[n]
          BY <5>1, <5>2
        <5> HIDE DEF g
        <5>4. g[i] = f[n] \o s[n + 1]
          BY <4>1, <4>3 DEF last
        <5> QED
          BY <3>1, <5>1, <5>3, <5>4
      <4> QED
        BY <4>2, <4>3
    <3>2. CASE i # n + 1
      <4>1. i \in 1 .. n
        BY <3>2
      <4>2. f[i] = IF i = 1 THEN s[i] ELSE f[i - 1] \o s[i]
        BY <2>1, <4>1 DEF Flattening
      <4>3. g[i] = f[i]
        BY <3>2
      <4>4. i # 1 => g[i - 1] = f[i - 1]
        BY <4>1
      <4> HIDE DEF g
      <4> QED
        BY <4>2, <4>3, <4>4
    <3> QED
      BY <3>1, <3>2
  <2>3. g = [i \in 1 .. n + 1 |-> g[i]]
    OBVIOUS
  <2> HIDE DEF g
  <2>4. Flattening(g, s, n + 1)
    BY <2>2, <2>3 DEF Flattening
  <2> QED
    BY <2>4
<1>3. Nat \subseteq S
  <2> HIDE DEF S
  <2> QED
    BY <1>1, <1>2, AllNaturals
<1> QED
  BY <1>3

LEMMA FlatteningStep ==
  ASSUME NEW s, NEW f, NEW n \in Nat, Flattening(f, s, n)
  PROVE  /\ 0 < n => f[1] = s[1]
         /\ \A k \in Nat : 0 < k /\ k < n => f[k + 1] = f[k] \o s[k + 1]
<1>1. ASSUME 0 < n PROVE f[1] = s[1]
  <2>1. 1 \in 1 .. n
    BY <1>1
  <2> QED
    BY <2>1 DEF Flattening
<1>2. ASSUME NEW k \in Nat, 0 < k, k < n PROVE f[k + 1] = f[k] \o s[k + 1]
  <2>1. k + 1 \in 1 .. n /\ k + 1 # 1 /\ (k + 1) - 1 = k
    BY <1>2
  <2>2. f[k + 1] = IF k + 1 = 1 THEN s[k + 1] ELSE f[(k + 1) - 1] \o s[k + 1]
    BY <2>1 DEF Flattening
  <2> QED
    BY <2>1, <2>2
<1> QED
  BY <1>1, <1>2

LEMMA FlatteningSame ==
  ASSUME NEW s, NEW t, NEW f, NEW g, NEW n \in Nat, NEW m \in Nat, 0 < n, n <= m,
         Flattening(f, s, n), Flattening(g, t, m), Agree(s, t, n)
  PROVE  f[n] = g[n]
<1> DEFINE S == {k \in Nat : 0 < k /\ k <= n => f[k] = g[k]}
<1>1. 0 \in S
  OBVIOUS
<1>2. ASSUME NEW k \in Nat, k \in S PROVE k + 1 \in S
  <2> SUFFICES ASSUME k + 1 <= n PROVE f[k + 1] = g[k + 1]
    OBVIOUS
  <2>1. k < n /\ k < m /\ k + 1 \in 1 .. n
    OBVIOUS
  <2>2. s[k + 1] = t[k + 1]
    BY <2>1 DEF Agree
  <2>3. CASE k = 0
    <3>1. f[1] = s[1] /\ g[1] = t[1]
      <4>1. 0 < n /\ 0 < m
        BY <2>1
      <4> QED
        BY <4>1, FlatteningStep
    <3> QED
      BY <2>2, <2>3, <3>1
  <2>4. CASE 0 < k
    <3>1. f[k] = g[k]
      BY <1>2, <2>1, <2>4
    <3>2. f[k + 1] = f[k] \o s[k + 1]
      BY <2>1, <2>4, FlatteningStep
    <3>3. g[k + 1] = g[k] \o t[k + 1]
      BY <2>1, <2>4, FlatteningStep
    <3> QED
      BY <2>2, <3>1, <3>2, <3>3
  <2> QED
    BY <2>3, <2>4
<1>3. Nat \subseteq S
  <2> HIDE DEF S
  <2> QED
    BY <1>1, <1>2, AllNaturals
<1> QED
  BY <1>3

LEMMA FlattenIs ==
  ASSUME NEW s \in Seq(Seq(Mark)), NEW n \in Nat, n = Len(s), 0 < n
  PROVE  \E f : Flattening(f, s, n) /\ FlattenSeq(s) = f[n]
<1> DEFINE f == CHOOSE f : Flattening(f, s, n)
<1>1. Flattening(f, s, n)
  BY FlatteningExists
<1>2. FlattenSeq(s) = f[n]
  BY DEF FlattenSeq, Flattening
<1> QED
  BY <1>1, <1>2

LEMMA FlattenAppend ==
  /\ FlattenSeq(<<>>) = <<>>
  /\ \A s \in Seq(Seq(Mark)), x \in Seq(Mark) : FlattenSeq(Append(s, x)) = FlattenSeq(s) \o x
<1>1. FlattenSeq(<<>>) = <<>>
  BY DEF FlattenSeq
<1>2. ASSUME NEW s \in Seq(Seq(Mark)), NEW x \in Seq(Mark)
      PROVE  FlattenSeq(Append(s, x)) = FlattenSeq(s) \o x
  <2>0. PICK t : t = Append(s, x)
    OBVIOUS
  <2>1. PICK n \in Nat : n = Len(s)
    BY LenProperties
  <2>2. t \in Seq(Seq(Mark)) /\ Len(t) = n + 1 /\ t[n + 1] = x
    BY <2>0, <2>1
  <2>3. PICK g : Flattening(g, t, n + 1) /\ FlattenSeq(t) = g[n + 1]
    BY <2>2, FlattenIs
  <2>4. CASE n = 0
    <3>1. s = <<>>
      BY <2>1, <2>4, EmptySeq
    <3>2. FlattenSeq(s) \o x = x
      BY <1>1, <3>1, ConcatEmptySeq
    <3>3. g[1] = t[1]
      <4>1. 1 \in 1 .. n + 1
        OBVIOUS
      <4> QED
        BY <2>3, <4>1 DEF Flattening
    <3> QED
      BY <2>0, <2>2, <2>3, <2>4, <3>2, <3>3
  <2>5. CASE 0 < n
    <3>1. Agree(s, t, n)
      BY <2>0, <2>1 DEF Agree
    <3>2. PICK f : Flattening(f, s, n) /\ FlattenSeq(s) = f[n]
      BY <2>1, <2>5, FlattenIs
    <3>3. PICK k \in Nat : k = n + 1
      OBVIOUS
    <3>4. Flattening(g, t, k) /\ n <= k /\ n < k
      BY <2>3, <3>3
    <3>5. f[n] = g[n]
      BY <2>5, <3>1, <3>2, <3>4, FlatteningSame
    <3>6. g[n + 1] = g[n] \o t[n + 1]
      BY <2>5, <3>4, FlatteningStep
    <3> QED
      BY <2>0, <2>2, <2>3, <3>2, <3>5, <3>6
  <2> QED
    BY <2>4, <2>5
<1> QED
  BY <1>1, <1>2

LEMMA RoundOf ==
  ASSUME NEW n \in Nat, n > 0, NEW j \in Int, NEW t \in Nat, t < n
  PROVE  (n * j + t) % n = t
OBVIOUS
LEMMA RoundOf2 ==
  ASSUME NEW n \in Nat, n > 0, NEW j \in Nat, NEW t \in Nat, t < n
  PROVE  (n * j + t >= n <=> j > 0) /\ (j \in Nat)
OBVIOUS
LEMMA LastSplit ==
  ASSUME NEW S, NEW s \in Seq(S), NEW n \in Nat, Len(s) = n + 1
  PROVE  \E t \in Seq(S), m \in S : s = Append(t, m) /\ Len(t) = n
<1> DEFINE t == SubSeq(s, 1, n)
<1>1. t \in Seq(S) /\ Len(t) = n /\ \A i \in 1 .. n : t[i] = s[i]
  OBVIOUS
<1>2. s[n + 1] \in S
  BY ElementOfSeq
<1> HIDE DEF t
<1>3. Append(t, s[n + 1]) \in Seq(S) /\ Len(Append(t, s[n + 1])) = n + 1
  BY <1>1, <1>2
<1>4. \A i \in 1 .. n + 1 : Append(t, s[n + 1])[i] = s[i]
  BY <1>1, <1>2
<1>5. s = Append(t, s[n + 1])
  BY <1>3, <1>4, SeqEqual
<1> QED
  BY <1>1, <1>2, <1>5

LEMMA TotalNat == \A s \in Seq(Mark) : Total(s) \in Nat
<1> DEFINE S == {n \in Nat : \A s \in Seq(Mark) : Len(s) = n => Total(s) \in Nat}
<1>1. 0 \in S
  <2>1. \A s \in Seq(Mark) : Len(s) = 0 => s = <<>>
    BY EmptySeq
  <2> QED
    BY <2>1, TotalAppend
<1>2. ASSUME NEW n \in Nat, n \in S PROVE n + 1 \in S
  <2> SUFFICES ASSUME NEW s \in Seq(Mark), Len(s) = n + 1 PROVE Total(s) \in Nat
    OBVIOUS
  <2>1. PICK t \in Seq(Mark), m \in Mark : s = Append(t, m) /\ Len(t) = n
    BY LastSplit
  <2>2. Total(s) = Total(t) + m.us
    BY <2>1, TotalAppend
  <2>3. Total(t) \in Nat /\ m.us \in Nat
    BY <1>2, <2>1 DEF Mark
  <2> QED
    BY <2>2, <2>3
<1>3. Nat \subseteq S
  <2> HIDE DEF S
  <2> QED
    BY <1>1, <1>2, AllNaturals
<1> QED
  BY <1>3, LenProperties

LEMMA JoinedType ==
  ASSUME NEW runs \in Seq(Mark), NEW m \in Mark
  PROVE  /\ Joined(runs, m) \in Seq(Mark) /\ Len(Joined(runs, m)) \in {Len(runs), Len(runs) + 1}
<1>1. CASE runs # <<>> /\ Last(runs).kind = m.kind
  <2>1. Len(runs) \in 1 .. Len(runs)
    BY <1>1, EmptySeq
  <2>2. runs[Len(runs)] \in Mark
    BY <2>1, ElementOfSeq
  <2> DEFINE x == [runs[Len(runs)] EXCEPT !.us = @ + m.us]
  <2>3. x \in Mark
    BY <2>2 DEF Mark
  <2>4. Joined(runs, m) = [runs EXCEPT ![Len(runs)] = x]
    BY <1>1 DEF Joined
  <2> HIDE DEF x
  <2>5. [runs EXCEPT ![Len(runs)] = x] \in Seq(Mark)
        /\ Len([runs EXCEPT ![Len(runs)] = x]) = Len(runs)
    BY <2>1, <2>3, ExceptSeq
  <2> QED
    BY <2>4, <2>5
<1>2. CASE ~(runs # <<>> /\ Last(runs).kind = m.kind)
  BY <1>2 DEF Joined
<1> QED
  BY <1>1, <1>2

LEMMA MergedType == \A s \in Seq(Mark) : Merged(s) \in Seq(Mark)
<1> DEFINE S == {n \in Nat : \A s \in Seq(Mark) : Len(s) = n => Merged(s) \in Seq(Mark)}
<1>1. 0 \in S
  <2>1. \A s \in Seq(Mark) : Len(s) = 0 => s = <<>>
    BY EmptySeq
  <2> QED
    BY <2>1, MergedAppend, EmptySeq
<1>2. ASSUME NEW n \in Nat, n \in S PROVE n + 1 \in S
  <2> SUFFICES ASSUME NEW s \in Seq(Mark), Len(s) = n + 1 PROVE Merged(s) \in Seq(Mark)
    OBVIOUS
  <2>1. PICK t \in Seq(Mark), m \in Mark : s = Append(t, m) /\ Len(t) = n
    BY LastSplit
  <2>2. Merged(s) = Joined(Merged(t), m)
    BY <2>1, MergedAppend
  <2>3. Merged(t) \in Seq(Mark)
    BY <1>2, <2>1
  <2> QED
    BY <2>2, <2>3, JoinedType
<1>3. Nat \subseteq S
  <2> HIDE DEF S
  <2> QED
    BY <1>1, <1>2, AllNaturals
<1> QED
  BY <1>3, LenProperties

LEMMA ConcatAppend ==
  ASSUME NEW S, NEW s \in Seq(S), NEW t \in Seq(S), NEW m \in S
  PROVE  s \o Append(t, m) = Append(s \o t, m)
<1> DEFINE a == s \o Append(t, m)
           b == Append(s \o t, m)
<1>1. /\ Append(t, m) \in Seq(S) /\ Len(Append(t, m)) = Len(t) + 1
      /\ s \o t \in Seq(S) /\ Len(s \o t) = Len(s) + Len(t)
      /\ Len(s) \in Nat /\ Len(t) \in Nat
  OBVIOUS
<1>2. a \in Seq(S) /\ b \in Seq(S) /\ Len(a) = Len(s) + Len(t) + 1 /\ Len(b) = Len(s) + Len(t) + 1
  BY <1>1, ConcatProperties
<1>3. ASSUME NEW i \in 1 .. Len(s) + Len(t) + 1 PROVE a[i] = b[i]
  OBVIOUS
<1> HIDE DEF a, b
<1>4. \A i \in 1 .. Len(a) : a[i] = b[i]
  BY <1>1, <1>2, <1>3
<1>5. a = b
  BY <1>2, <1>4, SeqEqual
<1> QED
  BY <1>5 DEF a, b

LEMMA MergedLonger ==
  \A s \in Seq(Mark), t \in Seq(Mark) : Len(Merged(s)) <= Len(Merged(s \o t))
<1> DEFINE S == {n \in Nat : \A s \in Seq(Mark), t \in Seq(Mark) :
                               Len(t) = n => Len(Merged(s)) <= Len(Merged(s \o t))}
<1>1. 0 \in S
  <2> SUFFICES ASSUME NEW s \in Seq(Mark), NEW t \in Seq(Mark), Len(t) = 0
               PROVE  Len(Merged(s)) <= Len(Merged(s \o t))
    OBVIOUS
  <2>1. t = <<>>
    BY EmptySeq
  <2>2. s \o t = s
    BY <2>1, ConcatEmptySeq
  <2>3. Len(Merged(s)) \in Nat
    BY MergedType, LenProperties
  <2> QED
    BY <2>2, <2>3
<1>2. ASSUME NEW n \in Nat, n \in S PROVE n + 1 \in S
  <2> SUFFICES ASSUME NEW s \in Seq(Mark), NEW t \in Seq(Mark), Len(t) = n + 1
               PROVE  Len(Merged(s)) <= Len(Merged(s \o t))
    OBVIOUS
  <2>1. PICK u \in Seq(Mark), m \in Mark : t = Append(u, m) /\ Len(u) = n
    BY LastSplit
  <2>2. s \o u \in Seq(Mark) /\ s \o t = Append(s \o u, m)
    BY <2>1, ConcatAppend, ConcatProperties
  <2>3. Merged(s \o t) = Joined(Merged(s \o u), m)
    BY <2>2, MergedAppend
  <2>4. Len(Merged(s)) <= Len(Merged(s \o u))
    BY <1>2, <2>1
  <2>5. Merged(s \o u) \in Seq(Mark) /\ Merged(s) \in Seq(Mark)
    BY <2>2, MergedType
  <2>6. Len(Merged(s \o t)) \in {Len(Merged(s \o u)), Len(Merged(s \o u)) + 1}
    BY <2>3, <2>5, JoinedType
  <2>7. Len(Merged(s \o u)) \in Nat /\ Len(Merged(s)) \in Nat
    BY <2>5, LenProperties
  <2> QED
    BY <2>4, <2>6, <2>7
<1>3. Nat \subseteq S
  <2> HIDE DEF S
  <2> QED
    BY <1>1, <1>2, AllNaturals
<1> QED
  BY <1>3, LenProperties

-----------------------------------------------------------------------------
(* What the operations on the buffer add to what it holds.                 *)

\* What the buffer stands for: its entries and the mark that is pending.
Content(b) ==
  IF b.pendingp > 0 THEN Append(b.data, PulseMark(b.pendingp))
  ELSE IF b.pendings > 0 THEN Append(b.data, SpaceMark(b.pendings))
  ELSE b.data

\* The buffer holds what the marks come to, or has noticed that it is too small.
Carries(b, marks) ==
  IF b.too_long THEN Len(Merged(marks)) > WBUF_SIZE ELSE Content(b) = Merged(marks)

\* One mark more.
Carried(b, c, mark) ==
  IF c.too_long THEN Len(Content(b)) > WBUF_SIZE \/ Len(Joined(Content(b), mark)) > WBUF_SIZE
  ELSE Content(c) = Joined(Content(b), mark)

LEMMA JoinedSame ==
  ASSUME NEW d \in Seq(Mark), NEW x \in Mark, NEW m \in Mark, x.kind = m.kind
  PROVE  Joined(Append(d, x), m) = Append(d, [x EXCEPT !.us = @ + m.us])
<1> DEFINE a == Append(d, x)
           y == [x EXCEPT !.us = @ + m.us]
<1>1. Len(d) \in Nat /\ a \in Seq(Mark) /\ Len(a) = Len(d) + 1 /\ a[Len(a)] = x /\ a # <<>>
  OBVIOUS
<1>2. y \in Mark
  BY DEF Mark
<1> HIDE DEF a, y
<1>3. Joined(a, m) = [a EXCEPT ![Len(a)] = y]
  BY <1>1 DEF Joined, Last, y
<1>4. Len(a) \in 1 .. Len(a)
  BY <1>1
<1>5. /\ [a EXCEPT ![Len(a)] = y] \in Seq(Mark) /\ Len([a EXCEPT ![Len(a)] = y]) = Len(a)
      /\ \A j \in 1 .. Len(a) : [a EXCEPT ![Len(a)] = y][j] = IF j = Len(a) THEN y ELSE a[j]
  BY <1>1, <1>2, <1>4, ExceptSeq
<1>6. /\ Append(d, y) \in Seq(Mark) /\ Len(Append(d, y)) = Len(d) + 1
      /\ \A j \in 1 .. Len(d) + 1 : Append(d, y)[j] = IF j = Len(d) + 1 THEN y ELSE d[j]
  BY <1>2
<1>7. \A j \in 1 .. Len(d) : a[j] = d[j]
  BY DEF a
<1>8. \A j \in 1 .. Len(a) : [a EXCEPT ![Len(a)] = y][j] = Append(d, y)[j]
  BY <1>1, <1>5, <1>6, <1>7
<1>9. [a EXCEPT ![Len(a)] = y] = Append(d, y)
  BY <1>1, <1>5, <1>6, <1>8, SeqEqual
<1> QED
  BY <1>3, <1>9 DEF a, y

LEMMA JoinedOther ==
  ASSUME NEW d \in Seq(Mark), NEW m \in Mark,
         d = <<>> \/ d[Len(d)].kind # m.kind
  PROVE  Joined(d, m) = Append(d, m)
BY DEF Joined, Last

\* The kind of the last entry.
LEMMA LastKind ==
  ASSUME NEW d \in Seq(Mark), Alternating(d), d # <<>>
  PROVE  d[Len(d)].kind = (IF Odd(Len(d)) THEN "pulse" ELSE "space")
<1>1. Len(d) \in 1 .. Len(d)
  BY EmptySeq
<1>2. d[Len(d)] \in Mark
  BY <1>1, ElementOfSeq
<1>3. d[Len(d)].kind = "pulse" <=> Len(d) % 2 = 1
  BY <1>1 DEF Alternating
<1> QED
  BY <1>2, <1>3 DEF Mark, Odd

LEMMA AddIs ==
  ASSUME NEW b \in BufferType, NEW m \in Mark
  PROVE  LET c == Add(b, m) IN
         /\ c \in BufferType /\ c.pendingp = b.pendingp /\ c.pendings = b.pendings
         /\ Len(b.data) < WBUF_SIZE =>
              c.data = Append(b.data, m) /\ c.sum = b.sum + m.us /\ c.too_long = b.too_long
         /\ ~(Len(b.data) < WBUF_SIZE) => c.data = b.data /\ c.sum = b.sum /\ c.too_long
<1>1. CASE Len(b.data) < WBUF_SIZE
  <2> DEFINE d == Append(b.data, m)
             n == b.sum + m.us
  <2>1. d \in Seq(Mark) /\ n \in Int
    BY DEF BufferType, Mark
  <2>2. Add(b, m) = [b EXCEPT !.sum = n, !.data = d]
    BY <1>1 DEF Add
  <2> HIDE DEF d, n
  <2>3. LET c == [b EXCEPT !.sum = n, !.data = d] IN
        /\ c \in BufferType /\ c.pendingp = b.pendingp /\ c.pendings = b.pendings
        /\ c.data = d /\ c.sum = n /\ c.too_long = b.too_long
    BY <2>1 DEF BufferType
  <2> QED
    BY <1>1, <2>2, <2>3 DEF d, n
<1>2. CASE ~(Len(b.data) < WBUF_SIZE)
  <2>1. Add(b, m) = [b EXCEPT !.too_long = TRUE]
    BY <1>2 DEF Add
  <2>2. LET c == [b EXCEPT !.too_long = TRUE] IN
        /\ c \in BufferType /\ c.pendingp = b.pendingp /\ c.pendings = b.pendings
        /\ c.data = b.data /\ c.sum = b.sum /\ c.too_long = TRUE
    BY DEF BufferType
  <2> QED
    BY <1>2, <2>1, <2>2
<1> QED
  BY <1>1, <1>2

LEMMA MarkMade ==
  ASSUME NEW us \in Nat
  PROVE  /\ PulseMark(us) \in Mark /\ PulseMark(us).kind = "pulse" /\ PulseMark(us).us = us
         /\ SpaceMark(us) \in Mark /\ SpaceMark(us).kind = "space" /\ SpaceMark(us).us = us
         /\ \A n \in Nat : /\ [PulseMark(us) EXCEPT !.us = @ + n] = PulseMark(us + n)
                           /\ [SpaceMark(us) EXCEPT !.us = @ + n] = SpaceMark(us + n)
BY DEF PulseMark, SpaceMark, Mark

\* What sum counts is what was stored.
Grows(b, c) ==
  \/ c.data = b.data /\ c.sum = b.sum
  \/ \E x \in Mark : c.data = Append(b.data, x) /\ c.sum = b.sum + x.us

Stored(b, c, m) ==
  /\ Carried(b, c, m)
  /\ ~c.too_long =>
       /\ Grows(b, c)
       /\ IF m.kind = "pulse"
          THEN c.pendings = 0 /\ c.sum + c.pendingp = b.sum + b.pendingp + b.pendings + m.us
          ELSE c.sum + c.pendingp = b.sum + b.pendingp /\ c.pendings = b.pendings + m.us

LEMMA PulseStored ==
  ASSUME NEW b, Whole(b), Fits(b), ~b.too_long, NEW us \in Nat, us > 0,
         Pending(b) \/ Even(Len(b.data))
  PROVE  Stored(b, Pulse(b, us), PulseMark(us))
<1>1. /\ b \in BufferType /\ b.pendingp \in Nat /\ b.pendings \in Nat /\ b.sum \in Int
      /\ b.data \in Seq(Mark) /\ Len(b.data) \in Nat /\ Len(b.data) <= WBUF_SIZE
      /\ WBUF_SIZE \in Nat /\ b.too_long = FALSE
  BY BufferAssumption DEF Whole, BufferType
<1>2. PICK m : m = PulseMark(us)
  OBVIOUS
<1>3. m \in Mark /\ m.kind = "pulse" /\ m.us = us
  BY <1>2, MarkMade
<1>4. PICK c : c = Pulse(b, us)
  OBVIOUS
<1>5. CASE b.pendingp > 0
  <2>1. PICK p \in Nat : p = b.pendingp + us
    BY <1>1
  <2>2. c = [b EXCEPT !.pendingp = p]
    BY <1>4, <1>5, <2>1 DEF Pulse
  <2>3. /\ c.data = b.data /\ c.too_long = FALSE /\ c.pendingp = p /\ c.pendings = b.pendings
        /\ c.sum = b.sum
    BY <1>1, <2>1, <2>2 DEF BufferType
  <2>4. Content(b) = Append(b.data, PulseMark(b.pendingp)) /\ p > 0
    BY <1>1, <1>5, <2>1 DEF Content
  <2>5. Content(c) = Append(b.data, PulseMark(p))
    BY <2>3, <2>4 DEF Content
  <2>6. Joined(Content(b), m) = Append(b.data, PulseMark(p))
    <3>1. PulseMark(b.pendingp) \in Mark /\ PulseMark(b.pendingp).kind = m.kind
      BY <1>1, <1>3, MarkMade
    <3>2. Joined(Append(b.data, PulseMark(b.pendingp)), m)
            = Append(b.data, [PulseMark(b.pendingp) EXCEPT !.us = @ + m.us])
      BY <1>1, <1>3, <3>1, JoinedSame
    <3>3. [PulseMark(b.pendingp) EXCEPT !.us = @ + m.us] = PulseMark(p)
      BY <1>3, <2>1 DEF PulseMark
    <3> QED
      BY <2>4, <3>2, <3>3
  <2>7. b.pendings = 0
    BY <1>1, <1>5 DEF Fits
  <2>8. Carried(b, c, m)
    BY <2>3, <2>5, <2>6 DEF Carried
  <2>9. Grows(b, c)
    BY <2>3 DEF Grows
  <2>10. c.pendings = 0 /\ c.sum + c.pendingp = b.sum + b.pendingp + b.pendings + m.us
    BY <1>1, <1>3, <2>1, <2>3, <2>7
  <2> QED
    BY <1>2, <1>3, <1>4, <2>8, <2>9, <2>10 DEF Stored
<1>6. CASE b.pendingp = 0
  <2>1. PICK a : a = AddPendingSpace(b)
    OBVIOUS
  <2>2. c = [a EXCEPT !.pendingp = us]
    BY <1>4, <1>6, <2>1 DEF Pulse
  <2>3. CASE b.pendings = 0
    <3>1. a = b
      BY <2>1, <2>3 DEF AddPendingSpace
    <3>2. /\ c.data = b.data /\ c.too_long = FALSE /\ c.pendingp = us /\ c.pendings = 0
          /\ c.sum = b.sum
      BY <1>1, <2>2, <2>3, <3>1 DEF BufferType
    <3>3. Content(b) = b.data /\ Content(c) = Append(b.data, m)
      BY <1>2, <1>6, <2>3, <3>2 DEF Content
    <3>4. Joined(b.data, m) = Append(b.data, m)
      <4>1. ~Pending(b)
        BY <1>6, <2>3 DEF Pending
      <4>2. ~Odd(Len(b.data))
        BY <1>1, <4>1, Parity
      <4>3. b.data = <<>> \/ b.data[Len(b.data)].kind # m.kind
        BY <1>1, <1>3, <4>2, LastKind DEF Whole
      <4> QED
        BY <1>1, <1>3, <4>3, JoinedOther
    <3>5. Carried(b, c, m)
      BY <3>2, <3>3, <3>4 DEF Carried
    <3>6. Grows(b, c)
      BY <3>2 DEF Grows
    <3>7. c.sum + c.pendingp = b.sum + b.pendingp + b.pendings + m.us
      BY <1>1, <1>3, <1>6, <2>3, <3>2
    <3> QED
      BY <1>2, <1>3, <1>4, <3>2, <3>5, <3>6, <3>7 DEF Stored
  <2>4. CASE b.pendings > 0
    <3>1. PICK s : s = SpaceMark(b.pendings)
      OBVIOUS
    <3>2. s \in Mark /\ s.kind = "space" /\ s.us = b.pendings
      BY <1>1, <3>1, MarkMade
    <3>3. PICK q : q = Add(b, s)
      OBVIOUS
    <3>4. a = [q EXCEPT !.pendings = 0]
      BY <2>1, <2>4, <3>1, <3>3 DEF AddPendingSpace
    <3>5. /\ q \in BufferType /\ q.pendingp = 0
          /\ Len(b.data) < WBUF_SIZE =>
               q.data = Append(b.data, s) /\ q.sum = b.sum + s.us /\ q.too_long = b.too_long
          /\ ~(Len(b.data) < WBUF_SIZE) => q.data = b.data /\ q.sum = b.sum /\ q.too_long
      BY <1>1, <1>6, <3>2, <3>3, AddIs
    <3>6. /\ c.data = q.data /\ c.too_long = q.too_long /\ c.pendingp = us /\ c.pendings = 0
          /\ c.sum = q.sum
      BY <2>2, <3>4, <3>5 DEF BufferType
    <3>7. Content(b) = Append(b.data, s)
      BY <1>6, <2>4, <3>1 DEF Content
    <3>8. CASE Len(b.data) < WBUF_SIZE
      <4>1. ~c.too_long /\ c.data = Append(b.data, s) /\ c.sum = b.sum + b.pendings
        BY <1>1, <3>2, <3>5, <3>6, <3>8
      <4>2. Content(c) = Append(c.data, m)
        BY <1>2, <3>6 DEF Content
      <4>3. Joined(Append(b.data, s), m) = Append(Append(b.data, s), m)
        <5>1. /\ Append(b.data, s) \in Seq(Mark)
              /\ Append(b.data, s)[Len(Append(b.data, s))] = s
          BY <1>1, <3>2
        <5>2. s.kind # m.kind
          BY <1>3, <3>2
        <5> QED
          BY <1>3, <5>1, <5>2, JoinedOther
      <4>4. Carried(b, c, m)
        BY <3>7, <4>1, <4>2, <4>3 DEF Carried
      <4>5. Grows(b, c)
        BY <3>2, <4>1 DEF Grows
      <4>6. c.sum + c.pendingp = b.sum + b.pendingp + b.pendings + m.us
        BY <1>1, <1>3, <1>6, <3>6, <4>1
      <4> QED
        BY <1>2, <1>3, <1>4, <3>6, <4>4, <4>5, <4>6 DEF Stored
    <3>9. CASE ~(Len(b.data) < WBUF_SIZE)
      <4>1. c.too_long
        BY <3>5, <3>6, <3>9
      <4>2. Len(Append(b.data, s)) = Len(b.data) + 1
        BY <1>1, <3>2
      <4>3. Len(Content(b)) > WBUF_SIZE
        BY <1>1, <3>7, <3>9, <4>2
      <4> QED
        BY <1>2, <1>4, <4>1, <4>3 DEF Stored, Carried
    <3> QED
      BY <3>8, <3>9
  <2> QED
    BY <1>1, <2>3, <2>4
<1> QED
  BY <1>1, <1>5, <1>6

LEMMA SpaceStored ==
  ASSUME NEW b, Whole(b), Fits(b), ~b.too_long, NEW us \in Nat, us > 0,
         Pending(b) \/ Odd(Len(b.data))
  PROVE  Stored(b, Space(b, us), SpaceMark(us))
<1>1. /\ b \in BufferType /\ b.pendingp \in Nat /\ b.pendings \in Nat /\ b.sum \in Int
      /\ b.data \in Seq(Mark) /\ Len(b.data) \in Nat /\ Len(b.data) <= WBUF_SIZE
      /\ WBUF_SIZE \in Nat /\ b.too_long = FALSE
  BY BufferAssumption DEF Whole, BufferType
<1>2. PICK m : m = SpaceMark(us)
  OBVIOUS
<1>3. m \in Mark /\ m.kind = "space" /\ m.us = us /\ m.kind # "pulse"
  BY <1>2, MarkMade
<1>4. PICK c : c = Space(b, us)
  OBVIOUS
<1>5. ~(b.data = <<>> /\ b.pendingp = 0)
  <2> SUFFICES ASSUME b.data = <<>>, b.pendingp = 0 PROVE FALSE
    OBVIOUS
  <2>1. Len(b.data) = 0 /\ ~Odd(0)
    BY DEF Odd
  <2> QED
    BY <1>1, <2>1 DEF Fits, Pending
<1>6. CASE b.pendings > 0
  <2>1. PICK p \in Nat : p = b.pendings + us
    BY <1>1
  <2>2. c = [b EXCEPT !.pendings = p]
    BY <1>4, <1>5, <1>6, <2>1 DEF Space
  <2>3. /\ c.data = b.data /\ c.too_long = FALSE /\ c.pendings = p /\ c.pendingp = b.pendingp
        /\ c.sum = b.sum
    BY <1>1, <2>1, <2>2 DEF BufferType
  <2>4. b.pendingp = 0 /\ p > 0
    BY <1>1, <1>6, <2>1 DEF Fits
  <2>5. /\ Content(b) = Append(b.data, SpaceMark(b.pendings))
        /\ Content(c) = Append(b.data, SpaceMark(p))
    BY <1>6, <2>3, <2>4 DEF Content
  <2>6. Joined(Content(b), m) = Append(b.data, SpaceMark(p))
    <3>1. SpaceMark(b.pendings) \in Mark /\ SpaceMark(b.pendings).kind = m.kind
      BY <1>1, <1>3, MarkMade
    <3>2. Joined(Append(b.data, SpaceMark(b.pendings)), m)
            = Append(b.data, [SpaceMark(b.pendings) EXCEPT !.us = @ + m.us])
      BY <1>1, <1>3, <3>1, JoinedSame
    <3>3. [SpaceMark(b.pendings) EXCEPT !.us = @ + m.us] = SpaceMark(p)
      BY <1>3, <2>1 DEF SpaceMark
    <3> QED
      BY <2>5, <3>2, <3>3
  <2>7. Carried(b, c, m)
    BY <2>3, <2>5, <2>6 DEF Carried
  <2>8. Grows(b, c)
    BY <2>3 DEF Grows
  <2>9. c.sum + c.pendingp = b.sum + b.pendingp /\ c.pendings = b.pendings + m.us
    BY <1>1, <1>3, <2>1, <2>3
  <2> QED
    BY <1>2, <1>3, <1>4, <2>7, <2>8, <2>9 DEF Stored
<1>7. CASE b.pendings = 0
  <2>1. PICK a : a = AddPendingPulse(b)
    OBVIOUS
  <2>2. c = [a EXCEPT !.pendings = us]
    BY <1>4, <1>5, <1>7, <2>1 DEF Space
  <2>3. CASE b.pendingp = 0
    <3>1. a = b
      BY <2>1, <2>3 DEF AddPendingPulse
    <3>2. /\ c.data = b.data /\ c.too_long = FALSE /\ c.pendings = us /\ c.pendingp = 0
          /\ c.sum = b.sum
      BY <1>1, <2>2, <2>3, <3>1 DEF BufferType
    <3>3. Content(b) = b.data /\ Content(c) = Append(b.data, m)
      BY <1>2, <1>7, <2>3, <3>2 DEF Content
    <3>4. Joined(b.data, m) = Append(b.data, m)
      <4>1. ~Pending(b)
        BY <1>7, <2>3 DEF Pending
      <4>2. Odd(Len(b.data))
        BY <4>1
      <4>3. b.data = <<>> \/ b.data[Len(b.data)].kind # m.kind
        BY <1>1, <1>3, <4>2, LastKind DEF Whole
      <4> QED
        BY <1>1, <1>3, <4>3, JoinedOther
    <3>5. Carried(b, c, m)
      BY <3>2, <3>3, <3>4 DEF Carried
    <3>6. Grows(b, c)
      BY <3>2 DEF Grows
    <3>7. c.sum + c.pendingp = b.sum + b.pendingp /\ c.pendings = b.pendings + m.us
      BY <1>1, <1>3, <1>7, <2>3, <3>2
    <3> QED
      BY <1>2, <1>3, <1>4, <3>5, <3>6, <3>7 DEF Stored
  <2>4. CASE b.pendingp > 0
    <3>1. PICK s : s = PulseMark(b.pendingp)
      OBVIOUS
    <3>2. s \in Mark /\ s.kind = "pulse" /\ s.us = b.pendingp
      BY <1>1, <3>1, MarkMade
    <3>3. PICK q : q = Add(b, s)
      OBVIOUS
    <3>4. a = [q EXCEPT !.pendingp = 0]
      BY <2>1, <2>4, <3>1, <3>3 DEF AddPendingPulse
    <3>5. /\ q \in BufferType /\ q.pendings = 0
          /\ Len(b.data) < WBUF_SIZE =>
               q.data = Append(b.data, s) /\ q.sum = b.sum + s.us /\ q.too_long = b.too_long
          /\ ~(Len(b.data) < WBUF_SIZE) => q.data = b.data /\ q.sum = b.sum /\ q.too_long
      BY <1>1, <1>7, <3>2, <3>3, AddIs
    <3>6. /\ c.data = q.data /\ c.too_long = q.too_long /\ c.pendings = us /\ c.pendingp = 0
          /\ c.sum = q.sum
      BY <2>2, <3>4, <3>5 DEF BufferType
    <3>7. Content(b) = Append(b.data, s)
      BY <2>4, <3>1 DEF Content
    <3>8. CASE Len(b.data) < WBUF_SIZE
      <4>1. ~c.too_long /\ c.data = Append(b.data, s) /\ c.sum = b.sum + b.pendingp
        BY <1>1, <3>2, <3>5, <3>6, <3>8
      <4>2. Content(c) = Append(c.data, m)
        BY <1>2, <3>6 DEF Content
      <4>3. Joined(Append(b.data, s), m) = Append(Append(b.data, s), m)
        <5>1. /\ Append(b.data, s) \in Seq(Mark)
              /\ Append(b.data, s)[Len(Append(b.data, s))] = s
          BY <1>1, <3>2
        <5>2. s.kind # m.kind
          BY <1>3, <3>2
        <5> QED
          BY <1>3, <5>1, <5>2, JoinedOther
      <4>4. Carried(b, c, m)
        BY <3>7, <4>1, <4>2, <4>3 DEF Carried
      <4>5. Grows(b, c)
        BY <3>2, <4>1 DEF Grows
      <4>6. c.sum + c.pendingp = b.sum + b.pendingp /\ c.pendings = b.pendings + m.us
        BY <1>1, <1>3, <1>7, <3>6, <4>1
      <4> QED
        BY <1>2, <1>3, <1>4, <4>4, <4>5, <4>6 DEF Stored
    <3>9. CASE ~(Len(b.data) < WBUF_SIZE)
      <4>1. c.too_long
        BY <3>5, <3>6, <3>9
      <4>2. Len(Append(b.data, s)) = Len(b.data) + 1
        BY <1>1, <3>2
      <4>3. Len(Content(b)) > WBUF_SIZE
        BY <1>1, <3>7, <3>9, <4>2
      <4> QED
        BY <1>2, <1>4, <4>1, <4>3 DEF Stored, Carried
    <3> QED
      BY <3>8, <3>9
  <2> QED
    BY <1>1, <2>3, <2>4
<1> QED
  BY <1>1, <1>6, <1>7

\* An entry of a raw code.
LEMMA RawStored ==
  ASSUME NEW b, Whole(b), ~b.too_long, ~Pending(b), NEW m \in Mark,
         m.kind = "pulse" <=> Even(Len(b.data))
  PROVE  LET c == Add(b, m) IN
         /\ Carried(b, c, m)
         /\ ~c.too_long => Grows(b, c) /\ c.sum = b.sum + m.us
<1>1. /\ b \in BufferType /\ b.pendingp = 0 /\ b.pendings = 0 /\ b.sum \in Int
      /\ b.data \in Seq(Mark) /\ Len(b.data) \in Nat /\ Len(b.data) <= WBUF_SIZE
      /\ WBUF_SIZE \in Nat /\ b.too_long = FALSE /\ m.us \in Nat
  BY BufferAssumption DEF Whole, BufferType, Pending, Mark
<1>2. PICK c : c = Add(b, m)
  OBVIOUS
<1>3. /\ c.pendingp = 0 /\ c.pendings = 0
      /\ Len(b.data) < WBUF_SIZE =>
           c.data = Append(b.data, m) /\ c.sum = b.sum + m.us /\ c.too_long = b.too_long
      /\ ~(Len(b.data) < WBUF_SIZE) => c.data = b.data /\ c.sum = b.sum /\ c.too_long
  BY <1>1, <1>2, AddIs
<1>4. Content(b) = b.data /\ Content(c) = c.data
  BY <1>1, <1>3 DEF Content
<1>5. Joined(b.data, m) = Append(b.data, m)
  <2>1. b.data = <<>> \/ b.data[Len(b.data)].kind # m.kind
    BY <1>1, LastKind, Parity DEF Whole
  <2> QED
    BY <1>1, <2>1, JoinedOther
<1>6. CASE Len(b.data) < WBUF_SIZE
  <2>1. Carried(b, c, m)
    BY <1>1, <1>3, <1>4, <1>5, <1>6 DEF Carried
  <2>2. Grows(b, c)
    BY <1>3, <1>6 DEF Grows
  <2>3. c.sum = b.sum + m.us
    BY <1>3, <1>6
  <2> QED
    BY <1>2, <2>1, <2>2, <2>3
<1>7. CASE ~(Len(b.data) < WBUF_SIZE)
  <2>1. c.too_long /\ Len(Append(b.data, m)) = Len(b.data) + 1
    BY <1>1, <1>3, <1>7
  <2>2. Len(Joined(Content(b), m)) > WBUF_SIZE
    BY <1>1, <1>4, <1>5, <1>7, <2>1
  <2> QED
    BY <1>2, <2>1, <2>2 DEF Carried
<1> QED
  BY <1>6, <1>7

LEMMA TooLongStays ==
  ASSUME NEW b \in BufferType, b.too_long, NEW us \in Nat
  PROVE  /\ \A m \in Mark : Add(b, m).too_long
         /\ AddPendingPulse(b).too_long /\ AddPendingSpace(b).too_long
         /\ Pulse(b, us).too_long /\ Space(b, us).too_long
<1>1. /\ b.pendingp \in Nat /\ b.pendings \in Nat
  BY DEF BufferType
<1>2. ASSUME NEW m \in Mark PROVE Add(b, m).too_long /\ Add(b, m) \in BufferType
  BY <1>2, AddIs
<1>3. /\ AddPendingPulse(b).too_long /\ AddPendingPulse(b) \in BufferType
  <2>1. CASE b.pendingp > 0
    <3>1. PICK q : q = Add(b, PulseMark(b.pendingp))
      OBVIOUS
    <3>2. q \in BufferType /\ q.too_long
      BY <1>1, <1>2, <3>1, MarkMade
    <3>3. AddPendingPulse(b) = [q EXCEPT !.pendingp = 0]
      BY <2>1, <3>1 DEF AddPendingPulse
    <3> QED
      BY <3>2, <3>3 DEF BufferType
  <2>2. CASE ~(b.pendingp > 0)
    BY <2>2 DEF AddPendingPulse
  <2> QED
    BY <2>1, <2>2
<1>4. /\ AddPendingSpace(b).too_long /\ AddPendingSpace(b) \in BufferType
  <2>1. CASE b.pendings > 0
    <3>1. PICK q : q = Add(b, SpaceMark(b.pendings))
      OBVIOUS
    <3>2. q \in BufferType /\ q.too_long
      BY <1>1, <1>2, <3>1, MarkMade
    <3>3. AddPendingSpace(b) = [q EXCEPT !.pendings = 0]
      BY <2>1, <3>1 DEF AddPendingSpace
    <3> QED
      BY <3>2, <3>3 DEF BufferType
  <2>2. CASE ~(b.pendings > 0)
    BY <2>2 DEF AddPendingSpace
  <2> QED
    BY <2>1, <2>2
<1>5. Pulse(b, us).too_long
  <2>1. PICK a : a = AddPendingSpace(b)
    OBVIOUS
  <2>2. Pulse(b, us) = IF b.pendingp > 0 THEN [b EXCEPT !.pendingp = @ + us]
                       ELSE [a EXCEPT !.pendingp = us]
    BY <2>1 DEF Pulse
  <2> QED
    BY <1>4, <2>1, <2>2 DEF BufferType
<1>6. Space(b, us).too_long
  <2>1. PICK a : a = AddPendingPulse(b)
    OBVIOUS
  <2>2. Space(b, us) = IF b.data = <<>> /\ b.pendingp = 0 THEN b
                       ELSE IF b.pendings > 0 THEN [b EXCEPT !.pendings = @ + us]
                       ELSE [a EXCEPT !.pendings = us]
    BY <2>1 DEF Space
  <2> QED
    BY <1>3, <2>1, <2>2 DEF BufferType
<1> QED
  BY <1>2, <1>3, <1>4, <1>5, <1>6

LEMMA CarriesOn ==
  ASSUME NEW b, NEW c, NEW m \in Mark, NEW marks \in Seq(Mark), Carries(b, marks),
         b.too_long => c.too_long, ~b.too_long => Carried(b, c, m)
  PROVE  Carries(c, Append(marks, m))
<1>1. Merged(Append(marks, m)) = Joined(Merged(marks), m)
  BY MergedAppend
<1>2. Merged(marks) \in Seq(Mark)
  BY MergedType
<1>3. /\ Len(Merged(marks)) \in Nat /\ Len(Joined(Merged(marks), m)) \in Nat
      /\ Len(Merged(marks)) <= Len(Joined(Merged(marks), m)) /\ WBUF_SIZE \in Nat
  <2>1. /\ Joined(Merged(marks), m) \in Seq(Mark)
        /\ Len(Joined(Merged(marks), m)) \in {Len(Merged(marks)), Len(Merged(marks)) + 1}
    BY <1>2, JoinedType
  <2> QED
    BY <1>2, <2>1, LenProperties, BufferAssumption
<1>4. CASE b.too_long
  <2>1. Len(Merged(marks)) > WBUF_SIZE /\ c.too_long
    BY <1>4 DEF Carries
  <2> QED
    BY <1>1, <1>3, <2>1 DEF Carries
<1>5. CASE ~b.too_long
  <2>1. Content(b) = Merged(marks) /\ Carried(b, c, m)
    BY <1>5 DEF Carries
  <2>2. CASE c.too_long
    <3>1. Len(Merged(marks)) > WBUF_SIZE \/ Len(Joined(Merged(marks), m)) > WBUF_SIZE
      BY <2>1, <2>2 DEF Carried
    <3> QED
      BY <1>1, <1>3, <2>2, <3>1 DEF Carries
  <2>3. CASE ~c.too_long
    BY <1>1, <2>1, <2>3 DEF Carries, Carried
  <2> QED
    BY <2>2, <2>3
<1> QED
  BY <1>4, <1>5

-----------------------------------------------------------------------------
(* Frames: what the sum counts, and what Sync and the gap make of the buffer. *)

LEMMA GreatestOfBounded ==
  ASSUME NEW n \in Nat, NEW S \in SUBSET (1 .. n), S # {}
  PROVE  Max(S) \in S
<1> DEFINE T == {n - y : y \in S}
<1>1. T \in SUBSET Nat /\ T # {}
  <2>1. \A y \in S : n - y \in Nat
    OBVIOUS
  <2> QED
    BY <2>1
<1>2. PICK z \in T : \A y \in T : z <= y
  <2> HIDE DEF T
  <2> QED
    BY <1>1, LeastOfNaturals
<1>3. PICK x \in S : z = n - x
  BY <1>2
<1>4. ASSUME NEW y \in S PROVE x >= y
  <2>1. n - x <= n - y
    BY <1>2, <1>3
  <2> QED
    BY <2>1
<1> QED
  BY <1>4 DEF Max

LEMMA UpToPulseAppend ==
  ASSUME NEW d \in Seq(Mark), NEW m \in Mark
  PROVE  /\ m.kind = "pulse" => UpToPulse(Append(d, m)) = Append(d, m)
         /\ m.kind # "pulse" /\ (\E i \in 1 .. Len(d) : d[i].kind = "pulse") =>
              UpToPulse(Append(d, m)) = UpToPulse(d)
<1>1. PICK n \in Nat : n = Len(d)
  BY LenProperties
<1>2. PICK a : a = Append(d, m)
  OBVIOUS
<1>3. /\ DOMAIN d = 1 .. n /\ DOMAIN a = 1 .. n + 1 /\ a[n + 1] = m
      /\ a \in Seq(Mark) /\ Len(a) = n + 1
      /\ \A i \in 1 .. n : a[i] = d[i]
  BY <1>1, <1>2
<1> DEFINE S == {i \in DOMAIN d : d[i].kind = "pulse"}
           T == {i \in DOMAIN a : a[i].kind = "pulse"}
<1>4. ASSUME m.kind = "pulse" PROVE UpToPulse(a) = a
  <2>1. T \in SUBSET (1 .. n + 1) /\ n + 1 \in T
    BY <1>3, <1>4
  <2>2. Max(T) = n + 1
    <3> HIDE DEF T
    <3> QED
      BY <2>1, LastOfInterval
  <2> HIDE DEF T
  <2>3. SubSeq(a, 1, n + 1) = a
    BY <1>3, SubSeqFull
  <2> QED
    BY <2>2, <2>3 DEF UpToPulse, T
<1>5. ASSUME m.kind # "pulse", NEW i \in 1 .. Len(d), d[i].kind = "pulse"
      PROVE  UpToPulse(a) = UpToPulse(d)
  <2>1. S = T
    BY <1>3, <1>5
  <2>2. S \in SUBSET (1 .. n) /\ S # {}
    BY <1>1, <1>3, <1>5
  <2>3. PICK k : k = Max(S)
    OBVIOUS
  <2> HIDE DEF S, T
  <2>4. k \in 1 .. n
    BY <2>2, <2>3, GreatestOfBounded
  <2>5. SubSeq(a, 1, k) = SubSeq(d, 1, k)
    <3>1. /\ SubSeq(a, 1, k) \in Seq(Mark) /\ Len(SubSeq(a, 1, k)) = k
          /\ \A j \in 1 .. k : SubSeq(a, 1, k)[j] = a[j]
      BY <1>3, <2>4
    <3>2. /\ SubSeq(d, 1, k) \in Seq(Mark) /\ Len(SubSeq(d, 1, k)) = k
          /\ \A j \in 1 .. k : SubSeq(d, 1, k)[j] = d[j]
      BY <1>1, <2>4
    <3>3. \A j \in 1 .. k : SubSeq(a, 1, k)[j] = SubSeq(d, 1, k)[j]
      BY <1>3, <2>4, <3>1, <3>2
    <3> QED
      BY <3>1, <3>2, <3>3, SeqEqual
  <2> QED
    BY <2>1, <2>3, <2>5 DEF UpToPulse, S, T
<1> QED
  BY <1>2, <1>4, <1>5

LEMMA FrameGrows ==
  ASSUME NEW b \in BufferType, NEW c \in BufferType, NEW from \in Nat, from <= Len(b.data),
         Grows(b, c)
  PROVE  /\ from <= Len(c.data)
         /\ Total(SubSeq(c.data, from + 1, Len(c.data))) - c.sum
              = Total(SubSeq(b.data, from + 1, Len(b.data))) - b.sum
<1>1. /\ b.data \in Seq(Mark) /\ b.sum \in Int /\ Len(b.data) \in Nat
  BY DEF BufferType
<1>2. CASE c.data = b.data /\ c.sum = b.sum
  BY <1>1, <1>2
<1>3. ASSUME NEW x \in Mark, c.data = Append(b.data, x), c.sum = b.sum + x.us
      PROVE  /\ from <= Len(c.data)
             /\ Total(SubSeq(c.data, from + 1, Len(c.data))) - c.sum
                  = Total(SubSeq(b.data, from + 1, Len(b.data))) - b.sum
  <2>1. PICK n \in Nat : n = Len(b.data)
    BY <1>1
  <2>2. PICK d : d = c.data
    OBVIOUS
  <2>3. d \in Seq(Mark) /\ Len(d) = n + 1 /\ d[n + 1] = x /\ \A i \in 1 .. n : d[i] = b.data[i]
    BY <1>1, <1>3, <2>1, <2>2
  <2>4. PICK u : u = SubSeq(b.data, from + 1, n)
    OBVIOUS
  <2>5. u \in Seq(Mark) /\ Len(u) = n - from /\ \A i \in 1 .. n - from : u[i] = b.data[from + i]
    BY <1>1, <2>1, <2>4
  <2>6. PICK v : v = SubSeq(d, from + 1, n + 1)
    OBVIOUS
  <2>7. v \in Seq(Mark) /\ Len(v) = n + 1 - from /\ \A i \in 1 .. n + 1 - from : v[i] = d[from + i]
    BY <2>1, <2>3, <2>6
  <2>8. v = Append(u, x)
    <3>1. /\ Append(u, x) \in Seq(Mark) /\ Len(Append(u, x)) = n + 1 - from
          /\ \A i \in 1 .. n - from : Append(u, x)[i] = u[i]
          /\ Append(u, x)[n + 1 - from] = x
      <4>0. from <= n
        BY <2>1
      <4>1. PICK k \in Nat : k = n - from
        <5>1. n - from \in Nat
          BY <4>0
        <5> QED
          BY <5>1
      <4>2. Len(u) = k
        BY <2>5, <4>1
      <4>3. /\ Append(u, x) \in Seq(Mark) /\ Len(Append(u, x)) = k + 1
            /\ \A i \in 1 .. k : Append(u, x)[i] = u[i]
            /\ Append(u, x)[k + 1] = x
        BY <2>5, <4>2
      <4>4. k + 1 = n + 1 - from
        BY <4>1
      <4> QED
        BY <4>1, <4>3, <4>4
    <3>2. ASSUME NEW i \in 1 .. n + 1 - from PROVE v[i] = Append(u, x)[i]
      <4>1. CASE i = n + 1 - from
        <5>1. from + i = n + 1
          BY <4>1, <2>1
        <5>2. v[i] = d[n + 1]
          BY <2>7, <5>1
        <5> QED
          BY <2>3, <3>1, <4>1, <5>2
      <4>2. CASE i # n + 1 - from
        <5>1. i \in 1 .. n - from /\ from + i \in 1 .. n
          BY <4>2, <2>1
        <5>2. v[i] = d[from + i]
          BY <2>7
        <5>3. d[from + i] = b.data[from + i]
          BY <2>3, <5>1
        <5>4. u[i] = b.data[from + i]
          BY <2>5, <5>1
        <5>5. Append(u, x)[i] = u[i]
          BY <3>1, <5>1
        <5> QED
          BY <5>2, <5>3, <5>4, <5>5
      <4> QED
        BY <4>1, <4>2
    <3> QED
      BY <2>7, <3>1, <3>2, SeqEqual
  <2>9. Total(v) = Total(u) + x.us
    BY <2>5, <2>8, TotalAppend
  <2>10. Total(u) \in Nat /\ x.us \in Nat
    BY <2>5, TotalNat DEF Mark
  <2>11. Total(v) - c.sum = Total(u) - b.sum
    BY <1>1, <1>3, <2>9, <2>10
  <2>12. from <= n + 1
    BY <2>1
  <2> QED
    BY <2>1, <2>2, <2>3, <2>4, <2>6, <2>11, <2>12
<1> QED
  BY <1>2, <1>3 DEF Grows

LEMMA MarksOut ==
  ASSUME NEW marks \in Seq(Mark)
  PROVE  Len(Merged(marks)) \in Nat /\ WBUF_SIZE \in Nat
BY MergedType, LenProperties, BufferAssumption

\* What Sync does to a frame that fits: the last pulse is stored, a space stays pending.
SyncedFrom(c, b) ==
  /\ c.too_long => b.too_long \/ Len(Content(b)) > WBUF_SIZE
  /\ ~c.too_long =>
       /\ ~b.too_long /\ Content(c) = Content(b)
       /\ c.pendingp = 0 /\ c.pendings = b.pendings
       /\ c.sum = b.sum + b.pendingp /\ Grows(b, c)

LEMMA FrameSynced ==
  ASSUME NEW b, Whole(b), Fits(b), b.too_long \/ Pending(b) \/ Odd(Len(b.data))
  PROVE  SyncedFrom(Sync(b), b)
<1>1. /\ b \in BufferType /\ b.pendingp \in Nat /\ b.pendings \in Nat /\ b.sum \in Int
      /\ b.data \in Seq(Mark) /\ Len(b.data) \in Nat /\ Len(b.data) <= WBUF_SIZE
      /\ WBUF_SIZE \in Nat /\ b.too_long \in BOOLEAN
  BY BufferAssumption DEF Whole, BufferType
<1>2. PICK a : a = AddPendingPulse(b)
  OBVIOUS
<1>3. PICK c : c = Sync(b)
  OBVIOUS
<1>4. c = IF a.data # <<>> /\ Len(a.data) % 2 = 0 THEN DropLast(a) ELSE a
  BY <1>2, <1>3 DEF Sync
<1>5. a \in BufferType
  BY <1>2, PendingPulseAdded DEF Whole
<1>6. c.too_long = a.too_long
  <2>1. DropLast(a).too_long = a.too_long
    BY <1>5 DEF DropLast, BufferType
  <2> QED
    BY <1>4, <2>1
<1>7. CASE b.too_long
  <2>1. a.too_long
    BY <1>1, <1>2, <1>7, TooLongStays
  <2> QED
    BY <1>3, <1>6, <1>7, <2>1 DEF SyncedFrom
<1>8. CASE ~b.too_long
  <2>1. CASE b.pendingp > 0
    <3>1. PICK s : s = PulseMark(b.pendingp)
      OBVIOUS
    <3>2. s \in Mark /\ s.us = b.pendingp
      BY <1>1, <3>1, MarkMade
    <3>3. PICK q : q = Add(b, s)
      OBVIOUS
    <3>4. a = [q EXCEPT !.pendingp = 0]
      BY <1>2, <2>1, <3>1, <3>3 DEF AddPendingPulse
    <3>5. Even(Len(b.data)) /\ b.pendings = 0
      BY <1>1, <1>8, <2>1 DEF Fits
    <3>6. /\ q \in BufferType /\ q.pendings = 0
          /\ Len(b.data) < WBUF_SIZE =>
               q.data = Append(b.data, s) /\ q.sum = b.sum + s.us /\ q.too_long = b.too_long
          /\ ~(Len(b.data) < WBUF_SIZE) => q.data = b.data /\ q.sum = b.sum /\ q.too_long
      BY <1>1, <3>2, <3>3, <3>5, AddIs
    <3>7. /\ a.data = q.data /\ a.too_long = q.too_long /\ a.pendingp = 0 /\ a.pendings = 0
          /\ a.sum = q.sum
      BY <3>4, <3>6 DEF BufferType
    <3>8. Content(b) = Append(b.data, s)
      BY <2>1, <3>1 DEF Content
    <3>9. CASE Len(b.data) < WBUF_SIZE
      <4>1. a.data = Append(b.data, s) /\ a.sum = b.sum + b.pendingp /\ ~a.too_long
        BY <1>8, <3>2, <3>6, <3>7, <3>9
      <4>2. Len(a.data) = Len(b.data) + 1
        BY <1>1, <3>2, <4>1
      <4>3. ~(Len(a.data) % 2 = 0)
        BY <1>1, <3>5, <4>2, Parity DEF Even
      <4>4. c = a
        BY <1>4, <4>3
      <4>5. Content(c) = Content(b)
        <5>1. Content(c) = c.data
          BY <3>7, <4>4 DEF Content
        <5>2. c.data = Append(b.data, s)
          BY <4>1, <4>4
        <5> QED
          BY <3>8, <5>1, <5>2
      <4>6. Grows(b, c)
        BY <3>2, <4>1, <4>4 DEF Grows
      <4> QED
        BY <1>3, <1>8, <3>5, <3>7, <4>1, <4>4, <4>5, <4>6 DEF SyncedFrom
    <3>10. CASE ~(Len(b.data) < WBUF_SIZE)
      <4>1. c.too_long
        BY <1>6, <3>6, <3>7, <3>10
      <4>2. Len(Append(b.data, s)) = Len(b.data) + 1
        BY <1>1, <3>2
      <4>3. Len(Content(b)) > WBUF_SIZE
        BY <1>1, <3>8, <3>10, <4>2
      <4> QED
        BY <1>3, <4>1, <4>3 DEF SyncedFrom
    <3> QED
      BY <3>9, <3>10
  <2>2. CASE b.pendingp = 0
    <3>1. a = b
      BY <1>2, <2>2 DEF AddPendingPulse
    <3>2. Odd(Len(b.data))
      BY <1>1, <1>8, <2>2 DEF Fits, Pending
    <3>3. c = b
      <4>1. ~(Len(a.data) % 2 = 0)
        BY <1>1, <3>1, <3>2, Parity DEF Even
      <4> QED
        BY <1>4, <3>1, <4>1
    <3>4. c.sum = b.sum + b.pendingp /\ Grows(b, c)
      BY <1>1, <2>2, <3>3 DEF Grows
    <3> QED
      BY <1>3, <1>8, <2>2, <3>3, <3>4 DEF SyncedFrom
  <2> QED
    BY <1>1, <2>1, <2>2
<1> QED
  BY <1>7, <1>8

\* What the gap adds.
LEMMA GapCarried ==
  ASSUME NEW b, Whole(b), Fits(b), ~b.too_long, Odd(Len(b.data)), NEW us \in Nat, us > 0
  PROVE  LET c == Flush(Space(b, us))
         IN  /\ ~c.too_long /\ c.pendingp = 0 /\ c.pendings = 0
             /\ c.data = Append(b.data, SpaceMark(b.pendings + us))
             /\ c.data = Joined(Content(b), SpaceMark(us))
<1> DEFINE a == Space(b, us)
           c == Flush(a)
<1>1. /\ b \in BufferType /\ b.pendingp \in Nat /\ b.pendings \in Nat /\ Len(b.data) \in Nat
      /\ Len(b.data) <= WBUF_SIZE /\ b.data \in Seq(Mark)
  BY DEF Whole, BufferType
<1>2. b.pendingp = 0
  <2>1. ~Even(Len(b.data))
    BY <1>1, Parity
  <2> HIDE DEF a, c
  <2> QED
    BY <1>1, <2>1 DEF Fits
<1>3. ~c.too_long
  BY GapStored
<1>4. b.data # <<>>
  <2>1. Len(<<>>) = 0 /\ ~Odd(0)
    BY DEF Odd
  <2> QED
    BY <2>1
<1>5. Stored(b, a, SpaceMark(us))
  BY SpaceStored
<1>6. a \in BufferType /\ a.data = b.data /\ a.pendingp = 0 /\ a.pendings = b.pendings + us
      /\ a.pendings > 0 /\ a.too_long = b.too_long
  <2>1. AddPendingPulse(b) = b
    BY <1>2 DEF AddPendingPulse
  <2>2. CASE b.pendings > 0
    <3>1. a = [b EXCEPT !.pendings = @ + us] /\ b.pendings + us \in Nat /\ b.pendings + us > 0
      BY <1>1, <1>4, <2>2 DEF Space
    <3> QED
      BY <1>1, <1>2, <3>1 DEF BufferType
  <2>3. CASE ~(b.pendings > 0)
    <3>1. a = [b EXCEPT !.pendings = us]
      BY <1>4, <2>1, <2>3 DEF Space
    <3>2. us = b.pendings + us
      BY <1>1, <2>3
    <3> QED
      BY <1>1, <1>2, <3>1, <3>2 DEF BufferType
  <2> QED
    BY <2>2, <2>3
<1> HIDE DEF a
<1>7. AddPendingPulse(a) = a
  BY <1>6 DEF AddPendingPulse
<1>8. PICK s : s = SpaceMark(a.pendings)
  OBVIOUS
<1>9. s \in Mark
  BY <1>1, <1>6, <1>8, MarkMade
<1>10. PICK q : q = Add(a, s)
  OBVIOUS
<1>11. c = [q EXCEPT !.pendings = 0]
  <2>1. AddPendingSpace(a) = [q EXCEPT !.pendings = 0]
    BY <1>6, <1>8, <1>10 DEF AddPendingSpace
  <2> QED
    BY <1>7, <2>1 DEF Flush
<1>12. /\ q \in BufferType /\ q.pendingp = 0
       /\ Len(a.data) < WBUF_SIZE => q.data = Append(a.data, s)
       /\ ~(Len(a.data) < WBUF_SIZE) => q.too_long
  BY <1>6, <1>9, <1>10, AddIs
<1>13. /\ c.data = q.data /\ c.too_long = q.too_long /\ c.pendingp = 0 /\ c.pendings = 0
  BY <1>11, <1>12 DEF BufferType
<1>14. c.data = Append(a.data, s)
  BY <1>3, <1>12, <1>13
<1>15. c.data = Append(b.data, SpaceMark(b.pendings + us))
  BY <1>6, <1>8, <1>14
<1>16. c.data = Joined(Content(b), SpaceMark(us))
  <2>1. Content(a) = Joined(Content(b), SpaceMark(us))
    BY <1>5, <1>6 DEF Stored, Carried
  <2>2. Content(a) = Append(a.data, s)
    BY <1>6, <1>8 DEF Content
  <2> QED
    BY <1>14, <2>1, <2>2
<1> QED
  BY <1>3, <1>13, <1>15, <1>16 DEF a

-----------------------------------------------------------------------------
(* The plan: the frames of what was asked for, and their gaps.             *)

Bits == Seq({0, 1})

LEMMA SameBit ==
  ASSUME NEW r, NEW bit \in {0, 1}, NEW pos, NEW m1 \in Nat, NEW m2 \in Nat, NEW on,
         r.toggle_mask = {} \/ m1 % 2 = m2 % 2
  PROVE  ToggledBit(r, bit, pos, [mask |-> m1, bits |-> on])
           = ToggledBit(r, bit, pos, [mask |-> m2, bits |-> on])
<1> DEFINE stateBit == IF pos \in on THEN 1 ELSE 0
           first    == IF pos \notin r.toggle_bit_mask THEN bit
                       ELSE IF Cardinality(r.toggle_bit_mask) = 1 THEN stateBit
                       ELSE (bit + stateBit) % 2
<1>1. first \in Nat
  OBVIOUS
<1>2. /\ ToggledBit(r, bit, pos, [mask |-> m1, bits |-> on])
           = IF pos \in r.toggle_mask THEN (first + m1) % 2 ELSE first
      /\ ToggledBit(r, bit, pos, [mask |-> m2, bits |-> on])
           = IF pos \in r.toggle_mask THEN (first + m2) % 2 ELSE first
  BY DEF ToggledBit
<1> HIDE DEF first
<1>3. CASE r.toggle_mask = {}
  BY <1>2, <1>3
<1>4. CASE m1 % 2 = m2 % 2
  <2>1. (first + m1) % 2 = (first + m2) % 2
    BY <1>1, <1>4
  <2> QED
    BY <1>2, <2>1
<1> QED
  BY <1>3, <1>4

LEMMA SameData ==
  ASSUME NEW r, NEW bits \in Bits, NEW done, NEW m1 \in Nat, NEW m2 \in Nat, NEW on,
         r.toggle_mask = {} \/ m1 % 2 = m2 % 2
  PROVE  DataMarks(r, bits, done, [mask |-> m1, bits |-> on])
           = DataMarks(r, bits, done, [mask |-> m2, bits |-> on])
<1> DEFINE t1 == [mask |-> m1, bits |-> on]
           t2 == [mask |-> m2, bits |-> on]
<1>1. ASSUME NEW i \in DOMAIN bits
      PROVE  ToggledBit(r, bits[i], done + i, t1) = ToggledBit(r, bits[i], done + i, t2)
  <2>1. bits[i] \in {0, 1}
    BY DEF Bits
  <2> QED
    BY <2>1, SameBit
<1> HIDE DEF t1, t2
<1>2. [i \in DOMAIN bits |-> BitMarks(r, ToggledBit(r, bits[i], done + i, t1), done + i)]
        = [i \in DOMAIN bits |-> BitMarks(r, ToggledBit(r, bits[i], done + i, t2), done + i)]
  BY <1>1
<1>3. DataMarks(r, bits, done, t1) = DataMarks(r, bits, done, t2)
  BY <1>2 DEF DataMarks
<1> QED
  BY <1>3 DEF t1, t2

\* Only whether toggle_mask_state is odd matters to a frame.
LEMMA SameFrame ==
  ASSUME NEW r, NEW bits \in Bits, r.pre_data \in Bits, r.post_data \in Bits, NEW again,
         NEW m1 \in Nat, NEW m2 \in Nat, NEW on, r.toggle_mask = {} \/ m1 % 2 = m2 % 2
  PROVE  CodeMarks(r, bits, again, [mask |-> m1, bits |-> on])
           = CodeMarks(r, bits, again, [mask |-> m2, bits |-> on])
<1> DEFINE t1 == [mask |-> m1, bits |-> on]
           t2 == [mask |-> m2, bits |-> on]
<1>1. /\ DataMarks(r, r.pre_data, 0, t1) = DataMarks(r, r.pre_data, 0, t2)
      /\ DataMarks(r, r.post_data, Len(r.pre_data) + Len(bits), t1)
           = DataMarks(r, r.post_data, Len(r.pre_data) + Len(bits), t2)
      /\ DataMarks(r, bits, Len(r.pre_data), t1) = DataMarks(r, bits, Len(r.pre_data), t2)
  BY SameData
<1> HIDE DEF t1, t2
<1>2. CodeMarks(r, bits, again, t1) = CodeMarks(r, bits, again, t2)
  BY <1>1 DEF CodeMarks
<1> QED
  BY <1>2 DEF t1, t2

LEMMA RawMarksFit ==
  ASSUME NEW signals \in Seq(Nat \ {0})
  PROVE  /\ RawMarks(signals) \in Seq(Mark) /\ Len(RawMarks(signals)) = Len(signals)
         /\ \A i \in 1 .. Len(signals) :
              /\ RawMarks(signals)[i].us > 0
              /\ RawMarks(signals)[i].kind = "pulse" <=> i % 2 = 1
<1>1. DOMAIN signals = 1 .. Len(signals) /\ Len(signals) \in Nat
      /\ \A i \in 1 .. Len(signals) : signals[i] \in Nat /\ signals[i] > 0
  OBVIOUS
<1>2. ASSUME NEW i \in 1 .. Len(signals)
      PROVE  /\ RawMarks(signals)[i] \in Mark /\ RawMarks(signals)[i].us > 0
             /\ RawMarks(signals)[i].kind = "pulse" <=> i % 2 = 1
  BY <1>1 DEF RawMarks, PulseMark, SpaceMark, Mark
<1>3. RawMarks(signals) \in [1 .. Len(signals) -> Mark]
  <2>1. RawMarks(signals) = [i \in 1 .. Len(signals) |-> RawMarks(signals)[i]]
    BY <1>1 DEF RawMarks
  <2> QED
    BY <1>2, <2>1
<1>4. RawMarks(signals) \in Seq(Mark) /\ Len(RawMarks(signals)) = Len(signals)
  BY <1>1, <1>3
<1> QED
  BY <1>2, <1>4

LEMMA PartInRange ==
  ASSUME NEW k \in Nat, NEW n \in Nat, n > 0
  PROVE  (k % n) + 1 \in 1 .. n
OBVIOUS

\* A frame of the plan.
LEMMA FramePlanned ==
  ASSUME code \in Codes, Code[code].remote \in Remotes, asked \in Asked,
         asked.bits \in SUBSET R.toggle_bit_mask,
         NEW k \in Nat, asked.part <= k
  PROVE  /\ PlannedFrame(k) \in Seq(Mark)
         /\ ~(raw /\ Code[code].signals = <<>>) =>
              /\ PlannedFrame(k) # <<>> /\ PlannedFrame(k)[1].kind = "pulse"
<1> DEFINE n == Len(Code[code].parts)
<1>1. /\ Code[code].parts \in Seq(Bits) /\ n \in Nat /\ n > 0
      /\ Code[code].signals \in Seq(Nat \ {0})
  <2>1. Code[code].parts \in Seq(Seq({0, 1})) /\ Code[code].parts # <<>>
        /\ Code[code].signals \in Seq(Nat \ {0})
    BY CodeAssumption
  <2> QED
    BY <2>1 DEF Bits
<1>2. CASE k >= n /\ Has(R.repeat)
  <2>1. PlannedFrame(k) = RepeatMarks(R)
    BY <1>2 DEF PlannedFrame
  <2>2. PulsesFirst(RepeatMarks(R))
    BY <1>2, FrameAssumption DEF R
  <2> QED
    BY <2>1, <2>2 DEF PulsesFirst
<1>3. CASE ~(k >= n /\ Has(R.repeat)) /\ raw
  <2>1. PlannedFrame(k) = RawMarks(Code[code].signals)
    BY <1>3 DEF PlannedFrame
  <2>2. PICK signals \in Seq(Nat \ {0}) : signals = Code[code].signals
    BY <1>1
  <2>3. /\ RawMarks(signals) \in Seq(Mark) /\ Len(RawMarks(signals)) = Len(signals)
        /\ \A i \in 1 .. Len(signals) : RawMarks(signals)[i].kind = "pulse" <=> i % 2 = 1
    BY RawMarksFit
  <2>4. ASSUME signals # <<>>
        PROVE  RawMarks(signals) # <<>> /\ RawMarks(signals)[1].kind = "pulse"
    <3>1. 1 \in 1 .. Len(signals) /\ Len(signals) # 0
      BY <2>4, EmptySeq
    <3> QED
      BY <2>3, <3>1
  <2> QED
    BY <1>3, <2>1, <2>2, <2>3, <2>4
<1>4. CASE ~(k >= n /\ Has(R.repeat)) /\ ~raw
  <2>1. PICK m \in Nat : m = k - asked.part
    <3>1. k - asked.part \in Nat
      BY DEF Asked
    <3> QED
      BY <3>1
  <2>2. PICK j : j = (k % n) + 1
    OBVIOUS
  <2>3. j \in DOMAIN Code[code].parts
    <3>1. PICK p \in Nat : p = n
      BY <1>1
    <3>2. j \in 1 .. n
      BY <1>1, <2>2, <3>1, PartInRange
    <3> QED
      BY <1>1, <3>2
  <2>4. PlannedFrame(k)
          = CodeMarks(R, Code[code].parts[j], k >= n, [mask |-> m, bits |-> asked.bits])
    BY <1>4, <2>1, <2>2 DEF PlannedFrame
  <2>5. PICK m2 \in 0 .. 1 : m2 = m % 2
    OBVIOUS
  <2>6. CodeMarks(R, Code[code].parts[j], k >= n, [mask |-> m, bits |-> asked.bits])
          = CodeMarks(R, Code[code].parts[j], k >= n, [mask |-> m2, bits |-> asked.bits])
    <3>1. Code[code].parts[j] \in Bits
      BY <1>1, <2>3
    <3>2. R.pre_data \in Bits /\ R.post_data \in Bits
      BY DataAssumption DEF R, Bits
    <3>3. m % 2 = m2 % 2 /\ m2 \in Nat
      BY <2>5
    <3> QED
      BY <3>1, <3>2, <3>3, SameFrame
  <2>7. PulsesFirst(CodeMarks(R, Code[code].parts[j], k >= n, [mask |-> m2, bits |-> asked.bits]))
    <3>1. m2 \in 0 .. 3 /\ R.protocol # "raw" /\ (k >= n) \in BOOLEAN
      BY <1>4 DEF raw
    <3> QED
      BY <2>3, <3>1, FrameAssumption DEF R
  <2> QED
    BY <2>4, <2>6, <2>7 DEF PulsesFirst
<1> QED
  BY <1>2, <1>3, <1>4

Framed(k) == PlannedFrame(k) \o <<SpaceMark(PlannedGap(k))>>

SentFrames(n) == FlattenSeq([i \in 1 .. n |-> Framed(asked.part + i - 1)])

Plannable ==
  /\ code \in Codes /\ Code[code].remote \in Remotes /\ asked \in Asked
  /\ asked.bits \in SUBSET R.toggle_bit_mask

GapsUpTo(n) ==
  \A k \in Nat : asked.part <= k /\ k < asked.part + n => PlannedGap(k) \in Nat

LEMMA FramedType ==
  ASSUME Plannable, NEW k \in Nat, asked.part <= k, PlannedGap(k) \in Nat
  PROVE  /\ Framed(k) \in Seq(Mark)
         /\ Framed(k) = Append(PlannedFrame(k), SpaceMark(PlannedGap(k)))
<1>1. PlannedFrame(k) \in Seq(Mark)
  BY FramePlanned DEF Plannable
<1>2. SpaceMark(PlannedGap(k)) \in Mark
  BY MarkMade
<1>3. PICK s \in Seq(Mark), m \in Mark : s = PlannedFrame(k) /\ m = SpaceMark(PlannedGap(k))
  BY <1>1, <1>2
<1>4. s \o <<m>> \in Seq(Mark) /\ s \o <<m>> = Append(s, m)
  OBVIOUS
<1> QED
  BY <1>3, <1>4 DEF Framed

LEMMA SentMore ==
  ASSUME Plannable, NEW n \in Nat, GapsUpTo(n + 1)
  PROVE  SentFrames(n + 1) = SentFrames(n) \o Framed(asked.part + n)
<1> DEFINE s == [i \in 1 .. n |-> Framed(asked.part + i - 1)]
           t == [i \in 1 .. n + 1 |-> Framed(asked.part + i - 1)]
           x == Framed(asked.part + n)
<1>0. asked.part \in Nat
  BY DEF Plannable, Asked
<1>1. ASSUME NEW i \in 1 .. n + 1 PROVE Framed(asked.part + i - 1) \in Seq(Mark)
  <2>1. PICK k \in Nat : k = asked.part + i - 1 /\ asked.part <= k /\ k < asked.part + (n + 1)
    <3>1. /\ asked.part + i - 1 \in Nat /\ asked.part <= asked.part + i - 1
          /\ asked.part + i - 1 < asked.part + (n + 1)
      BY <1>0
    <3> QED
      BY <3>1
  <2>2. PlannedGap(k) \in Nat
    BY <2>1 DEF GapsUpTo
  <2>3. Framed(k) \in Seq(Mark)
    BY <2>1, <2>2, FramedType
  <2> QED
    BY <2>1, <2>3
<1>2. s \in Seq(Seq(Mark)) /\ t \in Seq(Seq(Mark)) /\ Len(s) = n /\ Len(t) = n + 1
  <2>1. s \in [1 .. n -> Seq(Mark)] /\ t \in [1 .. n + 1 -> Seq(Mark)]
    BY <1>1
  <2> HIDE DEF s, t
  <2> QED
    BY <2>1
<1>3. x = t[n + 1] /\ x \in Seq(Mark)
  <2>1. asked.part + (n + 1) - 1 = asked.part + n /\ n + 1 \in 1 .. n + 1
    BY <1>0
  <2>2. t[n + 1] = Framed(asked.part + (n + 1) - 1)
    BY <2>1
  <2> QED
    BY <1>1, <2>1, <2>2
<1>4. \A i \in 1 .. n : t[i] = s[i]
  OBVIOUS
<1>5. t = Append(s, x)
  <2> HIDE DEF s, t, x
  <2>1. /\ Append(s, x) \in Seq(Seq(Mark)) /\ Len(Append(s, x)) = n + 1
        /\ \A i \in 1 .. n : Append(s, x)[i] = s[i]
        /\ Append(s, x)[n + 1] = x
    <3>1. PICK k \in Nat : k = n /\ k + 1 = n + 1
      OBVIOUS
    <3>2. Append(s, x) \in Seq(Seq(Mark)) /\ Len(Append(s, x)) = Len(s) + 1
      BY <1>2, <1>3
    <3>3. ASSUME NEW y \in Seq(Seq(Mark)), Len(y) = n, NEW z \in Seq(Mark)
          PROVE  /\ \A i \in 1 .. n : Append(y, z)[i] = y[i]
                 /\ Append(y, z)[n + 1] = z
      BY <3>3
    <3> QED
      BY <1>2, <1>3, <3>2, <3>3
  <2>2. \A i \in 1 .. n + 1 : t[i] = Append(s, x)[i]
    BY <1>3, <1>4, <2>1
  <2> QED
    BY <1>2, <2>1, <2>2, SeqEqual
<1>6. FlattenSeq(t) = FlattenSeq(s) \o x
  <2> HIDE DEF s, t, x
  <2> QED
    BY <1>2, <1>3, <1>5, FlattenAppend
<1> QED
  BY <1>6 DEF SentFrames

LEMMA SentNone == SentFrames(0) = <<>>
<1>1. [i \in 1 .. 0 |-> Framed(asked.part + i - 1)] = <<>>
  OBVIOUS
<1> QED
  BY <1>1, FlattenAppend DEF SentFrames

LEMMA SentType ==
  ASSUME Plannable, NEW n \in Nat, GapsUpTo(n)
  PROVE  SentFrames(n) \in Seq(Mark)
<1> DEFINE S == {m \in Nat : m <= n => SentFrames(m) \in Seq(Mark)}
<1>0. asked.part \in Nat
  BY DEF Plannable, Asked
<1>1. 0 \in S
  BY SentNone, EmptySeq
<1>2. ASSUME NEW m \in Nat, m \in S PROVE m + 1 \in S
  <2> SUFFICES ASSUME m + 1 <= n PROVE SentFrames(m + 1) \in Seq(Mark)
    OBVIOUS
  <2>1. SentFrames(m) \in Seq(Mark)
    BY <1>2
  <2>2. GapsUpTo(m + 1)
    BY <1>0 DEF GapsUpTo
  <2>3. SentFrames(m + 1) = SentFrames(m) \o Framed(asked.part + m)
    BY <2>2, SentMore
  <2>4. Framed(asked.part + m) \in Seq(Mark)
    <3>1. PICK k \in Nat : k = asked.part + m /\ asked.part <= k /\ k < asked.part + (m + 1)
      BY <1>0
    <3>2. PlannedGap(k) \in Nat
      BY <2>2, <3>1 DEF GapsUpTo
    <3> QED
      BY <3>1, <3>2, FramedType
  <2> QED
    BY <2>1, <2>3, <2>4, ConcatProperties
<1>3. Nat \subseteq S
  <2> HIDE DEF S
  <2> QED
    BY <1>1, <1>2, AllNaturals
<1> QED
  BY <1>3

\* What is sent in the end is at least as long as what was sent before.
LEMMA SentLonger ==
  ASSUME Plannable, NEW n \in Nat, NEW m \in Nat, n <= m, GapsUpTo(m)
  PROVE  Len(Merged(SentFrames(n))) <= Len(Merged(SentFrames(m)))
<1> DEFINE S == {l \in Nat : n <= l /\ l <= m =>
                   Len(Merged(SentFrames(n))) <= Len(Merged(SentFrames(l)))}
<1>0. asked.part \in Nat
  BY DEF Plannable, Asked
<1>9. ASSUME NEW l \in Nat, l <= m
      PROVE  GapsUpTo(l) /\ SentFrames(l) \in Seq(Mark) /\ Len(Merged(SentFrames(l))) \in Nat
  <2>1. GapsUpTo(l)
    BY <1>0, <1>9 DEF GapsUpTo
  <2>2. SentFrames(l) \in Seq(Mark)
    BY <2>1, SentType
  <2> QED
    BY <2>1, <2>2, MarksOut
<1>1. 0 \in S
  <2> SUFFICES ASSUME n <= 0
               PROVE  Len(Merged(SentFrames(n))) <= Len(Merged(SentFrames(0)))
    OBVIOUS
  <2>1. n = 0
    OBVIOUS
  <2>2. Len(Merged(SentFrames(0))) \in Nat
    BY <1>9
  <2> QED
    BY <2>1, <2>2
<1>2. ASSUME NEW l \in Nat, l \in S PROVE l + 1 \in S
  <2> SUFFICES ASSUME n <= l + 1, l + 1 <= m
               PROVE  Len(Merged(SentFrames(n))) <= Len(Merged(SentFrames(l + 1)))
    OBVIOUS
  <2>1. CASE n = l + 1
    <3>1. Len(Merged(SentFrames(l + 1))) \in Nat
      BY <1>9
    <3> QED
      BY <2>1, <3>1
  <2>2. CASE n <= l
    <3>1. Len(Merged(SentFrames(n))) <= Len(Merged(SentFrames(l)))
      BY <1>2, <2>2
    <3>2. GapsUpTo(l + 1) /\ SentFrames(l) \in Seq(Mark)
      BY <1>9
    <3>3. SentFrames(l + 1) = SentFrames(l) \o Framed(asked.part + l)
      BY <3>2, SentMore
    <3>4. Framed(asked.part + l) \in Seq(Mark)
      <4>1. PICK k \in Nat : k = asked.part + l /\ asked.part <= k /\ k < asked.part + (l + 1)
        BY <1>0
      <4>2. PlannedGap(k) \in Nat
        BY <3>2, <4>1 DEF GapsUpTo
      <4> QED
        BY <4>1, <4>2, FramedType
    <3>5. Len(Merged(SentFrames(l))) <= Len(Merged(SentFrames(l + 1)))
      BY <3>2, <3>3, <3>4, MergedLonger
    <3>6. /\ Len(Merged(SentFrames(n))) \in Nat /\ Len(Merged(SentFrames(l))) \in Nat
          /\ Len(Merged(SentFrames(l + 1))) \in Nat
      BY <1>9, <2>2
    <3> QED
      BY <3>1, <3>5, <3>6
  <2> QED
    BY <2>1, <2>2
<1>3. Nat \subseteq S
  <2> HIDE DEF S
  <2> QED
    BY <1>1, <1>2, AllNaturals
<1> QED
  BY <1>3

LEMMA GapPlanned ==
  ASSUME Plannable, NEW k \in Nat, asked.part <= k, ~(raw /\ Code[code].signals = <<>>)
  PROVE  PlannedGap(k) \in Int
<1>1. PlannedFrame(k) \in Seq(Mark) /\ PlannedFrame(k) # <<>> /\ PlannedFrame(k)[1].kind = "pulse"
  BY FramePlanned DEF Plannable
<1>2. PICK s \in Seq(Mark) : s = PlannedFrame(k)
  BY <1>1
<1>3. UpToPulse(s) \in Seq(Mark)
  <2> DEFINE T == {i \in DOMAIN s : s[i].kind = "pulse"}
  <2>1. PICK l \in Nat : l = Len(s) /\ DOMAIN s = 1 .. l /\ 1 \in 1 .. l
    BY <1>1, <1>2, EmptySeq
  <2>2. T \in SUBSET (1 .. l) /\ T # {}
    BY <1>1, <1>2, <2>1
  <2> HIDE DEF T
  <2>3. Max(T) \in 1 .. l
    BY <2>2, GreatestOfBounded
  <2>4. SubSeq(s, 1, Max(T)) \in Seq(Mark)
    BY <2>1, <2>3
  <2> QED
    BY <2>4 DEF UpToPulse, T
<1>4. Total(UpToPulse(s)) \in Nat
  BY <1>3, TotalNat
<1>5. /\ min_gap(R) \in Nat /\ R.repeat_gap \in Nat /\ R.header[1] \in Nat /\ R.header[2] \in Nat
  BY RemoteAssumption DEF Plannable, R
<1> DEFINE extra == IF ~raw /\ k < Len(Code[code].parts) /\ "NO_HEAD_REP" \in R.flags
                    THEN R.header[1] + R.header[2] ELSE 0
<1>6. extra \in Nat
  BY <1>5
<1>7. PlannedGap(k) = IF k >= Len(Code[code].parts) /\ Has(R.repeat) /\ R.repeat_gap > 0
                      THEN R.repeat_gap
                      ELSE IF is_const(R) THEN min_gap(R) - (Total(UpToPulse(s)) - extra)
                      ELSE min_gap(R)
  BY <1>2 DEF PlannedGap
<1> HIDE DEF extra
<1> QED
  BY <1>4, <1>5, <1>6, <1>7

\* The plan is that of what was asked for.
LEMMA PlanKept ==
  ASSUME UNCHANGED code, asked'.part = asked.part, asked'.bits = asked.bits,
         asked'.repeats = asked.repeats
  PROVE  /\ \A k : PlannedFrame(k)' = PlannedFrame(k)
         /\ \A k : PlannedGap(k)' = PlannedGap(k)
         /\ \A n : SentFrames(n)' = SentFrames(n)
         /\ \A n : GapsUpTo(n)' <=> GapsUpTo(n)
         /\ Planned' = Planned /\ PlannedFrames' = PlannedFrames
<1>1. R' = R /\ (raw' <=> raw)
  BY DEF R, raw
<1>2. ASSUME NEW k PROVE PlannedFrame(k)' = PlannedFrame(k)
  BY <1>1 DEF PlannedFrame
<1>3. ASSUME NEW k PROVE PlannedGap(k)' = PlannedGap(k)
  BY <1>1, <1>2 DEF PlannedGap
<1>4. ASSUME NEW k PROVE Framed(k)' = Framed(k)
  BY <1>2, <1>3 DEF Framed
<1>5. ASSUME NEW n PROVE SentFrames(n)' = SentFrames(n)
  BY <1>4 DEF SentFrames
<1>6. PlannedFrames' = PlannedFrames
  BY DEF PlannedFrames
<1>7. Planned' = Planned
  BY <1>2, <1>3, <1>6 DEF Planned
<1>8. ASSUME NEW n PROVE GapsUpTo(n)' <=> GapsUpTo(n)
  BY <1>3 DEF GapsUpTo
<1> QED
  BY <1>2, <1>3, <1>5, <1>6, <1>7, <1>8

\* All that is planned.
LEMMA PlannedIs ==
  ASSUME code \in Codes, asked \in Asked, NEW m \in Nat,
         asked.part + m = Parts * (1 + asked.repeats)
  PROVE  Planned = Merged(SentFrames(m))
<1>1. asked.part \in Nat
  BY DEF Asked
<1>2. PICK t \in Int : t = Parts * (1 + asked.repeats)
  <2>1. Code[code].parts \in Seq(Seq({0, 1}))
    BY CodeAssumption
  <2>2. Parts \in Nat
    BY <2>1 DEF Parts
  <2>3. asked.repeats \in Nat
    BY DEF Asked
  <2>4. 1 + asked.repeats \in Int
    BY <2>3
  <2>5. PICK n \in Nat, k \in Int : n = Parts /\ k = 1 + asked.repeats
    BY <2>2, <2>4
  <2>6. n * k \in Int
    BY RoundTaken
  <2> QED
    BY <2>5, <2>6
<1>3. PICK a \in Nat, b \in Int : a = asked.part /\ b = t - 1
  BY <1>1, <1>2
<1>4. PlannedFrames = a .. b
  BY <1>2, <1>3 DEF PlannedFrames, Parts
<1>5. t = a + m
  BY <1>2, <1>3
<1>6. Cardinality(a .. b) = m
  <2>0. a \in Int /\ b \in Int
    BY <1>3
  <2>1. Cardinality(a .. b) = IF a > b THEN 0 ELSE b - a + 1
    BY <2>0, FS_Interval
  <2>2. b = a + m - 1
    BY <1>3, <1>5
  <2>3. (IF a > b THEN 0 ELSE b - a + 1) = m
    BY <2>0, <2>2
  <2> QED
    BY <2>1, <2>3
<1>7. Cardinality(PlannedFrames) = m
  BY <1>4, <1>6
<1> QED
  BY <1>7 DEF Planned, SentFrames, Framed

-----------------------------------------------------------------------------
(* The steps of init_send, as far as the sum of a frame goes.              *)

\* What SendMark does with the next mark m of a frame.
Taken(b, c, m) ==
  /\ b.too_long => c.too_long
  /\ ~b.too_long => Carried(b, c, m)
  /\ ~c.too_long =>
       /\ Grows(b, c)
       /\ IF SendsRaw THEN c.sum = b.sum + m.us
          ELSE IF m.kind = "pulse"
          THEN c.pendings = 0 /\ c.sum + c.pendingp = b.sum + b.pendingp + b.pendings + m.us
          ELSE c.sum + c.pendingp = b.sum + b.pendingp /\ c.pendings = b.pendings + m.us

LEMMA MarkTaken ==
  ASSUME SendInv, SendMark
  PROVE  /\ Whole(send_buffer) /\ Fits(send_buffer)
         /\ todo \in Seq(Mark) /\ todo # <<>> /\ Head(todo) \in Mark /\ Head(todo).us > 0
         /\ Taken(send_buffer, send_buffer', Head(todo))
<1>1. PICK m : m = Head(todo)
  OBVIOUS
<1>2. PICK b : b = send_buffer
  OBVIOUS
<1>3. PICK c : c = send_buffer'
  OBVIOUS
<1>4. /\ pc = "marks" /\ todo # <<>>
      /\ c = IF raw /\ ~SendsRepeat THEN Add(b, m)
             ELSE IF m.kind = "pulse" THEN Pulse(b, m.us) ELSE Space(b, m.us)
  BY <1>1, <1>2, <1>3 DEF SendMark
<1>5. MarksFit /\ Fits(b) /\ Whole(b)
  BY <1>2, <1>4, Facts DEF SendInv
<1>6. /\ todo \in Seq(Mark) /\ Len(todo) \in Nat /\ Len(todo) > 0
      /\ \A i \in 1 .. Len(todo) : todo[i].us > 0
  BY <1>4, <1>5 DEF MarksFit
<1>7. m = todo[1] /\ m \in Mark /\ m.us > 0
  BY <1>1, <1>6
<1>8. /\ b \in BufferType /\ Len(b.data) \in Nat /\ m.us \in Nat /\ m.kind \in {"pulse", "space"}
  BY <1>5, <1>7 DEF Whole, BufferType, Mark
<1>9. Taken(b, c, m)
  <2>1. CASE b.too_long
    <3>1. c.too_long
      BY <1>4, <1>7, <1>8, <2>1, TooLongStays
    <3> QED
      BY <2>1, <3>1 DEF Taken
  <2>2. CASE ~b.too_long /\ SendsRaw
    <3>1. c = Add(b, m)
      BY <1>4, <2>2 DEF SendsRaw
    <3>2. ~Pending(b)
      BY <1>2, <1>5, <2>2 DEF MarksFit
    <3>3. m.kind = "pulse" <=> Even(Len(b.data))
      <4>1. \A i \in 1 .. Len(todo) : todo[i].kind = "pulse" <=> (Len(b.data) + i) % 2 = 1
        <5>1. DOMAIN todo = 1 .. Len(todo)
          BY <1>6
        <5> QED
          BY <1>2, <1>5, <2>2, <5>1 DEF MarksFit
      <4>2. 1 \in 1 .. Len(todo)
        BY <1>6
      <4>3. m.kind = "pulse" <=> Odd(Len(b.data) + 1)
        BY <1>7, <4>1, <4>2 DEF Odd
      <4> QED
        BY <1>8, <4>3, Parity
    <3>4. Carried(b, c, m) /\ (~c.too_long => Grows(b, c) /\ c.sum = b.sum + m.us)
      BY <1>5, <1>7, <2>2, <3>1, <3>2, <3>3, RawStored
    <3> QED
      BY <2>2, <3>4 DEF Taken
  <2>3. CASE ~b.too_long /\ ~SendsRaw
    <3>1. c = IF m.kind = "pulse" THEN Pulse(b, m.us) ELSE Space(b, m.us)
      BY <1>4, <2>3 DEF SendsRaw
    <3>2. Pending(b) \/ (m.kind = "pulse" /\ Even(Len(b.data)))
      BY <1>2, <1>5, <1>7, <2>3 DEF MarksFit
    <3>3. PICK us \in Nat : us = m.us /\ us > 0
      BY <1>7, <1>8
    <3>4. CASE m.kind = "pulse"
      <4>1. m = PulseMark(us)
        BY <1>7, <3>3, <3>4 DEF Mark, PulseMark
      <4>2. Stored(b, Pulse(b, us), PulseMark(us))
        BY <1>5, <2>3, <3>2, <3>3, PulseStored
      <4>3. Stored(b, c, m)
        BY <3>1, <3>3, <3>4, <4>1, <4>2
      <4> QED
        BY <2>3, <3>4, <4>3 DEF Taken, Stored
    <3>5. CASE m.kind # "pulse"
      <4>1. m = SpaceMark(us)
        BY <1>7, <1>8, <3>3, <3>5 DEF Mark, SpaceMark
      <4>2. Stored(b, Space(b, us), SpaceMark(us))
        BY <1>5, <2>3, <3>2, <3>3, <3>5, SpaceStored
      <4>3. Stored(b, c, m)
        BY <3>1, <3>3, <3>5, <4>1, <4>2
      <4> QED
        BY <2>3, <3>5, <4>3 DEF Taken, Stored
    <3> QED
      BY <3>4, <3>5
  <2> QED
    BY <1>8, <2>1, <2>2, <2>3
<1> QED
  BY <1>1, <1>2, <1>3, <1>4, <1>5, <1>6, <1>7, <1>9

\* No mark is lost once the frame ends: what is left of raw marks ends in a pulse.
RawInv ==
  pc = "marks" /\ SendsRaw =>
    send_buffer.too_long \/ Odd(Len(send_buffer.data) + Len(todo))

LEMMA FrameEnds ==
  ASSUME SendInv, RawInv, EndFrame
  PROVE  LET counted == [send_buffer EXCEPT !.sum = @ - HeaderLeftOut]
         IN  /\ Whole(counted) /\ Fits(counted) /\ HeaderLeftOut \in Int
             /\ counted.data = send_buffer.data /\ counted.too_long = send_buffer.too_long
             /\ counted.pendingp = send_buffer.pendingp /\ counted.pendings = send_buffer.pendings
             /\ counted.sum = send_buffer.sum - HeaderLeftOut
             /\ Content(counted) = Content(send_buffer)
             /\ SyncedFrom(send_buffer', counted)
             /\ IF send_buffer'.too_long THEN pc' = "idle" /\ result' = "failed"
                ELSE pc' = "gap" /\ UNCHANGED result
<1> DEFINE r == Code[code].remote
<1>1. PICK counted : counted = [send_buffer EXCEPT !.sum = @ - HeaderLeftOut]
  OBVIOUS
<1>2. PICK c : c = send_buffer'
  OBVIOUS
<1>3. /\ pc = "marks" /\ todo = <<>> /\ c = Sync(counted)
      /\ IF Bad(c) THEN pc' = "idle" /\ result' = "failed" ELSE pc' = "gap" /\ UNCHANGED result
  BY <1>1, <1>2 DEF EndFrame, Fail
<1>4. MarksFit /\ Fits(send_buffer) /\ Whole(send_buffer) /\ TypeOK /\ r \in Remotes
  BY <1>3, Facts DEF SendInv
<1>5. HeaderLeftOut \in Int
  <2>1. R.header[1] \in Nat /\ R.header[2] \in Nat
    BY <1>4, RemoteAssumption DEF R
  <2> QED
    BY <2>1 DEF HeaderLeftOut
<1>6. send_buffer \in BufferType /\ send_buffer.sum - HeaderLeftOut \in Int
  BY <1>4, <1>5 DEF Whole, BufferType
<1>7. /\ counted \in BufferType
      /\ counted.data = send_buffer.data /\ counted.too_long = send_buffer.too_long
      /\ counted.pendingp = send_buffer.pendingp /\ counted.pendings = send_buffer.pendings
      /\ counted.sum = send_buffer.sum - HeaderLeftOut
  BY <1>1, <1>6 DEF BufferType
<1>8. Whole(counted) /\ Fits(counted)
  BY <1>4, <1>7 DEF Whole, Fits
<1>9. Content(counted) = Content(send_buffer)
  BY <1>7 DEF Content
<1>10. counted.too_long \/ Pending(counted) \/ Odd(Len(counted.data))
  <2>1. CASE SendsRaw
    <3>1. send_buffer.too_long \/ Odd(Len(send_buffer.data) + Len(<<>>))
      BY <1>3, <2>1 DEF RawInv
    <3>2. Len(send_buffer.data) + Len(<<>>) = Len(send_buffer.data)
      BY <1>6 DEF BufferType
    <3> QED
      BY <1>7, <3>1, <3>2
  <2>2. CASE ~SendsRaw
    BY <1>3, <1>4, <1>7, <2>2 DEF MarksFit, Pending
  <2> QED
    BY <2>1, <2>2
<1>11. SyncedFrom(c, counted)
  BY <1>3, <1>8, <1>10, FrameSynced
<1>12. IF c.too_long THEN pc' = "idle" /\ result' = "failed" ELSE pc' = "gap" /\ UNCHANGED result
  <2>1. ~c.too_long => c.pendingp = 0
    BY <1>11 DEF SyncedFrom
  <2>2. Bad(c) <=> c.too_long
    BY <2>1 DEF Bad
  <2> QED
    BY <1>3, <2>2
<1> QED
  BY <1>1, <1>2, <1>5, <1>7, <1>8, <1>9, <1>11, <1>12

\* The frame begins with an odd number of marks for raw codes.
LEMMA RawBegin == SendInv /\ BeginFrame => RawInv'
<1> SUFFICES ASSUME SendInv, BeginFrame, pc' = "marks", SendsRaw'
             PROVE  send_buffer'.too_long \/ Odd(Len(send_buffer'.data) + Len(todo'))
  BY DEF RawInv
<1>1. pc = "frame" /\ UNCHANGED <<send_buffer, code, repeat>>
  BY DEF BeginFrame
<1>2. raw /\ ~SendsRepeat
  BY <1>1 DEF SendsRaw, SendsRepeat, raw, R
<1>3. todo' = RawMarks(Code[code].signals) /\ Code[code].signals # <<>>
  <2>1. ~(raw /\ ~SendsRepeat /\ Code[code].signals = <<>>)
    BY DEF BeginFrame, Fail
  <2> QED
    BY <1>2, <2>1 DEF BeginFrame
<1>4. code \in Codes /\ Whole(send_buffer)
  BY Facts
<1>5. /\ Code[code].signals \in Seq(Nat \ {0}) /\ Len(Code[code].signals) % 2 = 1
  BY <1>3, <1>4, CodeAssumption, RawAssumption
<1>6. Len(todo') = Len(Code[code].signals)
  BY <1>3, <1>5, RawMarksFit
<1>7. send_buffer.too_long \/ Even(Len(send_buffer.data))
  BY <1>1 DEF SendInv
<1>8. ASSUME NEW n \in Nat, NEW l \in Nat, Even(n), l % 2 = 1 PROVE Odd(n + l)
  BY <1>8 DEF Even, Odd
<1>9. Len(send_buffer.data) \in Nat /\ Len(Code[code].signals) \in Nat
  BY <1>4, <1>5 DEF Whole, BufferType
<1> QED
  BY <1>1, <1>5, <1>6, <1>7, <1>8, <1>9

LEMMA RawMark == SendInv /\ RawInv /\ SendMark => RawInv'
<1> SUFFICES ASSUME SendInv, RawInv, SendMark, SendsRaw', ~send_buffer'.too_long
             PROVE  Odd(Len(send_buffer'.data) + Len(todo'))
  BY DEF RawInv
<1>1. /\ pc = "marks" /\ UNCHANGED <<code, repeat>> /\ todo # <<>> /\ todo' = Tail(todo)
      /\ send_buffer' = IF raw /\ ~SendsRepeat THEN Add(send_buffer, Head(todo))
                        ELSE IF Head(todo).kind = "pulse" THEN Pulse(send_buffer, Head(todo).us)
                        ELSE Space(send_buffer, Head(todo).us)
  BY DEF SendMark
<1>2. SendsRaw /\ raw /\ ~SendsRepeat
  BY <1>1 DEF SendsRaw, SendsRepeat, raw, R
<1>3. /\ Whole(send_buffer) /\ todo \in Seq(Mark) /\ Head(todo) \in Mark
      /\ Taken(send_buffer, send_buffer', Head(todo))
  BY MarkTaken
<1>4. ~send_buffer.too_long
  BY <1>3 DEF Taken
<1>5. PICK b, c, m : b = send_buffer /\ c = send_buffer' /\ m = Head(todo)
  OBVIOUS
<1>6. c = Add(b, m) /\ b \in BufferType /\ m \in Mark /\ ~c.too_long
  BY <1>1, <1>2, <1>3, <1>5 DEF Whole
<1>7. c.data = Append(b.data, m)
  BY <1>6, AddIs
<1>8. Len(c.data) = Len(b.data) + 1 /\ Len(b.data) \in Nat
  BY <1>6, <1>7 DEF BufferType
<1>9. Len(todo') = Len(todo) - 1 /\ Len(todo) \in Nat
  BY <1>1, <1>3
<1>10. Len(c.data) + Len(todo') = Len(b.data) + Len(todo)
  BY <1>8, <1>9
<1> QED
  BY <1>1, <1>2, <1>4, <1>5, <1>10 DEF RawInv

LEMMA RawNext == SendInv /\ RawInv /\ [Next]_vars => RawInv'
<1> SUFFICES ASSUME SendInv, RawInv, [Next]_vars PROVE RawInv'
  OBVIOUS
<1>1. CASE parseSendString \/ OnSendcode
  <2>1. pc' # "marks"
    BY <1>1 DEF parseSendString, OnSendcode, Start, MayStart
  <2> QED
    BY <2>1 DEF RawInv
<1>2. CASE BeginFrame
  BY <1>2, RawBegin
<1>3. CASE SendMark
  BY <1>3, RawMark
<1>4. CASE EndFrame \/ ComputeGap \/ SendGap
  <2>1. pc' # "marks"
    BY <1>4 DEF EndFrame, ComputeGap, SendGap, Fail
  <2> QED
    BY <2>1 DEF RawInv
<1>5. CASE Decode \/ UNCHANGED vars
  <2>1. UNCHANGED <<send_buffer, pc, todo, code, repeat>>
    BY <1>5 DEF Decode, vars
  <2> QED
    BY <2>1 DEF RawInv, SendsRaw, SendsRepeat, raw, R
<1> QED
  BY <1>1, <1>2, <1>3, <1>4, <1>5 DEF Next, init_send

\* sum counts what of the frame is in the array, and the gap makes up for it.
SumInv ==
  /\ pc = "frame" => send_buffer.sum = 0
  /\ pc \in {"marks", "gap", "space"} /\ ~send_buffer.too_long =>
       /\ asked.from <= Len(send_buffer.data)
       /\ send_buffer.sum = FrameLength(send_buffer.data)
                              - (IF pc = "marks" THEN 0 ELSE HeaderLeftOut)
  /\ pc = "space" /\ is_const(R) /\ ~asked.disturbed /\ ~(SendsRepeat /\ R.repeat_gap > 0) =>
       GapOf(Code[code].remote) = min_gap(R) - send_buffer.sum

LEMMA FrameTypes ==
  ASSUME SendInv, asked \in Asked, asked.from <= Len(send_buffer.data)
  PROVE  FrameLength(send_buffer.data) \in Nat
<1>1. send_buffer.data \in Seq(Mark) /\ asked.from \in Nat
  BY Facts DEF Whole, BufferType, Asked
<1>2. PICK s \in Seq(Mark), from \in Nat : s = send_buffer.data /\ from = asked.from
  BY <1>1
<1>3. SubSeq(s, from + 1, Len(s)) \in Seq(Mark)
  BY SubSeqProperties
<1>4. Total(SubSeq(s, from + 1, Len(s))) \in Nat
  BY <1>3, TotalNat
<1> QED
  BY <1>2, <1>4 DEF FrameLength

LEMMA SumBegin == SendInv /\ CountInv /\ SumInv /\ BeginFrame => SumInv'
<1> SUFFICES ASSUME SendInv, CountInv, SumInv, BeginFrame PROVE SumInv'
  OBVIOUS
<1>1. /\ pc = "frame" /\ pc' \in {"idle", "marks"} /\ send_buffer' = send_buffer
      /\ asked' = [asked EXCEPT !.from = Len(send_buffer.data), !.frames = @ + 1]
  BY DEF BeginFrame, Fail
<1>2. asked'.from = Len(send_buffer.data)
  BY <1>1, CountTypes DEF Asked
<1>3. PICK s \in Seq(Mark) : s = send_buffer.data
  BY Facts DEF Whole, BufferType
<1>4. SubSeq(s, Len(s) + 1, Len(s)) = <<>> /\ Len(s) \in Nat
  OBVIOUS
<1>5. Total(SubSeq(s, Len(s) + 1, Len(s))) = 0
  BY <1>4, TotalAppend
<1>6. FrameLength(send_buffer.data)' = 0
  BY <1>1, <1>2, <1>3, <1>5 DEF FrameLength
<1>7. send_buffer.sum = 0
  BY <1>1 DEF SumInv
<1> QED
  BY <1>1, <1>2, <1>3, <1>4, <1>6, <1>7 DEF SumInv

\* What a longer frame adds is counted.
LEMMA SumGrows ==
  ASSUME SendInv, CountInv, asked.from <= Len(send_buffer.data), asked' = asked,
         NEW b \in BufferType, b.data = send_buffer.data, NEW c \in BufferType, Grows(b, c)
  PROVE  /\ asked'.from <= Len(c.data)
         /\ Total(SubSeq(c.data, asked'.from + 1, Len(c.data)))
              = FrameLength(send_buffer.data) - b.sum + c.sum
<1>1. asked.from \in Nat
  BY CountTypes DEF Asked
<1>2. PICK from \in Nat : from = asked.from
  BY <1>1
<1>3. from <= Len(b.data)
  BY <1>2
<1>4. /\ from <= Len(c.data)
      /\ Total(SubSeq(c.data, from + 1, Len(c.data))) - c.sum
           = Total(SubSeq(b.data, from + 1, Len(b.data))) - b.sum
  BY <1>3, FrameGrows
<1>5. b.sum \in Int /\ c.sum \in Int
  BY DEF BufferType
<1>6. FrameLength(send_buffer.data) \in Nat
  BY FrameTypes, CountTypes
<1>7. FrameLength(send_buffer.data) = Total(SubSeq(b.data, from + 1, Len(b.data)))
  BY <1>2 DEF FrameLength
<1>8. SubSeq(c.data, from + 1, Len(c.data)) \in Seq(Mark)
  <2>1. c.data \in Seq(Mark)
    BY DEF BufferType
  <2> QED
    BY <2>1, SubSeqProperties
<1>9. Total(SubSeq(c.data, from + 1, Len(c.data))) \in Nat
  BY <1>8, TotalNat
<1> QED
  BY <1>2, <1>4, <1>5, <1>6, <1>7, <1>9

LEMMA SumMark == SendInv /\ CountInv /\ SumInv /\ SendMark => SumInv'
<1> SUFFICES ASSUME SendInv, CountInv, SumInv, SendMark PROVE SumInv'
  OBVIOUS
<1>1. pc = "marks" /\ pc' = "marks" /\ asked' = asked
  BY DEF SendMark
<1> SUFFICES ASSUME ~send_buffer'.too_long
             PROVE  /\ asked'.from <= Len(send_buffer'.data)
                    /\ send_buffer'.sum = FrameLength(send_buffer.data)'
  <2>1. send_buffer'.sum = FrameLength(send_buffer.data)' =>
          send_buffer'.sum = FrameLength(send_buffer.data)' - 0
    <3>1. SendInv'
      BY SendMarkKeeps
    <3>2. send_buffer'.sum \in Int
      BY <3>1 DEF SendInv, TypeOK
    <3> QED
      BY <3>2
  <2> QED
    BY <1>1, <2>1 DEF SumInv
<1>2. SendInv'
  BY SendMarkKeeps
<1>3. send_buffer \in BufferType /\ send_buffer' \in BufferType
  BY <1>2 DEF SendInv, TypeOK, BufferType
<1>4. ~send_buffer.too_long /\ Grows(send_buffer, send_buffer')
  BY MarkTaken DEF Taken
<1>5. /\ asked.from <= Len(send_buffer.data)
      /\ send_buffer.sum = FrameLength(send_buffer.data) - 0
  BY <1>1, <1>4 DEF SumInv
<1>6. FrameLength(send_buffer.data) \in Nat
  BY <1>5, FrameTypes, CountTypes
<1>7. PICK b \in BufferType, c \in BufferType : b = send_buffer /\ c = send_buffer'
  BY <1>3
<1>8. /\ asked'.from <= Len(c.data)
      /\ Total(SubSeq(c.data, asked'.from + 1, Len(c.data)))
           = FrameLength(send_buffer.data) - b.sum + c.sum
  BY <1>1, <1>4, <1>5, <1>7, SumGrows
<1>9. FrameLength(send_buffer.data)' = Total(SubSeq(c.data, asked'.from + 1, Len(c.data)))
  BY <1>7 DEF FrameLength
<1>10. c.sum \in Int /\ b.sum = send_buffer.sum /\ b.sum \in Int
  BY <1>7 DEF BufferType
<1> QED
  BY <1>5, <1>6, <1>7, <1>8, <1>9, <1>10

LEMMA SumEnd == SendInv /\ CountInv /\ RawInv /\ SumInv /\ EndFrame => SumInv'
<1> SUFFICES ASSUME SendInv, CountInv, RawInv, SumInv, EndFrame PROVE SumInv'
  OBVIOUS
<1>1. pc = "marks" /\ UNCHANGED <<asked, code, repeat>>
  BY DEF EndFrame
<1>2. HeaderLeftOut' = HeaderLeftOut
  BY <1>1 DEF HeaderLeftOut, R, raw
<1>3. PICK b : b = [send_buffer EXCEPT !.sum = @ - HeaderLeftOut]
  OBVIOUS
<1>4. /\ Whole(b) /\ HeaderLeftOut \in Int /\ b.data = send_buffer.data
      /\ b.too_long = send_buffer.too_long /\ b.sum = send_buffer.sum - HeaderLeftOut
      /\ SyncedFrom(send_buffer', b)
      /\ IF send_buffer'.too_long THEN pc' = "idle" ELSE pc' = "gap"
  BY <1>3, FrameEnds
<1>5. CASE send_buffer'.too_long
  <2>1. pc' = "idle"
    BY <1>4, <1>5
  <2> QED
    BY <2>1 DEF SumInv
<1>6. CASE ~send_buffer'.too_long
  <2>1. pc' = "gap" /\ ~b.too_long /\ Grows(b, send_buffer')
    BY <1>4, <1>6 DEF SyncedFrom
  <2>2. /\ asked.from <= Len(send_buffer.data)
        /\ send_buffer.sum = FrameLength(send_buffer.data) - 0
    BY <1>1, <1>4, <2>1 DEF SumInv
  <2>3. FrameLength(send_buffer.data) \in Nat
    BY <2>2, FrameTypes, CountTypes
  <2>4. SendInv'
    BY EndFrameKeeps
  <2>5. b \in BufferType /\ send_buffer' \in BufferType
    BY <1>4, <2>4 DEF SendInv, TypeOK, BufferType, Whole
  <2>6. PICK c \in BufferType : c = send_buffer'
    BY <2>5
  <2>7. /\ asked'.from <= Len(c.data)
        /\ Total(SubSeq(c.data, asked'.from + 1, Len(c.data)))
             = FrameLength(send_buffer.data) - b.sum + c.sum
    BY <1>1, <1>4, <2>1, <2>2, <2>5, <2>6, SumGrows
  <2>8. FrameLength(send_buffer.data)' = Total(SubSeq(c.data, asked'.from + 1, Len(c.data)))
    BY <2>6 DEF FrameLength
  <2>9. c.sum \in Int
    BY DEF BufferType
  <2>10. c.sum = FrameLength(send_buffer.data)' - HeaderLeftOut
    BY <1>4, <2>2, <2>3, <2>7, <2>8, <2>9
  <2> QED
    BY <1>2, <2>1, <2>6, <2>7, <2>10 DEF SumInv
<1> QED
  BY <1>5, <1>6

LEMMA SumGap == SendInv /\ CountInv /\ SumInv /\ ComputeGap => SumInv'
<1> SUFFICES ASSUME SendInv, CountInv, SumInv, ComputeGap PROVE SumInv'
  OBVIOUS
<1> DEFINE r == Code[code].remote
<1>1. pc = "gap" /\ UNCHANGED <<send_buffer, asked, code, repeat>>
  BY DEF ComputeGap
<1>2. /\ HeaderLeftOut' = HeaderLeftOut /\ R' = R /\ (SendsRepeat' <=> SendsRepeat)
      /\ FrameLength(send_buffer.data)' = FrameLength(send_buffer.data)
  BY <1>1 DEF HeaderLeftOut, R, raw, SendsRepeat, FrameLength
<1>3. CASE pc' = "idle"
  BY <1>3 DEF SumInv
<1>4. CASE pc' = "space"
  <2>1. ASSUME is_const(R), ~(SendsRepeat /\ R.repeat_gap > 0)
        PROVE  GapOf(r)' = min_gap(R) - send_buffer.sum
    <3>1. min_remaining_gap' = [min_remaining_gap EXCEPT ![r] = min_gap(R) - send_buffer.sum]
      <4>1. min_gap(R) > send_buffer.sum
        BY <1>4, <2>1 DEF ComputeGap, Fail
      <4> QED
        BY <2>1, <4>1 DEF ComputeGap, RemainingGap
    <3>2. min_remaining_gap \in [Remotes -> Nat] /\ r \in Remotes
      BY Facts DEF SendInv, TypeOK
    <3> QED
      BY <1>1, <3>1, <3>2 DEF GapOf
  <2> QED
    BY <1>1, <1>2, <1>4, <2>1 DEF SumInv
<1> QED
  BY <1>3, <1>4 DEF ComputeGap, Fail

LEMMA SumSpace == SendInv /\ SumInv /\ SendGap => SumInv'
<1> SUFFICES ASSUME SendInv, SumInv, SendGap PROVE SumInv'
  OBVIOUS
<1>1. CASE pc' = "idle"
  BY <1>1 DEF SumInv
<1>2. CASE pc' = "frame"
  <2>1. PICK f : f = Flush(Space(send_buffer, min_remaining_gap[Code[code].remote]))
    OBVIOUS
  <2>2. /\ pc = "space" /\ send_buffer' = [f EXCEPT !.sum = 0]
    BY <1>2, <2>1 DEF SendGap
  <2>3. f \in BufferType
    <3>1. /\ Fits(send_buffer) /\ Whole(send_buffer) /\ ~send_buffer.too_long
          /\ Odd(Len(send_buffer.data)) /\ min_remaining_gap[Code[code].remote] > 0
          /\ min_remaining_gap[Code[code].remote] \in Nat
      BY <2>2, Facts DEF SendInv, GapOf, TypeOK
    <3> QED
      BY <2>1, <3>1, GapSent DEF Whole
  <2>4. send_buffer'.sum = 0
    BY <2>2, <2>3 DEF BufferType
  <2> QED
    BY <1>2, <2>4 DEF SumInv
<1> QED
  BY <1>1, <1>2 DEF SendGap

LEMMA SumDecode == CountInv /\ SumInv /\ Decode => SumInv'
<1> SUFFICES ASSUME CountInv, SumInv, Decode PROVE SumInv'
  OBVIOUS
<1>1. /\ UNCHANGED <<send_buffer, pc, code, repeat>>
      /\ asked' = [asked EXCEPT !.disturbed = @ \/ pc # "idle"]
  BY DEF Decode
<1>2. asked'.from = asked.from /\ (pc # "idle" => asked'.disturbed)
  <2> DEFINE d == asked.disturbed \/ pc # "idle"
  <2>1. asked \in Asked /\ d \in BOOLEAN /\ asked' = [asked EXCEPT !.disturbed = d]
    BY <1>1 DEF CountInv
  <2>2. pc # "idle" => d
    OBVIOUS
  <2> HIDE DEF d
  <2> QED
    BY <2>1, <2>2 DEF Asked
<1>3. /\ HeaderLeftOut' = HeaderLeftOut
      /\ FrameLength(send_buffer.data)' = FrameLength(send_buffer.data)
  BY <1>1, <1>2 DEF HeaderLeftOut, R, raw, FrameLength
<1> QED
  BY <1>1, <1>2, <1>3 DEF SumInv

LEMMA SumNext == SendInv /\ CountInv /\ RawInv /\ SumInv /\ [Next]_vars => SumInv'
<1> SUFFICES ASSUME SendInv, CountInv, RawInv, SumInv, [Next]_vars PROVE SumInv'
  OBVIOUS
<1>1. CASE parseSendString \/ OnSendcode
  <2>1. PICK c, n : Start(c, n) /\ pc = "idle"
    BY <1>1 DEF parseSendString, OnSendcode, MayStart
  <2>2. pc' = "idle" \/ (pc' = "frame" /\ send_buffer' = Cleared)
    BY <2>1 DEF Start
  <2> QED
    BY <2>2 DEF SumInv, Cleared
<1>2. CASE UNCHANGED vars
  <2>1. UNCHANGED <<send_buffer, pc, code, repeat, asked, min_remaining_gap>>
    BY <1>2 DEF vars, remoteVars
  <2> QED
    BY <2>1 DEF SumInv, HeaderLeftOut, R, raw, SendsRepeat, FrameLength, GapOf
<1> QED
  BY <1>1, <1>2, SumBegin, SumMark, SumEnd, SumGap, SumSpace, SumDecode DEF Next, init_send

\* All that the steps keep so far.
SumsInv == SendInv /\ CountInv /\ RawInv /\ SumInv

LEMMA SumsInvariant == Spec => []SumsInv
<1>1. Init => RawInv /\ SumInv
  BY DEF Init, RawInv, SumInv
<1>2. RawInv /\ SumInv /\ SendInv /\ CountInv /\ [Next]_vars => RawInv' /\ SumInv'
  BY RawNext, SumNext
<1>3. Spec => [](SendInv /\ CountInv)
  BY SendInvariant, CountInvariant, PTL
<1> QED
  BY <1>1, <1>2, <1>3, PTL DEF Spec, SumsInv

\* The gap after a frame that ends in a pulse, of a remote of constant length, makes frame
\* and gap that length, but for the header that NO_HEAD_REP leaves out of it, whatever
\* the frames, their number and the place of the frame in the buffer.  A frame that ends
\* in a space is longer by it: Send.cpp:444 takes a sum that lacks it.
THEOREM LengthKept == Spec => ConstLength
<1>1. ASSUME SumsInv, Next, ConstFrameSent, EndsInPulse
      PROVE  FrameLength(send_buffer'.data) = min_gap(R) + HeaderLeftOut
  <2> DEFINE r == Code[code].remote
  <2>0. SendInv /\ CountInv /\ SumInv
    BY <1>1 DEF SumsInv
  <2>1. SendGap
    BY <1>1 DEF ConstFrameSent, Next, parseSendString, OnSendcode, MayStart, init_send,
                BeginFrame, SendMark, EndFrame, ComputeGap, Decode
  <2>2. /\ pc = "space" /\ is_const(R) /\ ~asked.disturbed /\ ~(SendsRepeat /\ R.repeat_gap > 0)
    BY <1>1 DEF ConstFrameSent
  <2>3. PICK b, us, f : b = send_buffer /\ us = min_remaining_gap[r] /\ f = Flush(Space(b, us))
    OBVIOUS
  <2>4. /\ Fits(b) /\ Whole(b) /\ ~b.too_long /\ Odd(Len(b.data)) /\ us > 0 /\ us \in Nat
        /\ b \in BufferType
    BY <2>0, <2>2, <2>3, Facts DEF SendInv, GapOf, TypeOK, Whole
  <2>5. f.data = Append(b.data, SpaceMark(b.pendings + us))
    BY <2>3, <2>4, GapCarried
  <2>6. f \in BufferType
    BY <2>3, <2>4, GapSent DEF Whole
  <2>7. send_buffer'.data = f.data
    <3>1. send_buffer' = f \/ send_buffer' = [f EXCEPT !.sum = 0]
      BY <2>1, <2>3 DEF SendGap
    <3>2. [f EXCEPT !.sum = 0].data = f.data
      BY <2>6 DEF BufferType
    <3> QED
      BY <3>1, <3>2
  <2>8. b.pendings \in Nat /\ b.sum \in Int
    BY <2>4 DEF BufferType
  <2>9. PICK n \in Nat : n = b.pendings + us
    BY <2>4, <2>8
  <2>10. PICK x \in Mark : x = SpaceMark(n) /\ x.us = n
    BY MarkMade
  <2>11. PICK k \in Int : k = b.sum + x.us
    BY <2>8, <2>10
  <2>12. PICK c : c = [f EXCEPT !.sum = k]
    OBVIOUS
  <2>13. c \in BufferType /\ c.data = f.data /\ c.sum = k
    BY <2>6, <2>12 DEF BufferType
  <2>14. Grows(b, c)
    BY <2>5, <2>9, <2>10, <2>11, <2>13 DEF Grows
  <2>15. asked.from <= Len(b.data) /\ b.sum = FrameLength(b.data) - HeaderLeftOut
    BY <2>0, <2>2, <2>3, <2>4 DEF SumInv
  <2>16. us = min_gap(R) - b.sum
    BY <2>0, <2>2, <2>3 DEF SumInv, GapOf
  <2>17. asked' = asked
    BY <2>1 DEF SendGap
  <2>18. Total(SubSeq(c.data, asked'.from + 1, Len(c.data)))
           = FrameLength(send_buffer.data) - b.sum + c.sum
    BY <2>0, <2>3, <2>4, <2>13, <2>14, <2>15, <2>17, SumGrows
  <2>19. FrameLength(send_buffer'.data) = Total(SubSeq(c.data, asked'.from + 1, Len(c.data)))
    BY <2>7, <2>13, <2>17 DEF FrameLength
  <2>20. FrameLength(b.data) \in Nat
    BY <2>0, <2>3, <2>15, FrameTypes, CountTypes
  <2>21. HeaderLeftOut \in Int /\ min_gap(R) \in Int
    <3>1. R.header[1] \in Nat /\ R.header[2] \in Nat /\ min_gap(R) \in Int
      BY <2>0, Facts, RemoteAssumption DEF R
    <3> QED
      BY <3>1 DEF HeaderLeftOut
  <2>22. ASSUME NEW F \in Nat, NEW h \in Int, NEW g \in Int, NEW p \in Nat, NEW s \in Int,
                NEW u \in Nat, s = F - h, u = g - s
         PROVE  F - s + (s + (p + u)) = g + h + p
    BY <2>22
  <2>23. FrameLength(send_buffer'.data) = FrameLength(b.data) - b.sum + (b.sum + (b.pendings + us))
    BY <2>3, <2>9, <2>10, <2>11, <2>13, <2>18, <2>19
  <2> HIDE DEF r
  <2>24. FrameLength(b.data) - b.sum + (b.sum + (b.pendings + us))
           = min_gap(R) + HeaderLeftOut + b.pendings
    BY <2>4, <2>8, <2>15, <2>16, <2>20, <2>21, <2>22
  <2>25. b.pendings = 0
    BY <1>1, <2>3 DEF EndsInPulse
  <2> QED
    BY <2>21, <2>23, <2>24, <2>25
<1>2. ASSUME SumsInv, [Next]_vars
      PROVE  [ConstFrameSent /\ EndsInPulse =>
                FrameLength(send_buffer'.data) = min_gap(R) + HeaderLeftOut]_vars
  <2>1. CASE UNCHANGED vars
    BY <2>1
  <2>2. CASE Next
    BY <1>1, <1>2, <2>2
  <2> QED
    BY <1>2, <2>1, <2>2
<1> QED
  BY SumsInvariant, <1>2, PTL DEF Spec, ConstLength

-----------------------------------------------------------------------------
(* The steps of init_send, as far as the plan goes.                        *)

\* The frames whose toggle toggle_mask_state has counted.
FramesCounted == IF pc = "marks" THEN asked.frames - 1 ELSE asked.frames

ToggleCounted ==
  \/ R.toggle_mask = {} \/ raw \/ SendsRepeat
  \/ toggle_mask_state[Code[code].remote] % 2 = FramesCounted % 2

\* What init_send was asked for agrees with the state of the remote, as long as nothing
\* else writes to that.
RequestInv ==
  pc # "idle" =>
    /\ asked.bits \in SUBSET R.toggle_bit_mask
    /\ repeat_countdown[Code[code].remote] <= asked.repeats
    /\ repeat <=> repeat_countdown[Code[code].remote] < asked.repeats
    /\ pc # "frame" => asked.frames > 0
    /\ pc # "frame" \/ repeat => ~(raw /\ Code[code].signals = <<>>)
    /\ ~asked.disturbed =>
         toggle_bit_mask_state[Code[code].remote] = asked.bits /\ ToggleCounted

LEMMA AdvanceToggles ==
  ASSUME NEW state \in 0 .. 3, NEW n \in Nat, n > 0, state % 2 = (n - 1) % 2
  PROVE  Advance(state) % 2 = n % 2
<1>1. state \in {0, 1, 2, 3}
  OBVIOUS
<1>2. Advance(state) = IF state + 1 = 4 THEN 2 ELSE state + 1
  BY DEF Advance
<1>3. (n - 1) % 2 = 0 => n % 2 = 1
  OBVIOUS
<1>4. (n - 1) % 2 = 1 => n % 2 = 0
  OBVIOUS
<1> QED
  BY <1>1, <1>2, <1>3, <1>4

LEMMA RequestStart ==
  ASSUME SendInv, NEW c \in Codes, NEW n \in Int, MayStart, Start(c, n)
  PROVE  RequestInv'
<1> DEFINE r == Code[c].remote
           m == Larger(Remote[r].min_repeat, n)
           bits == Remote[r].toggle_bit_mask \ toggle_bit_mask_state[r]
<1>1. CASE Unsupported(r)
  <2>1. pc' = "idle"
    BY <1>1 DEF Start, MayStart
  <2> QED
    BY <2>1 DEF RequestInv
<1>2. CASE ~Unsupported(r)
  <2>1. r \in Remotes /\ Remote[r].min_repeat \in Nat
    BY CodeAssumption, Facts
  <2>2. m \in Nat
    BY <2>1 DEF Larger
  <2>3. /\ code' = c /\ repeat' = FALSE /\ pc' = "frame"
        /\ repeat_countdown' = [repeat_countdown EXCEPT ![r] = m]
        /\ toggle_mask_state' = IF Remote[r].toggle_mask = {} THEN toggle_mask_state
                                ELSE [toggle_mask_state EXCEPT ![r] = 0]
        /\ toggle_bit_mask_state' = [toggle_bit_mask_state EXCEPT ![r] = bits]
        /\ asked'.bits = bits /\ asked'.repeats = m /\ asked'.frames = 0
    BY <1>2 DEF Start
  <2>4. R' = Remote[r]
    BY <2>3 DEF R
  <2>5. /\ toggle_mask_state \in [Remotes -> 0 .. 3] /\ repeat_countdown \in [Remotes -> Nat]
        /\ toggle_bit_mask_state \in [Remotes -> SUBSET Nat]
    BY DEF SendInv, TypeOK
  <2> HIDE DEF m, bits
  <2>6. /\ repeat_countdown'[r] = m /\ toggle_bit_mask_state'[r] = bits
        /\ Remote[r].toggle_mask = {} \/ toggle_mask_state'[r] = 0
    BY <2>1, <2>3, <2>5
  <2>7. bits \in SUBSET Remote[r].toggle_bit_mask
    BY DEF bits
  <2>8. m <= m /\ ~(m < m) /\ 0 % 2 = 0
    BY <2>2
  <2>9. ToggleCounted'
    BY <2>3, <2>4, <2>6 DEF ToggleCounted, FramesCounted
  <2> QED
    BY <2>3, <2>4, <2>6, <2>7, <2>8, <2>9 DEF RequestInv
<1> QED
  BY <1>1, <1>2

LEMMA RequestBegin == SendInv /\ CountInv /\ RequestInv /\ BeginFrame => RequestInv'
<1> SUFFICES ASSUME SendInv, CountInv, RequestInv, BeginFrame PROVE RequestInv'
  OBVIOUS
<1>1. /\ pc = "frame"
      /\ UNCHANGED <<code, repeat, repeat_countdown, toggle_mask_state, toggle_bit_mask_state>>
      /\ asked' = [asked EXCEPT !.from = Len(send_buffer.data), !.frames = @ + 1]
  BY DEF BeginFrame, remoteVars
<1>2. /\ asked'.bits = asked.bits /\ asked'.repeats = asked.repeats
      /\ asked'.disturbed = asked.disturbed /\ asked'.frames = asked.frames + 1
  BY <1>1, CountTypes DEF Asked
<1>3. asked.frames \in Nat
  BY CountTypes DEF Asked
<1>4. R' = R /\ (raw' <=> raw) /\ (SendsRepeat' <=> SendsRepeat)
  BY <1>1 DEF R, raw, SendsRepeat
<1>5. CASE raw /\ ~SendsRepeat /\ Code[code].signals = <<>>
  <2>1. pc' = "idle"
    BY <1>5 DEF BeginFrame, Fail
  <2> QED
    BY <2>1 DEF RequestInv
<1>6. CASE ~(raw /\ ~SendsRepeat /\ Code[code].signals = <<>>)
  <2>1. pc' = "marks"
    BY <1>6 DEF BeginFrame
  <2>2. ~(raw /\ Code[code].signals = <<>>)
    BY <1>1, <1>6 DEF RequestInv, SendsRepeat
  <2>3. asked'.frames - 1 = asked.frames /\ asked'.frames > 0
    BY <1>2, <1>3
  <2>4. ToggleCounted' <=> ToggleCounted
    BY <1>1, <1>4, <2>1, <2>3 DEF ToggleCounted, FramesCounted
  <2> QED
    BY <1>1, <1>2, <1>4, <2>1, <2>2, <2>3, <2>4 DEF RequestInv
<1> QED
  BY <1>5, <1>6

LEMMA RequestEnd == SendInv /\ CountInv /\ RequestInv /\ EndFrame => RequestInv'
<1> SUFFICES ASSUME SendInv, CountInv, RequestInv, EndFrame, pc' # "idle" PROVE RequestInv'
  BY DEF RequestInv
<1> DEFINE r == Code[code].remote
<1>1. /\ pc = "marks" /\ pc' = "gap"
      /\ UNCHANGED <<code, repeat, repeat_countdown, toggle_bit_mask_state, asked>>
      /\ toggle_mask_state' = IF SendsRepeat \/ raw \/ R.toggle_mask = {} THEN toggle_mask_state
                              ELSE [toggle_mask_state EXCEPT ![r] = Advance(@)]
  BY DEF EndFrame, Fail
<1>2. R' = R /\ (raw' <=> raw) /\ (SendsRepeat' <=> SendsRepeat)
  BY <1>1 DEF R, raw, SendsRepeat
<1>3. ToggleCounted => ToggleCounted'
  <2> SUFFICES ASSUME ToggleCounted, R.toggle_mask # {}, ~raw, ~SendsRepeat PROVE ToggleCounted'
    BY <1>2 DEF ToggleCounted
  <2>1. toggle_mask_state[r] % 2 = (asked.frames - 1) % 2
    BY <1>1 DEF ToggleCounted, FramesCounted
  <2>2. asked.frames \in Nat /\ asked.frames > 0
    BY <1>1, CountTypes DEF RequestInv, Asked
  <2>3. toggle_mask_state \in [Remotes -> 0 .. 3] /\ r \in Remotes
    BY Facts DEF SendInv, TypeOK
  <2>4. toggle_mask_state'[r] = Advance(toggle_mask_state[r]) /\ toggle_mask_state[r] \in 0 .. 3
    BY <1>1, <2>3
  <2>5. toggle_mask_state'[r] % 2 = asked.frames % 2
    BY <2>1, <2>2, <2>4, AdvanceToggles
  <2> QED
    BY <1>1, <2>5 DEF ToggleCounted, FramesCounted
<1> QED
  BY <1>1, <1>2, <1>3 DEF RequestInv

LEMMA RequestKept ==
  ASSUME RequestInv, pc \in {"marks", "gap"}, pc' # "idle", pc' # "frame",
         pc' = "marks" <=> pc = "marks",
         UNCHANGED <<code, repeat, repeat_countdown, toggle_mask_state, toggle_bit_mask_state,
                     asked>>
  PROVE  RequestInv'
<1>1. R' = R /\ (raw' <=> raw) /\ (SendsRepeat' <=> SendsRepeat)
  BY DEF R, raw, SendsRepeat
<1>2. ToggleCounted' <=> ToggleCounted
  BY <1>1 DEF ToggleCounted, FramesCounted
<1> QED
  BY <1>1, <1>2 DEF RequestInv

LEMMA RequestSpace == SendInv /\ CountInv /\ RequestInv /\ SendGap => RequestInv'
<1> SUFFICES ASSUME SendInv, CountInv, RequestInv, SendGap, pc' # "idle" PROVE RequestInv'
  BY DEF RequestInv
<1> DEFINE r == Code[code].remote
<1>1. /\ pc = "space" /\ pc' = "frame" /\ GoesOn(r)
      /\ UNCHANGED <<code, toggle_mask_state, toggle_bit_mask_state, asked>>
      /\ IF transmit_state[code] = 0
         THEN /\ repeat_countdown' = [repeat_countdown EXCEPT ![r] = @ - 1]
              /\ repeat' = TRUE
         ELSE UNCHANGED <<repeat_countdown, repeat>>
  BY DEF SendGap, remoteVars
<1>2. R' = R /\ (raw' <=> raw) /\ (SendsRepeat => SendsRepeat')
  BY <1>1 DEF R, raw, SendsRepeat
<1>3. ToggleCounted => ToggleCounted'
  BY <1>1, <1>2 DEF ToggleCounted, FramesCounted
<1>4. r \in Remotes /\ repeat_countdown \in [Remotes -> Nat] /\ asked.repeats \in Nat
  BY CountTypes DEF Asked
<1>5. /\ repeat_countdown'[r] <= asked.repeats
      /\ repeat' <=> repeat_countdown'[r] < asked.repeats
  <2>1. CASE transmit_state[code] = 0
    <3>1. repeat_countdown[r] <= asked.repeats /\ repeat_countdown[r] \in Nat
      BY <1>1, <1>4 DEF RequestInv
    <3>2. repeat_countdown'[r] = repeat_countdown[r] - 1 /\ repeat' = TRUE
      BY <1>1, <1>4, <2>1
    <3> QED
      BY <1>4, <3>1, <3>2
  <2>2. CASE transmit_state[code] # 0
    BY <1>1, <2>2 DEF RequestInv
  <2> QED
    BY <2>1, <2>2
<1> QED
  BY <1>1, <1>2, <1>3, <1>5 DEF RequestInv

LEMMA DecodeAsked ==
  ASSUME CountInv, Decode
  PROVE  /\ asked'.repeats = asked.repeats /\ asked'.bits = asked.bits
         /\ asked'.part = asked.part /\ asked'.frames = asked.frames
         /\ pc # "idle" => asked'.disturbed
         /\ pc = "idle" => asked' = asked
<1>1. asked \in Asked /\ asked' = [asked EXCEPT !.disturbed = @ \/ pc # "idle"]
  BY DEF Decode, CountInv
<1>2. CASE pc # "idle"
  <2>1. asked' = [asked EXCEPT !.disturbed = TRUE]
    BY <1>1, <1>2
  <2> QED
    BY <1>1, <1>2, <2>1 DEF Asked
<1>3. CASE pc = "idle"
  <2>1. asked' = [asked EXCEPT !.disturbed = asked.disturbed]
    <3>1. (asked.disturbed \/ pc # "idle") <=> asked.disturbed
      BY <1>3
    <3>2. asked.disturbed \in BOOLEAN
      BY <1>1 DEF Asked
    <3>3. (asked.disturbed \/ pc # "idle") = asked.disturbed
      BY <3>1, <3>2
    <3> QED
      BY <1>1, <3>3
  <2> QED
    BY <1>1, <1>3, <2>1 DEF Asked
<1> QED
  BY <1>2, <1>3

LEMMA RequestDecode == CountInv /\ RequestInv /\ Decode => RequestInv'
<1> SUFFICES ASSUME CountInv, RequestInv, Decode, pc # "idle" PROVE RequestInv'
  BY DEF RequestInv, Decode
<1>1. UNCHANGED <<pc, code, repeat, repeat_countdown>>
  BY DEF Decode
<1>2. R' = R /\ (raw' <=> raw)
  BY <1>1 DEF R, raw
<1>3. /\ asked'.repeats = asked.repeats /\ asked'.bits = asked.bits
      /\ asked'.frames = asked.frames /\ asked'.disturbed
  BY DecodeAsked
<1> QED
  BY <1>1, <1>2, <1>3 DEF RequestInv

LEMMA RequestNext == SendInv /\ CountInv /\ RequestInv /\ [Next]_vars => RequestInv'
<1> SUFFICES ASSUME SendInv, CountInv, RequestInv, [Next]_vars PROVE RequestInv'
  OBVIOUS
<1>1. CASE parseSendString \/ OnSendcode
  <2>1. \E c \in Codes, n \in Int : Start(c, n) /\ MayStart
    <3>1. \A c \in Codes, n \in Repeats :
            /\ Larger(n, Remote[Code[c].remote].min_repeat) \in Int
            /\ Smaller(Larger(n, Remote[Code[c].remote].min_repeat), RepeatCap) \in Int
      <4>1. \A c \in Codes, n \in Repeats :
              n \in Int /\ RepeatCap \in Int /\ Remote[Code[c].remote].min_repeat \in Int
        BY BoundsAssumption, CodeAssumption, Facts
      <4> QED
        BY <4>1 DEF Larger, Smaller
    <3> QED
      BY <1>1, <3>1 DEF parseSendString, OnSendcode
  <2> QED
    BY <2>1, RequestStart
<1>2. CASE SendMark
  BY <1>2, RequestKept DEF SendMark, remoteVars
<1>3. CASE ComputeGap
  <2>1. CASE pc' = "idle"
    BY <2>1 DEF RequestInv
  <2>2. CASE pc' = "space"
    BY <1>3, <2>2, RequestKept DEF ComputeGap
  <2> QED
    BY <1>3, <2>1, <2>2 DEF ComputeGap, Fail
<1>4. CASE UNCHANGED vars
  <2>1. UNCHANGED <<pc, code, repeat, repeat_countdown, toggle_mask_state, toggle_bit_mask_state,
                    asked>>
    BY <1>4 DEF vars, remoteVars
  <2> QED
    BY <2>1 DEF RequestInv, ToggleCounted, FramesCounted, SendsRepeat, R, raw
<1> QED
  BY <1>1, <1>2, <1>3, <1>4, RequestBegin, RequestEnd, RequestSpace, RequestDecode
     DEF Next, init_send

LEMMA RoundsBelow ==
  ASSUME NEW n \in Nat, NEW j \in Nat, NEW r \in Nat, j <= r, NEW t \in Nat, t < n
  PROVE  n * j + t < n * (1 + r) /\ n * (1 + r) \in Nat
<1>1. PICK d \in Nat : r = j + d
  <2>1. r - j \in Nat /\ r = j + (r - j)
    OBVIOUS
  <2> QED
    BY <2>1
<1>2. n * (1 + r) = n * j + n + n * d
  BY <1>1
<1>3. n * d \in Nat /\ n * j \in Nat
  OBVIOUS
<1>4. PICK a \in Nat, b \in Nat : a = n * j /\ b = n * d
  BY <1>3
<1> QED
  BY <1>2, <1>4

\* The number of the frame that is sent now or next.
FrameNo == IF pc = "frame" THEN FramesSent ELSE FramesSent - 1

LEMMA FrameNumbers ==
  ASSUME SendInv, CountInv, RequestInv, pc # "idle"
  PROVE  /\ FrameNo \in Nat /\ asked.part \in Nat /\ asked.part <= FrameNo
         /\ pc # "frame" => asked.frames - 1 \in Nat /\ FrameNo = asked.part + (asked.frames - 1)
         /\ pc = "frame" => FrameNo = asked.part + asked.frames
         /\ Plannable
<1>1. /\ asked \in Asked /\ asked.part \in Nat /\ asked.frames \in Nat
      /\ code \in Codes /\ Code[code].remote \in Remotes
  BY CountTypes DEF Asked
<1>2. Plannable
  BY <1>1 DEF Plannable, RequestInv
<1>3. pc # "frame" => asked.frames > 0
  BY DEF RequestInv
<1> QED
  BY <1>1, <1>2, <1>3 DEF FrameNo, FramesSent

\* transmit_state is the part of that frame, repeat says whether it is in the first round.
LEMMA FramePlace ==
  ASSUME SendInv, CountInv, RequestInv, pc \in {"frame", "marks", "gap"}, ~Endless
  PROVE  /\ FrameNo % Parts = transmit_state[code]
         /\ FrameNo >= Parts <=> repeat
         /\ FrameNo < Parts * (1 + asked.repeats) /\ Parts * (1 + asked.repeats) \in Nat
<1> DEFINE r == Code[code].remote
<1>1. /\ Parts \in Nat /\ Parts > 0 /\ transmit_state[code] \in Nat
      /\ transmit_state[code] < Parts /\ r \in Remotes /\ repeat_countdown \in [Remotes -> Nat]
      /\ asked.repeats \in Nat /\ FramesSent \in Nat /\ RoundsBefore \in Int
  BY CountTypes DEF Asked
<1>2. repeat_countdown[r] \in Nat /\ repeat_countdown[r] <= asked.repeats
      /\ (repeat <=> repeat_countdown[r] < asked.repeats)
  BY <1>1 DEF RequestInv
<1>3. PICK n \in Nat, t \in Nat, a \in Nat, cd \in Nat :
        n = Parts /\ t = transmit_state[code] /\ a = asked.repeats /\ cd = repeat_countdown[r]
  BY <1>1, <1>2
<1>4. PICK j \in Nat : j = a - cd
  <2>1. a - cd \in Nat
    BY <1>2, <1>3
  <2> QED
    BY <2>1
<1>5. RoundsBefore = n * j
  BY <1>3, <1>4 DEF RoundsBefore
<1>6. FrameNo = n * j + t
  <2>1. CASE pc = "frame"
    BY <1>3, <1>5, <2>1 DEF FrameNo, CountInv
  <2>2. CASE pc # "frame"
    <3>1. FramesSent = RoundsBefore + transmit_state[code] + 1
      BY <2>2 DEF CountInv
    <3>2. FramesSent - 1 = RoundsBefore + transmit_state[code]
      BY <1>1, <3>1
    <3> QED
      BY <1>3, <1>5, <2>2, <3>2 DEF FrameNo
  <2> QED
    BY <2>1, <2>2
<1>7. n > 0 /\ t < n
  BY <1>1, <1>3
<1>8. j \in Int /\ j <= a
  BY <1>4
<1>9. (n * j + t) % n = t
  BY <1>7, <1>8, RoundOf
<1>10. n * j + t >= n <=> j > 0
  BY <1>7, RoundOf2
<1>11. n * j + t < n * (1 + a) /\ n * (1 + a) \in Nat
  BY <1>7, <1>8, RoundsBelow
<1>12. j > 0 <=> repeat
  BY <1>2, <1>3, <1>4
<1> QED
  BY <1>3, <1>6, <1>9, <1>10, <1>11, <1>12

\* What BeginFrame sends is the frame that is planned.
LEMMA FrameBegun ==
  ASSUME SendInv, CountInv, RequestInv, BeginFrame, pc' # "idle", ~asked.disturbed, ~Endless
  PROVE  todo' = PlannedFrame(FrameNo)
<1> DEFINE r == Code[code].remote
<1>1. pc = "frame"
  BY DEF BeginFrame
<1>2. /\ FrameNo % Parts = transmit_state[code]
      /\ FrameNo >= Parts <=> repeat
  BY <1>1, FramePlace
<1>3. ~(raw /\ ~SendsRepeat /\ Code[code].signals = <<>>)
  BY DEF BeginFrame, Fail
<1>4. todo' = CASE SendsRepeat -> RepeatMarks(R)
                [] raw /\ ~SendsRepeat -> RawMarks(Code[code].signals)
                [] OTHER -> CodeMarks(R, Code[code].parts[PartNo], repeat, ToggleOf(r))
  BY <1>3 DEF BeginFrame
<1>5. PlannedFrame(FrameNo) =
        IF SendsRepeat THEN RepeatMarks(R)
        ELSE IF raw THEN RawMarks(Code[code].signals)
        ELSE CodeMarks(R, Code[code].parts[PartNo], FrameNo >= Parts,
                       [mask |-> FrameNo - asked.part, bits |-> asked.bits])
  BY <1>2 DEF PlannedFrame, Parts, SendsRepeat, PartNo
<1>6. CASE SendsRepeat
  BY <1>4, <1>5, <1>6
<1>7. CASE ~SendsRepeat /\ raw
  BY <1>4, <1>5, <1>7
<1>8. CASE ~SendsRepeat /\ ~raw
  <2>1. todo' = CodeMarks(R, Code[code].parts[PartNo], repeat, ToggleOf(r))
    BY <1>4, <1>8
  <2>2. (FrameNo >= Parts) = repeat
    <3>1. repeat \in BOOLEAN /\ (FrameNo >= Parts) \in BOOLEAN
      BY DEF SendInv, TypeOK
    <3> QED
      BY <1>2, <3>1
  <2>3. FrameNo - asked.part = asked.frames
    BY <1>1, FrameNumbers, CountTypes DEF Asked
  <2>4. R.toggle_mask = {} \/ toggle_mask_state[r] % 2 = asked.frames % 2
    BY <1>1, <1>8 DEF RequestInv, ToggleCounted, FramesCounted
  <2>5. toggle_bit_mask_state[r] = asked.bits
    BY <1>1 DEF RequestInv
  <2>6. /\ asked.frames \in Nat /\ r \in Remotes /\ code \in Codes
        /\ toggle_mask_state[r] \in Nat
    <3>1. toggle_mask_state \in [Remotes -> 0 .. 3] /\ r \in Remotes
      BY Facts DEF SendInv, TypeOK
    <3>2. toggle_mask_state[r] \in 0 .. 3
      BY <3>1
    <3> QED
      BY <3>1, <3>2, CountTypes DEF Asked
  <2>7. Code[code].parts[PartNo] \in Bits
    <3>1. Code[code].parts \in Seq(Bits)
      BY <2>6, CodeAssumption DEF Bits
    <3>2. PartNo \in 1 .. Len(Code[code].parts)
      BY CountTypes DEF PartNo, Parts
    <3> QED
      BY <3>1, <3>2
  <2>8. R.pre_data \in Bits /\ R.post_data \in Bits
    BY <2>6, DataAssumption DEF R, Bits
  <2>9. CodeMarks(R, Code[code].parts[PartNo], repeat,
                  [mask |-> toggle_mask_state[r], bits |-> asked.bits])
          = CodeMarks(R, Code[code].parts[PartNo], repeat,
                      [mask |-> asked.frames, bits |-> asked.bits])
    <3>1. PICK rm, bits, again, on :
            rm = R /\ bits = Code[code].parts[PartNo] /\ again = repeat /\ on = asked.bits
      OBVIOUS
    <3>0. PICK m1 \in Nat, m2 \in Nat : m1 = toggle_mask_state[r] /\ m2 = asked.frames
      BY <2>6
    <3>2. /\ bits \in Bits /\ rm.pre_data \in Bits /\ rm.post_data \in Bits
          /\ rm.toggle_mask = {} \/ m1 % 2 = m2 % 2
      BY <2>4, <2>7, <2>8, <3>0, <3>1
    <3>3. CodeMarks(rm, bits, again, [mask |-> m1, bits |-> on])
            = CodeMarks(rm, bits, again, [mask |-> m2, bits |-> on])
      BY <3>2, SameFrame
    <3> QED
      BY <3>0, <3>1, <3>3
  <2>10. ToggleOf(r) = [mask |-> toggle_mask_state[r], bits |-> asked.bits]
    BY <2>5 DEF ToggleOf
  <2>11. PlannedFrame(FrameNo) = CodeMarks(R, Code[code].parts[PartNo], repeat,
                                           [mask |-> asked.frames, bits |-> asked.bits])
    BY <1>5, <1>8, <2>2, <2>3
  <2> QED
    BY <2>1, <2>9, <2>10, <2>11
<1> QED
  BY <1>6, <1>7, <1>8

\* The gap that ComputeGap computes is the one that is planned.
LEMMA GapComputed ==
  ASSUME SendInv, CountInv, RequestInv, ComputeGap, ~Endless,
         send_buffer.sum = Total(UpToPulse(PlannedFrame(FrameNo))) - HeaderLeftOut
  PROVE  /\ pc' # "idle" => GapOf(Code[code].remote)' = PlannedGap(FrameNo)
         /\ pc' = "idle" => PlannedGap(FrameNo) <= 0
<1> DEFINE r == Code[code].remote
<1>1. pc = "gap" /\ code' = code
  BY DEF ComputeGap
<1>2. FrameNo >= Parts <=> repeat
  BY <1>1, FramePlace
<1>3. /\ r \in Remotes /\ min_gap(R) \in Nat /\ min_gap(R) > 0
      /\ R.repeat_gap \in Nat /\ send_buffer.sum \in Int
      /\ min_remaining_gap \in [Remotes -> Nat]
      /\ R.header[1] \in Nat /\ R.header[2] \in Nat
  BY Facts, RemoteAssumption DEF R, SendInv, TypeOK
<1>4. PICK total : total = Total(UpToPulse(PlannedFrame(FrameNo)))
  OBVIOUS
<1>5. HeaderLeftOut = IF ~raw /\ ~repeat /\ "NO_HEAD_REP" \in R.flags /\ is_const(R)
                      THEN R.header[1] + R.header[2] ELSE 0
  BY DEF HeaderLeftOut, is_const
<1>6. FrameNo \in Nat /\ Parts \in Nat
  BY <1>1, FrameNumbers, CountTypes
<1>7. FrameNo < Parts <=> ~repeat
  BY <1>2, <1>6
<1>8. PlannedGap(FrameNo)
        = IF R.repeat_gap > 0 /\ SendsRepeat THEN R.repeat_gap
          ELSE IF is_const(R)
          THEN min_gap(R) - (total - (IF ~raw /\ ~repeat /\ "NO_HEAD_REP" \in R.flags
                                      THEN R.header[1] + R.header[2] ELSE 0))
          ELSE min_gap(R)
  BY <1>2, <1>4, <1>7 DEF PlannedGap, Parts, SendsRepeat
<1>9. PlannedGap(FrameNo)
        = IF R.repeat_gap > 0 /\ SendsRepeat THEN R.repeat_gap
          ELSE IF is_const(R) THEN min_gap(R) - send_buffer.sum ELSE min_gap(R)
  BY <1>4, <1>5, <1>8
<1>10. /\ min_remaining_gap' = [min_remaining_gap EXCEPT ![r] =
              IF R.repeat_gap > 0 /\ SendsRepeat THEN R.repeat_gap
              ELSE IF is_const(R) /\ min_gap(R) > send_buffer.sum
              THEN min_gap(R) - send_buffer.sum ELSE min_gap(R)]
       /\ pc' = "idle" <=> /\ ~(R.repeat_gap > 0 /\ SendsRepeat)
                           /\ is_const(R) /\ ~(min_gap(R) > send_buffer.sum)
  <2> DEFINE g == IF R.repeat_gap > 0 /\ SendsRepeat THEN R.repeat_gap
                  ELSE IF (~(R.repeat_gap > 0 /\ SendsRepeat) /\ is_const(R))
                          /\ min_gap(R) > send_buffer.sum
                  THEN RemainingGap ELSE min_gap(R)
             h == IF R.repeat_gap > 0 /\ SendsRepeat THEN R.repeat_gap
                  ELSE IF is_const(R) /\ min_gap(R) > send_buffer.sum
                  THEN min_gap(R) - send_buffer.sum ELSE min_gap(R)
  <2>1. min_remaining_gap' = [min_remaining_gap EXCEPT ![r] = g]
    BY DEF ComputeGap
  <2>2. g = h
    BY DEF RemainingGap
  <2> HIDE DEF g
  <2>3. min_remaining_gap' = [min_remaining_gap EXCEPT ![r] = h]
    BY <2>1, <2>2
  <2>4. pc' = "idle" <=> /\ ~(R.repeat_gap > 0 /\ SendsRepeat)
                         /\ is_const(R) /\ ~(min_gap(R) > send_buffer.sum)
    BY DEF ComputeGap, Fail
  <2> QED
    BY <2>3, <2>4
<1>11. CASE pc' = "idle"
  <2>1. /\ ~(R.repeat_gap > 0 /\ SendsRepeat)
        /\ is_const(R) /\ ~(min_gap(R) > send_buffer.sum)
    BY <1>10, <1>11
  <2>2. PlannedGap(FrameNo) = min_gap(R) - send_buffer.sum
    BY <1>9, <2>1
  <2>3. min_gap(R) - send_buffer.sum <= 0
    BY <1>3, <2>1
  <2> QED
    BY <1>11, <2>2, <2>3
<1>12. CASE pc' # "idle"
  <2>1. min_remaining_gap'[r] =
          IF R.repeat_gap > 0 /\ SendsRepeat THEN R.repeat_gap
          ELSE IF is_const(R) /\ min_gap(R) > send_buffer.sum
          THEN min_gap(R) - send_buffer.sum ELSE min_gap(R)
    BY <1>3, <1>10
  <2>2. min_remaining_gap'[r] = PlannedGap(FrameNo)
    BY <1>9, <1>10, <1>12, <2>1
  <2> QED
    BY <1>1, <1>12, <2>2 DEF GapOf
<1> QED
  BY <1>11, <1>12

\* What of a frame was sent is counted: sum leaves out what is pending.
SumOf(b, done) ==
  ~b.too_long =>
    /\ b.sum + b.pendingp + b.pendings = Total(done)
    /\ ~SendsRaw =>
         b.sum + b.pendingp = IF done = <<>> THEN 0 ELSE Total(UpToPulse(done))

FramesBefore == IF pc = "frame" THEN asked.frames ELSE asked.frames - 1

\* After n whole frames, in or before frame k.
CarriesUpTo(n, k) ==
  /\ GapsUpTo(n)
  /\ pc = "frame" => Carries(send_buffer, SentFrames(n))
  /\ pc = "marks" =>
       \E done \in Seq(Mark) :
         /\ done \o todo = PlannedFrame(k) /\ Carries(send_buffer, SentFrames(n) \o done)
         /\ SumOf(send_buffer, done)
  /\ pc \in {"gap", "space"} =>
       /\ Carries(send_buffer, SentFrames(n) \o PlannedFrame(k))
       /\ send_buffer.sum = Total(UpToPulse(PlannedFrame(k))) - HeaderLeftOut
  /\ pc = "space" => GapOf(Code[code].remote) = PlannedGap(k)

\* As long as nothing else writes to the remote, the buffer holds the plan up to here.
CarryInv ==
  pc # "idle" /\ ~asked.disturbed /\ ~Endless =>
    \A n \in Nat, k \in Nat : n = FramesBefore /\ k = FrameNo => CarriesUpTo(n, k)

LEMMA CarryTypes ==
  ASSUME SendInv, CountInv, RequestInv, pc # "idle",
         NEW n \in Nat, NEW k \in Nat, n = FramesBefore, k = FrameNo, GapsUpTo(n)
  PROVE  /\ Plannable /\ asked.part <= k /\ k = asked.part + n
         /\ SentFrames(n) \in Seq(Mark) /\ PlannedFrame(k) \in Seq(Mark)
         /\ pc # "frame" => PlannedFrame(k) # <<>> /\ PlannedFrame(k)[1].kind = "pulse"
<1>1. /\ Plannable /\ asked.part \in Nat /\ asked.part <= k /\ k = asked.part + n
  BY FrameNumbers DEF FramesBefore
<1>2. SentFrames(n) \in Seq(Mark)
  BY <1>1, SentType
<1>3. /\ code \in Codes /\ Code[code].remote \in Remotes /\ asked \in Asked
      /\ asked.bits \in SUBSET R.toggle_bit_mask
  BY <1>1 DEF Plannable
<1>4. pc # "frame" => ~(raw /\ Code[code].signals = <<>>)
  BY DEF RequestInv
<1> QED
  BY <1>1, <1>2, <1>3, <1>4, FramePlanned

LEMMA CarryStart ==
  ASSUME SendInv, NEW c \in Codes, NEW n \in Int, MayStart, Start(c, n)
  PROVE  CarryInv'
<1>1. CASE Unsupported(Code[c].remote)
  <2>1. pc' = "idle"
    BY <1>1 DEF Start, MayStart
  <2> QED
    BY <2>1 DEF CarryInv
<1>2. CASE ~Unsupported(Code[c].remote)
  <2>1. pc' = "frame" /\ send_buffer' = Cleared /\ asked'.frames = 0
    BY <1>2 DEF Start
  <2>2. FramesBefore' = 0
    BY <2>1 DEF FramesBefore
  <2> SUFFICES ASSUME NEW i \in Nat, i = 0, NEW k \in Nat PROVE CarriesUpTo(i, k)'
    BY <2>2 DEF CarryInv
  <2>3. GapsUpTo(i)'
    <3> SUFFICES ASSUME NEW l \in Nat, asked'.part <= l, l < asked'.part + i
                 PROVE  FALSE
      BY DEF GapsUpTo
    <3>1. asked'.part \in Int
      <4>1. asked'.part = transmit_state[c]
        BY DEF Start
      <4>2. transmit_state[c] \in Nat
        BY DEF SendInv, TypeOK
      <4> QED
        BY <4>1, <4>2
    <3> QED
      BY <3>1
  <2>4. SentFrames(i)' = <<>>
    <3>1. [j \in 1 .. i |-> Framed(asked.part + j - 1)'] = <<>>
      OBVIOUS
    <3> QED
      BY <3>1, FlattenAppend DEF SentFrames
  <2>5. Content(Cleared) = <<>> /\ ~Cleared.too_long
    BY DEF Content, Cleared
  <2>6. Carries(Cleared, <<>>)
    BY <2>5, MergedAppend DEF Carries
  <2> QED
    BY <2>1, <2>3, <2>4, <2>6 DEF CarriesUpTo
<1> QED
  BY <1>1, <1>2

LEMMA CarryBegin ==
  ASSUME SumsInv, RequestInv, CarryInv, BeginFrame, pc' # "idle"
  PROVE  CarryInv'
<1>1. /\ pc = "frame" /\ pc' = "marks" /\ UNCHANGED <<send_buffer, code, repeat>>
      /\ asked' = [asked EXCEPT !.from = Len(send_buffer.data), !.frames = @ + 1]
  BY DEF BeginFrame, Fail
<1>2. SendInv /\ CountInv /\ SumInv
  BY DEF SumsInv
<1>3. /\ asked'.part = asked.part /\ asked'.bits = asked.bits /\ asked'.repeats = asked.repeats
      /\ asked'.frames = asked.frames + 1 /\ asked'.disturbed = asked.disturbed
  BY <1>1, <1>2, CountTypes DEF Asked
<1>4. asked.frames \in Nat /\ asked.part \in Nat
  BY <1>2, CountTypes DEF Asked
<1>5. FramesBefore' = FramesBefore /\ FrameNo' = FrameNo
  BY <1>1, <1>3, <1>4 DEF FramesBefore, FrameNo, FramesSent
<1>6. Endless' <=> Endless
  BY <1>1 DEF Endless, R
<1> SUFFICES ASSUME ~asked.disturbed, ~Endless, NEW n \in Nat, NEW k \in Nat,
                    n = FramesBefore, k = FrameNo
             PROVE  CarriesUpTo(n, k)'
  BY <1>3, <1>5, <1>6 DEF CarryInv
<1>7. CarriesUpTo(n, k)
  BY <1>1 DEF CarryInv
<1>8. GapsUpTo(n) /\ Carries(send_buffer, SentFrames(n))
  BY <1>1, <1>7 DEF CarriesUpTo, FramesBefore
<1>9. /\ PlannedFrame(k)' = PlannedFrame(k) /\ SentFrames(n)' = SentFrames(n)
      /\ GapsUpTo(n)' <=> GapsUpTo(n)
  BY <1>1, <1>3, PlanKept
<1>10. /\ SentFrames(n) \in Seq(Mark) /\ PlannedFrame(k) \in Seq(Mark)
  BY <1>1, <1>2, <1>8, CarryTypes
<1>11. todo' = PlannedFrame(k)
  BY <1>1, <1>2, FrameBegun
<1>12. <<>> \o todo' = PlannedFrame(k) /\ SentFrames(n) \o <<>> = SentFrames(n) /\ <<>> \in Seq(Mark)
  <2>1. PICK s \in Seq(Mark), t \in Seq(Mark) : s = SentFrames(n) /\ t = PlannedFrame(k)
    BY <1>10
  <2>2. s \o <<>> = s /\ <<>> \o t = t
    BY ConcatEmptySeq
  <2> QED
    BY <1>11, <2>1, <2>2, EmptySeq
<1>13. SumOf(send_buffer, <<>>)'
  <2>1. send_buffer.sum = 0 /\ send_buffer.pendingp = 0 /\ send_buffer.pendings = 0
    <3>1. ~Pending(send_buffer) /\ Whole(send_buffer)
      BY <1>1, <1>2, Facts DEF SendInv
    <3> QED
      BY <1>1, <1>2, <3>1 DEF SumInv, Pending, Whole, BufferType
  <2> QED
    BY <1>1, <2>1, TotalAppend DEF SumOf
<1>14. \E done \in Seq(Mark) :
         /\ done \o todo' = PlannedFrame(k)' /\ Carries(send_buffer', SentFrames(n)' \o done)
         /\ SumOf(send_buffer, done)'
  BY <1>1, <1>8, <1>9, <1>12, <1>13
<1> QED
  BY <1>1, <1>8, <1>9, <1>14 DEF CarriesUpTo

\* One mark more of a frame is sent.
LEMMA SumMarked ==
  ASSUME NEW b, NEW c, NEW m \in Mark, NEW done \in Seq(Mark),
         SumOf(b, done), Taken(b, c, m), b \in BufferType, c \in BufferType,
         ~SendsRaw => IF done = <<>> THEN m.kind = "pulse" ELSE done[1].kind = "pulse",
         SendsRaw => ~Pending(b) /\ ~Pending(c)
  PROVE  SumOf(c, Append(done, m))
<1> SUFFICES ASSUME ~c.too_long PROVE SumOf(c, Append(done, m))
  BY DEF SumOf
<1>1. ~b.too_long
  BY DEF Taken
<1>2. /\ b.sum \in Int /\ b.pendingp \in Nat /\ b.pendings \in Nat /\ m.us \in Nat
      /\ c.sum \in Int /\ c.pendingp \in Nat /\ c.pendings \in Nat
      /\ m.kind \in {"pulse", "space"}
  BY DEF BufferType, Mark
<1>3. Total(Append(done, m)) = Total(done) + m.us /\ Total(done) \in Nat
  BY TotalAppend, TotalNat
<1>4. b.sum + b.pendingp + b.pendings = Total(done)
  BY <1>1 DEF SumOf
<1>5. Append(done, m) # <<>>
  OBVIOUS
<1>6. CASE SendsRaw
  <2>1. c.sum = b.sum + m.us
    BY <1>6 DEF Taken
  <2>2. b.pendingp = 0 /\ b.pendings = 0 /\ c.pendingp = 0 /\ c.pendings = 0
    BY <1>2, <1>6 DEF Pending
  <2>3. c.sum + c.pendingp + c.pendings = Total(Append(done, m))
    BY <1>2, <1>3, <1>4, <2>1, <2>2
  <2> QED
    BY <1>6, <2>3 DEF SumOf
<1>7. CASE ~SendsRaw /\ m.kind = "pulse"
  <2>1. c.pendings = 0 /\ c.sum + c.pendingp = b.sum + b.pendingp + b.pendings + m.us
    BY <1>7 DEF Taken
  <2>2. c.sum + c.pendingp = Total(Append(done, m))
    BY <1>3, <1>4, <2>1
  <2>3. c.sum + c.pendingp + c.pendings = Total(Append(done, m))
    BY <1>2, <2>1, <2>2
  <2>4. UpToPulse(Append(done, m)) = Append(done, m)
    BY <1>7, UpToPulseAppend
  <2> QED
    BY <1>5, <2>2, <2>3, <2>4 DEF SumOf
<1>8. CASE ~SendsRaw /\ m.kind # "pulse"
  <2>1. c.sum + c.pendingp = b.sum + b.pendingp /\ c.pendings = b.pendings + m.us
    BY <1>8 DEF Taken
  <2>2. c.sum + c.pendingp + c.pendings = Total(Append(done, m))
    BY <1>2, <1>3, <1>4, <2>1
  <2>3. done # <<>> /\ done[1].kind = "pulse"
    BY <1>8
  <2>4. \E i \in 1 .. Len(done) : done[i].kind = "pulse"
    <3>1. 1 \in 1 .. Len(done)
      BY <2>3
    <3> QED
      BY <2>3, <3>1
  <2>5. UpToPulse(Append(done, m)) = UpToPulse(done)
    BY <1>8, <2>4, UpToPulseAppend
  <2>6. c.sum + c.pendingp = Total(UpToPulse(done))
    BY <1>1, <1>8, <2>1, <2>3 DEF SumOf
  <2> QED
    BY <1>5, <2>2, <2>5, <2>6 DEF SumOf
<1> QED
  BY <1>6, <1>7, <1>8

LEMMA HeadMoved ==
  ASSUME NEW S, NEW done \in Seq(S), NEW todos \in Seq(S), todos # <<>>
  PROVE  /\ Append(done, Head(todos)) \o Tail(todos) = done \o todos
         /\ IF done = <<>> THEN (done \o todos)[1] = Head(todos) ELSE (done \o todos)[1] = done[1]
<1>1. /\ Head(todos) \in S /\ Tail(todos) \in Seq(S) /\ todos = <<Head(todos)>> \o Tail(todos)
      /\ Len(todos) \in Nat /\ Len(todos) > 0
  OBVIOUS
<1>2. PICK h \in S, t \in Seq(S) : h = Head(todos) /\ t = Tail(todos)
  BY <1>1
<1>3. Append(done, h) = done \o <<h>>
  OBVIOUS
<1>4. (done \o <<h>>) \o t = done \o (<<h>> \o t)
  <2>1. <<h>> \in Seq(S)
    OBVIOUS
  <2> QED
    BY <2>1, ConcatAssociative
<1>5. CASE done = <<>>
  BY <1>1, <1>5
<1>6. CASE done # <<>>
  <2>1. Len(done) \in Nat /\ Len(done) > 0
    BY <1>6
  <2>2. (done \o todos)[1] = done[1]
    BY <1>1, <2>1
  <2> QED
    BY <1>6, <2>2
<1> QED
  BY <1>1, <1>2, <1>3, <1>4, <1>5, <1>6

LEMMA CarryMark ==
  ASSUME SumsInv, RequestInv, CarryInv, SendMark
  PROVE  CarryInv'
<1>1. /\ pc = "marks" /\ pc' = "marks" /\ todo' = Tail(todo) /\ UNCHANGED <<asked, code, repeat>>
  BY DEF SendMark
<1>2. SendInv /\ CountInv
  BY DEF SumsInv
<1>3. FramesBefore' = FramesBefore /\ FrameNo' = FrameNo /\ (Endless' <=> Endless)
      /\ (SendsRaw' <=> SendsRaw)
  BY <1>1 DEF FramesBefore, FrameNo, FramesSent, Endless, SendsRaw, SendsRepeat, raw, R
<1> SUFFICES ASSUME ~asked.disturbed, ~Endless, NEW n \in Nat, NEW k \in Nat,
                    n = FramesBefore, k = FrameNo
             PROVE  CarriesUpTo(n, k)'
  BY <1>1, <1>3 DEF CarryInv
<1>4. CarriesUpTo(n, k)
  BY <1>1 DEF CarryInv
<1>5. GapsUpTo(n)
  BY <1>4 DEF CarriesUpTo
<1>6. PICK done \in Seq(Mark) :
        /\ done \o todo = PlannedFrame(k) /\ Carries(send_buffer, SentFrames(n) \o done)
        /\ SumOf(send_buffer, done)
  BY <1>1, <1>4 DEF CarriesUpTo
<1>7. /\ PlannedFrame(k)' = PlannedFrame(k) /\ SentFrames(n)' = SentFrames(n)
      /\ GapsUpTo(n)' <=> GapsUpTo(n)
  BY <1>1, PlanKept
<1>8. /\ SentFrames(n) \in Seq(Mark) /\ PlannedFrame(k)[1].kind = "pulse"
  BY <1>1, <1>2, <1>5, CarryTypes
<1>9. /\ Whole(send_buffer) /\ todo \in Seq(Mark) /\ todo # <<>> /\ Head(todo) \in Mark
      /\ Taken(send_buffer, send_buffer', Head(todo))
  BY <1>2, MarkTaken
<1>10. PICK m \in Mark : m = Head(todo)
  BY <1>9
<1>11. PICK b, c : b = send_buffer /\ c = send_buffer'
  OBVIOUS
<1>12. SendInv'
  BY <1>2, SendMarkKeeps
<1>13. b \in BufferType /\ c \in BufferType
  BY <1>2, <1>11, <1>12 DEF SendInv, TypeOK, BufferType
<1>14. Append(done, m) \in Seq(Mark) /\ Append(done, m) \o todo' = PlannedFrame(k)
       /\ IF done = <<>> THEN m.kind = "pulse" ELSE done[1].kind = "pulse"
  <2>1. PICK td \in Seq(Mark) : td = todo /\ td # <<>>
    BY <1>9
  <2>2. /\ Append(done, Head(td)) \o Tail(td) = done \o td
        /\ IF done = <<>> THEN (done \o td)[1] = Head(td) ELSE (done \o td)[1] = done[1]
    BY <2>1, HeadMoved
  <2>3. Append(done, m) \in Seq(Mark)
    OBVIOUS
  <2>4. done \o td = PlannedFrame(k)
    BY <1>6, <2>1
  <2>5. IF done = <<>> THEN m.kind = "pulse" ELSE done[1].kind = "pulse"
    BY <1>8, <1>10, <2>1, <2>2, <2>4
  <2>6. Append(done, m) \o todo' = PlannedFrame(k)
    BY <1>1, <1>10, <2>1, <2>2, <2>4
  <2> QED
    BY <2>3, <2>5, <2>6
<1>15. Carries(c, SentFrames(n) \o Append(done, m))
  <2>1. PICK s \in Seq(Mark) : s = SentFrames(n)
    BY <1>8
  <2>2. PICK u \in Seq(Mark) : u = s \o done
    BY ConcatProperties
  <2>3. s \o Append(done, m) = Append(u, m)
    BY <2>2, ConcatAppend
  <2>4. Carries(b, u) /\ Taken(b, c, m)
    BY <1>6, <1>9, <1>10, <1>11, <2>1, <2>2
  <2>5. Carries(c, Append(u, m))
    BY <2>4, CarriesOn DEF Taken
  <2> QED
    BY <2>1, <2>3, <2>5
<1>16. SendsRaw => ~Pending(b) /\ ~Pending(c)
  BY <1>1, <1>2, <1>3, <1>11, <1>12 DEF SendInv, MarksFit
<1>17. SumOf(c, Append(done, m))
  BY <1>6, <1>9, <1>10, <1>11, <1>13, <1>14, <1>16, SumMarked
<1>18. SumOf(send_buffer, Append(done, m))'
  BY <1>3, <1>11, <1>17 DEF SumOf
<1>19. \E d \in Seq(Mark) :
         /\ d \o todo' = PlannedFrame(k)' /\ Carries(send_buffer', SentFrames(n)' \o d)
         /\ SumOf(send_buffer, d)'
  BY <1>7, <1>11, <1>14, <1>15, <1>18
<1> QED
  BY <1>1, <1>5, <1>7, <1>19 DEF CarriesUpTo

\* A raw code ends in a pulse.
LEMMA RawEnds ==
  ASSUME SendInv, CountInv, RequestInv, pc \in {"frame", "marks", "gap"}, ~Endless, SendsRaw,
         Code[code].signals # <<>>, NEW k \in Nat, k = FrameNo
  PROVE  UpToPulse(PlannedFrame(k)) = PlannedFrame(k)
<1>1. FrameNo >= Parts <=> repeat
  BY FramePlace
<1>2. PlannedFrame(k) = RawMarks(Code[code].signals)
  BY <1>1 DEF PlannedFrame, Parts, SendsRaw, SendsRepeat
<1>3. PICK signals \in Seq(Nat \ {0}) : signals = Code[code].signals /\ Len(signals) % 2 = 1
  BY Facts, CodeAssumption, RawAssumption
<1>4. PICK s \in Seq(Mark) : s = RawMarks(signals) /\ Len(s) = Len(signals)
  BY RawMarksFit
<1>5. PICK n \in Nat : Len(s) = n + 1
  <2>1. Len(s) \in Nat /\ Len(s) > 0
    BY <1>3, <1>4
  <2>2. Len(s) - 1 \in Nat /\ Len(s) = (Len(s) - 1) + 1
    BY <2>1
  <2> QED
    BY <2>2
<1>6. s[n + 1].kind = "pulse"
  <2>1. n + 1 \in 1 .. Len(signals) /\ (n + 1) % 2 = 1
    BY <1>3, <1>4, <1>5
  <2>2. RawMarks(signals)[n + 1].kind = "pulse"
    BY <2>1, RawMarksFit
  <2> QED
    BY <1>4, <2>2
<1>7. PICK d \in Seq(Mark), m \in Mark : s = Append(d, m) /\ Len(d) = n
  BY <1>5, LastSplit
<1>8. m.kind = "pulse"
  <2>1. Append(d, m)[Len(d) + 1] = m
    OBVIOUS
  <2> QED
    BY <1>6, <1>7, <2>1
<1>9. UpToPulse(s) = s
  BY <1>7, <1>8, UpToPulseAppend
<1> QED
  BY <1>2, <1>3, <1>4, <1>9

\* When a frame ends it is all in the buffer, or the buffer is too small for it.
LEMMA FrameWhole ==
  ASSUME SumsInv, RequestInv, CarryInv, EndFrame, ~asked.disturbed, ~Endless,
         NEW n \in Nat, NEW k \in Nat, n = FramesBefore, k = FrameNo
  PROVE  /\ GapsUpTo(n) /\ Carries(send_buffer', SentFrames(n) \o PlannedFrame(k))
         /\ pc' # "idle" =>
              /\ ~send_buffer'.too_long
              /\ send_buffer'.sum = Total(UpToPulse(PlannedFrame(k))) - HeaderLeftOut
         /\ pc' = "idle" =>
              send_buffer'.too_long /\ result' = "failed"
<1>1. pc = "marks" /\ todo = <<>>
  BY DEF EndFrame
<1>2. SendInv /\ CountInv /\ RawInv
  BY DEF SumsInv
<1>3. CarriesUpTo(n, k)
  BY <1>1 DEF CarryInv
<1>4. GapsUpTo(n)
  BY <1>3 DEF CarriesUpTo
<1>5. PICK done \in Seq(Mark) :
        /\ done \o todo = PlannedFrame(k) /\ Carries(send_buffer, SentFrames(n) \o done)
        /\ SumOf(send_buffer, done)
  BY <1>1, <1>3 DEF CarriesUpTo
<1>6. done = PlannedFrame(k)
  <2>1. done \o <<>> = done
    BY ConcatEmptySeq
  <2> QED
    BY <1>1, <1>5, <2>1
<1>7. PICK marks \in Seq(Mark) : marks = SentFrames(n) \o PlannedFrame(k)
  <2>1. SentFrames(n) \in Seq(Mark) /\ PlannedFrame(k) \in Seq(Mark)
    BY <1>1, <1>2, <1>4, CarryTypes
  <2> QED
    BY <2>1, ConcatProperties
<1>8. PlannedFrame(k) # <<>>
  BY <1>1, <1>2, <1>4, CarryTypes
<1>9. PICK b : b = [send_buffer EXCEPT !.sum = @ - HeaderLeftOut]
  OBVIOUS
<1>10. /\ HeaderLeftOut \in Int /\ b.too_long = send_buffer.too_long
       /\ b.pendingp = send_buffer.pendingp /\ b.sum = send_buffer.sum - HeaderLeftOut
       /\ Content(b) = Content(send_buffer) /\ SyncedFrom(send_buffer', b)
       /\ IF send_buffer'.too_long THEN pc' = "idle" /\ result' = "failed" ELSE pc' = "gap"
  BY <1>2, <1>9, FrameEnds
<1>11. Carries(send_buffer, marks)
  BY <1>5, <1>6, <1>7
<1>12. CASE send_buffer'.too_long
  <2>1. send_buffer.too_long \/ Len(Content(send_buffer)) > WBUF_SIZE
    BY <1>10, <1>12 DEF SyncedFrom
  <2>2. Len(Merged(marks)) > WBUF_SIZE
    BY <1>11, <2>1 DEF Carries
  <2> QED
    BY <1>4, <1>7, <1>10, <1>12, <2>2 DEF Carries
<1>13. CASE ~send_buffer'.too_long
  <2>1. /\ ~send_buffer.too_long /\ Content(send_buffer') = Content(send_buffer)
        /\ send_buffer'.sum = send_buffer.sum - HeaderLeftOut + send_buffer.pendingp
    BY <1>10, <1>13 DEF SyncedFrom
  <2>2. Content(send_buffer') = Merged(marks)
    BY <1>11, <2>1 DEF Carries
  <2>3. send_buffer \in BufferType
    BY <1>2 DEF SendInv, TypeOK, BufferType
  <2>4. send_buffer.sum + send_buffer.pendingp = Total(UpToPulse(PlannedFrame(k)))
    <3>1. CASE SendsRaw
      <4>1. send_buffer.pendingp = 0 /\ send_buffer.pendings = 0
        <5>1. ~Pending(send_buffer)
          BY <1>1, <1>2, <3>1 DEF SendInv, MarksFit
        <5> QED
          BY <2>3, <5>1 DEF Pending, BufferType
      <4>2. send_buffer.sum + send_buffer.pendingp + send_buffer.pendings = Total(PlannedFrame(k))
        BY <1>5, <1>6, <2>1 DEF SumOf
      <4>3. send_buffer.sum + send_buffer.pendingp = Total(PlannedFrame(k))
        <5>1. send_buffer.sum \in Int
          BY <2>3 DEF BufferType
        <5> QED
          BY <4>1, <4>2, <5>1
      <4>4. Code[code].signals # <<>>
        BY <1>1, <3>1 DEF RequestInv, SendsRaw
      <4>5. UpToPulse(PlannedFrame(k)) = PlannedFrame(k)
        BY <1>1, <1>2, <3>1, <4>4, RawEnds
      <4> QED
        BY <4>3, <4>5
    <3>2. CASE ~SendsRaw
      BY <1>5, <1>6, <1>8, <2>1, <3>2 DEF SumOf
    <3> QED
      BY <3>1, <3>2
  <2>5. send_buffer'.sum = Total(UpToPulse(PlannedFrame(k))) - HeaderLeftOut
    <3>1. send_buffer.sum \in Int /\ send_buffer.pendingp \in Nat
      BY <2>3 DEF BufferType
    <3> QED
      BY <1>10, <2>1, <2>4, <3>1
  <2> QED
    BY <1>4, <1>7, <1>10, <1>13, <2>2, <2>5 DEF Carries
<1> QED
  BY <1>12, <1>13

LEMMA CarryEnd ==
  ASSUME SumsInv, RequestInv, CarryInv, EndFrame, pc' # "idle"
  PROVE  CarryInv'
<1>1. /\ pc = "marks" /\ pc' = "gap" /\ UNCHANGED <<asked, code, repeat>>
  BY DEF EndFrame, Fail
<1>2. /\ FramesBefore' = FramesBefore /\ FrameNo' = FrameNo /\ (Endless' <=> Endless)
      /\ HeaderLeftOut' = HeaderLeftOut
  BY <1>1 DEF FramesBefore, FrameNo, FramesSent, Endless, HeaderLeftOut, raw, R
<1> SUFFICES ASSUME ~asked.disturbed, ~Endless, NEW n \in Nat, NEW k \in Nat,
                    n = FramesBefore, k = FrameNo
             PROVE  CarriesUpTo(n, k)'
  BY <1>1, <1>2 DEF CarryInv
<1>3. /\ PlannedFrame(k)' = PlannedFrame(k) /\ SentFrames(n)' = SentFrames(n)
      /\ GapsUpTo(n)' <=> GapsUpTo(n)
  BY <1>1, PlanKept
<1>4. /\ GapsUpTo(n) /\ Carries(send_buffer', SentFrames(n) \o PlannedFrame(k))
      /\ send_buffer'.sum = Total(UpToPulse(PlannedFrame(k))) - HeaderLeftOut
  BY FrameWhole
<1>5. UpToPulse(PlannedFrame(k))' = UpToPulse(PlannedFrame(k))
  BY <1>3 DEF UpToPulse
<1> QED
  BY <1>1, <1>2, <1>3, <1>4, <1>5 DEF CarriesUpTo

LEMMA CarryGap ==
  ASSUME SumsInv, RequestInv, CarryInv, ComputeGap, pc' # "idle"
  PROVE  CarryInv'
<1>1. /\ pc = "gap" /\ pc' = "space" /\ UNCHANGED <<send_buffer, asked, code, repeat>>
  BY DEF ComputeGap, Fail
<1>2. /\ FramesBefore' = FramesBefore /\ FrameNo' = FrameNo /\ (Endless' <=> Endless)
      /\ HeaderLeftOut' = HeaderLeftOut
  BY <1>1 DEF FramesBefore, FrameNo, FramesSent, Endless, HeaderLeftOut, raw, R
<1> SUFFICES ASSUME ~asked.disturbed, ~Endless, NEW n \in Nat, NEW k \in Nat,
                    n = FramesBefore, k = FrameNo
             PROVE  CarriesUpTo(n, k)'
  BY <1>1, <1>2 DEF CarryInv
<1>3. /\ PlannedFrame(k)' = PlannedFrame(k) /\ SentFrames(n)' = SentFrames(n)
      /\ (GapsUpTo(n)' <=> GapsUpTo(n)) /\ PlannedGap(k)' = PlannedGap(k)
  BY <1>1, PlanKept
<1>4. CarriesUpTo(n, k)
  BY <1>1 DEF CarryInv
<1>5. /\ GapsUpTo(n) /\ Carries(send_buffer, SentFrames(n) \o PlannedFrame(k))
      /\ send_buffer.sum = Total(UpToPulse(PlannedFrame(k))) - HeaderLeftOut
  BY <1>1, <1>4 DEF CarriesUpTo
<1>6. UpToPulse(PlannedFrame(k))' = UpToPulse(PlannedFrame(k))
  BY <1>3 DEF UpToPulse
<1>7. GapOf(Code[code].remote)' = PlannedGap(k)
  BY <1>1, <1>5, GapComputed DEF SumsInv
<1> QED
  BY <1>1, <1>2, <1>3, <1>5, <1>6, <1>7 DEF CarriesUpTo

\* What SendGap makes of it.
LEMMA FrameClosed ==
  ASSUME SumsInv, RequestInv, CarryInv, SendGap, ~asked.disturbed, ~Endless,
         NEW n \in Nat, NEW k \in Nat, n = FramesBefore, k = FrameNo, NEW l \in Nat, l = n + 1
  PROVE  LET f == Flush(Space(send_buffer, min_remaining_gap[Code[code].remote]))
         IN  /\ GapsUpTo(l) /\ Whole(f) /\ ~f.too_long /\ f.pendingp = 0 /\ f.pendings = 0
             /\ f.data = Merged(SentFrames(l)) /\ f.data # <<>>
<1>1. pc = "space"
  BY DEF SendGap
<1>2. SendInv /\ CountInv
  BY DEF SumsInv
<1>3. CarriesUpTo(n, k)
  BY <1>1 DEF CarryInv
<1>4. /\ GapsUpTo(n) /\ Carries(send_buffer, SentFrames(n) \o PlannedFrame(k))
      /\ GapOf(Code[code].remote) = PlannedGap(k)
  BY <1>1, <1>3 DEF CarriesUpTo
<1>5. PICK b : b = send_buffer
  OBVIOUS
<1>6. PICK us : us = min_remaining_gap[Code[code].remote]
  OBVIOUS
<1>7. PICK f : f = Flush(Space(b, us))
  OBVIOUS
<1>8. /\ Fits(b) /\ Whole(b) /\ ~b.too_long /\ Odd(Len(b.data)) /\ us > 0 /\ us \in Nat
      /\ us = PlannedGap(k)
  BY <1>1, <1>2, <1>4, <1>5, <1>6, Facts DEF SendInv, GapOf, TypeOK
<1>9. /\ Plannable /\ asked.part <= k /\ k = asked.part + n
      /\ SentFrames(n) \in Seq(Mark) /\ PlannedFrame(k) \in Seq(Mark)
  BY <1>1, <1>2, <1>4, CarryTypes
<1>10. GapsUpTo(l)
  <2> SUFFICES ASSUME NEW i \in Nat, asked.part <= i, i < asked.part + l
               PROVE  PlannedGap(i) \in Nat
    BY DEF GapsUpTo
  <2>1. asked.part \in Nat
    BY <1>2, CountTypes DEF Asked
  <2>2. i = k \/ i < asked.part + n
    BY <1>9, <2>1
  <2> QED
    BY <1>4, <1>8, <2>2 DEF GapsUpTo
<1>11. SentFrames(l) = SentFrames(n) \o Framed(k)
  <2>1. GapsUpTo(n + 1)
    BY <1>10
  <2>2. SentFrames(n + 1) = SentFrames(n) \o Framed(asked.part + n)
    BY <1>9, <2>1, SentMore
  <2> QED
    BY <1>9, <2>2
<1>12. PICK s \in Seq(Mark), p \in Seq(Mark), m \in Mark :
         s = SentFrames(n) /\ p = PlannedFrame(k) /\ m = SpaceMark(us)
  BY <1>8, <1>9, MarkMade
<1>13. Framed(k) = Append(p, m)
  BY <1>8, <1>9, <1>12, FramedType
<1>14. PICK marks \in Seq(Mark) : marks = s \o p
  BY ConcatProperties
<1>15. SentFrames(l) = Append(marks, m)
  <2>1. s \o Append(p, m) = Append(s \o p, m)
    BY ConcatAppend
  <2> QED
    BY <1>11, <1>12, <1>13, <1>14, <2>1
<1>16. Merged(SentFrames(l)) = Joined(Merged(marks), m)
  BY <1>15, MergedAppend
<1>17. Content(b) = Merged(marks)
  BY <1>4, <1>5, <1>8, <1>12, <1>14 DEF Carries
<1>18. /\ ~f.too_long /\ f.pendingp = 0 /\ f.pendings = 0
       /\ f.data = Append(b.data, SpaceMark(b.pendings + us))
       /\ f.data = Joined(Content(b), SpaceMark(us))
  BY <1>7, <1>8, GapCarried
<1>19. Whole(f)
  BY <1>7, <1>8, GapSent
<1>20. f.data # <<>>
  <2>1. b.data \in Seq(Mark)
    BY <1>8 DEF Whole, BufferType
  <2>2. PICK d \in Seq(Mark) : d = b.data
    BY <2>1
  <2>3. PICK x : x = SpaceMark(b.pendings + us)
    OBVIOUS
  <2>4. x \in Mark
    <3>1. b.pendings + us \in Nat
      BY <1>8 DEF Whole, BufferType
    <3> QED
      BY <2>3, <3>1, MarkMade
  <2>5. Append(d, x) # <<>>
    BY <2>4
  <2> QED
    BY <1>18, <2>2, <2>3, <2>5
<1> QED
  BY <1>5, <1>6, <1>7, <1>10, <1>12, <1>16, <1>17, <1>18, <1>19, <1>20

LEMMA CarrySpace ==
  ASSUME SumsInv, RequestInv, CarryInv, SendGap, pc' # "idle"
  PROVE  CarryInv'
<1>1. /\ pc = "space" /\ pc' = "frame" /\ UNCHANGED <<asked, code>>
  BY DEF SendGap
<1>2. SendInv /\ CountInv
  BY DEF SumsInv
<1>3. Endless' <=> Endless
  BY <1>1 DEF Endless, R
<1>4. FramesBefore = asked.frames - 1 /\ FramesBefore' = asked.frames
  BY <1>1 DEF FramesBefore
<1> SUFFICES ASSUME ~asked.disturbed, ~Endless, NEW l \in Nat, l = asked.frames, NEW k \in Nat
             PROVE  CarriesUpTo(l, k)'
  BY <1>1, <1>3, <1>4 DEF CarryInv
<1>5. PICK n \in Nat : n = FramesBefore /\ l = n + 1
  <2>1. asked.frames \in Nat /\ asked.frames - 1 \in Nat
    BY <1>1, <1>2, FrameNumbers, CountTypes DEF Asked
  <2> QED
    BY <1>4, <2>1
<1>6. PICK i \in Nat : i = FrameNo
  BY <1>1, <1>2, FrameNumbers
<1>7. PICK f : f = Flush(Space(send_buffer, min_remaining_gap[Code[code].remote]))
  OBVIOUS
<1>8. /\ GapsUpTo(l) /\ Whole(f) /\ ~f.too_long /\ f.pendingp = 0 /\ f.pendings = 0
      /\ f.data = Merged(SentFrames(l))
  BY <1>5, <1>6, <1>7, FrameClosed
<1>9. send_buffer' = [f EXCEPT !.sum = 0]
  BY <1>1, <1>7 DEF SendGap
<1>10. /\ send_buffer'.data = f.data /\ send_buffer'.too_long = f.too_long
       /\ send_buffer'.pendingp = 0 /\ send_buffer'.pendings = 0
  BY <1>8, <1>9 DEF Whole, BufferType
<1>11. Carries(send_buffer', SentFrames(l))
  <2>1. Content(send_buffer') = send_buffer'.data
    BY <1>10 DEF Content
  <2> QED
    BY <1>8, <1>10, <2>1 DEF Carries
<1>12. SentFrames(l)' = SentFrames(l) /\ (GapsUpTo(l)' <=> GapsUpTo(l))
  BY <1>1, PlanKept
<1> QED
  BY <1>1, <1>8, <1>11, <1>12 DEF CarriesUpTo

LEMMA CarryNext == SumsInv /\ RequestInv /\ CarryInv /\ [Next]_vars => CarryInv'
<1> SUFFICES ASSUME SumsInv, RequestInv, CarryInv, [Next]_vars PROVE CarryInv'
  OBVIOUS
<1>0. SendInv /\ CountInv
  BY DEF SumsInv
<1>1. CASE parseSendString \/ OnSendcode
  <2>1. \E c \in Codes, n \in Int : Start(c, n) /\ MayStart
    <3>1. \A c \in Codes, n \in Repeats :
            /\ Larger(n, Remote[Code[c].remote].min_repeat) \in Int
            /\ Smaller(Larger(n, Remote[Code[c].remote].min_repeat), RepeatCap) \in Int
      <4>1. \A c \in Codes, n \in Repeats :
              n \in Int /\ RepeatCap \in Int /\ Remote[Code[c].remote].min_repeat \in Int
        BY <1>0, BoundsAssumption, CodeAssumption, Facts
      <4> QED
        BY <4>1 DEF Larger, Smaller
    <3> QED
      BY <1>1, <3>1 DEF parseSendString, OnSendcode
  <2> QED
    BY <1>0, <2>1, CarryStart
<1>2. CASE SendMark
  BY <1>2, CarryMark
<1>3. CASE BeginFrame \/ EndFrame \/ ComputeGap \/ SendGap
  <2>1. CASE pc' = "idle"
    BY <2>1 DEF CarryInv
  <2>2. CASE pc' # "idle"
    BY <1>3, <2>2, CarryBegin, CarryEnd, CarryGap, CarrySpace
  <2> QED
    BY <2>1, <2>2
<1>4. CASE Decode
  <2>1. pc' = "idle" \/ asked'.disturbed
    BY <1>0, <1>4, DecodeAsked DEF Decode
  <2> QED
    BY <2>1 DEF CarryInv
<1>5. CASE UNCHANGED vars
  <2>1. UNCHANGED <<send_buffer, min_remaining_gap, pc, code, repeat, todo, asked>>
    BY <1>5 DEF vars, remoteVars
  <2> SUFFICES ASSUME pc # "idle", ~asked.disturbed, ~Endless, NEW n \in Nat, NEW k \in Nat,
                      n = FramesBefore, k = FrameNo
               PROVE  CarriesUpTo(n, k)'
    BY <2>1 DEF CarryInv, Endless, R, FramesBefore, FrameNo, FramesSent
  <2>2. CarriesUpTo(n, k)
    BY DEF CarryInv
  <2>3. /\ PlannedFrame(k)' = PlannedFrame(k) /\ SentFrames(n)' = SentFrames(n)
        /\ (GapsUpTo(n)' <=> GapsUpTo(n)) /\ PlannedGap(k)' = PlannedGap(k)
    BY <2>1, PlanKept
  <2>4. /\ HeaderLeftOut' = HeaderLeftOut
        /\ UpToPulse(PlannedFrame(k))' = UpToPulse(PlannedFrame(k))
        /\ GapOf(Code[code].remote)' = GapOf(Code[code].remote)
    BY <2>1, <2>3 DEF HeaderLeftOut, raw, R, UpToPulse, GapOf
  <2>5. ASSUME NEW done PROVE SumOf(send_buffer, done)' <=> SumOf(send_buffer, done)
    BY <2>1 DEF SumOf, SendsRaw, SendsRepeat, raw, R
  <2>6. pc = "marks" =>
          \E done \in Seq(Mark) :
            /\ done \o todo' = PlannedFrame(k)' /\ Carries(send_buffer', SentFrames(n)' \o done)
            /\ SumOf(send_buffer, done)'
    BY <2>1, <2>2, <2>3, <2>5 DEF CarriesUpTo
  <2> QED
    BY <2>1, <2>2, <2>3, <2>4, <2>6 DEF CarriesUpTo
<1> QED
  BY <1>1, <1>2, <1>3, <1>4, <1>5 DEF Next, init_send

\* A frame that does not fit means that the plan does not.
LEMMA PlanTooLong ==
  ASSUME SendInv, CountInv, RequestInv, pc = "marks", ~Endless,
         NEW n \in Nat, NEW k \in Nat, n = FramesBefore, k = FrameNo, GapsUpTo(n),
         Len(Merged(SentFrames(n) \o PlannedFrame(k))) > WBUF_SIZE,
         \A i \in PlannedFrames : ~(PlannedGap(i) <= 0)
  PROVE  Len(Planned) > WBUF_SIZE
<1>1. /\ Plannable /\ asked.part <= k /\ k = asked.part + n
      /\ SentFrames(n) \in Seq(Mark) /\ PlannedFrame(k) \in Seq(Mark)
  BY CarryTypes
<1>2. asked.part \in Nat
  BY CountTypes DEF Asked
<1>3. PICK total \in Nat : total = Parts * (1 + asked.repeats) /\ k < total
  BY FramePlace
<1>4. PICK m \in Nat : asked.part + m = total /\ n + 1 <= m
  <2>1. total - asked.part \in Nat /\ asked.part + (total - asked.part) = total
        /\ n + 1 <= total - asked.part
    BY <1>1, <1>2, <1>3
  <2> QED
    BY <2>1
<1>5. GapsUpTo(m)
  <2> SUFFICES ASSUME NEW i \in Nat, asked.part <= i, i < asked.part + m
               PROVE  PlannedGap(i) \in Nat
    BY DEF GapsUpTo
  <2>1. PlannedFrames = asked.part .. total - 1
    BY <1>3 DEF PlannedFrames, Parts
  <2>2. i \in PlannedFrames
    BY <1>2, <1>4, <2>1
  <2>3. ~(raw /\ Code[code].signals = <<>>)
    BY DEF RequestInv
  <2>4. PlannedGap(i) \in Int
    BY <1>1, <2>3, GapPlanned
  <2>5. ~(PlannedGap(i) <= 0)
    BY <2>2
  <2> QED
    BY <2>4, <2>5
<1>6. PlannedGap(k) \in Nat /\ GapsUpTo(n + 1)
  <2>1. k < asked.part + m
    BY <1>3, <1>4
  <2>2. PlannedGap(k) \in Nat
    BY <1>1, <1>5, <2>1 DEF GapsUpTo
  <2>3. GapsUpTo(n + 1)
    <3> SUFFICES ASSUME NEW i \in Nat, asked.part <= i, i < asked.part + (n + 1)
                 PROVE  PlannedGap(i) \in Nat
      BY DEF GapsUpTo
    <3>1. i < asked.part + m
      BY <1>2, <1>4
    <3> QED
      BY <1>5, <3>1 DEF GapsUpTo
  <2> QED
    BY <2>2, <2>3
<1>7. SentFrames(n + 1) = SentFrames(n) \o Framed(k)
  BY <1>1, <1>6, SentMore
<1>8. PICK s \in Seq(Mark), p \in Seq(Mark), x \in Mark :
        s = SentFrames(n) /\ p = PlannedFrame(k) /\ x = SpaceMark(PlannedGap(k))
  BY <1>1, <1>6, MarkMade
<1>9. Framed(k) = Append(p, x)
  BY <1>1, <1>6, <1>8, FramedType
<1>10. s \o Append(p, x) = Append(s \o p, x)
  BY ConcatAppend
<1>11. PICK marks \in Seq(Mark) : marks = s \o p
  BY ConcatProperties
<1>12. Append(marks, x) = marks \o <<x>> /\ <<x>> \in Seq(Mark)
  OBVIOUS
<1>13. Len(Merged(marks)) <= Len(Merged(marks \o <<x>>))
  BY <1>12, MergedLonger
<1>14. SentFrames(n + 1) = marks \o <<x>>
  BY <1>7, <1>8, <1>9, <1>10, <1>11, <1>12
<1>15. Len(Merged(SentFrames(n + 1))) <= Len(Merged(SentFrames(m)))
  <2>1. PICK l \in Nat : l = n + 1
    OBVIOUS
  <2>2. Len(Merged(SentFrames(l))) <= Len(Merged(SentFrames(m)))
    BY <1>1, <1>4, <1>5, <2>1, SentLonger
  <2> QED
    BY <2>1, <2>2
<1>16. Planned = Merged(SentFrames(m))
  BY <1>1, <1>3, <1>4, PlannedIs DEF Plannable
<1>17. /\ Len(Merged(marks)) \in Nat /\ Len(Merged(marks \o <<x>>)) \in Nat
       /\ Len(Merged(SentFrames(m))) \in Nat /\ WBUF_SIZE \in Nat
  <2>1. SentFrames(m) \in Seq(Mark) /\ marks \o <<x>> \in Seq(Mark)
    BY <1>1, <1>5, <1>12, SentType
  <2> QED
    BY <2>1, MarksOut
<1>18. Len(Merged(marks)) > WBUF_SIZE
  BY <1>8, <1>11
<1>19. PICK a \in Nat, b \in Nat, c \in Nat :
         a = Len(Merged(marks)) /\ b = Len(Merged(marks \o <<x>>)) /\ c = Len(Merged(SentFrames(m)))
  BY <1>17
<1>20. a <= b /\ b <= c /\ a > WBUF_SIZE
  BY <1>13, <1>14, <1>15, <1>18, <1>19
<1>21. c > WBUF_SIZE
  BY <1>17, <1>20
<1> QED
  BY <1>16, <1>19, <1>21

-----------------------------------------------------------------------------
(* The end of a send.                                                      *)

\* What a send has come to when it is over.
DoneInv == SentAsAsked /\ FailsOnlyIfImpossible

LEMMA DoneNotYet ==
  ASSUME result \notin {"ok", "failed"}
  PROVE  DoneInv
BY DEF DoneInv, SentAsAsked, FailsOnlyIfImpossible

LEMMA DoneStart ==
  ASSUME NEW c, NEW n, Start(c, n)
  PROVE  DoneInv'
<1>1. CASE Unsupported(Code[c].remote)
  <2>1. result' = "failed" /\ code' = c
    BY <1>1 DEF Start
  <2>2. Unsupported(Code[code].remote)'
    BY <1>1, <2>1 DEF Unsupported
  <2> QED
    BY <2>1, <2>2 DEF DoneInv, SentAsAsked, FailsOnlyIfImpossible
<1>2. CASE ~Unsupported(Code[c].remote)
  <2>1. result' = "none"
    BY <1>2 DEF Start
  <2> QED
    BY <2>1 DEF DoneInv, SentAsAsked, FailsOnlyIfImpossible
<1> QED
  BY <1>1, <1>2

LEMMA DoneBegin ==
  ASSUME CountInv, BeginFrame
  PROVE  DoneInv'
<1>1. result = "none" /\ UNCHANGED code
  BY DEF CountInv, BeginFrame
<1>2. CASE raw /\ ~SendsRepeat /\ Code[code].signals = <<>>
  <2>1. result' = "failed" /\ (raw /\ Code[code].signals = <<>>)'
    BY <1>1, <1>2 DEF BeginFrame, Fail, raw, R
  <2> QED
    BY <2>1 DEF DoneInv, SentAsAsked, FailsOnlyIfImpossible
<1>3. CASE ~(raw /\ ~SendsRepeat /\ Code[code].signals = <<>>)
  <2>1. result' = "none"
    BY <1>1, <1>3 DEF BeginFrame
  <2> QED
    BY <2>1 DEF DoneInv, SentAsAsked, FailsOnlyIfImpossible
<1> QED
  BY <1>2, <1>3

LEMMA DoneEnd ==
  ASSUME SumsInv, RequestInv, CarryInv, EndFrame
  PROVE  DoneInv'
<1>1. pc = "marks" /\ UNCHANGED <<asked, code>>
  BY DEF EndFrame
<1>2. SendInv /\ CountInv /\ RawInv
  BY DEF SumsInv
<1>3. IF pc' = "idle" THEN result' = "failed" ELSE result' = "none"
  <2>1. result = "none"
    BY <1>1, <1>2 DEF CountInv
  <2> QED
    BY <1>1, <2>1 DEF EndFrame, Fail
<1>4. CASE pc' # "idle"
  BY <1>3, <1>4 DEF DoneInv, SentAsAsked, FailsOnlyIfImpossible
<1>5. CASE pc' = "idle"
  <2> SUFFICES ASSUME ~asked.disturbed, ~Endless, \A i \in PlannedFrames : ~(PlannedGap(i) <= 0)
               PROVE  Len(Planned) > WBUF_SIZE
    <3>1. /\ PlannedFrames' = PlannedFrames /\ Planned' = Planned
          /\ \A i : PlannedGap(i)' = PlannedGap(i)
      BY <1>1, PlanKept
    <3>2. Endless' <=> Endless
      BY <1>1 DEF Endless, R
    <3> QED
      BY <1>1, <1>3, <1>5, <3>1, <3>2 DEF DoneInv, SentAsAsked, FailsOnlyIfImpossible
  <2>1. PICK n \in Nat, k \in Nat : n = FramesBefore /\ k = FrameNo
    <3>1. FramesBefore \in Nat /\ FrameNo \in Nat
      BY <1>1, <1>2, FrameNumbers DEF FramesBefore
    <3> QED
      BY <3>1
  <2>2. /\ GapsUpTo(n) /\ Carries(send_buffer', SentFrames(n) \o PlannedFrame(k))
        /\ send_buffer'.too_long
    BY <1>5, <2>1, FrameWhole
  <2>3. Len(Merged(SentFrames(n) \o PlannedFrame(k))) > WBUF_SIZE
    BY <2>2 DEF Carries
  <2> QED
    BY <1>1, <1>2, <2>1, <2>2, <2>3, PlanTooLong
<1> QED
  BY <1>4, <1>5

LEMMA DoneGap ==
  ASSUME SumsInv, RequestInv, CarryInv, ComputeGap
  PROVE  DoneInv'
<1>1. pc = "gap" /\ UNCHANGED <<asked, code>>
  BY DEF ComputeGap
<1>2. SendInv /\ CountInv
  BY DEF SumsInv
<1>3. IF pc' = "idle" THEN result' = "failed" ELSE result' = "none"
  <2>1. result = "none"
    BY <1>1, <1>2 DEF CountInv
  <2> QED
    BY <1>1, <2>1 DEF ComputeGap, Fail
<1>4. CASE pc' # "idle"
  BY <1>3, <1>4 DEF DoneInv, SentAsAsked, FailsOnlyIfImpossible
<1>5. CASE pc' = "idle"
  <2> SUFFICES ASSUME ~asked.disturbed, ~Endless
               PROVE  \E i \in PlannedFrames : PlannedGap(i) <= 0
    <3>1. /\ PlannedFrames' = PlannedFrames
          /\ \A i : PlannedGap(i)' = PlannedGap(i)
      BY <1>1, PlanKept
    <3>2. Endless' <=> Endless
      BY <1>1 DEF Endless, R
    <3> QED
      BY <1>1, <1>3, <1>5, <3>1, <3>2 DEF DoneInv, SentAsAsked, FailsOnlyIfImpossible
  <2>1. PICK n \in Nat, k \in Nat : n = FramesBefore /\ k = FrameNo
    <3>1. FramesBefore \in Nat /\ FrameNo \in Nat
      BY <1>1, <1>2, FrameNumbers DEF FramesBefore
    <3> QED
      BY <3>1
  <2>2. CarriesUpTo(n, k)
    BY <1>1, <2>1 DEF CarryInv
  <2>3. send_buffer.sum = Total(UpToPulse(PlannedFrame(k))) - HeaderLeftOut
    BY <1>1, <2>2 DEF CarriesUpTo
  <2>4. PlannedGap(k) <= 0
    BY <1>2, <1>5, <2>1, <2>3, GapComputed
  <2>5. k \in PlannedFrames
    <3>1. /\ asked.part \in Nat /\ asked.part <= k
      BY <1>1, <1>2, <2>1, FrameNumbers
    <3>2. PICK total \in Nat : total = Parts * (1 + asked.repeats) /\ k < total
      BY <1>1, <1>2, <2>1, FramePlace
    <3>3. PlannedFrames = asked.part .. total - 1
      BY <3>2 DEF PlannedFrames, Parts
    <3> QED
      BY <3>1, <3>2, <3>3
  <2> QED
    BY <2>4, <2>5
<1> QED
  BY <1>4, <1>5

LEMMA DoneSpace ==
  ASSUME SumsInv, RequestInv, CarryInv, SendGap, CountInv'
  PROVE  DoneInv'
<1>1. pc = "space" /\ UNCHANGED <<asked, code, transmit_state>>
  BY DEF SendGap
<1>2. SendInv /\ CountInv
  BY DEF SumsInv
<1>3. result = "none"
  BY <1>1, <1>2 DEF CountInv
<1>4. CASE pc' # "idle"
  <2>1. result' = "none"
    BY <1>3, <1>4 DEF SendGap
  <2> QED
    BY <2>1 DEF DoneInv, SentAsAsked, FailsOnlyIfImpossible
<1>5. CASE pc' = "idle"
  <2>1. PICK f : f = Flush(Space(send_buffer, min_remaining_gap[Code[code].remote]))
    OBVIOUS
  <2>2. /\ send_buffer' = f /\ result' = (IF Usable(f) THEN "ok" ELSE "failed")
        /\ ~GoesOn(Code[code].remote)
    BY <1>1, <1>5, <2>1 DEF SendGap
  <2>3. transmit_state[code] = 0
    BY <2>2 DEF GoesOn
  <2>4. ~Endless
    BY <1>1, <1>2, <2>3 DEF CountInv
  <2> SUFFICES ASSUME ~asked.disturbed PROVE result' = "ok" /\ send_buffer'.data = Planned'
    BY <1>1 DEF DoneInv, SentAsAsked, FailsOnlyIfImpossible
  <2>5. PICK n \in Nat, k \in Nat, l \in Nat :
          n = FramesBefore /\ k = FrameNo /\ l = n + 1 /\ l = asked.frames
    <3>1. /\ FramesBefore \in Nat /\ FrameNo \in Nat /\ FramesBefore + 1 \in Nat
          /\ FramesBefore + 1 = asked.frames
      BY <1>1, <1>2, FrameNumbers, CountTypes DEF FramesBefore, Asked
    <3> QED
      BY <3>1
  <2>6. Whole(f) /\ f.data = Merged(SentFrames(l)) /\ f.data # <<>>
    BY <2>1, <2>4, <2>5, FrameClosed
  <2>7. Usable(f)
    BY <2>6 DEF Usable, Whole, Alternating
  <2>8. result' = "ok"
    BY <2>2, <2>7
  <2>9. asked.part + asked.frames = Parts * (1 + asked.repeats)
    <3>1. WholeSend'
      BY DEF CountInv
    <3> QED
      BY <1>1, <2>8, <3>1 DEF WholeSend, Parts
  <2>10. Planned = Merged(SentFrames(l))
    BY <1>2, <2>5, <2>9, CountTypes, PlannedIs
  <2>11. Planned' = Planned
    BY <1>1, PlanKept
  <2> QED
    BY <2>2, <2>6, <2>8, <2>10, <2>11
<1> QED
  BY <1>4, <1>5

LEMMA DoneStays ==
  ASSUME DoneInv, UNCHANGED <<send_buffer, code, result, asked>>
  PROVE  DoneInv'
<1>1. /\ PlannedFrames' = PlannedFrames /\ Planned' = Planned
      /\ \A i : PlannedGap(i)' = PlannedGap(i)
  BY PlanKept
<1>2. (Endless' <=> Endless) /\ (raw' <=> raw)
      /\ (Unsupported(Code[code].remote)' <=> Unsupported(Code[code].remote))
  BY DEF Endless, R, raw, Unsupported
<1> QED
  BY <1>1, <1>2 DEF DoneInv, SentAsAsked, FailsOnlyIfImpossible

LEMMA DoneNext ==
  ASSUME SumsInv, RequestInv, CarryInv, DoneInv, [Next]_vars, CountInv'
  PROVE  DoneInv'
<1>0. SendInv /\ CountInv
  BY DEF SumsInv
<1>1. CASE parseSendString \/ OnSendcode
  BY <1>1, DoneStart DEF parseSendString, OnSendcode
<1>2. CASE SendMark \/ (Decode /\ pc # "idle")
  <2>1. result' = "none"
    BY <1>0, <1>2 DEF SendMark, Decode, CountInv
  <2> QED
    BY <2>1 DEF DoneInv, SentAsAsked, FailsOnlyIfImpossible
<1>3. CASE Decode /\ pc = "idle"
  <2>1. UNCHANGED <<send_buffer, code, result, asked>>
    BY <1>0, <1>3, DecodeAsked DEF Decode
  <2> QED
    BY <2>1, DoneStays
<1>4. CASE UNCHANGED vars
  <2>1. UNCHANGED <<send_buffer, code, result, asked>>
    BY <1>4 DEF vars
  <2> QED
    BY <2>1, DoneStays
<1> QED
  BY <1>0, <1>1, <1>2, <1>3, <1>4, DoneBegin, DoneEnd, DoneGap, DoneSpace DEF Next, init_send

PlanInv == RequestInv /\ CarryInv /\ DoneInv

LEMMA PlanInvariant == Spec => []PlanInv
<1>1. Init => PlanInv
  <2> SUFFICES ASSUME Init PROVE PlanInv
    OBVIOUS
  <2>1. pc = "idle" /\ result = "none"
    BY DEF Init
  <2> QED
    BY <2>1, DoneNotYet DEF PlanInv, RequestInv, CarryInv
<1>2. ASSUME PlanInv, SumsInv, SumsInv', [Next]_vars PROVE PlanInv'
  <2>1. SendInv /\ CountInv /\ CountInv'
    BY <1>2 DEF SumsInv
  <2>2. RequestInv' /\ CarryInv'
    BY <1>2, <2>1, RequestNext, CarryNext DEF PlanInv
  <2>3. DoneInv'
    BY <1>2, <2>1, DoneNext DEF PlanInv
  <2> QED
    BY <2>2, <2>3 DEF PlanInv
<1> QED
  BY SumsInvariant, <1>1, <1>2, PTL DEF Spec

\* init_send that reports success leaves in the buffer exactly the frames that were
\* asked for: every part in every repeat, repeat signals, toggles, first headers and
\* gaps as the definition of the remote has them, merged where kinds meet, for every
\* remote, code and number of repeats, unless something is decoded meanwhile.
THEOREM SentIsAsAsked == Spec => []SentAsAsked
<1>1. PlanInv => SentAsAsked
  BY DEF PlanInv, DoneInv
<1> QED
  BY PlanInvariant, <1>1, PTL

\* init_send that fails was asked for a protocol it does not know, an XMP chain, a raw
\* code without signals, a frame longer than the constant length or more than the buffer
\* holds: nothing that an earlier send left behind makes it fail.
THEOREM FailsOnlyThen == Spec => []FailsOnlyIfImpossible
<1>1. PlanInv => FailsOnlyIfImpossible
  BY DEF PlanInv, DoneInv
<1> QED
  BY PlanInvariant, <1>1, PTL
=============================================================================
