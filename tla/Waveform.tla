------------------------------ MODULE Waveform ------------------------------
(***************************************************************************)
(* How DLL/Common/Receive.cpp reads a signal: tolerances, rec_buffer as a  *)
(* reader with one mark pending, and get_header .. get_post, get_data and  *)
(* get_gap on top of it.  A remote is a record as in RemoteSignal with the *)
(* tolerances eps, aeps and the fields of the serial protocol; the pulses  *)
(* and spaces of its bits are not empty.                                   *)
(*                                                                         *)
(* A reader b is struct rbuf while a remote is tried: data (what arrives   *)
(* in time), at (rptr), pending (pendingp and pendings), sum, and beside   *)
(* these the mark read last, the bits decoded so far, and ok: whether the  *)
(* function that left b reported success.  The wait for data beyond data   *)
(* times out.  Data fits into rec_buffer.                                  *)
(***************************************************************************)
EXTENDS RemoteSignal, Integers

Within(r, delta, expected) ==
  LET off == IF expected > delta THEN expected - delta ELSE delta - expected
  IN  off <= (expected * r.eps) \div 100 \/ off <= r.aeps

AtLeast(r, delta, expected) ==
  delta + (expected * r.eps) \div 100 >= expected \/ delta + r.aeps >= expected

AtMost(r, delta, expected) ==
  delta <= expected + (expected * r.eps) \div 100 \/ delta <= expected + r.aeps

max_gap(r) == IF r.gap2 > r.gap THEN r.gap2 ELSE r.gap

NoMark == [kind |-> "none", us |-> 0]

\* rewind_rec_buffer
Rewound(data) ==
  [data |-> data, at |-> 0, pending |-> [pulse |-> 0, space |-> 0], sum |-> 0,
   got |-> NoMark, bits |-> <<>>, ok |-> TRUE]

Failed(b) == [b EXCEPT !.ok = FALSE]
Done(b)   == [b EXCEPT !.ok = TRUE]

\* The next step of a reading that has not failed, another one if it has.
Then(b, Step(_)) == IF b.ok THEN Step(b) ELSE b
Else(b, Step(_)) == IF b.ok THEN b ELSE Step(b)

\* get_next_rec_buffer; without data nothing moves.
GetNext(b) ==
  IF b.at < Len(b.data)
  THEN LET mark == b.data[b.at + 1]
       IN  [b EXCEPT !.at = @ + 1, !.sum = @ + mark.us, !.got = mark]
  ELSE [b EXCEPT !.got = NoMark]

\* get_next_pulse, get_next_space: a mark of the other kind is consumed.
GetKind(b, kind) ==
  LET c == GetNext(b) IN [c EXCEPT !.ok = c.got.kind = kind /\ c.got.us > 0]

Unget(b, count) ==
  [b EXCEPT !.at = @ - count,
            !.sum = @ - Total(SubSeq(b.data, b.at - count + 1, b.at))]

\* A failure undoes marks, whether they were read or not.
OrUnget(b, count) == Else(b, LAMBDA c : Unget(c, count))

Pend(b, kind, us) == [b EXCEPT !.pending[kind] = us]

Other(kind) == IF kind = "pulse" THEN "space" ELSE "pulse"

\* The mark that was read lasts us beside what was pending before.
Matched(r, b, kind, before, us) ==
  IF b.ok /\ before <= b.got.us /\ Within(r, b.got.us - before, us)
  THEN Pend(b, kind, 0) ELSE Failed(b)

\* sync_pending_pulse, sync_pending_space
SyncPending(r, b, kind) ==
  IF b.pending[kind] = 0 THEN Done(b)
  ELSE Matched(r, GetKind(b, kind), kind, 0, b.pending[kind])

\* expectpulse, expectspace: what is pending of the same kind is part of the mark.
ExpectMark(r, b, mark) ==
  Then(SyncPending(r, b, Other(mark.kind)),
       LAMBDA c : Matched(r, GetKind(c, mark.kind), mark.kind, c.pending[mark.kind], mark.us))

Expects(r, b, marks) ==
  FoldLeft(LAMBDA c, mark : Then(c, LAMBDA d : ExpectMark(r, d, mark)), b, marks)
-----------------------------------------------------------------------------
\* get_header, where a failure undoes the marks that were read, or some of them.
RcmmHeader(r, b) ==
  LET space(c) == GetKind(c, "space")
      sum(c)   == c.got.us + space(c).got.us
      both(c)  == [space(c) EXCEPT !.ok = @ /\ Within(r, sum(c), r.header[1] + r.header[2])]
  IN  Then(OrUnget(GetKind(b, "pulse"), 1), LAMBDA c : OrUnget(both(c), 2))

GetHeader(r, b) ==
  LET pulse    == OrUnget(ExpectMark(r, b, PulseMark(r.header[1])), 1)
      space(c) == GetKind(c, "space")
      long(c)  == OrUnget([c EXCEPT !.ok = Within(r, r.header[2], c.got.us)], 2)
  IN  CASE r.protocol = "rcmm" -> RcmmHeader(r, b)
        [] r.protocol = "bo" ->
             Expects(r, b, PulseSpace(r.bit[1]) \o PulseSpace(r.bit[1]) \o PulseSpace(r.header))
        [] OTHER ->
             Then(pulse, LAMBDA c :
               IF "NO_HEAD_REP" \notin r.flags THEN Pend(c, "space", r.header[2])
               ELSE IF space(c).ok THEN long(space(c))
               ELSE Done(Pend(space(c), "space", r.header[2])))

GetLead(r, b) ==
  IF r.plead = 0 THEN Done(b)
  ELSE Then(SyncPending(r, b, "space"), LAMBDA c : Pend(c, "pulse", r.plead))

GetTrail(r, b) ==
  Then(IF r.ptrail = 0 THEN Done(b) ELSE ExpectMark(r, b, PulseMark(r.ptrail)),
       LAMBDA c : SyncPending(r, c, "pulse"))

GetFoot(r, b) == IF Has(r.foot) THEN Expects(r, b, SpacePulse(r.foot)) ELSE b

\* No data: the gap is long enough.
GetGap(r, b, gap) ==
  LET c == GetNext(b)
  IN  CASE c.got = NoMark -> Done(c)
        [] c.got.kind = "pulse" -> Failed(c)
        [] OTHER -> [Unget(c, 1) EXCEPT !.ok = AtLeast(r, c.got.us, gap)]

\* Mutant: the pause of a constant length as long as the length itself.
RemainingIsWhole(r, b, gap) == gap

\* What is left of a constant length, or the whole gap.
Remaining(r, b, gap) ==
  IF ~is_const(r) THEN gap ELSE IF gap > b.sum THEN gap - b.sum ELSE 0

RepeatGap(r, b, gap) ==
  IF ~is_const(r) /\ r.repeat_gap > 0 THEN r.repeat_gap ELSE Remaining(r, b, gap)

GetRepeat(r, b) ==
  LET pair(c) ==
        IF is_biphase(r) THEN Expects(r, c, SpacePulse(r.repeat))
        ELSE Then(ExpectMark(r, c, PulseMark(r.repeat[1])),
                  LAMBDA d : Pend(d, "space", r.repeat[2]))
      body  == Then(GetLead(r, b), pair)
      trail == Then(body, LAMBDA c : GetTrail(r, c))
  IN  Then(trail, LAMBDA c : GetGap(r, c, RepeatGap(r, c, min_gap(r))))
-----------------------------------------------------------------------------
(* get_data.                                                               *)

AddBits(b, bits) == [b EXCEPT !.bits = @ \o bits, !.ok = TRUE]

\* The pair that stands for a bit; GoldStar gives a one by turns two of them.
BitPair(r, bit, pos) ==
  CASE r.protocol = "goldstar" /\ bit = 1 -> IF pos % 2 = 1 THEN r.bit[3] ELSE r.bit[2]
    [] pos \in r.rc6_mask -> Doubled(r.bit[bit])
    [] OTHER -> r.bit[bit]

\* expectone, expectzero: the first mark, and the second unless it can merge with
\* what follows; a failure undoes as many marks as it tried, read or not.
ExpectBit(r, b, bit, pos) ==
  LET pair    == BitPair(r, bit, pos)
      spaceFirst == IF is_biphase(r) THEN bit = 1 ELSE r.protocol = "space_first"
      marks   == IF spaceFirst THEN SpacePulse(pair) ELSE PulseSpace(pair)
      merges  == is_biphase(r) \/ (r.protocol # "space_first" /\ r.ptrail = 0)
  IN  Then(OrUnget(ExpectMark(r, b, marks[1]), 1),
           LAMBDA c : IF merges THEN Pend(c, marks[2].kind, marks[2].us)
                      ELSE OrUnget(ExpectMark(r, c, marks[2]), 2))

\* Mutant: what is not a one is a zero.
PlainBitsUnchecked(r, b, n, done) ==
  FoldLeft(LAMBDA c, pos :
             LET one == ExpectBit(r, c, 1, pos)
             IN  IF one.ok THEN AddBits(one, <<1>>) ELSE AddBits(one, <<0>>),
           b, [i \in 1 .. n |-> done + i])

TryBit(r, b, bit, pos) ==
  Then(ExpectBit(r, b, bit, pos), LAMBDA c : AddBits(c, <<bit>>))

ReadBit(r, b, pos) ==
  Else(TryBit(r, b, 1, pos), LAMBDA c : TryBit(r, Done(c), 0, pos))

PlainBits(r, b, n, done) ==
  FoldLeft(LAMBDA c, pos : Then(c, LAMBDA d : ReadBit(r, d, pos)),
           b, [i \in 1 .. n |-> done + i])

\* A pulse and a space, and whether both were there.
GetPair(b, kind) ==
  LET first  == GetKind(b, kind)
      second == GetKind(first, Other(kind))
  IN  [b |-> second, us |-> first.got.us + second.got.us,
       ok |-> first.ok /\ second.ok, first |-> first.got.us, second |-> second.got.us]

\* The first of the four pairs that lasts us, 4 for none.
PairOf(r, us) ==
  LET fits == {v \in 0 .. 3 : Within(r, us, r.bit[v][1] + r.bit[v][2])}
  IN  IF fits = {} THEN 4 ELSE CHOOSE v \in fits : \A w \in fits : v <= w

RcmmBits(r, b, n) ==
  FoldLeft(LAMBDA c, i :
             LET pair == GetPair(c, "pulse")
                 v    == PairOf(r, pair.us)
             IN  IF ~c.ok THEN c
                 ELSE IF pair.ok /\ v < 4 THEN AddBits(pair.b, <<v \div 2, v % 2>>)
                 ELSE Failed(pair.b),
           b, [i \in 1 .. n \div 2 |-> i])

\* Division as in C; a negative number of steps is taken for a large one.
XmpNibble(r, us) ==
  LET steps == us - r.bit[0][1] - r.bit[0][2] + r.bit[1][2] \div 2
  IN  IF steps >= 0 THEN steps \div r.bit[1][2]
      ELSE IF -steps < r.bit[1][2] THEN 0 ELSE 16

XmpBits(r, b, n) ==
  FoldLeft(LAMBDA c, i :
             LET pair == GetPair(c, "pulse")
                 v    == XmpNibble(r, pair.us)
             IN  IF ~c.ok THEN c
                 ELSE IF pair.ok /\ v < 16
                 THEN AddBits(pair.b, <<v \div 8, (v \div 4) % 2, (v \div 2) % 2, v % 2>>)
                 ELSE Failed(pair.b),
           b, [i \in 1 .. n \div 4 |-> i])

\* Bang & Olufsen: what stands for a bit depends on the bit before it; 2 for no bit.
BoBit(r, pair, last) ==
  LET is(v) == Within(r, pair.first, r.bit[v][1]) /\ Within(r, pair.second, r.bit[v][2])
  IN  CASE ~pair.ok -> 2
        [] pair.ok /\ is(IF last = 1 THEN 1 ELSE 2) -> 0
        [] pair.ok /\ ~is(IF last = 1 THEN 1 ELSE 2) /\ is(IF last = 1 THEN 2 ELSE 3) -> 1
        [] OTHER -> 2

BoBits(r, b, n) ==
  LET next(s) ==
        LET pair == GetPair(s.b, "pulse")
            bit  == BoBit(r, pair, s.last)
        IN  IF bit < 2 THEN [b |-> AddBits(pair.b, <<bit>>), last |-> bit]
            ELSE [s EXCEPT !.b = Failed(pair.b)]
  IN  FoldLeft(LAMBDA s, i : IF s.b.ok THEN next(s) ELSE s,
               [b |-> b, last |-> 1], [i \in 1 .. n |-> i]).b

\* Grundig: two bits are one long pair, or two pairs that belong together.
TwoBits(last, v) ==
  CASE v = 3 -> <<0, 0>>
    [] last = 2 /\ v = 0 -> <<0, 1>>
    [] last = 1 /\ v = 1 -> <<1, 0>>
    [] last = 0 /\ v = 2 -> <<1, 1>>
    [] OTHER -> <<>>

RECURSIVE GrundigBits(_, _, _, _)
GrundigBits(r, b, n, last) ==
  LET pair == GetPair(b, "space")
      v    == PairOf(r, pair.us)
      bits == TwoBits(last, v)
  IN  IF n = 0 THEN b
      ELSE IF ~pair.ok \/ v = 4 \/ (bits = <<>> /\ last # -1) THEN Failed(pair.b)
      ELSE IF bits # <<>> THEN GrundigBits(r, AddBits(pair.b, bits), n - 2, -1)
      ELSE GrundigBits(r, pair.b, n, v)

\* Serial: a pulse is a run of zeros, a space one of ones, each byte between a start
\* bit and a stop space and with its lowest bit first.  s.us is what is left of the
\* mark that was read, of which s.whole was all.
SerialStart(r, b) ==
  [b |-> Pend(b, "pulse", 1000000 \div r.baud), kind |-> "pulse", us |-> 0, whole |-> 0,
   received |-> 0, stop |-> FALSE, gap |-> 0, byte |-> <<>>]

ParityBit(r) == IF r.parity = "none" THEN 0 ELSE 1
StopTime(r)  == ((1000000 \div r.baud) * r.stop_bits) \div 2

\* The next mark if the last one is used up; the last space has no end.
SerialRead(r, s, n) ==
  LET c    == GetKind(s.b, s.kind)
      open == s.kind = "space" /\ s.received + r.bits_in_byte + ParityBit(r) >= n
      us   == IF c.ok THEN c.got.us
              ELSE IF open
              THEN r.bit[1][2] * (r.bits_in_byte + ParityBit(r)) + StopTime(r)
              ELSE 0
  IN  IF s.us > 0 THEN s ELSE [s EXCEPT !.b = Done(c), !.us = us, !.whole = us]

\* The start bit or the stop space is over, or lasts longer than the mark.
SerialPending(r, s, left) ==
  IF s.stop
  THEN [s EXCEPT !.b = Pend(Pend(@, "pulse", 1000000 \div r.baud), "space", 0),
                 !.gap = left, !.us = 0, !.stop = FALSE, !.kind = "pulse"]
  ELSE [s EXCEPT !.b = Pend(Pend(@, "pulse", 0), "space", 0), !.us = left,
                 !.kind = IF left = 0 THEN Other(@) ELSE @]

\* One bit more; a full byte is tested and turned around.
SerialBit(r, s, left) ==
  LET bit   == IF s.kind = "space" THEN 1 ELSE 0
      byte  == Append(s.byte, bit)
      ones  == FoldLeft(+, 0, byte) % 2
      full  == Len(byte) = r.bits_in_byte + ParityBit(r)
      wrong == (r.parity = "even" /\ ones = 1) \/ (r.parity = "odd" /\ ones = 0)
      next  == [s EXCEPT !.us = left, !.received = @ + 1, !.byte = byte,
                         !.kind = IF left = 0 THEN Other(@) ELSE @]
  IN  IF ~full THEN next
      ELSE IF wrong \/ (bit = 1 /\ left = 0) THEN [s EXCEPT !.b = Failed(@)]
      ELSE [next EXCEPT !.byte = <<>>, !.stop = TRUE,
              !.b = Pend(AddBits(@, Reverse(SubSeq(byte, 1, r.bits_in_byte))),
                         "space", StopTime(r))]

\* unget_rec_buffer_delta: the rest of the last stop space is the gap.
SerialEnd(s) ==
  LET b == Pend(Pend(s.b, "pulse", 0), "space", 0)
  IN  IF s.gap = 0 THEN Done(b)
      ELSE Done([b EXCEPT !.at = @ - 1, !.sum = @ - s.gap,
                          !.data[b.at] = [@ EXCEPT !.kind = "space", !.us = s.gap]])

RECURSIVE SerialBits(_, _, _)
SerialBits(r, s, n) ==
  LET read     == SerialRead(r, s, n)
      pending  == read.b.pending[s.kind]
      fits     == Within(r, read.us, pending)
      left     == IF fits THEN 0 ELSE read.us - pending
      expected == IF s.kind = "space" THEN r.bit[1][2] ELSE r.bit[0][1]
      bit      == left > expected \/ Within(r, left, expected)
      none     == [read EXCEPT !.us = 0, !.kind = Other(@)]
  IN  IF ~s.b.ok THEN s.b
      ELSE IF s.received >= n /\ ~s.stop THEN SerialEnd(s)
      ELSE IF read.us = 0 \/ (~fits /\ read.us <= pending) THEN Failed(read.b)
      ELSE IF pending > 0 THEN SerialBits(r, SerialPending(r, read, left), n)
      ELSE IF bit
      THEN SerialBits(r, SerialBit(r, read, IF left > expected THEN left - expected ELSE 0), n)
      ELSE IF left = read.whole THEN Failed(read.b)
      ELSE SerialBits(r, none, n)

\* get_data.  RC-MM and XMP take a missing pause before the data for the number 0.
GetData(r, b, n, done) ==
  LET whole(k) == n % k = 0 /\ done % k = 0
      synced   == SyncPending(r, b, "space")
      zero     == AddBits(synced, [i \in 1 .. n |-> 0])
  IN  CASE r.protocol = "rcmm" ->
             IF ~whole(2) THEN Failed(b) ELSE IF synced.ok THEN RcmmBits(r, synced, n) ELSE zero
        [] r.protocol = "xmp" ->
             IF ~whole(4) THEN Failed(b) ELSE IF synced.ok THEN XmpBits(r, synced, n) ELSE zero
        [] r.protocol = "grundig" ->
             LET c == SyncPending(r, b, "pulse")
             IN  IF whole(2) /\ c.ok THEN GrundigBits(r, c, n, -1) ELSE Failed(c)
        [] r.protocol = "serial" ->
             SerialBits(r, SerialStart(r, Done(b)), n + ParityBit(r) * (n \div r.bits_in_byte))
        [] r.protocol = "bo" -> BoBits(r, Done(b), n)
        [] OTHER -> PlainBits(r, Done(b), n, done)

\* The pauses after pre_data and before post_data.
GetPause(r, b, pair) ==
  IF ~Has(pair) THEN b
  ELSE Then(ExpectMark(r, b, PulseMark(pair[1])), LAMBDA c : Pend(c, "space", pair[2]))

GetPre(r, b) ==
  IF r.pre_data = <<>> THEN b
  ELSE Then(GetData(r, b, Len(r.pre_data), 0), LAMBDA c : GetPause(r, c, r.pre_pause))

GetPost(r, b) ==
  LET post(c) == GetData(r, c, Len(r.post_data), Len(r.pre_data) + r.bits)
  IN  IF r.post_data = <<>> THEN b ELSE Then(GetPause(r, b, r.post_pause), post)
=============================================================================
