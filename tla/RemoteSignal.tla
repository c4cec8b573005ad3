---------------------------- MODULE RemoteSignal ----------------------------
(***************************************************************************)
(* The marks of one frame of a remote: send_header .. send_code and        *)
(* send_repeat of DLL/Common/Send.cpp.                                     *)
(*                                                                         *)
(* A remote is a record with the fields of struct ir_remote that sending   *)
(* reads.  A pulse and space pair is <<p, s>>, a number is the sequence of *)
(* its bits in the order they are sent, a mask the set of the positions    *)
(* (1 = first bit of pre_data) whose bit is set.                           *)
(***************************************************************************)
EXTENDS SendBuffer, FiniteSets, SequencesExt

Protocols == {"space_enc", "rc5", "rc6", "rcmm", "xmp", "space_first", "raw",
              "goldstar", "grundig", "bo", "serial"}
Flags     == {"NO_HEAD_REP", "NO_FOOT_REP", "CONST_LENGTH", "REPEAT_HEADER"}

is_rc6(r)     == r.protocol = "rc6" \/ r.rc6_mask # {}
is_biphase(r) == r.protocol = "rc5" \/ is_rc6(r)
is_const(r)   == "CONST_LENGTH" \in r.flags

\* has_header, has_foot, has_repeat; also the test of the pauses around the code.
Has(pair) == pair[1] > 0 /\ pair[2] > 0

min_gap(r) == IF r.gap2 # 0 /\ r.gap2 < r.gap THEN r.gap2 ELSE r.gap

-----------------------------------------------------------------------------
PulseSpace(pair) == <<PulseMark(pair[1]), SpaceMark(pair[2])>>
SpacePulse(pair) == <<SpaceMark(pair[2]), PulseMark(pair[1])>>
Doubled(pair)    == <<2 * pair[1], 2 * pair[2]>>
PairIf(pair)     == IF Has(pair) THEN PulseSpace(pair) ELSE <<>>
PulseIf(us)      == IF us # 0 THEN <<PulseMark(us)>> ELSE <<>>

\* The bit that is sent at a position: toggle is the remote's state, a record
\* of toggle_mask_state and the set of bits of toggle_bit_mask_state.  A mask of
\* one bit replaces the bit, a longer one inverts it.
ToggledBit(r, bit, pos, toggle) ==
  LET stateBit == IF pos \in toggle.bits THEN 1 ELSE 0
      first    == IF pos \notin r.toggle_bit_mask THEN bit
                  ELSE IF Cardinality(r.toggle_bit_mask) = 1 THEN stateBit
                  ELSE (bit + stateBit) % 2
  IN  IF pos \in r.toggle_mask THEN (first + toggle.mask) % 2 ELSE first

BitMarks(r, bit, pos) ==
  LET pair == IF pos \in r.rc6_mask THEN Doubled(r.bit[bit]) ELSE r.bit[bit]
  IN  IF (r.protocol = "space_first" /\ pos \notin r.rc6_mask) \/ (bit = 1 /\ is_biphase(r))
      THEN SpacePulse(pair)
      ELSE PulseSpace(pair)

\* RC-MM sends two bits at a time, XMP four.
RcmmMarks(r, bits) ==
  [i \in 1 .. Len(bits) \div 2 |-> PulseSpace(r.bit[2 * bits[2 * i - 1] + bits[2 * i]])]

XmpMarks(r, bits) ==
  LET nibble(i) == 8 * bits[4*i - 3] + 4 * bits[4*i - 2] + 2 * bits[4*i - 1] + bits[4*i]
  IN  [i \in 1 .. Len(bits) \div 4 |->
         PulseSpace(<<r.bit[0][1], r.bit[0][2] + nibble(i) * r.bit[1][2]>>)]

\* send_data: bits whose first is at position done + 1.
DataMarks(r, bits, done, toggle) ==
  LET whole(n) == Len(bits) % n = 0 /\ done % n = 0
  IN  FlattenSeq(
        CASE r.protocol = "rcmm" -> IF whole(2) THEN RcmmMarks(r, bits) ELSE <<>>
          [] r.protocol = "xmp"  -> IF whole(4) THEN XmpMarks(r, bits) ELSE <<>>
          [] OTHER -> [i \in DOMAIN bits |->
                         BitMarks(r, ToggledBit(r, bits[i], done + i, toggle), done + i)])

\* send_code
CodeMarks(r, bits, repeat, toggle) ==
  LET pre   == IF r.pre_data = <<>> THEN <<>>
               ELSE DataMarks(r, r.pre_data, 0, toggle) \o PairIf(r.pre_pause)
      post  == IF r.post_data = <<>> THEN <<>>
               ELSE PairIf(r.post_pause)
                    \o DataMarks(r, r.post_data, Len(r.pre_data) + Len(bits), toggle)
      with(part, flag) == IF repeat /\ flag \in r.flags THEN <<>> ELSE part
      foot  == IF Has(r.foot) THEN SpacePulse(r.foot) ELSE <<>>
  IN  with(PairIf(r.header), "NO_HEAD_REP") \o PulseIf(r.plead) \o pre
      \o DataMarks(r, bits, Len(r.pre_data), toggle) \o post \o PulseIf(r.ptrail)
      \o with(foot, "NO_FOOT_REP")

\* send_repeat, with the header that init_send puts before it.
RepeatMarks(r) ==
  (IF "REPEAT_HEADER" \in r.flags THEN PairIf(r.header) ELSE <<>>)
  \o PulseIf(r.plead) \o PulseSpace(r.repeat) \o PulseIf(r.ptrail)

\* A raw code's entries are pulses and spaces in turn.
RawMarks(signals) ==
  [i \in DOMAIN signals |-> IF i % 2 = 1 THEN PulseMark(signals[i]) ELSE SpaceMark(signals[i])]

-----------------------------------------------------------------------------
Total(marks) == FoldLeft(LAMBDA total, mark : total + mark.us, 0, marks)

\* Marks of one kind in a row are one pulse or space.
Joined(runs, mark) ==
  IF runs # <<>> /\ Last(runs).kind = mark.kind
  THEN [runs EXCEPT ![Len(runs)].us = @ + mark.us]
  ELSE Append(runs, mark)

Merged(marks) == FoldLeft(Joined, <<>>, marks)
=============================================================================
