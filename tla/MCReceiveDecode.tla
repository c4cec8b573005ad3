-------------------------- MODULE MCReceiveDecode --------------------------
(* Instances of ReceiveDecode for TLC: remotes of every kind of signal     *)
(* that receive_decode tells apart, with the timings of real ones in us.   *)
EXTENDS ReceiveDecode

\* Short and long spaces for 0 and 1; 25 % and 100 us of tolerance.
Plain ==
  [protocol |-> "space_enc", flags |-> {}, header |-> <<0, 0>>, foot |-> <<0, 0>>,
   repeat |-> <<0, 0>>, pre_pause |-> <<0, 0>>, post_pause |-> <<0, 0>>,
   bit |-> (0 :> <<560, 560>>) @@ (1 :> <<560, 1690>>) @@ (2 :> <<0, 0>>) @@ (3 :> <<0, 0>>),
   plead |-> 0, ptrail |-> 0, pre_data |-> <<>>, post_data |-> <<>>, bits |-> 2,
   gap |-> 40000, gap2 |-> 0, repeat_gap |-> 0, min_repeat |-> 0, min_code_repeat |-> 0,
   toggle_mask |-> {}, toggle_bit_mask |-> {}, rc6_mask |-> {}, eps |-> 25, aeps |-> 100,
   signals |-> <<>>, baud |-> 0, bits_in_byte |-> 0, parity |-> "none", stop_bits |-> 0]

Biphase(us) == (0 :> <<us, us>>) @@ (1 :> <<us, us>>)

FourPairs(p, s0, s1, s2, s3) ==
  (0 :> <<p, s0>>) @@ (1 :> <<p, s1>>) @@ (2 :> <<p, s2>>) @@ (3 :> <<p, s3>>)

RemoteAll ==
  ("nec" :> [Plain EXCEPT !.flags = {"CONST_LENGTH", "REPEAT_HEADER"}, !.header = <<9000, 4500>>,
               !.ptrail = 560, !.repeat = <<560, 2250>>, !.gap = 65000, !.pre_data = <<0, 1>>]) @@
  ("twice" :> [Plain EXCEPT !.flags = {"CONST_LENGTH"}, !.header = <<9000, 4500>>, !.ptrail = 560,
                 !.repeat = <<9000, 2250>>, !.gap = 60000, !.min_code_repeat = 1]) @@
  ("sony" :> [Plain EXCEPT !.header = <<2400, 600>>, !.foot = <<600, 4000>>,
                !.bit = (0 :> <<600, 600>>) @@ (1 :> <<1200, 600>>),
                !.post_data = <<1>>, !.post_pause = <<600, 4000>>]) @@
  ("jvc" :> [Plain EXCEPT !.flags = {"NO_HEAD_REP", "CONST_LENGTH"}, !.header = <<5500, 2700>>,
               !.ptrail = 560, !.gap = 46000]) @@
  ("rc5" :> [Plain EXCEPT !.protocol = "rc5", !.bit = Biphase(889), !.plead = 889,
               !.bits = 3, !.gap = 89000]) @@
  ("rc6" :> [Plain EXCEPT !.protocol = "rc6", !.bit = Biphase(444), !.header = <<2667, 889>>,
               !.rc6_mask = {3}, !.pre_data = <<1>>, !.bits = 3, !.gap = 83000]) @@
  ("rcmm" :> [Plain EXCEPT !.protocol = "rcmm", !.bit = FourPairs(167, 277, 444, 611, 778),
                !.header = <<417, 277>>, !.ptrail = 167, !.bits = 4, !.gap = 27000,
                !.eps = 10, !.aeps = 50]) @@
  ("xmp" :> [Plain EXCEPT !.protocol = "xmp", !.bit = FourPairs(210, 760, 136, 0, 0),
               !.ptrail = 210, !.bits = 4, !.gap = 13800]) @@
  ("first" :> [Plain EXCEPT !.protocol = "space_first", !.plead = 560]) @@
  ("bo" :> [Plain EXCEPT !.protocol = "bo", !.bit = FourPairs(200, 2925, 2925, 6050, 9175),
              !.header = <<200, 15425>>, !.ptrail = 200, !.bits = 3, !.gap = 60000]) @@
  ("grundig" :> [Plain EXCEPT !.protocol = "grundig", !.bit = FourPairs(528, 528, 1056, 1584, 2640),
                   !.plead = 528, !.bits = 8, !.gap = 30000, !.eps = 10]) @@
  ("goldstar" :> [Plain EXCEPT !.protocol = "goldstar", !.header = <<9000, 4500>>,
                    !.bit = FourPairs(560, 560, 1690, 1690, 2800), !.ptrail = 560]) @@
  ("serial" :> [Plain EXCEPT !.protocol = "serial", !.bit = (0 :> <<833, 0>>) @@ (1 :> <<0, 833>>),
                  !.baud = 1200, !.bits_in_byte = 4, !.parity = "even", !.stop_bits = 2,
                  !.bits = 8, !.gap = 20000, !.eps = 10, !.aeps = 60]) @@
  ("raw" :> [Plain EXCEPT !.protocol = "raw",
               !.signals = <<<<3000, 900, 400>>, <<3000, 1500, 400>>>>])

Key(remote, bits) == [remote |-> remote, bits |-> bits]

KeyAll ==
  ("nec" :> Key("nec", <<1, 0>>)) @@ ("twice" :> Key("twice", <<1, 0>>)) @@ ("sony" :> Key("sony", <<0, 1>>)) @@
  ("jvc" :> Key("jvc", <<1, 0>>)) @@ ("rc5" :> Key("rc5", <<1, 0, 1>>)) @@
  ("rc6" :> Key("rc6", <<1, 0, 1>>)) @@ ("rcmm" :> Key("rcmm", <<1, 0, 0, 1>>)) @@
  ("xmp" :> Key("xmp", <<1, 0, 1, 1>>)) @@ ("first" :> Key("first", <<1, 0>>)) @@
  ("bo" :> Key("bo", <<1, 0, 1>>)) @@ ("grundig" :> Key("grundig", <<0, 0, 0, 1, 1, 0, 1, 1>>)) @@
  ("goldstar" :> Key("goldstar", <<1, 1>>)) @@
  ("serial" :> Key("serial", <<0, 1, 1, 0, 1, 0, 0, 0>>)) @@
  ("raw" :> Key("raw", <<2>>)) @@
  ("nec0" :> Key("nec", <<0, 0>>)) @@ ("sony1" :> Key("sony", <<1, 1>>)) @@
  ("jvc1" :> Key("jvc", <<1, 1>>)) @@ ("rc5ones" :> Key("rc5", <<1, 1, 1>>)) @@
  ("rc6zero" :> Key("rc6", <<0, 0, 0>>)) @@ ("rcmm1" :> Key("rcmm", <<1, 1, 1, 1>>)) @@
  ("xmp0" :> Key("xmp", <<0, 0, 0, 0>>)) @@ ("raw1" :> Key("raw", <<1>>))

Pulses(pairs) == FlattenSeq([i \in DOMAIN pairs |-> PulseSpace(pairs[i])])

\* Three bits: one after one is pair 2, zero after one pair 1, one after zero pair 3.
BoFrame ==
  LET p == RemoteAll["bo"].bit
  IN  Pulses(<<p[1], p[1], RemoteAll["bo"].header, p[2], p[1], p[3]>>)
      \o <<PulseMark(200)>>

\* 00 is 6T, 01 is 4T 2T, 10 is 3T 3T, 11 is 2T 4T; a pair is a space and a pulse.
GrundigFrame ==
  LET p == RemoteAll["grundig"].bit
      pairs == <<p[3], p[2], p[0], p[1], p[1], p[0], p[2]>>
  IN  <<PulseMark(528)>> \o FlattenSeq([i \in DOMAIN pairs |-> SpacePulse(pairs[i])])

GoldstarFrame ==
  LET r == RemoteAll["goldstar"]
  IN  Pulses(<<r.header, r.bit[3], r.bit[2]>>) \o <<PulseMark(560)>>

\* A byte: start bit, the bits from the lowest, even parity, two halves of a stop bit.
SerialByte(bits) ==
  LET mark(bit) == IF bit = 1 THEN SpaceMark(833) ELSE PulseMark(833)
      line == Reverse(bits) \o <<FoldLeft(+, 0, bits) % 2>>
  IN  <<PulseMark(833)>> \o [i \in DOMAIN line |-> mark(line[i])] \o <<SpaceMark(833)>>

ForeignAll ==
  ("bo" :> BoFrame) @@ ("grundig" :> GrundigFrame) @@ ("goldstar" :> GoldstarFrame) @@
  ("serial" :> SerialByte(<<0, 1, 1, 0>>) \o SerialByte(<<1, 0, 0, 0>>))

\* us
ErrorsAll == {-40, 0, 40}

\* One remote at a time, and two in one file.
TablesAll == {<<r>> : r \in Remotes} \cup {<<"rc5", "nec">>, <<"nec", "rcmm">>}
=============================================================================
