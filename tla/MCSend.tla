------------------------------- MODULE MCSend -------------------------------
(* Instances of Send for TLC: remotes of the kinds init_send tells apart.  *)
EXTENDS Send

\* No header, no foot, no masks; bits are short and long spaces.
Plain ==
  [protocol |-> "space_enc", flags |-> {}, header |-> <<0, 0>>, foot |-> <<0, 0>>,
   repeat |-> <<0, 0>>, pre_pause |-> <<0, 0>>, post_pause |-> <<0, 0>>,
   bit |-> (0 :> <<1, 1>>) @@ (1 :> <<1, 3>>) @@ (2 :> <<1, 5>>) @@ (3 :> <<1, 7>>),
   plead |-> 0, ptrail |-> 0, pre_data |-> <<>>, post_data |-> <<>>,
   gap |-> 10, gap2 |-> 0, repeat_gap |-> 0, min_repeat |-> 0,
   toggle_mask |-> {}, toggle_bit_mask |-> {}, rc6_mask |-> {}]

Key(remote, parts) == [remote |-> remote, parts |-> parts, signals |-> <<>>]

RemoteTable ==
  ("nec" :> [Plain EXCEPT !.flags = {"CONST_LENGTH", "REPEAT_HEADER"}, !.header = <<9, 4>>,
               !.ptrail = 1, !.repeat = <<2, 2>>, !.repeat_gap = 15, !.gap = 40]) @@
  ("rc5" :> [Plain EXCEPT !.protocol = "rc5", !.flags = {"CONST_LENGTH"}, !.bit[1] = <<1, 1>>,
               !.plead = 1, !.gap = 16, !.toggle_bit_mask = {1}]) @@
  ("rc6" :> [Plain EXCEPT !.protocol = "rc6", !.bit[1] = <<1, 1>>, !.header = <<6, 2>>,
               !.pre_data = <<1>>, !.pre_pause = <<2, 1>>, !.post_data = <<0>>,
               !.post_pause = <<2, 2>>, !.toggle_bit_mask = {2, 3}, !.rc6_mask = {2}]) @@
  ("sharp" :> [Plain EXCEPT !.flags = {"CONST_LENGTH"}, !.ptrail = 1, !.gap = 20,
                 !.toggle_mask = {2}, !.min_repeat = 1]) @@
  ("foot" :> [Plain EXCEPT !.flags = {"NO_HEAD_REP", "NO_FOOT_REP", "CONST_LENGTH"},
                !.header = <<3, 2>>, !.ptrail = 1, !.foot = <<2, 3>>, !.gap = 16, !.gap2 = 15]) @@
  ("raw" :> [Plain EXCEPT !.protocol = "raw"]) @@
  ("rcmm" :> [Plain EXCEPT !.protocol = "rcmm", !.ptrail = 1]) @@
  ("xmp" :> [Plain EXCEPT !.protocol = "xmp", !.ptrail = 1]) @@
  ("first" :> [Plain EXCEPT !.protocol = "space_first", !.plead = 2]) @@
  ("bo" :> [Plain EXCEPT !.protocol = "bo"])

CodeTable ==
  ("nec" :> Key("nec", <<<<1, 0>>>>)) @@
  ("rc5" :> Key("rc5", <<<<0, 1, 0>>>>)) @@
  ("rc6" :> Key("rc6", <<<<1, 0>>>>)) @@
  ("sharp" :> Key("sharp", <<<<1, 0>>>>)) @@
  ("chain" :> Key("sharp", <<<<1>>, <<1, 0>>>>)) @@
  ("two" :> Key("foot", <<<<1>>, <<0>>>>)) @@
  ("long" :> Key("foot", <<<<1, 1, 1>>>>)) @@
  ("raw" :> [remote |-> "raw", parts |-> <<<<>>>>, signals |-> <<3, 2, 1>>]) @@
  ("rcmm" :> Key("rcmm", <<<<1, 0, 0, 1>>>>)) @@
  ("xmp" :> Key("xmp", <<<<1, 0, 0, 1>>>>)) @@
  ("xmpchain" :> Key("xmp", <<<<1, 0, 0, 1>>, <<0, 0, 0, 1>>>>)) @@
  ("first" :> Key("first", <<<<1, 0>>>>)) @@
  ("bo" :> Key("bo", <<<<1>>>>))

\* The same functions, in the form that TLC looks up fastest.
RemoteAll == [r \in DOMAIN RemoteTable |-> RemoteTable[r]]
CodeAll   == [c \in DOMAIN CodeTable |-> CodeTable[c]]
=============================================================================
