--------------------------- MODULE MCDecodeCommand ---------------------------
(* Instance of DecodeCommand for TLC: one remote of each kind that          *)
(* decodeCommand tells apart.                                              *)
EXTENDS DecodeCommand

Plain ==
  [wave |-> "", pre |-> "", codes |-> <<>>, toggle_mask |-> FALSE, toggle_bit |-> FALSE,
   repeat |-> FALSE, xmp |-> FALSE, min_code_repeat |-> 0]

\* Two remotes share an encoding and differ in pre_data.
RemoteAll ==
  << [Plain EXCEPT !.wave = "sharp", !.toggle_mask = TRUE, !.codes = <<<<"a">>, <<"b">>>>],
     [Plain EXCEPT !.wave = "nec", !.pre = "p", !.repeat = TRUE, !.codes = <<<<"a">>, <<"b">>>>],
     [Plain EXCEPT !.wave = "nec", !.pre = "q", !.repeat = TRUE, !.min_code_repeat = 1,
                   !.codes = <<<<"a">>>>],
     [Plain EXCEPT !.wave = "rc5", !.toggle_bit = TRUE, !.codes = <<<<"a">>>>],
     [Plain EXCEPT !.wave = "chain",
                   !.codes = <<<<"a", "a", "b">>, <<"a", "c">>, <<"d">>>>],
     [Plain EXCEPT !.wave = "xmp", !.xmp = TRUE, !.codes = <<<<"a", "b">>, <<"a", "c">>>>] >>
=============================================================================
