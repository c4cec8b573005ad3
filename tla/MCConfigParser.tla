--------------------------- MODULE MCConfigParser ---------------------------
(* Instances of ConfigParser for TLC: what the remotes of the files have.  *)
EXTENDS ConfigParser

\* A code that changes when its two bits are reversed.
OneCode == {<<1, 0>>}

\* The second remote may have two bits, be reversed and have a toggle bit; the
\* third is raw, and a second protocol makes it look as if it were not.
ThreeBitCounts  == <<{}, {2}, {}>>
ThreeFlags      == <<{}, {"REVERSE", "RC6"}, {"RAW_CODES", "RC6"}>>
ThreeToggleBits == <<{}, {1}, {}>>
ThreeSections   == <<{"codes"}, {"codes"}, {"raw_codes"}>>
=============================================================================
