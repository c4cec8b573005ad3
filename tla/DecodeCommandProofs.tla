------------------------- MODULE DecodeCommandProofs -------------------------
(***************************************************************************)
(* What TLAPS proves of DecodeCommand, for every table of remotes in which *)
(* keys can be told apart, and any number of presses, signals and garbled  *)
(* signals.                                                                *)
(***************************************************************************)
EXTENDS DecodeCommand, Integers, SequenceTheorems, WellFoundedInduction, TLAPS

-----------------------------------------------------------------------------
(* Least and greatest members.                                             *)

LEMMA LeastMember ==
  ASSUME NEW S \in SUBSET Nat, S # {}
  PROVE  Min(S) \in S /\ \A y \in S : Min(S) <= y
<1> DEFINE Less == {pair \in Nat \X Nat : pair[1] < pair[2]}
<1>1. IsWellFoundedOn(Less, Nat)
  BY NatLessThanWellFounded, Zenon DEF OpToRel
<1>2. PICK x \in S : \A y \in S : ~(<<y, x>> \in Less)
  <2> HIDE DEF Less
  <2> QED
    BY <1>1, WFMin
<1>3. ASSUME NEW y \in S PROVE x <= y
  <2>1. x \in Nat /\ y \in Nat /\ ~(<<y, x>> \in Less)
    BY <1>2
  <2>2. ~(y < x)
    BY <2>1
  <2> QED
    BY <2>1, <2>2
<1> QED
  BY <1>3 DEF Min

LEMMA GreatestMember ==
  ASSUME NEW n \in Nat, NEW S \in SUBSET (0 .. n), S # {}
  PROVE  Max(S) \in S /\ \A y \in S : y <= Max(S)
<1> DEFINE below == {n - y : y \in S}
<1>1. below \in SUBSET Nat /\ below # {}
  <2>1. \A y \in S : n - y \in Nat
    OBVIOUS
  <2> QED
    BY <2>1
<1>2. PICK x \in S : Min(below) = n - x
  BY <1>1, LeastMember
<1>3. ASSUME NEW y \in S PROVE y <= x
  <2>1. n - x <= n - y
    BY <1>1, <1>2, LeastMember
  <2> QED
    BY <2>1
<1> QED
  BY <1>3 DEF Max

LEMMA GreatestIs ==
  ASSUME NEW S \in SUBSET Nat, NEW x \in S, \A y \in S : y <= x
  PROVE  Max(S) = x
<1>1. \A z \in S : (\A y \in S : z >= y) => z = x
  OBVIOUS
<1>2. \E z \in S : \A y \in S : z >= y
  OBVIOUS
<1> QED
  BY <1>1, <1>2 DEF Max

LEMMA LeastIs ==
  ASSUME NEW S \in SUBSET Nat, NEW x \in S, \A y \in S : x <= y
  PROVE  Min(S) = x
<1>1. \A z \in S : (\A y \in S : z =< y) => z = x
  OBVIOUS
<1>2. \E z \in S : \A y \in S : z =< y
  OBVIOUS
<1> QED
  BY <1>1, <1>2 DEF Min

-----------------------------------------------------------------------------
(* The table of remotes.                                                   *)

LEMMA RemoteFacts ==
  ASSUME NEW r \in Remotes
  PROVE  /\ r \in Nat /\ r > 0 /\ Remotes = 1 .. Len(Remote) /\ Len(Remote) \in Nat
         /\ Len(Remote[r].codes) \in Nat /\ Codes(r) = 1 .. Len(Remote[r].codes)
         /\ 1 \in Codes(r)
         /\ Remote[r].min_code_repeat \in Nat
         /\ Remote[r].toggle_mask \in BOOLEAN /\ Remote[r].toggle_bit \in BOOLEAN
         /\ Remote[r].repeat \in BOOLEAN /\ Remote[r].xmp \in BOOLEAN
         /\ Remote[r].wave # Noise.wave
<1>1. Remote[r].codes \in Seq(Seq(Values) \ {<<>>}) /\ Remote[r].codes # <<>>
  BY RemoteAssumption
<1>2. Len(Remote[r].codes) \in Nat /\ DOMAIN Remote[r].codes = 1 .. Len(Remote[r].codes)
      /\ Len(Remote[r].codes) # 0
  BY <1>1
<1>3. Codes(r) = 1 .. Len(Remote[r].codes) /\ 1 \in Codes(r)
  BY <1>2 DEF Codes
<1>4. Remotes = 1 .. Len(Remote) /\ Len(Remote) \in Nat
  BY RemoteAssumption
<1>5. r \in Nat /\ r > 0
  BY <1>4
<1> QED
  BY <1>2, <1>3, <1>4, <1>5, RemoteAssumption

LEMMA CodeFacts ==
  ASSUME NEW r \in Remotes, NEW c \in Codes(r)
  PROVE  /\ c \in Nat /\ c > 0 /\ Codes(r) \in SUBSET (0 .. Len(Remote[r].codes))
         /\ Parts(r, c) \in Seq(Values) /\ Len(Parts(r, c)) \in Nat /\ Len(Parts(r, c)) > 0
         /\ DOMAIN Parts(r, c) = 1 .. Len(Parts(r, c))
         /\ \A i \in 1 .. Len(Parts(r, c)) :
              Parts(r, c)[i] \in ValuesOf(r) /\ Parts(r, c)[i] \in Values
         /\ IsChain(r, c) <=> Len(Parts(r, c)) # 1
<1>1. Remote[r].codes \in Seq(Seq(Values) \ {<<>>})
  BY RemoteAssumption
<1>2. Remote[r].codes[c] \in Seq(Values) \ {<<>>}
  BY <1>1 DEF Codes
<1>3. Parts(r, c) \in Seq(Values) /\ Parts(r, c) # <<>>
  BY <1>2 DEF Parts
<1>4. /\ Len(Parts(r, c)) \in Nat /\ Len(Parts(r, c)) > 0
      /\ DOMAIN Parts(r, c) = 1 .. Len(Parts(r, c))
      /\ \A i \in 1 .. Len(Parts(r, c)) : Parts(r, c)[i] \in Values
  BY <1>3
<1>5. \A i \in DOMAIN Parts(r, c) : Parts(r, c)[i] \in ValuesOf(r)
  BY DEF ValuesOf
<1>6. c \in Nat /\ c > 0 /\ Codes(r) \in SUBSET (0 .. Len(Remote[r].codes))
  BY RemoteFacts
<1> QED
  BY <1>3, <1>4, <1>5, <1>6 DEF IsChain

\* The last value of a key occurs nowhere else.
LEMMA LastValue ==
  ASSUME NEW r \in Remotes, NEW c \in Codes(r), NEW d \in Codes(r),
         NEW i \in 1 .. Len(Parts(r, d)), Parts(r, d)[i] = Parts(r, c)[Len(Parts(r, c))]
  PROVE  c = d /\ i = Len(Parts(r, c))
BY CodeFacts, DistinctAssumption

-----------------------------------------------------------------------------
(* What the values heard end with.                                         *)

Pairs == Values \X BOOLEAN

LEMMA AsSentIs ==
  ASSUME NEW a, NEW b, NEW inverted \in BOOLEAN
  PROVE  /\ <<a, inverted>> = AsSent(b) <=> a = b /\ ~inverted
         /\ AsSent(a) = AsSent(b) => a = b
BY Zenon DEF AsSent

\* The last n of the values heard are the first n of the key.
Suffix(values, parts, n) ==
  n <= Len(values) /\ \A i \in 1 .. n : values[Len(values) - n + i] = AsSent(parts[i])

LEMMA EndsWithIsSuffix ==
  ASSUME NEW values \in Seq(Pairs), NEW parts \in Seq(Values), NEW n \in 0 .. Len(parts)
  PROVE  EndsWith(values, Unmasked(SubSeq(parts, 1, n))) <=> Suffix(values, parts, n)
<1> DEFINE first == Unmasked(SubSeq(parts, 1, n))
           tail  == SubSeq(values, Len(values) - n + 1, Len(values))
<1>1. Len(values) \in Nat /\ Len(parts) \in Nat /\ n \in Nat
  OBVIOUS
<1>2. /\ Len(SubSeq(parts, 1, n)) = n /\ DOMAIN SubSeq(parts, 1, n) = 1 .. n
      /\ \A i \in 1 .. n : SubSeq(parts, 1, n)[i] = parts[i]
  BY <1>1
<1>3. first = [i \in 1 .. n |-> AsSent(parts[i])]
  BY <1>2 DEF Unmasked
<1>4. Len(first) = n
  BY <1>1, <1>3
<1>5. CASE n > Len(values)
  <2>1. ~EndsWith(values, first)
    <3> HIDE DEF first
    <3> QED
      BY <1>1, <1>4, <1>5 DEF EndsWith
  <2>2. ~Suffix(values, parts, n)
    <3>1. ~(n <= Len(values))
      BY <1>1, <1>5
    <3> QED
      BY <3>1, Zenon DEF Suffix
  <2> QED
    BY <2>1, <2>2
<1>6. CASE n <= Len(values)
  <2>1. tail = [i \in 1 .. n |-> values[Len(values) - n + i]]
    <3>1. /\ tail \in Seq(Pairs) /\ Len(tail) = n
          /\ \A i \in 1 .. n : tail[i] = values[Len(values) - n + 1 + i - 1]
      <4>1. \A i \in Len(values) - n + 1 .. Len(values) : values[i] \in Pairs
        BY <1>1, <1>6
      <4>2. Len(values) - n + 1 \in Int /\ Len(values) \in Int
            /\ Len(values) - (Len(values) - n + 1) + 1 = n
        BY <1>1
      <4>3. /\ tail \in Seq(Pairs)
            /\ Len(tail) = IF Len(values) - n + 1 <= Len(values) THEN n ELSE 0
            /\ \A i \in 1 .. n : tail[i] = values[Len(values) - n + 1 + i - 1]
        BY <4>1, <4>2, SubSeqProperties
      <4> QED
        BY <1>1, <1>6, <4>3
    <3>2. \A i \in 1 .. n : Len(values) - n + 1 + i - 1 = Len(values) - n + i
      BY <1>1
    <3> HIDE DEF tail
    <3>3. tail = [i \in 1 .. n |-> tail[i]]
      BY <3>1
    <3> QED
      BY <3>1, <3>2, <3>3
  <2>2. tail = first <=> \A i \in 1 .. n : values[Len(values) - n + i] = AsSent(parts[i])
    <3> HIDE DEF tail, first
    <3> QED
      BY <1>3, <2>1
  <2>3. EndsWith(values, first) <=> tail = first
    <3> HIDE DEF first
    <3> QED
      BY <1>4, <1>6 DEF EndsWith
  <2> QED
    BY <1>6, <2>2, <2>3 DEF Suffix
<1> QED
  BY <1>1, <1>5, <1>6

LEMMA SuffixAppended ==
  ASSUME NEW values \in Seq(Pairs), NEW v \in Pairs, NEW parts \in Seq(Values), NEW n \in Nat
  PROVE  Suffix(Append(values, v), parts, n + 1)
         <=> Suffix(values, parts, n) /\ v = AsSent(parts[n + 1])
<1> DEFINE more == Append(values, v)
<1>1. /\ Len(values) \in Nat /\ Len(more) = Len(values) + 1
      /\ \A i \in 1 .. Len(values) : more[i] = values[i]
      /\ more[Len(values) + 1] = v
  OBVIOUS
<1> HIDE DEF more
<1>2. ASSUME Suffix(more, parts, n + 1)
      PROVE  Suffix(values, parts, n) /\ v = AsSent(parts[n + 1])
  <2>1. n + 1 <= Len(values) + 1
        /\ \A i \in 1 .. n + 1 : more[Len(values) + 1 - (n + 1) + i] = AsSent(parts[i])
    BY <1>1, <1>2 DEF Suffix
  <2>2. v = AsSent(parts[n + 1])
    <3>1. n + 1 \in 1 .. n + 1 /\ Len(values) + 1 - (n + 1) + (n + 1) = Len(values) + 1
      BY <1>1
    <3> QED
      BY <1>1, <2>1, <3>1
  <2>3. ASSUME NEW i \in 1 .. n PROVE values[Len(values) - n + i] = AsSent(parts[i])
    <3>1. /\ i \in 1 .. n + 1 /\ Len(values) + 1 - (n + 1) + i = Len(values) - n + i
          /\ Len(values) - n + i \in 1 .. Len(values)
      BY <1>1, <2>1
    <3> QED
      BY <1>1, <2>1, <3>1
  <2>4. n <= Len(values)
    BY <1>1, <2>1
  <2> QED
    BY <2>2, <2>3, <2>4 DEF Suffix
<1>3. ASSUME Suffix(values, parts, n), v = AsSent(parts[n + 1])
      PROVE  Suffix(more, parts, n + 1)
  <2>1. n <= Len(values)
        /\ \A i \in 1 .. n : values[Len(values) - n + i] = AsSent(parts[i])
    BY <1>3 DEF Suffix
  <2>2. ASSUME NEW i \in 1 .. n + 1
        PROVE  more[Len(more) - (n + 1) + i] = AsSent(parts[i])
    <3>1. CASE i = n + 1
      <4>1. Len(more) - (n + 1) + i = Len(values) + 1
        BY <1>1, <3>1
      <4> QED
        BY <1>1, <1>3, <3>1, <4>1
    <3>2. CASE i \in 1 .. n
      <4>1. /\ Len(more) - (n + 1) + i = Len(values) - n + i
            /\ Len(values) - n + i \in 1 .. Len(values)
        BY <1>1, <2>1, <3>2
      <4> QED
        BY <1>1, <2>1, <3>2, <4>1
    <3> QED
      BY <3>1, <3>2
  <2>3. n + 1 <= Len(more)
    BY <1>1, <2>1
  <2> QED
    BY <2>2, <2>3 DEF Suffix
<1> QED
  BY <1>2, <1>3 DEF more

\* Of the first i values of the key, the last m are the first m.
Border(parts, i, m) == \A k \in 1 .. m : parts[k] = parts[i - m + k]

LEMMA BorderIsSubSeq ==
  ASSUME NEW parts \in Seq(Values), NEW i \in 0 .. Len(parts), NEW s \in 1 .. i
  PROVE  SubSeq(parts, 1, i - s) = SubSeq(parts, s + 1, i) <=> Border(parts, i, i - s)
<1> DEFINE m == i - s
           first == SubSeq(parts, 1, m)
           later == SubSeq(parts, s + 1, i)
<1>1. /\ Len(parts) \in Nat /\ i \in Nat /\ s \in Nat /\ m \in Nat /\ m <= i
      /\ i <= Len(parts) /\ s <= i /\ s >= 1 /\ m + s = i
  OBVIOUS
<1>2. /\ first \in Seq(Values) /\ Len(first) = m
      /\ \A k \in 1 .. m : first[k] = parts[k]
  <2>1. \A k \in 1 .. m : parts[k] \in Values
    BY <1>1
  <2>2. /\ first \in Seq(Values) /\ Len(first) = IF 1 <= m THEN m - 1 + 1 ELSE 0
        /\ \A k \in 1 .. m - 1 + 1 : first[k] = parts[1 + k - 1]
    <3> HIDE DEF m
    <3>1. m \in Int /\ 1 \in Int
      BY <1>1
    <3> QED
      BY <2>1, <3>1, SubSeqProperties
  <2> HIDE DEF first, m
  <2>3. m - 1 + 1 = m /\ \A k \in 1 .. m : 1 + k - 1 = k
    BY <1>1
  <2> QED
    BY <1>1, <2>2, <2>3
<1>3. /\ later \in Seq(Values) /\ Len(later) = m
      /\ \A k \in 1 .. m : later[k] = parts[i - m + k]
  <2>1. \A k \in s + 1 .. i : parts[k] \in Values
    BY <1>1
  <2>2. /\ later \in Seq(Values) /\ Len(later) = IF s + 1 <= i THEN i - (s + 1) + 1 ELSE 0
        /\ \A k \in 1 .. i - (s + 1) + 1 : later[k] = parts[s + 1 + k - 1]
    <3>1. s + 1 \in Int /\ i \in Int
      BY <1>1
    <3> QED
      BY <2>1, <3>1, SubSeqProperties
  <2> HIDE DEF later
  <2>3. i - (s + 1) + 1 = m /\ \A k \in 1 .. m : s + 1 + k - 1 = i - m + k
    BY <1>1
  <2> QED
    BY <1>1, <2>2, <2>3
<1> HIDE DEF first, later, m
<1>4. first = [k \in 1 .. m |-> first[k]] /\ later = [k \in 1 .. m |-> later[k]]
  BY <1>2, <1>3
<1>5. first = later <=> \A k \in 1 .. m : first[k] = later[k]
  BY <1>4
<1>6. first = later <=> Border(parts, i, m)
  BY <1>2, <1>3, <1>5 DEF Border
<1> QED
  BY <1>6 DEF first, later, m

LEMMA SuffixIsBorder ==
  ASSUME NEW values \in Seq(Pairs), NEW parts \in Seq(Values), NEW i \in Nat,
         Suffix(values, parts, i), NEW m \in 0 .. i
  PROVE  Suffix(values, parts, m) <=> Border(parts, i, m)
<1>1. /\ Len(values) \in Nat /\ i <= Len(values) /\ m \in Nat /\ m <= i
      /\ \A k \in 1 .. i : values[Len(values) - i + k] = AsSent(parts[k])
  BY DEF Suffix
<1>2. ASSUME NEW k \in 1 .. m
      PROVE  values[Len(values) - m + k] = AsSent(parts[i - m + k])
  <2>1. i - m + k \in 1 .. i /\ Len(values) - i + (i - m + k) = Len(values) - m + k
    BY <1>1
  <2> QED
    BY <1>1, <2>1
<1>3. Suffix(values, parts, m)
      <=> \A k \in 1 .. m : values[Len(values) - m + k] = AsSent(parts[k])
  BY <1>1 DEF Suffix
<1>4. ASSUME NEW k \in 1 .. m
      PROVE  values[Len(values) - m + k] = AsSent(parts[k]) <=> parts[k] = parts[i - m + k]
  BY <1>2, AsSentIs
<1> QED
  BY <1>3, <1>4 DEF Border

\* n is the number of values that current stands for.
Longest(values, parts, n) ==
  /\ n \in 0 .. Len(parts) - 1 /\ Suffix(values, parts, n)
  /\ \A m \in 0 .. Len(parts) - 1 : Suffix(values, parts, m) => m <= n

LEMMA SameValueIs ==
  ASSUME NEW r \in Remotes, ~Remote[r].toggle_mask, NEW signal, signal.inverted \in BOOLEAN,
         NEW value
  PROVE  SameValue(r, signal, value) <=> HeardValue(r, signal) = AsSent(value)
<1>1. SameValue(r, signal, value) <=> ValueOf(r, signal) = value /\ ~signal.inverted
  BY Zenon DEF SameValue
<1> QED
  BY <1>1, AsSentIs DEF HeardValue

\* A key of one code never waits for a second one.
LEMMA SingleNext ==
  ASSUME NEW r \in Remotes, NEW c \in Codes(r), Len(Parts(r, c)) = 1, current[r][c] = 0,
         NEW signal
  PROVE  NextCurrent(r, c, signal) = 0
<1>1. Shifts(r, c, signal) = {}
  BY DEF Shifts
<1> QED
  BY <1>1 DEF NextCurrent

\* The key is continued.
LEMMA NextContinues ==
  ASSUME NEW r \in Remotes, NEW c \in Codes(r), NEW values \in Seq(Pairs), NEW signal,
         ~Remote[r].toggle_mask, signal.inverted \in BOOLEAN, HeardValue(r, signal) \in Pairs,
         Longest(values, Parts(r, c), current[r][c]),
         SameValue(r, signal, Expected(r, c))
  PROVE  Longest(Append(values, HeardValue(r, signal)), Parts(r, c), NextCurrent(r, c, signal))
<1> DEFINE parts == Parts(r, c)
           i     == current[r][c]
           v     == HeardValue(r, signal)
           more  == Append(values, v)
           next  == NextCurrent(r, c, signal)
<1>1. /\ parts \in Seq(Values) /\ Len(parts) \in Nat /\ Len(parts) > 0
      /\ i \in Nat /\ i + 1 <= Len(parts) /\ Suffix(values, parts, i)
      /\ \A m \in 0 .. Len(parts) - 1 : Suffix(values, parts, m) => m <= i
  BY CodeFacts DEF Longest
<1>2. v = AsSent(parts[i + 1]) /\ v \in Pairs
  BY SameValueIs DEF Expected
<1>3. next = IF i + 1 = Len(parts) THEN 0 ELSE i + 1
  BY DEF NextCurrent
<1> HIDE DEF parts, i, v, more, next
<1>4. ASSUME NEW m \in 0 .. Len(parts) - 1, Suffix(more, parts, m), m # 0
      PROVE  m <= i + 1 /\ v = AsSent(parts[m])
  <2>1. PICK n \in Nat : m = n + 1
    <3>1. m - 1 \in Nat /\ m = (m - 1) + 1
      BY <1>1, <1>4
    <3> QED
      BY <3>1
  <2>2. n \in 0 .. Len(parts) - 1
    BY <1>1, <1>4, <2>1
  <2>3. Suffix(values, parts, n) /\ v = AsSent(parts[n + 1])
    <3>1. Suffix(Append(values, v), parts, n + 1)
      BY <1>4, <2>1 DEF more
    <3>2. values \in Seq(Pairs) /\ v \in Pairs /\ parts \in Seq(Values)
      BY <1>1, <1>2
    <3>3. Suffix(Append(values, v), parts, n + 1)
         <=> Suffix(values, parts, n) /\ v = AsSent(parts[n + 1])
      BY <3>2, SuffixAppended
    <3> QED
      BY <3>1, <3>3
  <2>4. n <= i
    BY <1>1, <2>2, <2>3
  <2> QED
    BY <1>1, <2>1, <2>3, <2>4
<1>5. Suffix(more, parts, 0)
  <2>1. more \in Seq(Pairs)
    BY <1>2 DEF more
  <2>2. Len(more) \in Nat
    BY <2>1
  <2> QED
    BY <2>2 DEF Suffix
<1>6. ASSUME i + 1 = Len(parts) PROVE Longest(more, parts, next)
  <2>1. ASSUME NEW m \in 0 .. Len(parts) - 1, Suffix(more, parts, m) PROVE m <= 0
    <3>1. SUFFICES ASSUME m # 0 PROVE FALSE
      BY <1>1
    <3>2. parts[m] = parts[Len(parts)]
      BY <1>2, <1>4, <1>6, <2>1, <3>1, AsSentIs
    <3>3. m \in 1 .. Len(parts)
      BY <1>1, <3>1
    <3>4. m = Len(parts)
      BY <3>2, <3>3, LastValue DEF parts
    <3> QED
      BY <1>1, <3>4
  <2>2. next = 0 /\ 0 \in 0 .. Len(parts) - 1
    BY <1>1, <1>3, <1>6
  <2>3. Longest(more, parts, 0)
    BY <1>5, <2>1, <2>2 DEF Longest
  <2> QED
    BY <2>2, <2>3
<1>7. ASSUME i + 1 # Len(parts) PROVE Longest(more, parts, next)
  <2>1. Suffix(more, parts, i + 1)
    BY <1>1, <1>2, SuffixAppended DEF more
  <2>2. ASSUME NEW m \in 0 .. Len(parts) - 1, Suffix(more, parts, m) PROVE m <= i + 1
    BY <1>1, <1>4, <2>2
  <2>3. i + 1 \in 0 .. Len(parts) - 1
    BY <1>1, <1>7
  <2> QED
    BY <1>3, <1>7, <2>1, <2>2, <2>3 DEF Longest
<1> QED
  BY <1>6, <1>7 DEF more, parts, v, next

\* The key is not continued, but some of what was heard may begin it again.
LEMMA NextShifts ==
  ASSUME NEW r \in Remotes, NEW c \in Codes(r), NEW values \in Seq(Pairs), NEW signal,
         ~Remote[r].toggle_mask, signal.inverted \in BOOLEAN, HeardValue(r, signal) \in Pairs,
         Longest(values, Parts(r, c), current[r][c]),
         ~SameValue(r, signal, Expected(r, c))
  PROVE  Longest(Append(values, HeardValue(r, signal)), Parts(r, c), NextCurrent(r, c, signal))
<1> DEFINE parts  == Parts(r, c)
           i      == current[r][c]
           v      == HeardValue(r, signal)
           more   == Append(values, v)
           next   == NextCurrent(r, c, signal)
           shifts == Shifts(r, c, signal)
<1>1. /\ parts \in Seq(Values) /\ Len(parts) \in Nat /\ Len(parts) > 0
      /\ i \in Nat /\ i + 1 <= Len(parts) /\ Suffix(values, parts, i)
      /\ \A m \in 0 .. Len(parts) - 1 : Suffix(values, parts, m) => m <= i
  BY CodeFacts DEF Longest
<1>2. v \in Pairs /\ v # AsSent(parts[i + 1])
  BY SameValueIs DEF Expected
<1>3. next = IF shifts = {} THEN 0 ELSE i - Min(shifts) + 1
  BY DEF NextCurrent
<1>4. shifts = {s \in 1 .. i : /\ SubSeq(parts, 1, i - s) = SubSeq(parts, s + 1, i)
                               /\ SameValue(r, signal, parts[i - s + 1])}
  BY DEF Shifts
<1>5. \A x : SameValue(r, signal, x) <=> v = AsSent(x)
  BY SameValueIs
<1> HIDE DEF parts, i, v, more, next, shifts
<1>6. ASSUME NEW n \in Nat
      PROVE  Suffix(more, parts, n + 1)
             <=> Suffix(values, parts, n) /\ v = AsSent(parts[n + 1])
  <2>1. values \in Seq(Pairs) /\ v \in Pairs /\ parts \in Seq(Values)
    BY <1>1, <1>2
  <2>2. Suffix(Append(values, v), parts, n + 1)
        <=> Suffix(values, parts, n) /\ v = AsSent(parts[n + 1])
    BY <2>1, SuffixAppended
  <2> QED
    BY <2>2 DEF more
<1>7. Suffix(more, parts, 0)
  <2>1. more \in Seq(Pairs)
    BY <1>2 DEF more
  <2>2. Len(more) \in Nat
    BY <2>1
  <2> QED
    BY <2>2 DEF Suffix
<1>8. ASSUME NEW s \in 1 .. i
      PROVE  s \in shifts <=> Suffix(more, parts, i - s + 1)
  <2>1. i - s \in Nat /\ i - s \in 0 .. i /\ i \in 0 .. Len(parts)
    BY <1>1
  <2>2. SubSeq(parts, 1, i - s) = SubSeq(parts, s + 1, i) <=> Border(parts, i, i - s)
    BY <1>1, <2>1, BorderIsSubSeq
  <2>3. Suffix(values, parts, i - s) <=> Border(parts, i, i - s)
    BY <1>1, <2>1, SuffixIsBorder
  <2>4. Suffix(more, parts, i - s + 1)
        <=> Suffix(values, parts, i - s) /\ v = AsSent(parts[i - s + 1])
    BY <1>6, <2>1
  <2>5. s \in shifts <=> /\ SubSeq(parts, 1, i - s) = SubSeq(parts, s + 1, i)
                         /\ v = AsSent(parts[i - s + 1])
    BY <1>4, <1>5
  <2> QED
    BY <2>2, <2>3, <2>4, <2>5
<1>9. ASSUME NEW m \in 0 .. Len(parts) - 1, Suffix(more, parts, m), m # 0
      PROVE  i + 1 - m \in shifts /\ i + 1 - m \in 1 .. i
  <2>1. PICK n \in Nat : m = n + 1
    <3>1. m - 1 \in Nat /\ m = (m - 1) + 1
      BY <1>1, <1>9
    <3> QED
      BY <3>1
  <2>2. n \in 0 .. Len(parts) - 1
    BY <1>1, <1>9, <2>1
  <2>3. Suffix(more, parts, n + 1)
    BY <1>9, <2>1
  <2>4. Suffix(values, parts, n) /\ v = AsSent(parts[n + 1])
    BY <1>6, <2>3
  <2>5. n <= i /\ n # i
    BY <1>1, <1>2, <2>2, <2>4
  <2>6. i + 1 - m \in 1 .. i /\ i - (i + 1 - m) + 1 = m
    BY <1>1, <2>1, <2>5
  <2>7. i + 1 - m \in shifts <=> Suffix(more, parts, i - (i + 1 - m) + 1)
    BY <1>8, <2>6
  <2> QED
    BY <1>9, <2>6, <2>7
<1>10. ASSUME shifts = {} PROVE Longest(more, parts, next)
  <2>1. next = 0 /\ 0 \in 0 .. Len(parts) - 1
    BY <1>1, <1>3, <1>10
  <2>2. \A m \in 0 .. Len(parts) - 1 : Suffix(more, parts, m) => m <= 0
    BY <1>9, <1>10
  <2>3. Longest(more, parts, 0)
    BY <1>7, <2>1, <2>2 DEF Longest
  <2> QED
    BY <2>1, <2>3
<1>11. ASSUME shifts # {} PROVE Longest(more, parts, next)
  <2> DEFINE s == Min(shifts)
  <2>1. shifts \in SUBSET Nat
    BY <1>1, <1>4
  <2>2. s \in shifts /\ \A y \in shifts : s <= y
    BY <1>11, <2>1, LeastMember
  <2>3. s \in 1 .. i
    BY <1>4, <2>2
  <2>4. next = i - s + 1
    BY <1>3, <1>11
  <2> HIDE DEF s
  <2>5. Suffix(more, parts, next)
    BY <1>8, <2>2, <2>3, <2>4
  <2>6. next \in 0 .. Len(parts) - 1
    BY <1>1, <2>3, <2>4
  <2>7. ASSUME NEW m \in 0 .. Len(parts) - 1, Suffix(more, parts, m) PROVE m <= next
    <3>1. CASE m = 0
      BY <2>6, <3>1
    <3>2. CASE m # 0
      <4>1. i + 1 - m \in shifts
        BY <1>9, <2>7, <3>2
      <4>2. s <= i + 1 - m
        BY <2>2, <4>1
      <4> QED
        BY <1>1, <2>3, <2>4, <4>2
    <3> QED
      BY <3>1, <3>2
  <2> QED
    BY <2>5, <2>6, <2>7 DEF Longest
<1> QED
  BY <1>10, <1>11 DEF more, parts, v, next

\* "find longest matching sequence"
LEMMA NextIsLongest ==
  ASSUME NEW r \in Remotes, NEW c \in Codes(r), NEW values \in Seq(Pairs), NEW signal,
         signal.inverted \in BOOLEAN, HeardValue(r, signal) \in Pairs,
         Longest(values, Parts(r, c), current[r][c])
  PROVE  Longest(Append(values, HeardValue(r, signal)), Parts(r, c), NextCurrent(r, c, signal))
<1>1. CASE Remote[r].toggle_mask
  <2> DEFINE more == Append(values, HeardValue(r, signal))
  <2>1. Len(Parts(r, c)) = 1
    BY <1>1, CodeFacts, DistinctAssumption
  <2>2. current[r][c] = 0
    BY <2>1 DEF Longest
  <2>3. NextCurrent(r, c, signal) = 0
    BY <2>1, <2>2, SingleNext
  <2>4. more \in Seq(Pairs)
    OBVIOUS
  <2> HIDE DEF more
  <2>5. Len(more) \in Nat
    BY <2>4
  <2>6. Suffix(more, Parts(r, c), 0)
    BY <2>5 DEF Suffix
  <2>7. Longest(more, Parts(r, c), 0)
    BY <2>1, <2>6 DEF Longest
  <2> QED
    BY <2>3, <2>7 DEF more
<1>2. CASE ~Remote[r].toggle_mask
  BY <1>2, NextContinues, NextShifts
<1> QED
  BY <1>1, <1>2

LEMMA NextOfNothing ==
  ASSUME NEW parts \in Seq(Values), Len(parts) > 0
  PROVE  Longest(<<>>, parts, 0)
<1>1. Len(<<>>) = 0 /\ Len(parts) \in Nat
  OBVIOUS
<1>2. \A m \in 0 .. Len(parts) - 1 : Suffix(<<>>, parts, m) => m <= 0
  BY <1>1 DEF Suffix
<1>3. Suffix(<<>>, parts, 0)
  BY <1>1 DEF Suffix
<1> QED
  BY <1>1, <1>2, <1>3 DEF Longest

LEMMA NextOfFirst ==
  ASSUME NEW parts \in Seq(Values), Len(parts) > 1
  PROVE  Longest(<<AsSent(parts[1])>>, parts, 1)
<1>1. Len(<<AsSent(parts[1])>>) = 1 /\ Len(parts) \in Nat
  OBVIOUS
<1>2. \A m \in 0 .. Len(parts) - 1 : Suffix(<<AsSent(parts[1])>>, parts, m) => m <= 1
  BY <1>1 DEF Suffix
<1>3. Suffix(<<AsSent(parts[1])>>, parts, 1)
  <2>1. ASSUME NEW k \in 1 .. 1 PROVE <<AsSent(parts[1])>>[1 - 1 + k] = AsSent(parts[k])
    <3>1. k = 1 /\ 1 - 1 + k = 1
      OBVIOUS
    <3> QED
      BY <3>1
  <2> QED
    BY <1>1, <2>1 DEF Suffix
<1> QED
  BY <1>1, <1>2, <1>3 DEF Longest

-----------------------------------------------------------------------------
(* How many messages are due.                                              *)

LEMMA Division ==
  ASSUME NEW a \in Nat, NEW d \in Nat, d > 0
  PROVE  /\ a % d \in 0 .. d - 1 /\ a \div d \in Nat
         /\ a = d * (a \div d) + (a % d)
<1>1. a % d \in 0 .. d - 1
  OBVIOUS
<1>2. a \div d \in Int
  OBVIOUS
<1>3. a \div d >= 0
  OBVIOUS
<1> DEFINE q == a \div d
           m == a % d
<1>4. m = a - d * q
  BY SMTT(60)
<1>5. m \in 0 .. d - 1 /\ q \in Int /\ q >= 0
  BY <1>1, <1>2, <1>3
<1> HIDE DEF q, m
<1>6. a = d * q + m /\ q \in Nat
  BY <1>4, <1>5
<1> QED
  BY <1>5, <1>6, Zenon DEF q, m

LEMMA DivisionUnique ==
  ASSUME NEW d \in Nat, d > 0, NEW p \in Int, NEW q \in Int, NEW m \in 0 .. d - 1,
         NEW n \in 0 .. d - 1, d * p + m = d * q + n
  PROVE  p = q /\ m = n
<1>1. p <= q
  <2>1. SUFFICES ASSUME p >= q + 1 PROVE FALSE
    OBVIOUS
  <2>2. d * p >= d * (q + 1)
    BY <2>1
  <2>3. d * (q + 1) = d * q + d
    OBVIOUS
  <2> QED
    BY <2>2, <2>3
<1>2. q <= p
  <2>1. SUFFICES ASSUME q >= p + 1 PROVE FALSE
    OBVIOUS
  <2>2. d * q >= d * (p + 1)
    BY <2>1
  <2>3. d * (p + 1) = d * p + d
    OBVIOUS
  <2> QED
    BY <2>2, <2>3
<1> QED
  BY <1>1, <1>2

LEMMA DivisionNext ==
  ASSUME NEW a \in Nat, NEW d \in Nat, d > 0
  PROVE  /\ (a + 1) % d = IF a % d = d - 1 THEN 0 ELSE (a % d) + 1
         /\ (a + 1) \div d = IF a % d = d - 1 THEN (a \div d) + 1 ELSE a \div d
<1> DEFINE q == a \div d
           m == a % d
           p == (a + 1) \div d
           n == (a + 1) % d
<1>1. /\ m \in 0 .. d - 1 /\ q \in Nat /\ a = d * q + m
      /\ n \in 0 .. d - 1 /\ p \in Nat /\ a + 1 = d * p + n
  BY Division
<1> HIDE DEF q, m, p, n
<1>2. CASE m = d - 1
  <2>1. d * (q + 1) = d * q + d
    BY <1>1
  <2>2. d * (q + 1) + 0 = d * p + n
    BY <1>1, <1>2, <2>1
  <2>3. q + 1 \in Int /\ p \in Int /\ 0 \in 0 .. d - 1
    BY <1>1
  <2>4. q + 1 = p /\ 0 = n
    BY <1>1, <2>2, <2>3, DivisionUnique
  <2> QED
    BY <1>2, <2>4 DEF q, m, p, n
<1>3. CASE m # d - 1
  <2>1. d * q + (m + 1) = d * p + n
    BY <1>1
  <2>2. m + 1 \in 0 .. d - 1 /\ q \in Int /\ p \in Int
    BY <1>1, <1>3
  <2>3. q = p /\ m + 1 = n
    BY <1>1, <2>1, <2>2, DivisionUnique
  <2> QED
    BY <1>3, <2>3 DEF q, m, p, n
<1> QED
  BY <1>2, <1>3

\* A press of a key without toggle_mask goes on to the next value, or a message is due
\* and the press starts anew, an XMP key behind its first value.
LEMMA DueNext ==
  ASSUME NEW r \in Remotes, NEW c \in Codes(r), NEW j \in Nat, ~Remote[r].toggle_mask
  PROVE  LET n == Len(Parts(r, c))
             i == PlaceOf(r, c, j)
         IN  /\ i \in 1 .. n
             /\ MessagesDue(r, c, j) \in Nat
             /\ MessagesDue(r, c, j + 1) = MessagesDue(r, c, j) + (IF i = n THEN 1 ELSE 0)
             /\ PlaceOf(r, c, j + 1) = IF i # n THEN i + 1
                                       ELSE IF Remote[r].xmp /\ IsChain(r, c) THEN 2 ELSE 1
<1> DEFINE n == Len(Parts(r, c))
<1>1. n \in Nat /\ n > 0 /\ (IsChain(r, c) <=> n > 1)
  BY CodeFacts DEF IsChain
<1> HIDE DEF n
<1>2. CASE Remote[r].xmp /\ n > 1 /\ j >= n
  <2> DEFINE a == j - n
             d == n - 1
  <2>1. /\ a \in Nat /\ d \in Nat /\ d > 0 /\ (j + 1) - n = a + 1
        /\ j + 1 >= n /\ ~(j + 1 < n) /\ ~(j < n)
    BY <1>1, <1>2
  <2>2. PlaceOf(r, c, j) = 2 + (a % d) /\ PlaceOf(r, c, j + 1) = 2 + ((a + 1) % d)
    BY <1>2, <2>1 DEF PlaceOf, n
  <2>3. MessagesDue(r, c, j) = 1 + (a \div d) /\ MessagesDue(r, c, j + 1) = 1 + ((a + 1) \div d)
    BY <1>2, <2>1 DEF MessagesDue, n
  <2> HIDE DEF a
  <2>4. /\ a % d \in 0 .. d - 1 /\ a \div d \in Nat
        /\ (a + 1) % d = IF a % d = d - 1 THEN 0 ELSE (a % d) + 1
        /\ (a + 1) \div d = IF a % d = d - 1 THEN (a \div d) + 1 ELSE a \div d
    BY <2>1, Division, DivisionNext
  <2> QED
    BY <1>1, <1>2, <2>1, <2>2, <2>3, <2>4 DEF n
<1>3. CASE Remote[r].xmp /\ n > 1 /\ j = n - 1
  <2>1. /\ j % n = j /\ 0 % (n - 1) = 0 /\ 0 \div (n - 1) = 0 /\ (j + 1) - n = 0
        /\ j + 1 >= n /\ ~(j + 1 < n) /\ j < n /\ ~(j >= n)
    BY <1>1, <1>3
  <2>2. PlaceOf(r, c, j) = n /\ PlaceOf(r, c, j + 1) = 2
    BY <1>1, <1>3, <2>1 DEF PlaceOf, n
  <2>3. MessagesDue(r, c, j) = 0 /\ MessagesDue(r, c, j + 1) = 1
    BY <1>1, <1>3, <2>1 DEF MessagesDue, n
  <2> QED
    BY <1>1, <1>3, <2>2, <2>3 DEF n
<1>4. CASE Remote[r].xmp /\ n > 1 /\ j < n - 1
  <2>1. j % n = j /\ (j + 1) % n = j + 1 /\ j < n /\ j + 1 < n /\ ~(j >= n) /\ ~(j + 1 >= n)
    BY <1>1, <1>4
  <2>2. PlaceOf(r, c, j) = j + 1 /\ PlaceOf(r, c, j + 1) = j + 1 + 1
    BY <1>1, <1>4, <2>1 DEF PlaceOf, n
  <2>3. MessagesDue(r, c, j) = 0 /\ MessagesDue(r, c, j + 1) = 0
    BY <1>1, <1>4, <2>1 DEF MessagesDue, n
  <2> QED
    BY <1>1, <1>4, <2>2, <2>3 DEF n
<1>5. CASE ~(Remote[r].xmp /\ n > 1)
  <2>1. PlaceOf(r, c, j) = (j % n) + 1 /\ PlaceOf(r, c, j + 1) = ((j + 1) % n) + 1
    BY <1>5 DEF PlaceOf, n
  <2>2. MessagesDue(r, c, j) = j \div n /\ MessagesDue(r, c, j + 1) = (j + 1) \div n
    BY <1>5 DEF MessagesDue, n
  <2>3. /\ j % n \in 0 .. n - 1 /\ j \div n \in Nat
        /\ (j + 1) % n = IF j % n = n - 1 THEN 0 ELSE (j % n) + 1
        /\ (j + 1) \div n = IF j % n = n - 1 THEN (j \div n) + 1 ELSE j \div n
    BY <1>1, Division, DivisionNext
  <2> QED
    BY <1>1, <1>5, <2>1, <2>2, <2>3 DEF n
<1> QED
  BY <1>1, <1>2, <1>3, <1>4, <1>5

\* With toggle_mask every second signal makes a message.
LEMMA DueNextOfPair ==
  ASSUME NEW r \in Remotes, NEW c \in Codes(r), NEW j \in Nat, Remote[r].toggle_mask
  PROVE  /\ MessagesDue(r, c, j) = j \div 2 /\ j \div 2 \in Nat
         /\ MessagesDue(r, c, j + 1) = (j + 1) \div 2
         /\ (j + 1) \div 2 = (j \div 2) + (IF j % 2 = 1 THEN 1 ELSE 0)
         /\ Len(Parts(r, c)) = 1 /\ PlaceOf(r, c, j) = 1
<1>1. Len(Parts(r, c)) = 1
  BY CodeFacts, DistinctAssumption
<1>2. j % 1 = 0
  OBVIOUS
<1>3. PlaceOf(r, c, j) = 1
  BY <1>1, <1>2 DEF PlaceOf
<1> QED
  BY <1>1, <1>3 DEF MessagesDue

LEMMA DueOfNone ==
  ASSUME NEW r \in Remotes, NEW c \in Codes(r)
  PROVE  MessagesDue(r, c, 0) = 0 /\ PlaceOf(r, c, 0) = 1
<1>1. Len(Parts(r, c)) \in Nat /\ Len(Parts(r, c)) > 0
  BY CodeFacts
<1>2. 0 \div Len(Parts(r, c)) = 0 /\ 0 % Len(Parts(r, c)) = 0 /\ 0 \div 2 = 0
  BY <1>1
<1> QED
  BY <1>1, <1>2 DEF MessagesDue, PlaceOf

-----------------------------------------------------------------------------
(* Types, and that current stands for what was heard.                      *)

Messages == [remote : Nat, code : Nat, reps : Int]

Presses == [remote : Nat, code : Nat, close : BOOLEAN, frames : Nat, whole : BOOLEAN,
            messages : Seq(Messages)]

PressTyped ==
  /\ press \in Presses
  /\ press.remote \in Remotes /\ press.code \in Codes(press.remote)
  /\ bits \in [Remotes -> BOOLEAN]

Matched(values, at) ==
  \A r \in Remotes : \A c \in Codes(r) :
    values[r][c] \in Seq(Pairs) /\ Longest(values[r][c], Parts(r, c), at[r][c])

TypeInv == TypeOK /\ PressTyped /\ Matched(heard, current)

\* What decodeCommand is called with.
IsSignal(signal) ==
  /\ signal.inverted \in BOOLEAN /\ signal.bit \in BOOLEAN /\ signal.close \in BOOLEAN
  /\ signal.repeat \in BOOLEAN
  /\ \A r \in Remotes : Compared(r, signal) => HeardValue(r, signal) \in Pairs

LEMMA SignalFields ==
  ASSUME NEW j \in Nat, PressTyped
  PROVE  LET s == SignalOf(j)  p == press.remote
         IN  /\ s.wave = Remote[p].wave /\ s.pre = Remote[p].pre
             /\ s.value = Parts(p, press.code)[PlaceOf(p, press.code, j)]
             /\ s.repeat \in BOOLEAN
             /\ s.repeat <=> Remote[p].repeat /\ j > Remote[p].min_code_repeat
             /\ s.inverted \in BOOLEAN
             /\ s.inverted <=> Remote[p].toggle_mask /\ j % 2 = 1
             /\ s.bit = bits[p] /\ s.bit \in BOOLEAN
             /\ s.close \in BOOLEAN
             /\ s.close <=> (j = 0 => press.close)
<1>1. press.close \in BOOLEAN /\ bits[press.remote] \in BOOLEAN
  BY DEF PressTyped, Presses
<1>2. (j % 2 = 1) \in BOOLEAN /\ (j > Remote[press.remote].min_code_repeat) \in BOOLEAN
  OBVIOUS
<1>3. Remote[press.remote].repeat \in BOOLEAN /\ Remote[press.remote].toggle_mask \in BOOLEAN
  BY RemoteFacts DEF PressTyped
<1> QED
  BY <1>1, <1>2, <1>3, Zenon DEF SignalOf, PartOf

LEMMA PlaceIs ==
  ASSUME NEW r \in Remotes, NEW c \in Codes(r), NEW j \in Nat
  PROVE  PlaceOf(r, c, j) \in 1 .. Len(Parts(r, c))
<1>1. CASE Remote[r].toggle_mask
  <2>1. Len(Parts(r, c)) = 1 /\ PlaceOf(r, c, j) = 1
    BY <1>1, DueNextOfPair
  <2> QED
    BY <2>1
<1>2. CASE ~Remote[r].toggle_mask
  BY <1>2, DueNext, Zenon
<1> QED
  BY <1>1, <1>2

LEMMA NoiseIsSignal ==
  IsSignal(Noise) /\ \A r \in Remotes : ~Compared(r, Noise)
<1>1. \A r \in Remotes : ~Compared(r, Noise)
  BY RemoteFacts, Zenon DEF Compared, DecodeFunc
<1> QED
  BY <1>1, Zenon DEF IsSignal, Noise

LEMMA SentIsSignal ==
  ASSUME TypeOK, PressTyped, NEW j \in Nat
  PROVE  IsSignal(SignalOf(j))
<1> DEFINE s == SignalOf(j)
<1>1. /\ s.repeat \in BOOLEAN /\ s.inverted \in BOOLEAN /\ s.bit \in BOOLEAN
      /\ s.close \in BOOLEAN
      /\ s.value = Parts(press.remote, press.code)[PlaceOf(press.remote, press.code, j)]
  BY SignalFields, Zenon
<1> HIDE DEF s
<1>2. s.value \in Values
  BY <1>1, PlaceIs, CodeFacts, Zenon DEF PressTyped
<1>3. ASSUME NEW r \in Remotes, Compared(r, s)
      PROVE  HeardValue(r, s) \in Pairs
  <2>1. ValueOf(r, s) \in Values
    <3>1. CASE s.repeat
      <4>1. last_code[r] \in Codes(r)
        BY <1>3, <3>1, Zenon DEF Compared, DecodeFunc, TypeOK
      <4>2. 1 \in 1 .. Len(Parts(r, last_code[r]))
        BY <4>1, CodeFacts
      <4>3. Parts(r, last_code[r])[1] \in Values
        BY <4>1, <4>2, CodeFacts, Zenon
      <4> QED
        BY <3>1, <4>3 DEF ValueOf
    <3>2. CASE ~s.repeat
      BY <3>2, <1>2 DEF ValueOf
    <3> QED
      BY <1>1, <3>1, <3>2
  <2> QED
    BY <2>1, <1>1, Zenon DEF HeardValue, Pairs
<1> QED
  BY <1>1, <1>3, Zenon DEF IsSignal, s

\* get_code finds a key that the signal completes, or one that it continues.
LEMMA FoundCodeIs ==
  ASSUME NEW r \in Remotes, NEW signal
  PROVE  LET c == FoundCode(r, signal)
         IN  /\ c \in {0} \cup Codes(r)
             /\ c # 0 => \/ IsComplete(r, c, signal)
                         \/ /\ NextCurrent(r, c, signal) # 0
                            /\ \A d \in Codes(r) : ~IsComplete(r, d, signal)
             /\ c = 0 => \A d \in Codes(r) : /\ ~IsComplete(r, d, signal)
                                             /\ NextCurrent(r, d, signal) = 0
<1> DEFINE complete  == {c \in Codes(r) : IsComplete(r, c, signal)}
           continued == {c \in Codes(r) : NextCurrent(r, c, signal) # 0}
           c         == FoundCode(r, signal)
<1>1. /\ Codes(r) \in SUBSET (0 .. Len(Remote[r].codes)) /\ Len(Remote[r].codes) \in Nat
      /\ ~(0 \in Codes(r))
  BY RemoteFacts
<1>2. /\ complete \in SUBSET Nat /\ complete \in SUBSET Codes(r)
      /\ continued \in SUBSET (0 .. Len(Remote[r].codes)) /\ continued \in SUBSET Codes(r)
  BY <1>1
<1>3. CASE complete # {}
  <2>1. c = Min(complete)
    BY <1>3 DEF FoundCode
  <2>2. c \in complete
    BY <1>2, <1>3, <2>1, LeastMember
  <2> QED
    BY <2>2, <1>1
<1>4. CASE complete = {} /\ continued # {}
  <2>1. c = Max(continued)
    BY <1>4 DEF FoundCode
  <2>2. c \in continued
    BY <1>1, <1>2, <1>4, <2>1, GreatestMember
  <2> QED
    BY <2>2, <1>1, <1>4
<1>5. CASE complete = {} /\ continued = {}
  <2>1. c = 0
    BY <1>5 DEF FoundCode
  <2> QED
    BY <2>1, <1>5
<1> QED
  BY <1>3, <1>4, <1>5

LEMMA HitCode ==
  ASSUME NEW r \in Remotes, NEW signal, Hit(r, signal)
  PROVE  LET c == get_code(r, signal)
         IN  /\ c = FoundCode(r, signal) /\ c \in Codes(r)
             /\ \/ IsComplete(r, c, signal)
                \/ /\ NextCurrent(r, c, signal) # 0
                   /\ \A d \in Codes(r) : ~IsComplete(r, d, signal)
<1>1. get_code(r, signal) # 0
  BY DEF Hit
<1>2. get_code(r, signal) = FoundCode(r, signal)
  BY <1>1 DEF get_code
<1> QED
  BY <1>1, <1>2, FoundCodeIs

LEMMA NextMatched ==
  ASSUME Matched(heard, current), NEW signal, IsSignal(signal), NEW tried \in SUBSET Remotes
  PROVE  Matched(HeardAfter(tried, signal), AfterGetCode(tried, signal))
<1> SUFFICES ASSUME NEW r \in Remotes, NEW c \in Codes(r)
             PROVE  /\ HeardAfter(tried, signal)[r][c] \in Seq(Pairs)
                    /\ Longest(HeardAfter(tried, signal)[r][c], Parts(r, c),
                               AfterGetCode(tried, signal)[r][c])
  BY Zenon DEF Matched
<1>1. heard[r][c] \in Seq(Pairs) /\ Longest(heard[r][c], Parts(r, c), current[r][c])
  BY DEF Matched
<1>2. CASE r \in tried /\ Compared(r, signal)
  <2>1. /\ HeardAfter(tried, signal)[r][c] = Append(heard[r][c], HeardValue(r, signal))
        /\ AfterGetCode(tried, signal)[r][c] = NextCurrent(r, c, signal)
    BY <1>2, Zenon DEF HeardAfter, AfterGetCode
  <2>2. HeardValue(r, signal) \in Pairs /\ signal.inverted \in BOOLEAN
    BY <1>2, Zenon DEF IsSignal
  <2>3. Append(heard[r][c], HeardValue(r, signal)) \in Seq(Pairs)
    BY <1>1, <2>2
  <2> QED
    BY <1>1, <2>1, <2>2, <2>3, NextIsLongest
<1>3. CASE ~(r \in tried /\ Compared(r, signal))
  <2>1. HeardAfter(tried, signal)[r] = heard[r] /\ AfterGetCode(tried, signal)[r] = current[r]
    BY <1>3, Zenon DEF HeardAfter, AfterGetCode
  <2> QED
    BY <1>1, <2>1
<1> QED
  BY <1>2, <1>3

\* After a report.
LEMMA AnewMatched ==
  ASSUME NEW r \in Remotes, NEW c \in Codes(r), NEW again,
         again = IF Remote[r].xmp /\ IsChain(r, c) THEN 1 ELSE 0
  PROVE  Matched(HeardAnew(r, c, again),
                 [[q \in Remotes |-> [d \in Codes(q) |-> 0]] EXCEPT ![r][c] = again])
<1> DEFINE at == [[q \in Remotes |-> [d \in Codes(q) |-> 0]] EXCEPT ![r][c] = again]
<1> SUFFICES ASSUME NEW q \in Remotes, NEW d \in Codes(q)
             PROVE  /\ HeardAnew(r, c, again)[q][d] \in Seq(Pairs)
                    /\ Longest(HeardAnew(r, c, again)[q][d], Parts(q, d), at[q][d])
  BY Zenon DEF Matched
<1>0. at[q][d] = IF q = r /\ d = c THEN again ELSE 0
  OBVIOUS
<1> HIDE DEF at
<1>1. CASE again = 1 /\ q = r /\ d = c
  <2>1. HeardAnew(r, c, again)[q][d] = <<AsSent(Parts(r, c)[1])>> /\ at[q][d] = 1
    BY <1>0, <1>1 DEF HeardAnew
  <2>2. IsChain(r, c)
    BY <1>1
  <2>3. Parts(r, c) \in Seq(Values) /\ Len(Parts(r, c)) > 1 /\ 1 \in 1 .. Len(Parts(r, c))
    BY <2>2, CodeFacts DEF IsChain
  <2>4. Parts(r, c)[1] \in Values
    BY <2>3, CodeFacts
  <2>5. AsSent(Parts(r, c)[1]) \in Pairs
    BY <2>4, Zenon DEF AsSent, Pairs
  <2>6. <<AsSent(Parts(r, c)[1])>> \in Seq(Pairs)
    BY <2>5
  <2>7. Longest(<<AsSent(Parts(r, c)[1])>>, Parts(r, c), 1)
    BY <2>3, NextOfFirst
  <2> QED
    BY <1>1, <2>1, <2>6, <2>7, Zenon
<1>2. CASE ~(again = 1 /\ q = r /\ d = c)
  <2>1. HeardAnew(r, c, again)[q][d] = <<>>
    BY <1>2, Zenon DEF HeardAnew
  <2>2. at[q][d] = 0
    BY <1>0, <1>2
  <2>3. <<>> \in Seq(Pairs) /\ Parts(q, d) \in Seq(Values) /\ Len(Parts(q, d)) > 0
    BY CodeFacts
  <2> QED
    BY <2>1, <2>2, <2>3, NextOfNothing
<1> QED
  BY <1>1, <1>2

LEMMA NothingTyped ==
  ASSUME TypeInv, NEW held \in Presses, NEW signal, IsSignal(signal), UNCHANGED bits,
         held.remote = press.remote, held.code = press.code, DecodeNothing(held, signal)
  PROVE  TypeInv'
<1> USE DEF TypeInv
<1>1. press' \in Presses /\ PressTyped'
  BY DEF PressTyped, DecodeNothing
<1>2. Matched(HeardAfter(Remotes, signal), AfterGetCode(Remotes, signal))
  BY NextMatched
<1>3. Matched(heard', current')
  BY <1>2, Zenon DEF DecodeNothing
<1>4. ASSUME NEW r \in Remotes, NEW c \in Codes(r)
      PROVE  current'[r][c] \in 0 .. Len(Parts(r, c)) - 1
  BY <1>3 DEF Matched, Longest
<1>5. DOMAIN current' = Remotes /\ \A r \in Remotes : DOMAIN current'[r] = Codes(r)
  <2>1. current' = AfterGetCode(Remotes, signal)
    BY DEF DecodeNothing
  <2> QED
    BY <2>1, Zenon DEF AfterGetCode, TypeOK
<1>6. /\ toggle_code' \in [Remotes -> Nat]
      /\ \A r \in Remotes : toggle_code'[r] \in {0} \cup Codes(r)
  <2>1. toggle_code' = ToggleCodeAfter(Remotes, signal)
    BY DEF DecodeNothing
  <2>2. \A r \in Remotes : toggle_code'[r] \in {0} \cup Codes(r)
    BY <2>1, FoundCodeIs, Zenon DEF ToggleCodeAfter, TypeOK
  <2>3. \A r \in Remotes : toggle_code'[r] \in Nat
    BY <2>2, RemoteFacts
  <2>4. toggle_code' = [r \in Remotes |-> toggle_code'[r]]
    BY <2>1, Zenon DEF ToggleCodeAfter
  <2> QED
    BY <2>2, <2>3, <2>4, Zenon
<1>7. /\ UNCHANGED <<last_code, reps, toggle_bit_mask_state, last_decoded, recent>>
      /\ last_remote' = 0 /\ toggle_mask_state' \in [Remotes -> 0 .. 3]
  BY DEF DecodeNothing, NoRemote
<1>8. TypeOK'
  BY <1>4, <1>5, <1>6, <1>7 DEF TypeOK
<1> QED
  BY <1>1, <1>3, <1>8, Zenon

LEMMA SignalTyped ==
  ASSUME TypeInv, NEW held \in Presses, NEW signal, IsSignal(signal), UNCHANGED bits,
         held.remote = press.remote, held.code = press.code,
         NEW r \in Remotes, DecodeSignal(held, r, signal)
  PROVE  TypeInv'
<1> USE DEF TypeInv
<1> DEFINE c     == get_code(r, signal)
           tried == Tried(r) \cup {r}
           again == IF Remote[r].xmp /\ IsChain(r, c) THEN 1 ELSE 0
           count == NextReps(r, c, signal)
<1>1. c \in Codes(r) /\ tried \in SUBSET Remotes
  BY HitCode, Zenon DEF DecodeSignal, Tried
<1>2. Matched(heard', current')
  <2>1. Matched(HeardAfter(tried, signal), AfterGetCode(tried, signal))
    BY <1>1, NextMatched
  <2>2. Matched(HeardAnew(r, c, again),
                [[q \in Remotes |-> [d \in Codes(q) |-> 0]] EXCEPT ![r][c] = again])
    BY <1>1, AnewMatched
  <2> QED
    BY <2>1, <2>2, Zenon DEF DecodeSignal
<1>3. ASSUME NEW q \in Remotes, NEW d \in Codes(q)
      PROVE  current'[q][d] \in 0 .. Len(Parts(q, d)) - 1
  BY <1>2 DEF Matched, Longest
<1>4. DOMAIN current' = Remotes /\ \A q \in Remotes : DOMAIN current'[q] = Codes(q)
  <2>1. \/ current' = AfterGetCode(tried, signal)
        \/ current' = [[q \in Remotes |-> [d \in Codes(q) |-> 0]] EXCEPT ![r][c] = again]
    BY Zenon DEF DecodeSignal
  <2>2. CASE current' = AfterGetCode(tried, signal)
    BY <2>2, Zenon DEF AfterGetCode, TypeOK
  <2>3. CASE current' = [[q \in Remotes |-> [d \in Codes(q) |-> 0]] EXCEPT ![r][c] = again]
    <3> HIDE DEF again, c
    <3> QED
      BY <2>3
  <2> QED
    BY <2>1, <2>2, <2>3
<1>5. count \in Nat /\ reps' \in [Remotes -> Nat]
  <2>1. count \in {reps[r], reps[r] + 1, 0, 1}
    BY Zenon DEF NextReps
  <2>2. reps[r] \in Nat
    BY DEF TypeOK
  <2>3. count \in Nat
    BY <2>1, <2>2
  <2>4. reps' = [reps EXCEPT ![r] = count]
    BY Zenon DEF DecodeSignal
  <2> HIDE DEF count
  <2> QED
    BY <2>3, <2>4 DEF TypeOK
<1>6. toggle_mask_state' \in [Remotes -> 0 .. 3]
  <2>1. \A q \in Remotes : toggle_mask_state[q] \in 0 .. 3
    BY DEF TypeOK
  <2>2. NextToggle(r, c, signal) \in 0 .. 3
    <3>1. toggle_mask_state[r] \in 0 .. 3
      BY <2>1
    <3>2. CountRound(toggle_mask_state[r]) \in 0 .. 3
      BY <3>1 DEF CountRound
    <3>3. NextToggle(r, c, signal) \in {toggle_mask_state[r], CountRound(toggle_mask_state[r]), 1}
      BY Zenon DEF NextToggle
    <3> QED
      BY <3>1, <3>2, <3>3
  <2>3. toggle_mask_state' = [q \in Remotes |-> IF q < r THEN 0
                                ELSE IF q = r THEN NextToggle(r, c, signal)
                                ELSE toggle_mask_state[q]]
    BY Zenon DEF DecodeSignal
  <2> HIDE DEF c
  <2>4. 0 \in 0 .. 3
    OBVIOUS
  <2> QED
    BY <2>1, <2>2, <2>3, <2>4, Zenon
<1>7. /\ toggle_code' \in [Remotes -> Nat]
      /\ \A q \in Remotes : toggle_code'[q] \in {0} \cup Codes(q)
  <2> DEFINE after == ToggleCodeAfter(tried, signal)
  <2>1. \/ toggle_code' = after
        \/ toggle_code' = [after EXCEPT ![r] = c]
    BY Zenon DEF DecodeSignal
  <2>2. \A q \in Remotes : after[q] \in {0} \cup Codes(q)
    BY FoundCodeIs, Zenon DEF ToggleCodeAfter, TypeOK
  <2>3. after = [q \in Remotes |-> after[q]]
    BY Zenon DEF ToggleCodeAfter
  <2> HIDE DEF after, c
  <2>4. /\ \A q \in Remotes : toggle_code'[q] \in {0} \cup Codes(q)
        /\ toggle_code' = [q \in Remotes |-> toggle_code'[q]]
    BY <1>1, <2>1, <2>2, <2>3
  <2>5. \A q \in Remotes : toggle_code'[q] \in Nat
    BY <2>4, RemoteFacts
  <2> QED
    BY <2>4, <2>5, Zenon
<1>8. /\ last_code' \in [Remotes -> Nat]
      /\ \A q \in Remotes : last_code'[q] \in {0} \cup Codes(q)
  <2>1. last_code' = last_code \/ last_code' = [last_code EXCEPT ![r] = c]
    BY Zenon DEF DecodeSignal
  <2>2. c \in Nat
    BY <1>1, CodeFacts
  <2> HIDE DEF c
  <2> QED
    BY <1>1, <2>1, <2>2 DEF TypeOK
<1>9. toggle_bit_mask_state' \in [Remotes -> BOOLEAN]
  <2>1. \/ toggle_bit_mask_state' = toggle_bit_mask_state
        \/ toggle_bit_mask_state' = [toggle_bit_mask_state EXCEPT ![r] = signal.bit]
    BY Zenon DEF DecodeSignal
  <2>2. signal.bit \in BOOLEAN
    BY DEF IsSignal
  <2> QED
    BY <2>1, <2>2 DEF TypeOK
<1>10. last_remote' = r /\ last_decoded' = r /\ recent' = recent \cup {r}
  BY Zenon DEF DecodeSignal
<1>11. TypeOK'
  BY <1>3, <1>4, <1>5, <1>6, <1>7, <1>8, <1>9, <1>10 DEF TypeOK
<1>12. PressTyped'
  <2> DEFINE message == [remote |-> r, code |-> c,
                         reps |-> count - (IF IsChain(r, c) THEN 1 ELSE 0)]
  <2>1. press' = [held EXCEPT !.messages =
                    IF \/ Remote[r].toggle_mask /\ NextToggle(r, c, signal) % 2 = 1
                       \/ NextCurrent(r, c, signal) # 0
                    THEN @ ELSE Append(@, message)]
    BY Zenon DEF DecodeSignal
  <2>2. message \in Messages
    <3>1. r \in Nat /\ c \in Nat
      BY <1>1, CodeFacts, RemoteFacts
    <3>2. count - (IF IsChain(r, c) THEN 1 ELSE 0) \in Int
      BY <1>5
    <3> HIDE DEF c, count
    <3> QED
      BY <3>1, <3>2 DEF Messages
  <2> HIDE DEF message, c
  <2>3. \/ press' = [held EXCEPT !.messages = held.messages]
        \/ press' = [held EXCEPT !.messages = Append(held.messages, message)]
    BY <2>1, Zenon
  <2>4. held.messages \in Seq(Messages)
    BY DEF Presses
  <2>5. Append(held.messages, message) \in Seq(Messages)
    BY <2>2, <2>4
  <2>6. press' \in Presses /\ press'.remote = held.remote /\ press'.code = held.code
    BY <2>3, <2>4, <2>5 DEF Presses
  <2> QED
    BY <2>6 DEF PressTyped
<1> QED
  BY <1>2, <1>11, <1>12, Zenon

LEMMA TypedInitially ==
  Init => TypeInv
<1> SUFFICES ASSUME Init PROVE TypeInv
  OBVIOUS
<1> USE DEF Init
<1>1. 1 \in Remotes /\ 1 \in Codes(1)
  BY RemoteAssumption, RemoteFacts
<1>2. \A r \in Remotes : \A c \in Codes(r) : 0 \in 0 .. Len(Parts(r, c)) - 1
  BY CodeFacts
<1>3. TypeOK
  BY <1>2 DEF TypeOK
<1>4. PressTyped
  <2>1. <<>> \in Seq(Messages)
    OBVIOUS
  <2> QED
    BY <1>1, <2>1 DEF PressTyped, Presses, NoPress
<1>5. Matched(heard, current)
  <2> SUFFICES ASSUME NEW r \in Remotes, NEW c \in Codes(r)
               PROVE  heard[r][c] \in Seq(Pairs) /\ Longest(heard[r][c], Parts(r, c), current[r][c])
    BY DEF Matched
  <2>1. heard[r][c] = <<>> /\ current[r][c] = 0
    OBVIOUS
  <2>2. <<>> \in Seq(Pairs)
    OBVIOUS
  <2> QED
    BY <2>1, <2>2, CodeFacts, NextOfNothing
<1> QED
  BY <1>3, <1>4, <1>5 DEF TypeInv

\* The user's part of a step.
LEMMA PressKeyIs ==
  ASSUME TypeInv, PressKey
  PROVE  /\ press' \in Presses /\ press'.remote \in Remotes
         /\ press'.code \in Codes(press'.remote)
         /\ press'.frames = 0 /\ press'.whole /\ press'.messages = <<>>
         /\ presses = 0 \/ press.frames > 0
         /\ Remote[press.remote].toggle_mask => press.frames % 2 = 0
         /\ press'.close => /\ press.whole /\ press.messages # <<>>
                            /\ press'.remote # press.remote \/ press'.code # press.code
         /\ bits' \in [Remotes -> BOOLEAN] /\ recent' \in {recent, {}}
         /\ UNCHANGED <<current, reps, toggle_mask_state, toggle_bit_mask_state, toggle_code,
                        last_code, last_remote, last_decoded, heard>>
<1>1. PICK r \in Remotes, close \in BOOLEAN, still \in {recent, {}} :
        \E c \in Codes(r) :
          /\ close => /\ still = recent /\ <<r, c>> # <<press.remote, press.code>>
                      /\ press.whole /\ press.messages # <<>>
          /\ press' = [remote |-> r, code |-> c, close |-> close, frames |-> 0,
                       whole |-> TRUE, messages |-> <<>>]
          /\ bits' = [bits EXCEPT ![r] = Remote[r].toggle_bit /\ ~@]
          /\ recent' = still
  BY DEF PressKey
<1>2. PICK c \in Codes(r) :
          /\ close => /\ still = recent /\ <<r, c>> # <<press.remote, press.code>>
                      /\ press.whole /\ press.messages # <<>>
          /\ press' = [remote |-> r, code |-> c, close |-> close, frames |-> 0,
                       whole |-> TRUE, messages |-> <<>>]
          /\ bits' = [bits EXCEPT ![r] = Remote[r].toggle_bit /\ ~@]
          /\ recent' = still
  BY <1>1
<1>3. r \in Nat /\ c \in Nat /\ <<>> \in Seq(Messages)
  BY CodeFacts, RemoteFacts
<1>4. /\ press'.remote = r /\ press'.code = c /\ press'.close = close
      /\ press'.frames = 0 /\ press'.whole = TRUE /\ press'.messages = <<>>
  BY <1>2, Zenon
<1>5. press' \in Presses
  BY <1>2, <1>3 DEF Presses
<1>6. bits' \in [Remotes -> BOOLEAN]
  <2>1. (Remote[r].toggle_bit /\ ~bits[r]) \in BOOLEAN
    OBVIOUS
  <2>2. bits \in [Remotes -> BOOLEAN]
    BY DEF TypeInv, PressTyped
  <2>3. bits' = [bits EXCEPT ![r] = Remote[r].toggle_bit /\ ~bits[r]]
    BY <1>2, Zenon
  <2> QED
    BY <2>1, <2>2, <2>3, Zenon
<1>7. press'.close => /\ press.whole /\ press.messages # <<>>
                      /\ press'.remote # press.remote \/ press'.code # press.code
  BY <1>2, <1>4, Zenon
<1>8. /\ presses = 0 \/ press.frames > 0
      /\ Remote[press.remote].toggle_mask => press.frames % 2 = 0
      /\ UNCHANGED <<current, reps, toggle_mask_state, toggle_bit_mask_state, toggle_code,
                     last_code, last_remote, last_decoded, heard>>
  BY DEF PressKey
<1> QED
  BY <1>1, <1>2, <1>4, <1>5, <1>6, <1>7, <1>8, Zenon

\* What decodeCommand is called with when a signal arrives.
Called(held, signal) ==
  /\ held \in Presses /\ IsSignal(signal)
  /\ held.remote = press.remote /\ held.code = press.code
  /\ held.close = press.close /\ held.messages = press.messages
  /\ held.frames = press.frames + 1
  /\ \/ signal = SignalOf(press.frames) /\ held.whole = press.whole
     \/ signal = Noise /\ held.whole = FALSE

LEMMA ArrivedIs ==
  ASSUME TypeInv, Signal \/ GarbledSignal
  PROVE  \E held, signal : Called(held, signal) /\ decodeCommand(held, signal) /\ UNCHANGED bits
<1>1. press \in Presses /\ press.frames \in Nat
  BY DEF TypeInv, PressTyped, Presses
<1>2. CASE Signal
  <2> DEFINE held == [press EXCEPT !.frames = @ + 1]
  <2>1. /\ held \in Presses /\ held.remote = press.remote /\ held.code = press.code
        /\ held.close = press.close /\ held.messages = press.messages
        /\ held.frames = press.frames + 1 /\ held.whole = press.whole
    BY <1>1 DEF Presses
  <2>2. decodeCommand(held, SignalOf(press.frames)) /\ UNCHANGED bits
    BY <1>2, Zenon DEF Signal
  <2>3. IsSignal(SignalOf(press.frames))
    BY <1>1, SentIsSignal DEF TypeInv
  <2> HIDE DEF held
  <2>4. Called(held, SignalOf(press.frames))
    BY <2>1, <2>3 DEF Called
  <2> QED
    BY <2>2, <2>4, Zenon
<1>3. CASE GarbledSignal
  <2> DEFINE more == [press EXCEPT !.frames = @ + 1]
             held == [press EXCEPT !.frames = @ + 1, !.whole = FALSE]
  <2>1. /\ more \in Presses /\ more.remote = press.remote /\ more.code = press.code
        /\ more.close = press.close /\ more.messages = press.messages
        /\ more.frames = press.frames + 1
    BY <1>1 DEF Presses
  <2>2. held = [more EXCEPT !.whole = FALSE]
    BY Zenon
  <2> HIDE DEF more
  <2>3. /\ held \in Presses /\ held.remote = more.remote /\ held.code = more.code
        /\ held.close = more.close /\ held.messages = more.messages
        /\ held.frames = more.frames /\ held.whole = FALSE
    <3> HIDE DEF held
    <3> QED
      BY <2>1, <2>2 DEF Presses
  <2>4. decodeCommand(held, Noise) /\ UNCHANGED bits
    BY <1>3, Zenon DEF GarbledSignal
  <2> HIDE DEF held
  <2>5. Called(held, Noise)
    BY <2>1, <2>3, NoiseIsSignal DEF Called
  <2> QED
    BY <2>4, <2>5, Zenon
<1> QED
  BY <1>2, <1>3

LEMMA TypedNext ==
  TypeInv /\ [Next]_vars => TypeInv'
<1> SUFFICES ASSUME TypeInv, [Next]_vars PROVE TypeInv'
  OBVIOUS
<1>1. CASE PressKey
  <2>1. /\ UNCHANGED <<current, reps, toggle_mask_state, toggle_bit_mask_state, toggle_code,
                       last_code, last_remote, last_decoded, heard>>
        /\ recent' \in {recent, {}}
    BY <1>1, PressKeyIs
  <2>2. PressTyped'
    BY <1>1, PressKeyIs DEF PressTyped
  <2>3. TypeOK'
    BY <2>1 DEF TypeInv, TypeOK
  <2>4. Matched(heard', current')
    BY <2>1, Zenon DEF TypeInv
  <2> QED
    BY <2>2, <2>3, <2>4, Zenon DEF TypeInv
<1>2. CASE Signal \/ GarbledSignal
  <2>1. PICK held, signal : Called(held, signal) /\ decodeCommand(held, signal) /\ UNCHANGED bits
    BY <1>2, ArrivedIs, Zenon
  <2> QED
    BY <2>1, NothingTyped, SignalTyped, Zenon DEF decodeCommand, Called
<1>3. CASE UNCHANGED vars
  <2>1. TypeOK' /\ PressTyped'
    BY <1>3 DEF vars, remoteVars, TypeInv, TypeOK, PressTyped
  <2>2. Matched(heard', current')
    BY <1>3, Zenon DEF vars, remoteVars, TypeInv
  <2> QED
    BY <2>1, <2>2, Zenon DEF TypeInv
<1> QED
  BY <1>1, <1>2, <1>3 DEF Next

\* The state that remains between two signals, current, reps, the toggles and the remote
\* and code heard last, has its types: current stands on a node of its key's chain, and
\* last_code and toggle_code name keys of their remotes.
THEOREM TypeCorrect == Spec => []TypeOK
<1>1. TypeInv => TypeOK
  BY DEF TypeInv
<1> QED
  BY <1>1, TypedInitially, TypedNext, PTL DEF Spec

LEMMA MatchedIsLongest ==
  TypeInv => MatchIsLongest
<1> SUFFICES ASSUME TypeInv, NEW r \in Remotes, NEW c \in Codes(r)
             PROVE  current[r][c] =
                      Max({n \in 0 .. Len(Parts(r, c)) - 1 :
                             EndsWith(heard[r][c], Unmasked(SubSeq(Parts(r, c), 1, n)))})
  BY Zenon DEF MatchIsLongest
<1> DEFINE Ending(n) == EndsWith(heard[r][c], Unmasked(SubSeq(Parts(r, c), 1, n)))
           S == {n \in 0 .. Len(Parts(r, c)) - 1 : Ending(n)}
<1>1. heard[r][c] \in Seq(Pairs) /\ Longest(heard[r][c], Parts(r, c), current[r][c])
  BY DEF TypeInv, Matched
<1>2. Parts(r, c) \in Seq(Values) /\ Len(Parts(r, c)) \in Nat
  BY CodeFacts
<1>3. ASSUME NEW n \in 0 .. Len(Parts(r, c)) - 1
      PROVE  Ending(n) <=> Suffix(heard[r][c], Parts(r, c), n)
  <2>1. n \in 0 .. Len(Parts(r, c))
    BY <1>2
  <2> QED
    BY <1>1, <1>2, <2>1, EndsWithIsSuffix
<1> HIDE DEF Ending
<1>4. S \in SUBSET Nat /\ current[r][c] \in S /\ \A y \in S : y <= current[r][c]
  BY <1>1, <1>2, <1>3 DEF Longest
<1>5. Max(S) = current[r][c]
  BY <1>4, GreatestIs
<1> QED
  BY <1>5, Zenon DEF Ending

\* "find longest matching sequence" of get_code: whatever signals came, whole keys, broken
\* off ones or noise, current stands after the longest beginning of the key that the
\* values heard end with; the loop that shifts the chain against itself loses none.
THEOREM LongestMatched == Spec => []MatchIsLongest
BY MatchedIsLongest, TypedInitially, TypedNext, PTL DEF Spec

-----------------------------------------------------------------------------
(* Only the key that is pressed is heard.                                  *)

OnlyPressed ==
  LET p == press.remote
      k == press.code
  IN  /\ press.frames > 0 => last_remote \in {0, p}
      /\ Remote[p].repeat /\ press.frames > 0 /\ last_remote = p => last_code[p] = k
      /\ \A q \in Remotes : Odd(q) =>
           /\ q = p /\ Remote[p].toggle_mask /\ press.frames % 2 = 1
           /\ last_decoded = p /\ last_code[p] = k /\ p \in recent
           /\ Remote[p].toggle_bit => toggle_bit_mask_state[p] = bits[p]

GhostInv == TypeInv /\ OnlyPressed /\ NoGhostKeys

Sent == SignalOf(press.frames)

\* A key is found by one of its values.
LEMMA FoundByValue ==
  ASSUME TypeOK, NEW r \in Remotes, NEW c \in Codes(r), NEW signal,
         IsComplete(r, c, signal) \/ NextCurrent(r, c, signal) # 0
  PROVE  \E i \in 1 .. Len(Parts(r, c)) : SameValue(r, signal, Parts(r, c)[i])
<1> DEFINE at == current[r][c]
<1>1. at \in 0 .. Len(Parts(r, c)) - 1 /\ Len(Parts(r, c)) \in Nat
  BY CodeFacts DEF TypeOK
<1>2. at + 1 \in 1 .. Len(Parts(r, c))
  BY <1>1
<1>3. CASE SameValue(r, signal, Expected(r, c))
  BY <1>2, <1>3, Zenon DEF Expected
<1>4. CASE ~SameValue(r, signal, Expected(r, c))
  <2>1. Shifts(r, c, signal) # {}
    BY <1>4, Zenon DEF IsComplete, NextCurrent
  <2>2. PICK s \in 1 .. at : SameValue(r, signal, Parts(r, c)[at - s + 1])
    BY <2>1, Zenon DEF Shifts
  <2>3. at - s + 1 \in 1 .. Len(Parts(r, c))
    BY <1>1
  <2> QED
    BY <2>2, <2>3, Zenon
<1> QED
  BY <1>3, <1>4

LEMMA PressIs ==
  ASSUME TypeInv
  PROVE  /\ press \in Presses /\ press.remote \in Remotes /\ press.code \in Codes(press.remote)
         /\ press.frames \in Nat /\ press.close \in BOOLEAN /\ press.whole \in BOOLEAN
         /\ press.messages \in Seq(Messages) /\ bits[press.remote] \in BOOLEAN
         /\ press.remote # 0
BY RemoteFacts DEF TypeInv, PressTyped, Presses

\* No other remote than the user's takes the signal for one of its own.
LEMMA HitIsPressed ==
  ASSUME TypeInv, OnlyPressed, NEW r \in Remotes, Hit(r, Sent)
  PROVE  r = press.remote
<1> DEFINE p == press.remote
           k == press.code
           j == press.frames
           s == Sent
<1>1. /\ p \in Remotes /\ k \in Codes(p) /\ j \in Nat /\ PressTyped /\ TypeOK
  BY PressIs DEF TypeInv
<1>2. Compared(r, s)
  BY DEF Hit
<1>3. CASE s.repeat
  <2>1. last_remote = r
    BY <1>2, <1>3, Zenon DEF Compared, DecodeFunc
  <2>2. j > Remote[p].min_code_repeat /\ Remote[p].min_code_repeat \in Nat
    BY <1>1, <1>3, SignalFields, RemoteFacts DEF Sent
  <2>3. j > 0
    BY <1>1, <2>2
  <2> QED
    BY <2>1, <2>3, RemoteFacts DEF OnlyPressed
<1>4. CASE ~s.repeat
  <2>1. PICK c \in Codes(r) : IsComplete(r, c, s) \/ NextCurrent(r, c, s) # 0
    BY HitCode, Zenon
  <2>2. PICK i \in 1 .. Len(Parts(r, c)) : SameValue(r, s, Parts(r, c)[i])
    BY <1>1, <2>1, FoundByValue
  <2>3. s.value = Parts(r, c)[i]
    BY <1>4, <2>2, Zenon DEF SameValue, ValueOf
  <2>4. s.value \in ValuesOf(r)
    BY <2>3, CodeFacts, Zenon
  <2>5. s.value \in ValuesOf(p)
    <3>1. s.value = Parts(p, k)[PlaceOf(p, k, j)]
      BY <1>1, SignalFields, Zenon DEF Sent
    <3> QED
      BY <1>1, <3>1, PlaceIs, CodeFacts, Zenon
  <2>6. Remote[p].wave = Remote[r].wave /\ Remote[p].pre = Remote[r].pre
    <3>1. s.wave = Remote[p].wave /\ s.pre = Remote[p].pre
      BY <1>1, SignalFields, Zenon DEF Sent
    <3> QED
      BY <1>2, <1>4, <3>1, Zenon DEF Compared, DecodeFunc
  <2>7. SUFFICES ASSUME p # r PROVE FALSE
    OBVIOUS
  <2>8. ValuesOf(p) \cap ValuesOf(r) = {}
    BY <1>1, <2>6, <2>7, DistinctAssumption, Zenon
  <2> QED
    BY <2>4, <2>5, <2>8
<1> QED
  BY <1>3, <1>4

\* A signal completes no other key than the one that is pressed, and only by its last value.
LEMMA CompletesPressed ==
  ASSUME TypeInv, OnlyPressed, Compared(press.remote, Sent), NEW d \in Codes(press.remote),
         SameValue(press.remote, Sent, Parts(press.remote, d)[Len(Parts(press.remote, d))])
  PROVE  /\ d = press.code
         /\ PlaceOf(press.remote, press.code, press.frames) = Len(Parts(press.remote, press.code))
<1> DEFINE p == press.remote
           k == press.code
           j == press.frames
           s == Sent
           last == Parts(p, d)[Len(Parts(p, d))]
           place == PlaceOf(p, k, j)
<1>1. /\ p \in Remotes /\ k \in Codes(p) /\ j \in Nat /\ PressTyped
      /\ place \in 1 .. Len(Parts(p, k)) /\ Len(Parts(p, k)) \in Nat /\ Len(Parts(p, k)) > 0
  BY PressIs, PlaceIs, CodeFacts DEF TypeInv
<1>2. ValueOf(p, s) = last
  BY Zenon DEF SameValue
<1>3. CASE s.repeat
  <2>1. last_remote = p /\ Remote[p].repeat
    BY <1>3, Zenon DEF Compared, DecodeFunc
  <2>2. j > Remote[p].min_code_repeat /\ Remote[p].min_code_repeat \in Nat
    BY <1>1, <1>3, SignalFields, RemoteFacts DEF Sent
  <2>3. last_code[p] = k
    BY <1>1, <2>1, <2>2 DEF OnlyPressed
  <2>4. 1 \in 1 .. Len(Parts(p, k))
    BY <1>1
  <2>5. Parts(p, k)[1] = last
    BY <1>2, <1>3, <2>3, Zenon DEF ValueOf
  <2>6. d = k /\ 1 = Len(Parts(p, d))
    BY <1>1, <2>4, <2>5, LastValue
  <2> QED
    BY <1>1, <2>6
<1>4. CASE ~s.repeat
  <2>1. Parts(p, k)[place] = last
    BY <1>1, <1>2, <1>4, SignalFields, Zenon DEF ValueOf, Sent
  <2> QED
    BY <1>1, <2>1, LastValue
<1> QED
  BY <1>3, <1>4

\* The signal makes no message: it is the first of a pair, or part of a longer key.
Silent(r, c, signal) ==
  \/ Remote[r].toggle_mask /\ NextToggle(r, c, signal) % 2 = 1
  \/ NextCurrent(r, c, signal) # 0

Report(r, c, signal) ==
  [remote |-> r, code |-> c,
   reps |-> NextReps(r, c, signal) - (IF IsChain(r, c) THEN 1 ELSE 0)]

LEMMA PressAfter ==
  ASSUME NEW held \in Presses, NEW signal, NEW r \in Remotes,
         \/ DecodeNothing(held, signal)
         \/ DecodeSignal(held, r, signal)
  PROVE  /\ press'.remote = held.remote /\ press'.code = held.code
         /\ press'.close = held.close /\ press'.frames = held.frames
         /\ press'.whole = held.whole
         /\ DecodeNothing(held, signal) => press'.messages = held.messages
         /\ LET c == get_code(r, signal)
            IN  DecodeSignal(held, r, signal) =>
                  press'.messages = IF Silent(r, c, signal) THEN held.messages
                                    ELSE Append(held.messages, Report(r, c, signal))
<1> DEFINE c == get_code(r, signal)
           messages == IF Silent(r, c, signal) THEN held.messages
                       ELSE Append(held.messages, Report(r, c, signal))
<1>1. CASE DecodeNothing(held, signal)
  <2>1. press' = held
    BY <1>1 DEF DecodeNothing
  <2>2. ~DecodeSignal(held, r, signal)
    BY <1>1, Zenon DEF DecodeNothing, DecodeSignal
  <2> QED
    BY <2>1, <2>2
<1>2. CASE DecodeSignal(held, r, signal)
  <2>1. press' = [held EXCEPT !.messages = messages]
    BY <1>2, Zenon DEF DecodeSignal, Silent, Report
  <2>2. ~DecodeNothing(held, signal)
    BY <1>2, Zenon DEF DecodeNothing, DecodeSignal
  <2> HIDE DEF messages
  <2>3. /\ press'.remote = held.remote /\ press'.code = held.code
        /\ press'.close = held.close /\ press'.frames = held.frames
        /\ press'.whole = held.whole /\ press'.messages = messages
    BY <2>1 DEF Presses
  <2> QED
    BY <2>2, <2>3 DEF messages
<1> QED
  BY <1>1, <1>2

LEMMA SingleNothing ==
  ASSUME TypeOK, NEW r \in Remotes, NEW c \in Codes(r), Len(Parts(r, c)) = 1, NEW signal
  PROVE  NextCurrent(r, c, signal) = 0
<1>1. current[r][c] \in 0 .. Len(Parts(r, c)) - 1
  BY DEF TypeOK
<1>2. current[r][c] = 0
  BY <1>1
<1> QED
  BY <1>2, SingleNext

LEMMA DueGrows ==
  ASSUME NEW r \in Remotes, NEW c \in Codes(r), NEW j \in Nat
  PROVE  /\ MessagesDue(r, c, j) \in Nat /\ MessagesDue(r, c, j + 1) \in Nat
         /\ MessagesDue(r, c, j) <= MessagesDue(r, c, j + 1)
<1>1. CASE Remote[r].toggle_mask
  BY <1>1, DueNextOfPair
<1>2. CASE ~Remote[r].toggle_mask
  <2> DEFINE more == IF PlaceOf(r, c, j) = Len(Parts(r, c)) THEN 1 ELSE 0
  <2>1. /\ MessagesDue(r, c, j) \in Nat
        /\ MessagesDue(r, c, j + 1) = MessagesDue(r, c, j) + more
    BY <1>2, DueNext, Zenon
  <2>2. more \in {0, 1}
    OBVIOUS
  <2> QED
    BY <2>1, <2>2
<1> QED
  BY <1>1, <1>2

\* The signal completes the key that is pressed.
LEMMA CompleteCode ==
  ASSUME TypeInv, OnlyPressed, Hit(press.remote, Sent),
         NextCurrent(press.remote, get_code(press.remote, Sent), Sent) = 0
  PROVE  /\ get_code(press.remote, Sent) = press.code
         /\ PlaceOf(press.remote, press.code, press.frames) = Len(Parts(press.remote, press.code))
<1> DEFINE p == press.remote
           c == get_code(p, Sent)
<1>1. p \in Remotes
  BY PressIs
<1>2. c \in Codes(p) /\ IsComplete(p, c, Sent)
  BY <1>1, HitCode, Zenon
<1>3. SameValue(p, Sent, Parts(p, c)[Len(Parts(p, c))])
  BY <1>2, Zenon DEF IsComplete, Expected
<1> QED
  BY <1>2, <1>3, CompletesPressed, Zenon DEF Hit

\* With toggle_mask the second signals of the pairs are those that come in odd states.
LEMMA PairHit ==
  ASSUME TypeInv, OnlyPressed, Hit(press.remote, Sent), Remote[press.remote].toggle_mask
  PROVE  /\ NextCurrent(press.remote, get_code(press.remote, Sent), Sent) = 0
         /\ get_code(press.remote, Sent) = press.code
         /\ press.frames % 2 = 1 <=> Odd(press.remote)
<1> DEFINE p == press.remote
           c == get_code(p, Sent)
<1>1. p \in Remotes /\ TypeOK /\ PressTyped /\ press.frames \in Nat
  BY PressIs DEF TypeInv
<1>2. c \in Codes(p) /\ (IsComplete(p, c, Sent) \/ NextCurrent(p, c, Sent) # 0)
  BY <1>1, HitCode, Zenon
<1>3. Len(Parts(p, c)) = 1
  BY <1>1, <1>2, CodeFacts, DistinctAssumption
<1>5. NextCurrent(p, c, Sent) = 0
  BY <1>1, <1>2, <1>3, SingleNothing, Zenon
<1>6. c = press.code
  BY <1>5, CompleteCode, Zenon
<1>7. PICK i \in 1 .. Len(Parts(p, c)) : SameValue(p, Sent, Parts(p, c)[i])
  BY <1>1, <1>2, FoundByValue
<1>8. Sent.inverted <=> Odd(p)
  BY <1>7, Zenon DEF SameValue
<1>9. Sent.inverted <=> press.frames % 2 = 1
  BY <1>1, SignalFields, Zenon DEF Sent
<1> QED
  BY <1>5, <1>6, <1>8, <1>9, Zenon

LEMMA NothingGhost ==
  ASSUME GhostInv, TypeInv', NEW held, NEW signal, Called(held, signal),
         DecodeNothing(held, signal)
  PROVE  OnlyPressed' /\ NoGhostKeys'
<1> DEFINE p == press.remote
           k == press.code
           j == press.frames
<1>1. /\ press'.remote = p /\ press'.code = k /\ press'.frames = j + 1
      /\ press'.messages = press.messages
  BY PressAfter, PressIs, Zenon DEF Called, GhostInv
<1>2. last_remote' = 0 /\ toggle_mask_state' = [q \in Remotes |-> 0]
  BY DEF DecodeNothing, NoRemote
<1>3. p # 0 /\ p \in Remotes /\ k \in Codes(p) /\ j \in Nat /\ press.messages \in Seq(Messages)
  BY PressIs DEF GhostInv
<1>4. \A q \in Remotes : ~Odd(q)'
  BY <1>2 DEF Odd
<1>5. OnlyPressed'
  BY <1>1, <1>2, <1>3, <1>4 DEF OnlyPressed
<1>6. MessagesDue(p, k, j) \in Nat /\ MessagesDue(p, k, j + 1) \in Nat
      /\ MessagesDue(p, k, j) <= MessagesDue(p, k, j + 1)
  BY <1>3, DueGrows
<1>7. Len(press.messages) <= MessagesDue(p, k, j + 1)
  BY <1>3, <1>6 DEF GhostInv, NoGhostKeys
<1>8. NoGhostKeys'
  BY <1>1, <1>7, Zenon DEF GhostInv, NoGhostKeys
<1> QED
  BY <1>5, <1>8

LEMMA SignalGhost ==
  ASSUME GhostInv, TypeInv', NEW held, NEW signal, Called(held, signal), UNCHANGED bits,
         NEW r \in Remotes, DecodeSignal(held, r, signal)
  PROVE  OnlyPressed' /\ NoGhostKeys'
<1> DEFINE p == press.remote
           k == press.code
           j == press.frames
           c == get_code(p, Sent)
<1>1. TypeInv /\ OnlyPressed /\ NoGhostKeys /\ TypeOK /\ PressTyped
  BY DEF GhostInv, TypeInv
<1>2. Hit(r, signal)
  BY Zenon DEF DecodeSignal
<1>3. signal = Sent
  BY <1>2, NoiseIsSignal, Zenon DEF Called, Hit, Sent
<1>4. r = p
  BY <1>1, <1>2, <1>3, HitIsPressed
<1>5. /\ p \in Remotes /\ p # 0 /\ k \in Codes(p) /\ j \in Nat
      /\ press.messages \in Seq(Messages) /\ bits[p] \in BOOLEAN
  BY <1>1, PressIs
<1>6. DecodeSignal(held, p, Sent) /\ Hit(p, Sent)
  BY <1>2, <1>3, <1>4
<1>7. /\ press'.remote = p /\ press'.code = k /\ press'.frames = j + 1
      /\ press'.messages = IF Silent(p, c, Sent) THEN press.messages
                           ELSE Append(press.messages, Report(p, c, Sent))
  BY <1>5, <1>6, <1>3, PressAfter, Zenon DEF Called
<1>8. c \in Codes(p)
  BY <1>5, <1>6, HitCode, Zenon
<1>9. last_remote' = p /\ last_decoded' = p /\ p \in recent'
  BY <1>6, Zenon DEF DecodeSignal
<1>10. NextCurrent(p, c, Sent) = 0 => c = k /\ PlaceOf(p, k, j) = Len(Parts(p, k))
  BY <1>1, <1>6, CompleteCode, Zenon
<1>11. NextCurrent(p, c, Sent) = 0 => last_code'[p] = k
  <2>1. NextCurrent(p, c, Sent) = 0 => last_code' = [last_code EXCEPT ![p] = c]
    BY <1>6, Zenon DEF DecodeSignal
  <2>2. last_code \in [Remotes -> Nat]
    BY <1>1 DEF TypeOK
  <2> HIDE DEF c
  <2> QED
    BY <1>5, <1>10, <2>1, <2>2
<1>12. Remote[p].repeat => last_code'[p] = k
  <2> SUFFICES ASSUME Remote[p].repeat PROVE NextCurrent(p, c, Sent) = 0
    BY <1>11
  <2>1. Len(Parts(p, c)) = 1
    BY <1>5, <1>8, CodeFacts, DistinctAssumption
  <2> QED
    BY <1>1, <1>5, <1>8, <2>1, SingleNothing, Zenon
<1>13. ASSUME NEW q \in Remotes, Odd(q)'
       PROVE  /\ q = p /\ Remote[p].toggle_mask /\ (j + 1) % 2 = 1
              /\ last_code'[p] = k
              /\ Remote[p].toggle_bit => toggle_bit_mask_state'[p] = bits[p]
  <2>1. toggle_mask_state'[q] = IF q < p THEN 0 ELSE IF q = p THEN NextToggle(p, c, Sent)
                                ELSE toggle_mask_state[q]
    BY <1>6, Zenon DEF DecodeSignal
  <2>2. toggle_mask_state'[q] % 2 = 1
    BY <1>13 DEF Odd
  <2>3. q # p => ~Odd(q)
    BY <1>1, Zenon DEF OnlyPressed
  <2>4. q = p
    <3> HIDE DEF c
    <3> QED
      BY <2>1, <2>2, <2>3 DEF Odd
  <2>5. toggle_mask_state'[p] = NextToggle(p, c, Sent)
    <3> HIDE DEF c
    <3>1. p \in Nat /\ ~(p < p)
      BY <1>5, RemoteFacts
    <3> QED
      BY <2>1, <2>4, <3>1, Zenon
  <2>6. Remote[p].toggle_mask
    <3>1. SUFFICES ASSUME ~Remote[p].toggle_mask PROVE FALSE
      OBVIOUS
    <3>2. Odd(p)
      BY <2>2, <2>4, <2>5, <3>1, Zenon DEF NextToggle, Odd
    <3> QED
      BY <1>1, <1>5, <3>1, <3>2, Zenon DEF OnlyPressed
  <2>7. NextCurrent(p, c, Sent) = 0 /\ (j % 2 = 1 <=> Odd(p))
    BY <1>1, <1>6, <2>6, PairHit, Zenon
  <2>8. last_code'[p] = k
    BY <1>11, <2>7
  <2>9. CASE SameKey(p, c, Sent)
    <3>1. CountRound(toggle_mask_state[p]) % 2 = 1
      BY <2>2, <2>4, <2>5, <2>6, <2>9, Zenon DEF NextToggle
    <3>2. toggle_mask_state[p] \in 0 .. 3
      BY <1>1, <1>5 DEF TypeOK
    <3>3. ~Odd(p)
      BY <3>1, <3>2 DEF CountRound, Odd
    <3>4. (j + 1) % 2 = 1
      <4>1. ~(j % 2 = 1)
        BY <2>7, <3>3
      <4> QED
        BY <1>5, <4>1
    <3>5. toggle_bit_mask_state' = toggle_bit_mask_state
      BY <1>6, <2>9, Zenon DEF DecodeSignal
    <3>6. Remote[p].toggle_bit => Sent.bit = toggle_bit_mask_state[p]
      BY <2>9, Zenon DEF SameKey
    <3>7. Sent.bit = bits[p]
      BY <1>1, <1>5, SignalFields, Zenon DEF Sent
    <3> QED
      BY <2>4, <2>6, <2>8, <3>4, <3>5, <3>6, <3>7, Zenon
  <2>10. CASE ~SameKey(p, c, Sent)
    <3>1. ~Odd(p)
      <4>1. SUFFICES ASSUME Odd(p) PROVE SameKey(p, c, Sent)
        BY <2>10
      <4>2. /\ last_decoded = p /\ last_code[p] = k /\ p \in recent /\ j % 2 = 1
            /\ Remote[p].toggle_bit => toggle_bit_mask_state[p] = bits[p]
        BY <1>1, <1>5, <4>1, Zenon DEF OnlyPressed
      <4>3. Sent.bit = bits[p] /\ Sent.close
        <5>1. j # 0
          BY <4>2
        <5> QED
          BY <1>1, <1>5, <5>1, SignalFields, Zenon DEF Sent
      <4>4. ~Remote[p].repeat
        BY <1>5, <2>6, DistinctAssumption
      <4>5. RepeatFlag(p, Sent)
        BY <4>3, <4>4, Zenon DEF RepeatFlag
      <4> QED
        BY <1>10, <2>7, <4>2, <4>3, <4>5, Zenon DEF SameKey
    <3>2. (j + 1) % 2 = 1
      <4>1. ~(j % 2 = 1)
        BY <2>7, <3>1
      <4> QED
        BY <1>5, <4>1
    <3>3. Remote[p].toggle_bit =>
            toggle_bit_mask_state' = [toggle_bit_mask_state EXCEPT ![p] = Sent.bit]
      BY <1>6, <2>10, Zenon DEF DecodeSignal
    <3>4. Sent.bit = bits[p]
      BY <1>1, <1>5, SignalFields, Zenon DEF Sent
    <3>5. toggle_bit_mask_state \in [Remotes -> BOOLEAN]
      BY <1>1 DEF TypeOK
    <3>6. Remote[p].toggle_bit => toggle_bit_mask_state'[p] = bits[p]
      BY <1>5, <3>3, <3>4, <3>5, Zenon
    <3> QED
      BY <2>4, <2>6, <2>8, <3>2, <3>6, Zenon
  <2> QED
    BY <2>9, <2>10
<1>14. OnlyPressed'
  BY <1>7, <1>9, <1>12, <1>13, Zenon DEF OnlyPressed
<1>15. /\ MessagesDue(p, k, j) \in Nat /\ MessagesDue(p, k, j + 1) \in Nat
       /\ MessagesDue(p, k, j) <= MessagesDue(p, k, j + 1)
  BY <1>5, DueGrows
<1>16. CASE Silent(p, c, Sent)
  <2>1. press'.messages = press.messages
    BY <1>7, <1>16
  <2>2. Len(press.messages) <= MessagesDue(p, k, j + 1)
    BY <1>1, <1>5, <1>15 DEF NoGhostKeys
  <2>3. NoGhostKeys'
    BY <1>1, <1>7, <2>1, <2>2, Zenon DEF NoGhostKeys
  <2> QED
    BY <1>14, <2>3
<1>17. CASE ~Silent(p, c, Sent)
  <2> DEFINE report == Report(p, c, Sent)
  <2>1. NextCurrent(p, c, Sent) = 0
    BY <1>17, Zenon DEF Silent
  <2>2. c = k /\ PlaceOf(p, k, j) = Len(Parts(p, k))
    BY <1>10, <2>1
  <2>3. MessagesDue(p, k, j + 1) = MessagesDue(p, k, j) + 1
    <3>1. CASE ~Remote[p].toggle_mask
      BY <1>5, <2>2, <3>1, DueNext
    <3>2. CASE Remote[p].toggle_mask
      <4>1. NextToggle(p, c, Sent) % 2 # 1
        BY <1>17, <3>2, Zenon DEF Silent
      <4>2. NextToggle(p, c, Sent) = CountRound(toggle_mask_state[p])
        <5>1. NextToggle(p, c, Sent) # 1
          BY <4>1
        <5> QED
          BY <3>2, <5>1, Zenon DEF NextToggle
      <4>3. toggle_mask_state[p] \in 0 .. 3
        BY <1>1, <1>5 DEF TypeOK
      <4>4. Odd(p)
        <5>1. CountRound(toggle_mask_state[p]) % 2 # 1
          BY <4>1, <4>2
        <5> QED
          BY <5>1, <4>3 DEF CountRound, Odd
      <4>5. j % 2 = 1
        BY <1>1, <1>6, <3>2, <4>4, PairHit, Zenon
      <4> QED
        BY <1>5, <3>2, <4>5, DueNextOfPair
    <3> QED
      BY <3>1, <3>2
  <2>4. report.remote = p /\ report.code = k
    BY <2>2, Zenon DEF Report
  <2>5. press'.messages = Append(press.messages, report)
    BY <1>7, <1>17
  <2> HIDE DEF report
  <2>6. /\ DOMAIN Append(press.messages, report) = 1 .. Len(press.messages) + 1
        /\ Len(Append(press.messages, report)) = Len(press.messages) + 1
        /\ Append(press.messages, report)[Len(press.messages) + 1] = report
        /\ \A i \in 1 .. Len(press.messages) :
             Append(press.messages, report)[i] = press.messages[i]
        /\ Len(press.messages) \in Nat /\ DOMAIN press.messages = 1 .. Len(press.messages)
    BY <1>5
  <2>7. Len(press.messages) + 1 <= MessagesDue(p, k, j + 1)
    BY <1>1, <1>5, <1>15, <2>3 DEF NoGhostKeys
  <2>8. ASSUME NEW i \in 1 .. Len(press.messages) + 1
        PROVE  /\ Append(press.messages, report)[i].remote = p
               /\ Append(press.messages, report)[i].code = k
    <3>1. CASE i = Len(press.messages) + 1
      BY <3>1, <2>4, <2>6
    <3>2. CASE i # Len(press.messages) + 1
      <4>1. i \in 1 .. Len(press.messages)
        BY <2>6, <3>2
      <4> QED
        BY <1>1, <4>1, <2>6, Zenon DEF NoGhostKeys
    <3> QED
      BY <3>1, <3>2
  <2>9. NoGhostKeys'
    BY <1>7, <2>5, <2>6, <2>7, <2>8, Zenon DEF NoGhostKeys
  <2> QED
    BY <1>14, <2>9
<1> QED
  BY <1>16, <1>17

LEMMA GhostInitially ==
  Init => GhostInv
<1> SUFFICES ASSUME Init PROVE GhostInv
  OBVIOUS
<1>1. TypeInv
  BY TypedInitially
<1>2. press.frames = 0 /\ press.messages = <<>>
  BY DEF Init, NoPress
<1>3. \A q \in Remotes : ~Odd(q)
  BY DEF Init, Odd
<1>4. OnlyPressed
  BY <1>2, <1>3 DEF OnlyPressed
<1>5. MessagesDue(press.remote, press.code, 0) = 0
  BY <1>1, PressIs, DueOfNone
<1>6. DOMAIN press.messages = {} /\ Len(press.messages) = 0
  BY <1>2
<1>7. Len(press.messages) <= MessagesDue(press.remote, press.code, press.frames)
  BY <1>2, <1>5, <1>6
<1>8. NoGhostKeys
  BY <1>6, <1>7, Zenon DEF NoGhostKeys
<1> QED
  BY <1>1, <1>4, <1>8 DEF GhostInv

LEMMA PressKeyGhost ==
  ASSUME GhostInv, TypeInv', PressKey
  PROVE  OnlyPressed' /\ NoGhostKeys'
<1>1. TypeInv /\ OnlyPressed
  BY DEF GhostInv
<1>2. /\ press'.remote \in Remotes /\ press'.code \in Codes(press'.remote)
      /\ press'.frames = 0 /\ press'.messages = <<>>
      /\ Remote[press.remote].toggle_mask => press.frames % 2 = 0
      /\ toggle_mask_state' = toggle_mask_state
  BY <1>1, PressKeyIs, Zenon
<1>3. \A q \in Remotes : ~Odd(q)'
  <2>1. ASSUME NEW q \in Remotes, Odd(q) PROVE FALSE
    <3>1. Remote[press.remote].toggle_mask /\ press.frames % 2 = 1
      BY <1>1, <2>1, Zenon DEF OnlyPressed
    <3>2. press.frames % 2 = 0
      BY <1>2, <3>1
    <3> QED
      BY <3>1, <3>2
  <2> QED
    BY <1>2, <2>1, Zenon DEF Odd
<1>4. OnlyPressed'
  BY <1>2, <1>3 DEF OnlyPressed
<1>5. MessagesDue(press'.remote, press'.code, 0) = 0
  BY <1>2, DueOfNone
<1>6. DOMAIN press'.messages = {} /\ Len(press'.messages) = 0
  BY <1>2
<1>7. Len(press'.messages) <= MessagesDue(press'.remote, press'.code, press'.frames)
  BY <1>2, <1>5, <1>6
<1>8. NoGhostKeys'
  BY <1>6, <1>7, Zenon DEF NoGhostKeys
<1> QED
  BY <1>4, <1>8

LEMMA GhostNext ==
  GhostInv /\ [Next]_vars => GhostInv'
<1> SUFFICES ASSUME GhostInv, [Next]_vars PROVE GhostInv'
  OBVIOUS
<1>1. TypeInv /\ TypeInv'
  BY TypedNext DEF GhostInv
<1>2. CASE PressKey
  BY <1>1, <1>2, PressKeyGhost DEF GhostInv
<1>3. CASE Signal \/ GarbledSignal
  <2>1. PICK held, signal : Called(held, signal) /\ decodeCommand(held, signal) /\ UNCHANGED bits
    BY <1>1, <1>3, ArrivedIs, Zenon
  <2>2. OnlyPressed' /\ NoGhostKeys'
    BY <1>1, <2>1, NothingGhost, SignalGhost, Zenon DEF decodeCommand
  <2> QED
    BY <1>1, <2>2 DEF GhostInv
<1>4. CASE UNCHANGED vars
  <2>1. OnlyPressed'
    BY <1>4 DEF GhostInv, OnlyPressed, Odd, vars, remoteVars
  <2>2. press' = press
    BY <1>4 DEF vars
  <2>3. NoGhostKeys'
    BY <2>2, Zenon DEF GhostInv, NoGhostKeys
  <2> QED
    BY <1>1, <2>1, <2>3 DEF GhostInv
<1> QED
  BY <1>2, <1>3, <1>4 DEF Next

\* However signals are garbled or presses broken off, clients hear of no key that is not
\* pressed, and of the one that is at most once for every time it was sent whole: a
\* chain's node that survives a report, a repeat signal that stands for an old code or
\* half a pair of toggle_mask never becomes a message.
THEOREM NoGhosts == Spec => []NoGhostKeys
<1>1. GhostInv => NoGhostKeys
  BY DEF GhostInv
<1> QED
  BY <1>1, GhostInitially, GhostNext, PTL DEF Spec

-----------------------------------------------------------------------------
(* A press that arrives whole is reported.                                 *)

Due   == MessagesDue(press.remote, press.code, press.frames)
Place == PlaceOf(press.remote, press.code, press.frames)
Last  == Len(Parts(press.remote, press.code))

\* The signals of the press were the last ones heard.
Followed ==
  LET p == press.remote
  IN  press.frames > 0 =>
        /\ last_decoded = p /\ last_remote = p /\ p \in recent
        /\ Remote[p].toggle_bit => toggle_bit_mask_state[p] = bits[p]

\* A key that follows another one without a pause is not the one reported last.
NotLast ==
  press.frames = 0 /\ press.close =>
    ~(last_decoded = press.remote /\ last_code[press.remote] = press.code)

SingleCount ==
  LET p == press.remote
      k == press.code
  IN  ~Remote[p].toggle_mask /\ ~IsChain(p, k) /\ press.frames > 0
      => last_code[p] = k /\ reps[p] = press.frames - 1

ChainCount ==
  LET p == press.remote
      k == press.code
  IN  IsChain(p, k) =>
        /\ Due > 0 => last_code[p] = k /\ reps[p] = Due
        /\ Due = 0 /\ press.frames > 0 /\ last_code[p] = k => reps[p] = 0

PairCount ==
  LET p == press.remote
      n == press.frames
  IN  Remote[p].toggle_mask /\ n > 0 =>
        /\ last_code[p] = press.code
        /\ reps[p] = IF n = 1 THEN 0 ELSE (n \div 2) - 1
        /\ toggle_mask_state[p] = IF n % 2 = 0 THEN 2 ELSE IF n = 1 THEN 1 ELSE 3
        /\ n % 2 = 1 => toggle_code[p] = press.code

HeardPlace ==
  Suffix(heard[press.remote][press.code], Parts(press.remote, press.code), Place - 1)

Counts == Followed /\ NotLast /\ SingleCount /\ ChainCount /\ PairCount /\ HeardPlace

WholeInv == GhostInv /\ (press.whole => Counts /\ PressesReported)

\* The code that get_code finds.
Found == get_code(press.remote, Sent)

\* The signal is compared with the user's remote and has the value it was sent with.
LEMMA SentValue ==
  ASSUME TypeInv, OnlyPressed, Counts
  PROVE  /\ Compared(press.remote, Sent)
         /\ SameValue(press.remote, Sent, Parts(press.remote, press.code)[Place])
<1> DEFINE p == press.remote
           k == press.code
           j == press.frames
<1>1. /\ p \in Remotes /\ k \in Codes(p) /\ j \in Nat /\ PressTyped /\ TypeOK
      /\ Place \in 1 .. Last /\ k # 0
  <2>1. p \in Remotes /\ k \in Codes(p) /\ j \in Nat /\ PressTyped /\ TypeOK
    BY PressIs DEF TypeInv
  <2>2. k # 0
    BY <2>1, CodeFacts
  <2>3. Place \in 1 .. Last
    BY <2>1, PlaceIs, Zenon DEF Place, Last
  <2> QED
    BY <2>1, <2>2, <2>3
<1>2. /\ Sent.wave = Remote[p].wave /\ Sent.pre = Remote[p].pre
      /\ Sent.value = Parts(p, k)[Place]
      /\ Sent.repeat <=> Remote[p].repeat /\ j > Remote[p].min_code_repeat
      /\ Sent.inverted \in BOOLEAN
      /\ Sent.inverted <=> Remote[p].toggle_mask /\ j % 2 = 1
  BY <1>1, SignalFields, Zenon DEF Sent, Place
<1>3. Sent.repeat => Remote[p].repeat /\ last_remote = p /\ last_code[p] = k
  <2> SUFFICES ASSUME Sent.repeat PROVE Remote[p].repeat /\ last_remote = p /\ last_code[p] = k
    OBVIOUS
  <2>1. Remote[p].repeat /\ j > Remote[p].min_code_repeat /\ Remote[p].min_code_repeat \in Nat
    BY <1>1, <1>2, RemoteFacts
  <2>2. j > 0
    BY <1>1, <2>1
  <2>3. last_remote = p
    BY <2>2 DEF Counts, Followed
  <2> QED
    BY <2>1, <2>2, <2>3 DEF OnlyPressed
<1>4. Compared(p, Sent)
  BY <1>1, <1>2, <1>3, Zenon DEF Compared, DecodeFunc
<1>5. ValueOf(p, Sent) = Parts(p, k)[Place]
  <2>1. CASE Sent.repeat
    <3>1. Last = 1
      BY <1>1, <1>3, <2>1, CodeFacts, DistinctAssumption DEF Last
    <3>2. Place = 1
      BY <1>1, <3>1
    <3> QED
      BY <1>3, <2>1, <3>2, Zenon DEF ValueOf
  <2>2. CASE ~Sent.repeat
    BY <1>2, <2>2, Zenon DEF ValueOf
  <2> QED
    BY <2>1, <2>2
<1>6. Remote[p].toggle_mask => (j % 2 = 1 <=> Odd(p))
  <2> SUFFICES ASSUME Remote[p].toggle_mask PROVE j % 2 = 1 <=> Odd(p)
    OBVIOUS
  <2>1. Odd(p) => j % 2 = 1
    BY <1>1, Zenon DEF OnlyPressed
  <2>2. ASSUME j % 2 = 1 PROVE Odd(p)
    <3>1. j > 0 /\ ~(j % 2 = 0)
      BY <1>1, <2>2
    <3>2. toggle_mask_state[p] = IF j = 1 THEN 1 ELSE 3
      BY <3>1 DEF Counts, PairCount
    <3> QED
      BY <3>2 DEF Odd
  <2> QED
    BY <2>1, <2>2
<1>7. SameValue(p, Sent, Parts(p, k)[Place])
  <2>1. (Remote[p].toggle_mask /\ j % 2 = 1) <=> (Remote[p].toggle_mask /\ Odd(p))
    BY <1>6
  <2>2. Sent.inverted = (Remote[p].toggle_mask /\ Odd(p))
    BY <1>2, <2>1, Zenon
  <2> QED
    BY <1>5, <2>2, Zenon DEF SameValue
<1> QED
  BY <1>4, <1>7

\* The last value of the key: get_code finds it complete.
LEMMA LastFound ==
  ASSUME TypeInv, OnlyPressed, Counts, Place = Last
  PROVE  /\ Hit(press.remote, Sent) /\ Found = press.code
         /\ NextCurrent(press.remote, press.code, Sent) = 0
<1> DEFINE p == press.remote
           k == press.code
           j == press.frames
           c == FoundCode(p, Sent)
<1>1. /\ p \in Remotes /\ k \in Codes(p) /\ j \in Nat /\ PressTyped /\ TypeOK
      /\ Last \in Nat /\ Last > 0 /\ k # 0
  BY PressIs, CodeFacts DEF TypeInv, Last
<1>2. Compared(p, Sent) /\ SameValue(p, Sent, Parts(p, k)[Last])
  BY SentValue, Zenon
<1>3. current[p][k] + 1 = Last
  <2>1. Longest(heard[p][k], Parts(p, k), current[p][k])
    BY <1>1 DEF TypeInv, Matched
  <2>2. Suffix(heard[p][k], Parts(p, k), Last - 1)
    BY Zenon DEF Counts, HeardPlace
  <2>3. Last - 1 \in 0 .. Last - 1 /\ Last - 1 <= current[p][k] /\ current[p][k] \in 0 .. Last - 1
    BY <1>1, <2>1, <2>2 DEF Longest, Last
  <2> QED
    BY <1>1, <2>3
<1>4. Expected(p, k) = Parts(p, k)[Last]
  BY <1>3, Zenon DEF Expected
<1>5. IsComplete(p, k, Sent) /\ NextCurrent(p, k, Sent) = 0
  BY <1>2, <1>3, <1>4, Zenon DEF IsComplete, NextCurrent, Last
<1>6. c # 0 /\ c \in Codes(p) /\ IsComplete(p, c, Sent)
  BY <1>1, <1>5, FoundCodeIs, Zenon
<1>7. SameValue(p, Sent, Parts(p, c)[Len(Parts(p, c))])
  BY <1>6, Zenon DEF IsComplete, Expected
<1>8. c = k
  BY <1>2, <1>6, <1>7, CompletesPressed, Zenon
<1>9. Found = k
  <2>1. Remote[p].toggle_mask /\ Odd(p) => toggle_code[p] = k
    <3> SUFFICES ASSUME Remote[p].toggle_mask, Odd(p) PROVE toggle_code[p] = k
      OBVIOUS
    <3>1. j % 2 = 1
      BY <1>1, Zenon DEF OnlyPressed
    <3>2. j > 0
      BY <1>1, <3>1
    <3> QED
      BY <3>1, <3>2 DEF Counts, PairCount
  <2> QED
    BY <1>8, <2>1, Zenon DEF get_code, Found
<1> QED
  BY <1>1, <1>2, <1>5, <1>9, Zenon DEF Hit, Found

\* Another value of the key: get_code finds a key that the signal continues.
LEMMA PartFound ==
  ASSUME TypeInv, OnlyPressed, Counts, Place # Last
  PROVE  /\ Hit(press.remote, Sent)
         /\ NextCurrent(press.remote, Found, Sent) # 0
         /\ Suffix(Append(heard[press.remote][press.code], HeardValue(press.remote, Sent)),
                   Parts(press.remote, press.code), Place)
         /\ ~Remote[press.remote].toggle_mask /\ IsChain(press.remote, press.code)
<1> DEFINE p == press.remote
           k == press.code
           j == press.frames
           c == FoundCode(p, Sent)
           more == Append(heard[p][k], HeardValue(p, Sent))
<1>1. /\ p \in Remotes /\ k \in Codes(p) /\ j \in Nat /\ PressTyped /\ TypeOK
      /\ Last \in Nat /\ Last > 0 /\ Place \in 1 .. Last
      /\ IsChain(p, k) <=> Last # 1
      /\ Parts(p, k) \in Seq(Values)
  BY PressIs, PlaceIs, CodeFacts DEF TypeInv, Last, Place
<1>2. Compared(p, Sent) /\ SameValue(p, Sent, Parts(p, k)[Place])
  BY SentValue, Zenon
<1>3. Last # 1 /\ IsChain(p, k) /\ Place \in 0 .. Last - 1 /\ Place - 1 \in Nat /\ Place > 0
  BY <1>1
<1>4. ~Remote[p].toggle_mask
  BY <1>1, <1>3, DistinctAssumption
<1>5. IsSignal(Sent)
  BY <1>1, SentIsSignal DEF Sent
<1>6. HeardValue(p, Sent) \in Pairs /\ Sent.inverted \in BOOLEAN
  BY <1>1, <1>2, <1>5, Zenon DEF IsSignal
<1>7. heard[p][k] \in Seq(Pairs) /\ Longest(heard[p][k], Parts(p, k), current[p][k])
  BY <1>1 DEF TypeInv, Matched
<1>8. Suffix(heard[p][k], Parts(p, k), Place - 1)
  BY Zenon DEF Counts, HeardPlace
<1>9. HeardValue(p, Sent) = AsSent(Parts(p, k)[Place])
  BY <1>1, <1>2, <1>4, <1>6, SameValueIs
<1>10. Suffix(more, Parts(p, k), Place)
  <2>1. PICK n \in Nat : n = Place - 1
    BY <1>3
  <2>2. Place = n + 1
    BY <1>1, <2>1
  <2>3. Suffix(heard[p][k], Parts(p, k), n) /\ HeardValue(p, Sent) = AsSent(Parts(p, k)[n + 1])
    BY <1>8, <1>9, <2>1, <2>2
  <2>4. Suffix(more, Parts(p, k), n + 1)
    BY <1>1, <1>6, <1>7, <2>3, SuffixAppended
  <2> QED
    BY <2>2, <2>4
<1>11. NextCurrent(p, k, Sent) # 0
  <2>1. Longest(more, Parts(p, k), NextCurrent(p, k, Sent))
    BY <1>1, <1>6, <1>7, NextIsLongest
  <2> HIDE DEF more
  <2>2. Place <= NextCurrent(p, k, Sent)
    BY <1>3, <1>10, <2>1 DEF Longest, Last
  <2> QED
    BY <1>3, <2>2
<1>12. \A d \in Codes(p) : ~IsComplete(p, d, Sent)
  <2> SUFFICES ASSUME NEW d \in Codes(p), IsComplete(p, d, Sent) PROVE FALSE
    OBVIOUS
  <2>1. SameValue(p, Sent, Parts(p, d)[Len(Parts(p, d))])
    BY Zenon DEF IsComplete, Expected
  <2> QED
    BY <1>2, <2>1, CompletesPressed, Zenon DEF Place, Last
<1>13. c # 0 /\ NextCurrent(p, c, Sent) # 0
  BY <1>1, <1>11, <1>12, FoundCodeIs, Zenon
<1>14. Found = c
  BY <1>4, Zenon DEF get_code, Found
<1> QED
  BY <1>1, <1>2, <1>3, <1>4, <1>10, <1>13, <1>14, Zenon DEF Hit, Found

\* When set_code takes the signal for one of the key that is held down.
LEMMA HeldDown ==
  ASSUME TypeInv, Counts, Found = press.code \/ NextCurrent(press.remote, Found, Sent) # 0
  PROVE  /\ press.frames > 0 => ( SameKey(press.remote, Found, Sent)
                                  <=> \/ Found = last_code[press.remote]
                                      \/ NextCurrent(press.remote, Found, Sent) # 0 )
         /\ press.frames = 0 /\ last_code[press.remote] = press.code
              => ~SameKey(press.remote, Found, Sent)
<1> DEFINE p == press.remote
           j == press.frames
<1>1. /\ p \in Remotes /\ press.code \in Codes(p) /\ j \in Nat /\ PressTyped
      /\ Remote[p].min_code_repeat \in Nat
  BY PressIs, RemoteFacts DEF TypeInv
<1>2. /\ Sent.bit = bits[p] /\ (Sent.close <=> (j = 0 => press.close))
      /\ Sent.repeat <=> Remote[p].repeat /\ j > Remote[p].min_code_repeat
  BY <1>1, SignalFields, Zenon DEF Sent
<1>3. ASSUME j > 0
      PROVE  /\ last_decoded = p /\ RepeatFlag(p, Sent) /\ p \in recent
             /\ Remote[p].toggle_bit => Sent.bit = toggle_bit_mask_state[p]
  <2>1. /\ last_decoded = p /\ p \in recent
        /\ Remote[p].toggle_bit => Sent.bit = toggle_bit_mask_state[p]
    BY <1>2, <1>3 DEF Counts, Followed
  <2>2. Sent.close
    <3>1. j # 0
      BY <1>1, <1>3
    <3> QED
      BY <1>2, <3>1, Zenon
  <2>3. CASE ~Remote[p].repeat
    BY <2>1, <2>2, <2>3, Zenon DEF RepeatFlag
  <2>4. CASE Remote[p].repeat /\ j > Remote[p].min_code_repeat
    BY <1>2, <2>1, <2>4, Zenon DEF RepeatFlag
  <2>5. CASE Remote[p].repeat /\ ~(j > Remote[p].min_code_repeat)
    <3>1. ~Remote[p].toggle_mask /\ ~IsChain(p, press.code)
      BY <1>1, <2>5, DistinctAssumption
    <3>2. reps[p] = j - 1
      BY <1>3, <3>1 DEF Counts, SingleCount
    <3>3. reps[p] < Remote[p].min_code_repeat
      BY <1>1, <1>3, <2>5, <3>2
    <3> QED
      BY <2>1, <2>2, <3>3, Zenon DEF RepeatFlag
  <2> QED
    BY <2>3, <2>4, <2>5
<1>4. ASSUME j = 0, last_code[p] = press.code, SameKey(p, Found, Sent)
      PROVE  FALSE
  <2>1. last_decoded = p /\ RepeatFlag(p, Sent)
    BY <1>4, Zenon DEF SameKey
  <2>2. ~Sent.repeat
    <3>1. ~(j > Remote[p].min_code_repeat)
      BY <1>1, <1>4
    <3> QED
      BY <1>2, <3>1, Zenon
  <2>3. press.close
    BY <1>2, <1>4, <2>1, <2>2, Zenon DEF RepeatFlag
  <2> QED
    BY <1>4, <2>1, <2>3 DEF Counts, NotLast
<1>5. j > 0 => ( SameKey(p, Found, Sent)
                 <=> Found = last_code[p] \/ NextCurrent(p, Found, Sent) # 0 )
  BY <1>3, Zenon DEF SameKey
<1> QED
  BY <1>4, <1>5, Zenon

\* The signal of a press that arrives whole reaches set_code.
SentStep(held) ==
  LET p == press.remote
  IN  /\ WholeInv /\ press.whole /\ TypeInv'
      /\ Called(held, Sent) /\ DecodeSignal(held, p, Sent) /\ UNCHANGED bits

LEMMA SentIsHit ==
  ASSUME TypeInv, OnlyPressed, Counts
  PROVE  /\ Hit(press.remote, Sent)
         /\ Found = press.code \/ NextCurrent(press.remote, Found, Sent) # 0
BY LastFound, PartFound, Zenon

LEMMA StepIs ==
  ASSUME NEW held, SentStep(held)
  PROVE  LET p == press.remote
             k == press.code
         IN  /\ press'.remote = p /\ press'.code = k /\ press'.frames = press.frames + 1
             /\ press'.messages = IF Silent(p, Found, Sent) THEN press.messages
                                  ELSE Append(press.messages, Report(p, Found, Sent))
             /\ reps'[p] = NextReps(p, Found, Sent)
             /\ last_code'[p] = IF NextCurrent(p, Found, Sent) # 0 THEN last_code[p] ELSE Found
             /\ toggle_mask_state'[p] = NextToggle(p, Found, Sent)
             /\ Followed' /\ NotLast'
             /\ p \in Remotes /\ k \in Codes(p) /\ Found \in Codes(p)
             /\ press.frames \in Nat /\ press.messages \in Seq(Messages)
             /\ TypeInv /\ OnlyPressed /\ Counts /\ PressesReported
<1> DEFINE p == press.remote
           k == press.code
           j == press.frames
<1>1. /\ TypeInv /\ OnlyPressed /\ Counts /\ PressesReported /\ TypeOK /\ PressTyped
      /\ Called(held, Sent) /\ DecodeSignal(held, p, Sent) /\ UNCHANGED bits
  BY DEF SentStep, WholeInv, GhostInv, TypeInv
<1>2. /\ p \in Remotes /\ p # 0 /\ k \in Codes(p) /\ j \in Nat
      /\ press.messages \in Seq(Messages) /\ bits[p] \in BOOLEAN
  BY <1>1, PressIs
<1>3. Found \in Codes(p)
  BY <1>1, <1>2, SentIsHit, HitCode, Zenon DEF Found
<1>4. /\ press'.remote = p /\ press'.code = k /\ press'.frames = j + 1
      /\ press'.messages = IF Silent(p, Found, Sent) THEN press.messages
                           ELSE Append(press.messages, Report(p, Found, Sent))
  BY <1>1, <1>2, PressAfter, Zenon DEF Called, Found
<1>5. reps'[p] = NextReps(p, Found, Sent)
  <2>1. reps' = [reps EXCEPT ![p] = NextReps(p, Found, Sent)]
    BY <1>1, Zenon DEF DecodeSignal, Found
  <2>2. reps \in [Remotes -> Nat]
    BY <1>1 DEF TypeOK
  <2> QED
    BY <1>2, <2>1, <2>2, Zenon
<1>6. last_code'[p] = IF NextCurrent(p, Found, Sent) # 0 THEN last_code[p] ELSE Found
  <2>1. last_code' = IF NextCurrent(p, Found, Sent) # 0 THEN last_code
                     ELSE [last_code EXCEPT ![p] = Found]
    BY <1>1, Zenon DEF DecodeSignal, Found
  <2>2. last_code \in [Remotes -> Nat]
    BY <1>1 DEF TypeOK
  <2> QED
    BY <1>2, <2>1, <2>2
<1>7. toggle_mask_state'[p] = NextToggle(p, Found, Sent)
  <2>1. toggle_mask_state'[p] = IF p < p THEN 0 ELSE IF p = p THEN NextToggle(p, Found, Sent)
                                ELSE toggle_mask_state[p]
    BY <1>1, <1>2, Zenon DEF DecodeSignal, Found
  <2>2. ~(p < p)
    BY <1>2, RemoteFacts
  <2> QED
    BY <2>1, <2>2, Zenon
<1>8. last_decoded' = p /\ last_remote' = p /\ p \in recent'
  BY <1>1, Zenon DEF DecodeSignal
<1>9. Remote[p].toggle_bit => toggle_bit_mask_state'[p] = bits'[p]
  <2>1. Sent.bit = bits[p]
    BY <1>1, <1>2, SignalFields, Zenon DEF Sent
  <2>2. toggle_bit_mask_state \in [Remotes -> BOOLEAN]
    BY <1>1 DEF TypeOK
  <2>3. CASE SameKey(p, Found, Sent)
    <3>1. toggle_bit_mask_state' = toggle_bit_mask_state
      BY <1>1, <2>3, Zenon DEF DecodeSignal, Found
    <3>2. Remote[p].toggle_bit => Sent.bit = toggle_bit_mask_state[p]
      BY <2>3, Zenon DEF SameKey
    <3> QED
      BY <1>1, <2>1, <3>1, <3>2, Zenon
  <2>4. CASE ~SameKey(p, Found, Sent)
    <3>1. Remote[p].toggle_bit =>
            toggle_bit_mask_state' = [toggle_bit_mask_state EXCEPT ![p] = Sent.bit]
      BY <1>1, <2>4, Zenon DEF DecodeSignal, Found
    <3> QED
      BY <1>1, <1>2, <2>1, <2>2, <3>1, Zenon
  <2> QED
    BY <2>3, <2>4
<1>10. Followed'
  BY <1>4, <1>8, <1>9, Zenon DEF Followed
<1>11. NotLast'
  <2>1. press'.frames # 0
    BY <1>2, <1>4
  <2> QED
    BY <2>1, Zenon DEF NotLast
<1> QED
  BY <1>1, <1>2, <1>3, <1>4, <1>5, <1>6, <1>7, <1>10, <1>11, Zenon

\* A value that is not the last of its key: nothing is reported.
LEMMA PartStep ==
  ASSUME NEW held, SentStep(held), Place # Last
  PROVE  Counts' /\ PressesReported'
<1> DEFINE p == press.remote
           k == press.code
           j == press.frames
<1>1. /\ press'.remote = p /\ press'.code = k /\ press'.frames = j + 1
      /\ press'.messages = IF Silent(p, Found, Sent) THEN press.messages
                           ELSE Append(press.messages, Report(p, Found, Sent))
      /\ reps'[p] = NextReps(p, Found, Sent)
      /\ last_code'[p] = IF NextCurrent(p, Found, Sent) # 0 THEN last_code[p] ELSE Found
      /\ Followed' /\ NotLast'
      /\ p \in Remotes /\ k \in Codes(p) /\ j \in Nat /\ press.messages \in Seq(Messages)
      /\ TypeInv /\ OnlyPressed /\ Counts /\ PressesReported
  BY StepIs, Zenon
<1>2. /\ NextCurrent(p, Found, Sent) # 0
      /\ Suffix(Append(heard[p][k], HeardValue(p, Sent)), Parts(p, k), Place)
      /\ ~Remote[p].toggle_mask /\ IsChain(p, k)
  BY <1>1, PartFound, Zenon
<1>3. Silent(p, Found, Sent) /\ last_code'[p] = last_code[p] /\ press'.messages = press.messages
  BY <1>1, <1>2, Zenon DEF Silent
<1>4. /\ Place \in 1 .. Last /\ Due \in Nat
      /\ MessagesDue(p, k, j + 1) = Due /\ PlaceOf(p, k, j + 1) = Place + 1
  <2>1. /\ MessagesDue(p, k, j + 1) = Due + (IF Place = Last THEN 1 ELSE 0)
        /\ PlaceOf(p, k, j + 1) = IF Place # Last THEN Place + 1
                                  ELSE IF Remote[p].xmp /\ IsChain(p, k) THEN 2 ELSE 1
        /\ Place \in 1 .. Last /\ Due \in Nat
    BY <1>1, <1>2, DueNext, Zenon DEF Due, Place, Last
  <2> QED
    BY <2>1
<1>5. Due' = Due /\ Place' = Place + 1
  BY <1>1, <1>4, Zenon DEF Due, Place
<1>6. reps'[p] = IF SameKey(p, Found, Sent) THEN reps[p] ELSE 0
  BY <1>1, <1>2, Zenon DEF NextReps
<1>7. ChainCount'
  <2>1. (Due > 0 => last_code'[p] = k /\ reps'[p] = Due)
    <3> SUFFICES ASSUME Due > 0 PROVE last_code'[p] = k /\ reps'[p] = Due
      OBVIOUS
    <3>1. last_code[p] = k /\ reps[p] = Due
      BY <1>2 DEF Counts, ChainCount, WholeInv, SentStep
    <3>2. j > 0
      <4>1. j # 0
        <5>1. MessagesDue(p, k, 0) = 0
          BY <1>1, DueOfNone
        <5> QED
          BY <5>1 DEF Due
      <4> QED
        BY <1>1, <4>1
    <3>3. SameKey(p, Found, Sent)
      BY <1>1, <1>2, <3>2, HeldDown, Zenon
    <3> QED
      BY <1>3, <1>6, <3>1, <3>3
  <2>2. Due = 0 /\ last_code'[p] = k => reps'[p] = 0
    <3> SUFFICES ASSUME Due = 0, last_code'[p] = k PROVE reps'[p] = 0
      OBVIOUS
    <3>1. CASE j > 0
      <4>1. last_code[p] = k
        BY <1>3
      <4>2. reps[p] = 0
        BY <1>1, <1>2, <3>1, <4>1 DEF Counts, ChainCount
      <4> QED
        BY <1>6, <4>2
    <3>2. CASE j = 0
      <4>1. ~SameKey(p, Found, Sent)
        BY <1>1, <1>2, <1>3, <3>2, HeldDown, Zenon
      <4> QED
        BY <1>6, <4>1
    <3> QED
      BY <1>1, <3>1, <3>2
  <2> QED
    BY <1>1, <1>5, <2>1, <2>2, Zenon DEF ChainCount
<1>8. SingleCount' /\ PairCount'
  BY <1>1, <1>2, Zenon DEF SingleCount, PairCount
<1>9. HeardPlace'
  <2>1. heard' = HeardAfter(Tried(p) \cup {p}, Sent)
    BY <1>3, Zenon DEF DecodeSignal, Silent, SentStep, Found
  <2>2. p \in Tried(p) \cup {p} /\ Compared(p, Sent)
    BY <1>1, SentValue, Zenon
  <2>3. heard'[p][k] = Append(heard[p][k], HeardValue(p, Sent))
    BY <1>1, <2>1, <2>2, Zenon DEF HeardAfter
  <2>4. Place' - 1 = Place
    BY <1>4, <1>5
  <2> QED
    BY <1>1, <1>2, <2>3, <2>4, Zenon DEF HeardPlace
<1>10. PressesReported'
  BY <1>1, <1>3, <1>5, Zenon DEF PressesReported, Due, SentStep
<1> QED
  BY <1>1, <1>7, <1>8, <1>9, <1>10, Zenon DEF Counts

\* The messages of a press of which n were due.
Reported(n) ==
  [i \in 1 .. n |-> [remote |-> press.remote, code |-> press.code, reps |-> i - 1]]

LEMMA ReportedNext ==
  ASSUME NEW n \in Nat, NEW report,
         report = [remote |-> press.remote, code |-> press.code, reps |-> n]
  PROVE  Append(Reported(n), report) = Reported(n + 1)
<1> DEFINE rec(i) == [remote |-> press.remote, code |-> press.code, reps |-> i - 1]
<1>1. Reported(n) = [i \in 1 .. n |-> rec(i)] /\ Reported(n + 1) = [i \in 1 .. n + 1 |-> rec(i)]
  BY DEF Reported
<1>2. report = rec(n + 1)
  <2>1. (n + 1) - 1 = n
    OBVIOUS
  <2> QED
    BY <2>1
<1> HIDE DEF rec
<1>3. Reported(n) \in Seq({rec(i) : i \in 1 .. n + 1})
  BY <1>1
<1>4. Len(Reported(n)) = n
  BY <1>1
<1>5. Append(Reported(n), report) = [i \in 1 .. n + 1 |-> rec(i)]
  BY <1>1, <1>2, <1>3, <1>4
<1> QED
  BY <1>1, <1>5

LEMMA ReportedNone ==
  Reported(0) = <<>>
BY DEF Reported

\* The last value of a key without toggle_mask: it is reported.
LEMMA LastStep ==
  ASSUME NEW held, SentStep(held), Place = Last, ~Remote[press.remote].toggle_mask
  PROVE  Counts' /\ PressesReported'
<1> DEFINE p == press.remote
           k == press.code
           j == press.frames
           again == IF Remote[p].xmp /\ IsChain(p, k) THEN 1 ELSE 0
<1>1. /\ press'.remote = p /\ press'.code = k /\ press'.frames = j + 1
      /\ press'.messages = IF Silent(p, Found, Sent) THEN press.messages
                           ELSE Append(press.messages, Report(p, Found, Sent))
      /\ reps'[p] = NextReps(p, Found, Sent)
      /\ last_code'[p] = IF NextCurrent(p, Found, Sent) # 0 THEN last_code[p] ELSE Found
      /\ Followed' /\ NotLast'
      /\ p \in Remotes /\ k \in Codes(p) /\ j \in Nat /\ press.messages \in Seq(Messages)
      /\ TypeInv /\ OnlyPressed /\ Counts /\ PressesReported
  BY StepIs, Zenon
<1>2. Found = k /\ NextCurrent(p, k, Sent) = 0
  BY <1>1, LastFound, Zenon
<1>3. ~Silent(p, Found, Sent) /\ last_code'[p] = k
      /\ press'.messages = Append(press.messages, Report(p, k, Sent))
  BY <1>1, <1>2, Zenon DEF Silent
<1>4. /\ Last \in Nat /\ Last > 0 /\ Due \in Nat /\ (IsChain(p, k) <=> Last # 1)
      /\ MessagesDue(p, k, j + 1) = Due + 1
      /\ PlaceOf(p, k, j + 1) = again + 1
  <2>1. /\ MessagesDue(p, k, j + 1) = Due + (IF Place = Last THEN 1 ELSE 0)
        /\ PlaceOf(p, k, j + 1) = IF Place # Last THEN Place + 1
                                  ELSE IF Remote[p].xmp /\ IsChain(p, k) THEN 2 ELSE 1
        /\ Due \in Nat
    BY <1>1, DueNext, Zenon DEF Due, Place, Last
  <2>2. Last \in Nat /\ Last > 0 /\ (IsChain(p, k) <=> Last # 1)
    BY <1>1, CodeFacts DEF Last
  <2> QED
    BY <2>1, <2>2
<1>5. Due' = Due + 1 /\ Place' = again + 1
  BY <1>1, <1>4, Zenon DEF Due, Place
<1>6. reps'[p] = IF SameKey(p, k, Sent) THEN reps[p] + 1 ELSE IF IsChain(p, k) THEN 1 ELSE 0
  BY <1>1, <1>2, Zenon DEF NextReps
<1>7. /\ j > 0 => (SameKey(p, k, Sent) <=> k = last_code[p])
      /\ j = 0 /\ last_code[p] = k => ~SameKey(p, k, Sent)
      /\ SameKey(p, k, Sent) => k = last_code[p]
  <2>1. /\ j > 0 => (SameKey(p, k, Sent) <=> k = last_code[p])
        /\ j = 0 /\ last_code[p] = k => ~SameKey(p, k, Sent)
    BY <1>1, <1>2, HeldDown, Zenon
  <2>2. SameKey(p, k, Sent) => k = last_code[p]
    BY <1>2, Zenon DEF SameKey
  <2> QED
    BY <2>1, <2>2
<1>8. MessagesDue(p, k, 0) = 0
  BY <1>1, DueOfNone
<1>9. IsChain(p, k) => reps'[p] = Due + 1
  <2> SUFFICES ASSUME IsChain(p, k) PROVE reps'[p] = Due + 1
    OBVIOUS
  <2>1. CASE Due > 0
    <3>1. last_code[p] = k /\ reps[p] = Due
      BY <1>1, <2>1 DEF Counts, ChainCount
    <3>2. j # 0
      BY <1>8, <2>1 DEF Due
    <3>3. SameKey(p, k, Sent)
      BY <1>1, <1>7, <3>1, <3>2
    <3> QED
      BY <1>6, <3>1, <3>3
  <2>2. CASE Due = 0 /\ last_code[p] = k /\ j > 0
    <3>1. reps[p] = 0
      BY <1>1, <2>2 DEF Counts, ChainCount
    <3>2. SameKey(p, k, Sent)
      BY <1>7, <2>2
    <3> QED
      BY <1>6, <2>2, <3>1, <3>2
  <2>3. CASE Due = 0 /\ (last_code[p] # k \/ j = 0)
    <3>1. ~SameKey(p, k, Sent)
      BY <1>1, <1>7, <2>3
    <3> QED
      BY <1>6, <2>3, <3>1
  <2> QED
    BY <1>1, <1>4, <2>1, <2>2, <2>3
<1>10. ~IsChain(p, k) => reps'[p] = j /\ Due = j
  <2> SUFFICES ASSUME ~IsChain(p, k) PROVE reps'[p] = j /\ Due = j
    OBVIOUS
  <2>1. Due = j
    <3>1. Len(Parts(p, k)) = 1
      BY <1>4 DEF Last
    <3>2. MessagesDue(p, k, j) = j \div 1
      BY <3>1 DEF MessagesDue
    <3> QED
      BY <1>1, <3>2 DEF Due
  <2>2. CASE j > 0
    <3>1. last_code[p] = k /\ reps[p] = j - 1
      BY <1>1, <2>2 DEF Counts, SingleCount
    <3>2. SameKey(p, k, Sent)
      BY <1>7, <2>2, <3>1
    <3> QED
      BY <1>1, <1>6, <2>1, <3>1, <3>2
  <2>3. CASE j = 0
    <3>1. ~SameKey(p, k, Sent)
      BY <1>7, <2>3
    <3> QED
      BY <1>6, <2>1, <2>3, <3>1
  <2> QED
    BY <1>1, <2>2, <2>3
<1>11. SingleCount' /\ ChainCount' /\ PairCount'
  <2>1. SingleCount'
    <3>1. (j + 1) - 1 = j
      BY <1>1
    <3> QED
      BY <1>1, <1>3, <1>10, <3>1, Zenon DEF SingleCount
  <2>2. ChainCount'
    <3>1. Due + 1 # 0
      BY <1>4
    <3> QED
      BY <1>1, <1>3, <1>5, <1>9, <3>1, Zenon DEF ChainCount
  <2>3. PairCount'
    BY <1>1, Zenon DEF PairCount
  <2> QED
    BY <2>1, <2>2, <2>3
<1>12. HeardPlace'
  <2>1. heard' = HeardAnew(p, k, again)
    <3>1. again = IF Remote[p].xmp /\ IsChain(p, Found) THEN 1 ELSE 0
      BY <1>2
    <3> QED
      BY <1>2, <1>3, <3>1, Zenon DEF DecodeSignal, Silent, SentStep, Found
  <2>2. heard'[p][k] = IF again = 1 THEN <<AsSent(Parts(p, k)[1])>> ELSE <<>>
    BY <1>1, <2>1, Zenon DEF HeardAnew
  <2>3. Place' - 1 = again
    BY <1>5
  <2>4. Parts(p, k) \in Seq(Values) /\ Len(Parts(p, k)) > 0 /\ Len(Parts(p, k)) \in Nat
    BY <1>1, CodeFacts
  <2>5. Suffix(heard'[p][k], Parts(p, k), again)
    <3>1. CASE again = 1
      <4>1. Len(Parts(p, k)) > 1
        BY <3>1 DEF IsChain
      <4>2. Suffix(<<AsSent(Parts(p, k)[1])>>, Parts(p, k), 1)
        BY <2>4, <4>1, NextOfFirst DEF Longest
      <4> QED
        BY <2>2, <3>1, <4>2
    <3>2. CASE again # 1
      <4>1. Suffix(<<>>, Parts(p, k), 0)
        BY <2>4, NextOfNothing DEF Longest
      <4>2. again = 0
        BY <3>2
      <4> QED
        BY <2>2, <3>2, <4>1, <4>2
    <3> QED
      BY <3>1, <3>2
  <2> QED
    BY <1>1, <2>3, <2>5, Zenon DEF HeardPlace
<1>13. PressesReported'
  <2>1. press.messages = Reported(Due)
    BY <1>1, Zenon DEF PressesReported, Reported, SentStep, Due
  <2>2. Report(p, k, Sent) = [remote |-> p, code |-> k, reps |-> Due]
    <3>1. NextReps(p, k, Sent) - (IF IsChain(p, k) THEN 1 ELSE 0) = Due
      BY <1>1, <1>2, <1>4, <1>9, <1>10
    <3> QED
      BY <3>1, Zenon DEF Report
  <2>3. press'.messages = Reported(Due + 1)
    BY <1>3, <1>4, <2>1, <2>2, ReportedNext, Zenon
  <2> QED
    BY <1>1, <1>4, <2>3, Zenon DEF PressesReported, Reported
<1> QED
  BY <1>1, <1>11, <1>12, <1>13, Zenon DEF Counts

\* A signal of a pair: the second one is reported.
LEMMA PairStep ==
  ASSUME NEW held, SentStep(held), Remote[press.remote].toggle_mask
  PROVE  Counts' /\ PressesReported'
<1> DEFINE p == press.remote
           k == press.code
           j == press.frames
           state == toggle_mask_state[p]
<1>1. /\ press'.remote = p /\ press'.code = k /\ press'.frames = j + 1
      /\ press'.messages = IF Silent(p, Found, Sent) THEN press.messages
                           ELSE Append(press.messages, Report(p, Found, Sent))
      /\ reps'[p] = NextReps(p, Found, Sent)
      /\ last_code'[p] = IF NextCurrent(p, Found, Sent) # 0 THEN last_code[p] ELSE Found
      /\ toggle_mask_state'[p] = NextToggle(p, Found, Sent)
      /\ Followed' /\ NotLast'
      /\ p \in Remotes /\ k \in Codes(p) /\ j \in Nat /\ press.messages \in Seq(Messages)
      /\ TypeInv /\ OnlyPressed /\ Counts /\ PressesReported
  BY StepIs, Zenon
<1>2. /\ Due = j \div 2 /\ j \div 2 \in Nat /\ MessagesDue(p, k, j + 1) = (j + 1) \div 2
      /\ (j + 1) \div 2 = (j \div 2) + (IF j % 2 = 1 THEN 1 ELSE 0)
      /\ Len(Parts(p, k)) = 1 /\ PlaceOf(p, k, j) = 1 /\ PlaceOf(p, k, j + 1) = 1
  <2>1. j + 1 \in Nat
    BY <1>1
  <2>2. PlaceOf(p, k, j + 1) = 1
    BY <1>1, <2>1, DueNextOfPair, Zenon
  <2> QED
    BY <1>1, <2>2, DueNextOfPair, Zenon DEF Due
<1>3. Place = Last /\ Place' = 1
  BY <1>1, <1>2, Zenon DEF Place, Last
<1>4. /\ Found = k /\ NextCurrent(p, k, Sent) = 0 /\ Hit(p, Sent)
      /\ j % 2 = 1 <=> Odd(p)
  <2>1. Found = k /\ NextCurrent(p, k, Sent) = 0 /\ Hit(p, Sent)
    BY <1>1, <1>3, LastFound, Zenon
  <2> QED
    BY <1>1, <2>1, PairHit, Zenon
<1>5. ~IsChain(p, k) /\ state \in 0 .. 3 /\ Due' = (j + 1) \div 2
  <2>1. Due' = (j + 1) \div 2
    BY <1>1, <1>2, Zenon DEF Due
  <2>2. state \in 0 .. 3
    BY <1>1 DEF TypeInv, TypeOK
  <2> QED
    BY <1>2, <2>1, <2>2 DEF IsChain
<1>6. /\ last_code'[p] = k
      /\ toggle_mask_state'[p] = IF SameKey(p, k, Sent) THEN CountRound(state) ELSE 1
      /\ reps'[p] = IF SameKey(p, k, Sent) THEN (IF state = 3 THEN reps[p] + 1 ELSE reps[p])
                    ELSE 0
  BY <1>1, <1>4, <1>5, Zenon DEF NextToggle, NextReps
<1>7. /\ j > 0 => (SameKey(p, k, Sent) <=> k = last_code[p])
      /\ SameKey(p, k, Sent) => k = last_code[p]
      /\ j = 0 /\ last_code[p] = k => ~SameKey(p, k, Sent)
  <2>1. /\ j > 0 => (SameKey(p, k, Sent) <=> k = last_code[p])
        /\ j = 0 /\ last_code[p] = k => ~SameKey(p, k, Sent)
    BY <1>1, <1>4, HeldDown, Zenon
  <2>2. SameKey(p, k, Sent) => k = last_code[p]
    BY <1>4, Zenon DEF SameKey
  <2> QED
    BY <2>1, <2>2
<1>8. j > 0 => /\ SameKey(p, k, Sent)
               /\ reps[p] = IF j = 1 THEN 0 ELSE (j \div 2) - 1
               /\ state = IF j % 2 = 0 THEN 2 ELSE IF j = 1 THEN 1 ELSE 3
  BY <1>1, <1>7 DEF Counts, PairCount
<1>9. j = 0 => ~SameKey(p, k, Sent)
  BY <1>7
<1>10. /\ reps'[p] = IF j + 1 = 1 THEN 0 ELSE ((j + 1) \div 2) - 1
       /\ toggle_mask_state'[p] = IF (j + 1) % 2 = 0 THEN 2 ELSE IF j + 1 = 1 THEN 1 ELSE 3
  <2>1. CASE j = 0
    <3>1. reps'[p] = 0 /\ toggle_mask_state'[p] = 1
      BY <1>6, <1>9, <2>1
    <3> QED
      BY <2>1, <3>1
  <2>2. CASE j = 1
    <3>1. reps'[p] = 0 /\ toggle_mask_state'[p] = 2
      BY <1>6, <1>8, <2>2 DEF CountRound
    <3> QED
      BY <2>2, <3>1
  <2>3. CASE j > 1 /\ j % 2 = 0
    <3>1. reps'[p] = (j \div 2) - 1 /\ toggle_mask_state'[p] = 3
      BY <1>1, <1>6, <1>8, <2>3 DEF CountRound
    <3>2. (j + 1) % 2 = 1 /\ (j + 1) \div 2 = j \div 2 /\ j + 1 # 1
      BY <1>1, <2>3
    <3> QED
      BY <3>1, <3>2
  <2>4. CASE j > 1 /\ j % 2 = 1
    <3>1. reps'[p] = (j \div 2) - 1 + 1 /\ toggle_mask_state'[p] = 2
      BY <1>1, <1>6, <1>8, <2>4 DEF CountRound
    <3>2. (j + 1) % 2 = 0 /\ (j + 1) \div 2 = (j \div 2) + 1 /\ j + 1 # 1
      BY <1>1, <2>4
    <3> QED
      BY <1>2, <3>1, <3>2
  <2> QED
    BY <1>1, <2>1, <2>2, <2>3, <2>4
<1>11. (j + 1) % 2 = 1 => toggle_code'[p] = k
  <2> SUFFICES ASSUME (j + 1) % 2 = 1 PROVE toggle_code'[p] = k
    OBVIOUS
  <2> DEFINE after == ToggleCodeAfter(Tried(p) \cup {p}, Sent)
  <2>1. ~Odd(p)
    <3>1. ~(j % 2 = 1)
      BY <1>1
    <3> QED
      BY <1>4, <3>1
  <2>2. FoundCode(p, Sent) = k /\ k # 0 /\ Compared(p, Sent)
    <3>1. FoundCode(p, Sent) = k /\ Compared(p, Sent)
      BY <1>1, <1>4, HitCode, Zenon DEF Hit, Found
    <3> QED
      BY <1>1, <3>1, CodeFacts
  <2>3. after[p] = k /\ after = [q \in Remotes |-> after[q]]
    BY <1>1, <2>1, <2>2, Zenon DEF ToggleCodeAfter
  <2>4. toggle_code' = after \/ toggle_code' = [after EXCEPT ![p] = k]
    BY <1>4, Zenon DEF DecodeSignal, SentStep, Found
  <2> HIDE DEF after
  <2> QED
    BY <1>1, <2>3, <2>4
<1>12. PairCount'
  BY <1>1, <1>6, <1>10, <1>11, Zenon DEF PairCount
<1>13. SingleCount' /\ ChainCount'
  BY <1>1, <1>5, Zenon DEF SingleCount, ChainCount
<1>14. HeardPlace'
  <2>1. heard'[p][k] \in Seq(Pairs)
    BY <1>1 DEF SentStep, TypeInv, Matched
  <2>2. Len(heard'[p][k]) \in Nat
    BY <2>1
  <2>3. Suffix(heard'[p][k], Parts(p, k), 0)
    BY <2>2 DEF Suffix
  <2>4. Place' - 1 = 0
    BY <1>3
  <2> QED
    BY <1>1, <2>3, <2>4, Zenon DEF HeardPlace
<1>15. Silent(p, k, Sent) <=> toggle_mask_state'[p] % 2 = 1
  BY <1>1, <1>4, Zenon DEF Silent
<1>16. PressesReported'
  <2>1. press.messages = Reported(Due)
    BY <1>1, Zenon DEF PressesReported, Reported, SentStep, Due
  <2>2. CASE j % 2 = 0
    <3>1. (j + 1) % 2 # 0
      BY <1>1, <2>2
    <3>2. toggle_mask_state'[p] \in {1, 3}
      BY <1>10, <3>1
    <3>3. Silent(p, k, Sent)
      BY <1>15, <3>2
    <3>4. press'.messages = Reported(Due)
      BY <1>1, <1>4, <2>1, <3>3
    <3>5. Due' = Due
      BY <1>2, <1>5, <2>2
    <3> QED
      BY <1>1, <3>4, <3>5, Zenon DEF PressesReported, Reported, Due
  <2>3. CASE j % 2 = 1
    <3>1. (j + 1) % 2 = 0 /\ j + 1 # 1
      BY <1>1, <2>3
    <3>2. toggle_mask_state'[p] = 2
      BY <1>10, <3>1
    <3>3. ~Silent(p, k, Sent)
      BY <1>15, <3>2
    <3>4. press'.messages = Append(press.messages, Report(p, k, Sent))
      BY <1>1, <1>4, <3>3
    <3>5. Due \in Nat /\ Due' = Due + 1 /\ reps'[p] = Due
      BY <1>2, <1>5, <1>10, <2>3, <3>1
    <3>6. Report(p, k, Sent) = [remote |-> p, code |-> k, reps |-> Due]
      <4>1. NextReps(p, k, Sent) - (IF IsChain(p, k) THEN 1 ELSE 0) = Due
        BY <1>1, <1>2, <1>4, <1>5, <3>5
      <4> QED
        BY <4>1, Zenon DEF Report
    <3>7. press'.messages = Reported(Due + 1)
      BY <2>1, <3>4, <3>5, <3>6, ReportedNext, Zenon
    <3> QED
      BY <1>1, <3>5, <3>7, Zenon DEF PressesReported, Reported, Due
  <2> QED
    BY <1>1, <2>2, <2>3
<1> QED
  BY <1>1, <1>12, <1>13, <1>14, <1>16, Zenon DEF Counts

LEMMA PressKeyWhole ==
  ASSUME WholeInv, TypeInv', PressKey
  PROVE  Counts' /\ PressesReported'
<1> DEFINE p == press.remote
           k == press.code
           j == press.frames
<1>1. TypeInv /\ NoGhostKeys
  BY DEF WholeInv, GhostInv
<1>2. /\ press'.remote \in Remotes /\ press'.code \in Codes(press'.remote)
      /\ press'.frames = 0 /\ press'.messages = <<>>
      /\ press'.close => /\ press.whole /\ press.messages # <<>>
                         /\ press'.remote # press.remote \/ press'.code # press.code
      /\ UNCHANGED <<last_code, last_decoded, heard>>
  BY <1>1, PressKeyIs, Zenon
<1>3. MessagesDue(press'.remote, press'.code, 0) = 0 /\ PlaceOf(press'.remote, press'.code, 0) = 1
  BY <1>2, DueOfNone
<1>4. Due' = 0 /\ Place' - 1 = 0
  BY <1>2, <1>3 DEF Due, Place
<1>5. /\ p \in Remotes /\ k \in Codes(p) /\ j \in Nat /\ press.messages \in Seq(Messages)
  BY <1>1, PressIs
<1>6. NotLast'
  <2> SUFFICES ASSUME press'.close, last_decoded = press'.remote,
                      last_code[press'.remote] = press'.code
               PROVE  FALSE
    BY <1>2, Zenon DEF NotLast
  <2>1. /\ press.whole /\ press.messages # <<>> /\ Counts
        /\ press'.remote # p \/ press'.code # k
    BY <1>2 DEF WholeInv
  <2>2. Due \in Nat /\ Due > 0
    <3>1. Due \in Nat
      BY <1>5, DueGrows DEF Due
    <3>2. Len(press.messages) <= Due /\ Len(press.messages) \in Nat /\ Len(press.messages) # 0
      BY <1>1, <1>5, <2>1 DEF NoGhostKeys, Due
    <3> QED
      BY <3>1, <3>2
  <2>3. j > 0
    <3>1. MessagesDue(p, k, 0) = 0
      BY <1>5, DueOfNone
    <3>2. j # 0
      BY <2>2, <3>1 DEF Due
    <3> QED
      BY <1>5, <3>2
  <2>4. last_decoded = p
    BY <2>1, <2>3 DEF Counts, Followed
  <2>5. last_code[p] = k
    BY <2>1, <2>2, <2>3 DEF Counts, SingleCount, ChainCount, PairCount
  <2> QED
    BY <2>1, <2>4, <2>5
<1>7. ~(press'.frames > 0)
  BY <1>2
<1>8. Followed' /\ SingleCount' /\ PairCount'
  BY <1>7, Zenon DEF Followed, SingleCount, PairCount
<1>9. ChainCount'
  <2>1. ~(Due' > 0)
    BY <1>4
  <2> QED
    BY <1>7, <2>1, Zenon DEF ChainCount
<1>10. HeardPlace'
  <2>1. heard'[press'.remote][press'.code] \in Seq(Pairs)
    BY <1>2 DEF TypeInv, Matched
  <2>2. Len(heard'[press'.remote][press'.code]) \in Nat
    BY <2>1
  <2>3. Suffix(heard'[press'.remote][press'.code], Parts(press'.remote, press'.code), 0)
    BY <2>2 DEF Suffix
  <2> QED
    BY <1>4, <2>3, Zenon DEF HeardPlace
<1>11. PressesReported'
  <2>1. press'.messages = Reported(0)'
    BY <1>2 DEF Reported
  <2> QED
    BY <1>2, <1>3, <2>1, Zenon DEF PressesReported, Reported
<1> QED
  BY <1>6, <1>8, <1>9, <1>10, <1>11, Zenon DEF Counts

LEMMA WholeInitially ==
  Init => WholeInv
<1>1. Init => ~press.whole
  BY DEF Init, NoPress
<1> QED
  BY <1>1, GhostInitially DEF WholeInv

LEMMA WholeNext ==
  WholeInv /\ [Next]_vars => WholeInv'
<1> SUFFICES ASSUME WholeInv, [Next]_vars PROVE WholeInv'
  OBVIOUS
<1>1. TypeInv /\ OnlyPressed /\ TypeInv' /\ GhostInv'
  BY TypedNext, GhostNext DEF WholeInv, GhostInv
<1>2. CASE PressKey
  BY <1>1, <1>2, PressKeyWhole DEF WholeInv
<1>3. CASE Signal \/ GarbledSignal
  <2>1. PICK held, signal : Called(held, signal) /\ decodeCommand(held, signal) /\ UNCHANGED bits
    BY <1>1, <1>3, ArrivedIs, Zenon
  <2>2. press'.whole = held.whole
    <3>1. held \in Presses /\ press.remote \in Remotes
      BY <1>1, <2>1, PressIs DEF Called
    <3>2. CASE DecodeNothing(held, signal)
      BY <3>1, <3>2, PressAfter, Zenon
    <3>3. CASE \E r \in Remotes : DecodeSignal(held, r, signal)
      BY <3>1, <3>3, PressAfter, Zenon
    <3> QED
      BY <2>1, <3>2, <3>3 DEF decodeCommand
  <2>3. CASE press'.whole
    <3>1. signal = Sent /\ press.whole
      BY <2>1, <2>2, <2>3, Zenon DEF Called, Sent
    <3>2. Counts
      BY <3>1 DEF WholeInv
    <3>3. Hit(press.remote, Sent) /\ press.remote \in Remotes
      BY <1>1, <3>2, SentIsHit, PressIs
    <3>4. DecodeSignal(held, press.remote, Sent)
      <4>1. ~DecodeNothing(held, Sent)
        BY <3>3, Zenon DEF DecodeNothing
      <4>2. PICK r \in Remotes : DecodeSignal(held, r, Sent)
        BY <2>1, <3>1, <4>1, Zenon DEF decodeCommand
      <4>3. Hit(r, Sent)
        BY <4>2, Zenon DEF DecodeSignal
      <4>4. r = press.remote
        BY <1>1, <4>3, HitIsPressed, Zenon
      <4> QED
        BY <4>2, <4>4
    <3>5. SentStep(held)
      BY <1>1, <2>1, <3>1, <3>4 DEF SentStep
    <3>6. Counts' /\ PressesReported'
      BY <3>5, PartStep, LastStep, PairStep, Zenon
    <3> QED
      BY <1>1, <3>6 DEF WholeInv
  <2>4. CASE ~press'.whole
    BY <1>1, <2>4, Zenon DEF WholeInv
  <2> QED
    BY <2>3, <2>4
<1>4. CASE UNCHANGED vars
  <2>1. UNCHANGED <<press, last_decoded, last_remote, recent, toggle_bit_mask_state, bits,
                    last_code, reps, toggle_mask_state, toggle_code, heard>>
    BY <1>4 DEF vars, remoteVars
  <2>2. press.whole => Followed' /\ NotLast' /\ SingleCount' /\ ChainCount' /\ PairCount'
                       /\ HeardPlace' /\ PressesReported'
    BY <2>1 DEF WholeInv, Counts, Followed, NotLast, SingleCount, ChainCount, PairCount,
                HeardPlace, PressesReported, Due, Place
  <2> QED
    BY <1>1, <2>1, <2>2, Zenon DEF WholeInv, Counts
<1> QED
  BY <1>2, <1>3, <1>4 DEF Next

\* A press whose signals all arrive is reported at once and counted 0, 1, 2, ..., whatever
\* was pressed, broken off or garbled before it: keys of one code, chains, XMP, pairs of
\* toggle_mask, toggle bits and repeat signals alike.
THEOREM WholePressesReported == Spec => []PressesReported
<1>1. WholeInv => PressesReported
  BY DEF WholeInv, PressesReported
<1> QED
  BY <1>1, WholeInitially, WholeNext, PTL DEF Spec
==============================================================================
