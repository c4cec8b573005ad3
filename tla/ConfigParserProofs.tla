-------------------------- MODULE ConfigParserProofs --------------------------
(***************************************************************************)
(* What TLAPS proves of ConfigParser, for files of any number and length   *)
(* and every depth of include.                                             *)
(***************************************************************************)
EXTENDS ConfigParser, FiniteSetTheorems, SequenceTheorems, TLAPS

\* rem points into the list, and is NULL only in a file without remotes.
FrameOK(f) ==
  /\ f \in Frame
  /\ f.rem <= Len(f.list)
  /\ f.rem = 0 => f.mode = "none" /\ f.list = <<>>

\* What holds at each point of the recursion.
Control ==
  /\ parse_error => pc \in {"leave", "done"}
  /\ pc = "leave" /\ ~parse_error => Top.mode = "none"
  /\ pc = "check" => Len(stack) = 1 /\ Top.mode = "none"
  /\ pc = "done" => stack = <<>>

ParserInv == TypeOK /\ Control
-----------------------------------------------------------------------------
(* The stack.                                                              *)

LEMMA TopFacts ==
  ASSUME TypeOK, pc # "done"
  PROVE  /\ Len(stack) \in Nat \ {0} /\ Len(stack) \in 1 .. Len(stack)
         /\ FrameOK(Top)
         /\ \A d \in 1 .. Len(stack) : FrameOK(stack[d])
<1>1. stack \in Seq(Frame) /\ stack # <<>> /\ DOMAIN stack = 1 .. Len(stack)
  BY LenProperties DEF TypeOK
<1>2. Len(stack) \in Nat \ {0}
  BY <1>1, LenProperties, EmptySeq
<1>3. \A d \in 1 .. Len(stack) : FrameOK(stack[d])
  BY <1>1, LenProperties, ElementOfSeq DEF FrameOK, TypeOK
<1> QED
  BY <1>2, <1>3 DEF Top

\* A frame takes the place of the top frame.
LEMMA TopReplaced ==
  ASSUME TypeOK, pc # "done", NEW f \in Frame, FrameOK(f),
         stack' = [stack EXCEPT ![Len(stack)] = f]
  PROVE  /\ stack' \in Seq(Frame) /\ Len(stack') = Len(stack) /\ stack' # <<>>
         /\ Top' = f
         /\ \A d \in DOMAIN stack' : FrameOK(stack'[d])
         /\ \A d \in 1 .. Len(stack) - 1 : stack'[d] = stack[d]
<1>1. stack \in Seq(Frame) /\ Len(stack) \in 1 .. Len(stack) /\ Len(stack) \in Nat
  BY TopFacts DEF TypeOK
<1>2. /\ stack' \in Seq(Frame) /\ Len(stack') = Len(stack)
      /\ \A j \in 1 .. Len(stack) : stack'[j] = IF j = Len(stack) THEN f ELSE stack[j]
  BY <1>1, ExceptSeq
<1>3. DOMAIN stack' = 1 .. Len(stack)
  BY <1>2, LenProperties
<1>4. \A d \in DOMAIN stack' : FrameOK(stack'[d])
  BY <1>2, <1>3, TopFacts
<1>5. Top' = f
  BY <1>1, <1>2 DEF Top
<1>6. stack' # <<>>
  BY <1>1, <1>2, EmptySeq
<1>7. ASSUME NEW d \in 1 .. Len(stack) - 1 PROVE stack'[d] = stack[d]
  <2>1. d \in 1 .. Len(stack) /\ d # Len(stack)
    BY <1>1
  <2> QED
    BY <1>2, <2>1
<1> QED
  BY <1>2, <1>4, <1>5, <1>6, <1>7

\* A frame is pushed.
LEMMA FramePushed ==
  ASSUME TypeOK, pc # "done", NEW f \in Frame, FrameOK(f), stack' = Append(stack, f)
  PROVE  /\ stack' \in Seq(Frame) /\ Len(stack') = Len(stack) + 1 /\ stack' # <<>>
         /\ Top' = f
         /\ \A d \in DOMAIN stack' : FrameOK(stack'[d])
         /\ \A d \in 1 .. Len(stack) : stack'[d] = stack[d]
<1>1. stack \in Seq(Frame) /\ Len(stack) \in Nat
  BY TopFacts DEF TypeOK
<1>2. /\ stack' \in Seq(Frame) /\ Len(stack') = Len(stack) + 1 /\ stack' # <<>>
      /\ \A i \in 1 .. Len(stack) : stack'[i] = stack[i]
      /\ stack'[Len(stack) + 1] = f
  BY <1>1, AppendProperties
<1>3. DOMAIN stack' = 1 .. Len(stack) + 1
  BY <1>2, LenProperties
<1>4. \A d \in DOMAIN stack' : FrameOK(stack'[d])
  BY <1>1, <1>2, <1>3, TopFacts
<1> QED
  BY <1>1, <1>2, <1>4 DEF Top
-----------------------------------------------------------------------------
(* Lists.                                                                  *)

\* Cutting a list behind rem and linking another one to it.
LEMMA Linked ==
  ASSUME NEW s \in Seq(RemoteType), NEW n \in 0 .. Len(s), NEW t \in Seq(RemoteType)
  PROVE  LET u == SubSeq(s, 1, n) \o t
         IN  /\ u \in Seq(RemoteType) /\ Len(u) = n + Len(t)
             /\ \A i \in 1 .. n : u[i] = s[i]
             /\ \A i \in 1 .. Len(t) : u[n + i] = t[i]
<1>1. Len(s) \in Nat /\ Len(t) \in Nat /\ n \in Nat
  BY LenProperties
<1>2. \A i \in 1 .. n : s[i] \in RemoteType
  BY <1>1, ElementOfSeq
<1> DEFINE c == SubSeq(s, 1, n)
<1>3. c \in Seq(RemoteType) /\ Len(c) = n /\ \A i \in 1 .. n : c[i] = s[i]
  <2>1. /\ c \in Seq(RemoteType) /\ Len(c) = IF 1 <= n THEN n - 1 + 1 ELSE 0
        /\ \A i \in 1 .. n - 1 + 1 : c[i] = s[1 + i - 1]
    BY <1>1, <1>2, SubSeqProperties
  <2> HIDE DEF c
  <2> QED
    BY <1>1, <2>1
<1> HIDE DEF c
<1> DEFINE u == c \o t
<1>4. /\ u \in Seq(RemoteType) /\ Len(u) = n + Len(t)
      /\ \A i \in 1 .. n + Len(t) : u[i] = IF i <= n THEN c[i] ELSE t[i - n]
  BY <1>3, ConcatProperties
<1> HIDE DEF u
<1>5. \A i \in 1 .. n : u[i] = s[i]
  BY <1>1, <1>3, <1>4
<1>6. ASSUME NEW i \in 1 .. Len(t) PROVE u[n + i] = t[i]
  <2>1. n + i \in 1 .. n + Len(t) /\ ~(n + i <= n) /\ (n + i) - n = i
    BY <1>1
  <2>2. u[n + i] = t[(n + i) - n]
    BY <1>4, <2>1
  <2> QED
    BY <2>1, <2>2
<1> QED
  BY <1>4, <1>5, <1>6 DEF u, c

\* Cutting a sequence at one of its places and putting an element there.
LEMMA CutAndAppended ==
  ASSUME NEW S, NEW s \in Seq(S), NEW n \in 1 .. Len(s), NEW r \in S
  PROVE  LET u == Append(SubSeq(s, 1, n - 1), r)
         IN  /\ u \in Seq(S) /\ Len(u) = n
             /\ \A i \in 1 .. n : u[i] = IF i = n THEN r ELSE s[i]
<1>1. Len(s) \in Nat /\ n - 1 \in 0 .. Len(s) /\ n - 1 \in Nat /\ n \in Nat
  BY LenProperties
<1> DEFINE c == SubSeq(s, 1, n - 1)
<1>2. c \in Seq(S) /\ Len(c) = n - 1 /\ \A i \in 1 .. n - 1 : c[i] = s[i]
  <2>1. \A i \in 1 .. n - 1 : s[i] \in S
    BY <1>1, ElementOfSeq
  <2>2. /\ c \in Seq(S) /\ Len(c) = IF 1 <= n - 1 THEN n - 1 - 1 + 1 ELSE 0
        /\ \A i \in 1 .. n - 1 - 1 + 1 : c[i] = s[1 + i - 1]
    BY <1>1, <2>1, SubSeqProperties
  <2> HIDE DEF c
  <2> QED
    BY <1>1, <2>2
<1> HIDE DEF c
<1> DEFINE u == Append(c, r)
<1>3. /\ u \in Seq(S) /\ Len(u) = Len(c) + 1
      /\ \A i \in 1 .. Len(c) : u[i] = c[i]
      /\ u[Len(c) + 1] = r
  BY <1>2, AppendProperties
<1> HIDE DEF u
<1>4. \A i \in 1 .. n : u[i] = IF i = n THEN r ELSE s[i]
  BY <1>1, <1>2, <1>3
<1> QED
  BY <1>1, <1>2, <1>3, <1>4 DEF u, c

\* A remote is read whose number is the next one.
LEMMA NewRemoteType ==
  ASSUME NEW id \in 1 .. MaxRemotes PROVE NewRemote(id) \in RemoteType
BY DEF NewRemote, RemoteType

\* A remote has the same place in the sorted list as it has remotes before it: no
\* two have the same, and each place is taken.  So they stand in that order.
LEMMA SortedIsPermutation ==
  ASSUME NEW s \in Seq(RemoteType)
  PROVE  /\ Sorted(s) \in Seq(RemoteType) /\ Len(Sorted(s)) = Len(s)
         /\ \E p \in Bijection(DOMAIN s, DOMAIN s) :
              /\ \A k \in DOMAIN s : Sorted(s)[k] = s[p[k]]
              /\ \A j, k \in DOMAIN s : j < k => Before(s[p[j]], p[j], s[p[k]], p[k])
<1> DEFINE D == DOMAIN s
           preds(i) == {j \in D : Before(s[j], j, s[i], i)}
           place(i) == 1 + Cardinality(preds(i))
<1>1. /\ Len(s) \in Nat /\ D = 1 .. Len(s)
      /\ \A i \in D : s[i] \in RemoteType /\ s[i].bits \in Nat /\ i \in Nat
  <2>1. Len(s) \in Nat /\ D = 1 .. Len(s)
    BY LenProperties
  <2>2. \A i \in 1 .. Len(s) : s[i] \in RemoteType
    BY ElementOfSeq
  <2> QED
    BY <2>1, <2>2 DEF RemoteType
<1>2. IsFiniteSet(D) /\ Cardinality(D) = Len(s)
  BY <1>1, FS_Interval
<1> HIDE DEF D
<1>3. \A i \in D : i \notin preds(i)
  BY <1>1 DEF Before
<1>4. ASSUME NEW i \in D, NEW j \in D, i # j
      PROVE  \/ i \in preds(j) /\ preds(i) \subseteq preds(j)
             \/ j \in preds(i) /\ preds(j) \subseteq preds(i)
  <2>1. CASE Before(s[i], i, s[j], j)
    BY <1>1, <2>1 DEF Before
  <2>2. CASE Before(s[j], j, s[i], i)
    BY <1>1, <2>2 DEF Before
  <2> QED
    BY <1>1, <1>4, <2>1, <2>2 DEF Before
<1> HIDE DEF preds
<1>5. \A i \in D : preds(i) \subseteq D
  BY DEF preds
<1>6. \A i \in D : IsFiniteSet(preds(i)) /\ Cardinality(preds(i)) \in Nat
  BY <1>2, <1>5, FS_Subset, FS_CardinalityType
<1>7. \A i \in D : place(i) \in D
  <2> SUFFICES ASSUME NEW i \in D PROVE place(i) \in D
    OBVIOUS
  <2>1. Cardinality(preds(i)) <= Len(s) /\ Cardinality(preds(i)) # Len(s)
    BY <1>2, <1>3, <1>5, FS_Subset
  <2> QED
    BY <1>1, <1>6, <2>1
<1>8. ASSUME NEW i \in D, NEW j \in D, place(i) = place(j) PROVE i = j
  <2>1. ASSUME NEW a \in D, NEW b \in D, a \in preds(b), preds(a) \subseteq preds(b)
        PROVE  Cardinality(preds(a)) # Cardinality(preds(b))
    BY <1>3, <1>6, <2>1, FS_Subset
  <2> QED
    BY <1>4, <1>6, <1>8, <2>1
<1> HIDE DEF place
<1> DEFINE f == [i \in D |-> place(i)]
<1>9. f \in Injection(D, D)
  <2>1. f \in [D -> D]
    BY <1>7
  <2>2. \A a, b \in D : f[a] = f[b] => a = b
    BY <1>8
  <2>3. DOMAIN f = D
    OBVIOUS
  <2> HIDE DEF f
  <2> QED
    BY <2>1, <2>2, <2>3 DEF Injection, IsInjective
<1>10. f \in Surjection(D, D)
  BY <1>2, <1>9, FS_Injection
<1> DEFINE p == [k \in D |-> CHOOSE i \in D : place(i) = k]
<1>11. \A k \in D : \E i \in D : place(i) = k
  BY <1>10 DEF Surjection
<1>12. \A k \in D : p[k] \in D /\ place(p[k]) = k
  BY <1>11
<1>13. p \in Bijection(D, D)
  <2>1. p \in [D -> D]
    BY <1>12
  <2>2. \A a, b \in D : p[a] = p[b] => a = b
    BY <1>12
  <2>3. \A i \in D : \E k \in D : p[k] = i
    BY <1>7, <1>8, <1>12
  <2>4. DOMAIN p = D
    OBVIOUS
  <2> HIDE DEF p
  <2> QED
    BY <2>1, <2>2, <2>3, <2>4 DEF Bijection, Injection, Surjection, IsInjective
<1>14. Sorted(s) = [k \in D |-> s[p[k]]]
  BY DEF Sorted, place, preds, D
<1> HIDE DEF p
<1>15. /\ Sorted(s) \in Seq(RemoteType) /\ Len(Sorted(s)) = Len(s)
  <2>1. \A k \in 1 .. Len(s) : s[p[k]] \in RemoteType
    BY <1>1, <1>13 DEF Bijection, Injection
  <2> DEFINE g(k) == s[p[k]]
  <2>2. [k \in 1 .. Len(s) |-> g(k)] \in Seq(RemoteType) /\ Len([k \in 1 .. Len(s) |-> g(k)]) = Len(s)
    <3> HIDE DEF g
    <3>0. \A k \in 1 .. Len(s) : g(k) \in RemoteType
      BY <2>1 DEF g
    <3> QED BY <1>1, <3>0, IsASeq, LenProperties
  <2> QED
    BY <1>1, <1>14, <2>2
<1>16. ASSUME NEW j \in D, NEW k \in D, j < k PROVE Before(s[p[j]], p[j], s[p[k]], p[k])
  <2>1. p[j] \in D /\ p[k] \in D /\ p[j] # p[k]
    BY <1>1, <1>12, <1>16
  <2>2. ASSUME p[k] \in preds(p[j]), preds(p[k]) \subseteq preds(p[j]) PROVE FALSE
    <3>1. Cardinality(preds(p[k])) <= Cardinality(preds(p[j]))
      BY <1>6, <2>1, <2>2, FS_Subset
    <3>2. place(p[j]) = j /\ place(p[k]) = k
      BY <1>12
    <3>3. j = 1 + Cardinality(preds(p[j])) /\ k = 1 + Cardinality(preds(p[k]))
      BY <3>2 DEF place
    <3> QED
      BY <1>1, <1>6, <1>16, <2>1, <3>1, <3>3
  <2>3. p[j] \in preds(p[k])
    BY <1>4, <2>1, <2>2
  <2> QED
    BY <2>3 DEF preds
<1> QED
  BY <1>13, <1>14, <1>15, <1>16 DEF D

\* Codes whose bits are replaced by bits are codes.
LEMMA CodesMapped ==
  ASSUME NEW c \in Codes, NEW d,
         d = [k \in DOMAIN c |-> d[k]],
         \A k \in DOMAIN c : /\ d[k] = [b \in DOMAIN c[k] |-> d[k][b]]
                             /\ \A b \in DOMAIN c[k] : d[k][b] \in {0, 1}
  PROVE  d \in Codes
<1>1. /\ Len(c) \in Nat /\ DOMAIN c = 1 .. Len(c)
      /\ \A k \in 1 .. Len(c) : c[k] \in Seq({0, 1})
  BY LenProperties, ElementOfSeq DEF Codes
<1>2. ASSUME NEW k \in 1 .. Len(c) PROVE d[k] \in Seq({0, 1})
  <2>1. Len(c[k]) \in Nat /\ DOMAIN c[k] = 1 .. Len(c[k])
    BY <1>1, LenProperties
  <2> DEFINE e(b) == d[k][b]
  <2>2. \A b \in 1 .. Len(c[k]) : e(b) \in {0, 1}
    BY <1>1, <2>1
  <2>3. d[k] = [b \in 1 .. Len(c[k]) |-> e(b)]
    BY <1>1, <2>1
  <2> HIDE DEF e
  <2> QED
    BY <2>1, <2>2, <2>3, IsASeq
<1> DEFINE e(k) == d[k]
<1>3. \A k \in 1 .. Len(c) : e(k) \in Seq({0, 1})
  BY <1>2
<1>4. d = [k \in 1 .. Len(c) |-> e(k)]
  BY <1>1
<1> HIDE DEF e
<1> QED
  BY <1>1, <1>3, <1>4, IsASeq DEF Codes

LEMMA MaskedType ==
  ASSUME NEW r \in RemoteType, r.codes # NoCodes \/ IsRaw(r)
  PROVE  Masked(r) \in RemoteType /\ Masked(r).id = r.id /\ Masked(r).name = r.name
<1>1. CASE IsRaw(r)
  BY <1>1 DEF Masked
<1>2. CASE ~IsRaw(r)
  <2> DEFINE d == [k \in DOMAIN r.codes |-> [b \in DOMAIN r.codes[k] |->
                     IF b <= r.bits THEN r.codes[k][b] ELSE 0]]
  <2>1. r.codes \in Codes
    BY <1>2 DEF RemoteType
  <2>2. \A k \in DOMAIN r.codes : \A b \in DOMAIN r.codes[k] : r.codes[k][b] \in {0, 1}
    <3>1. \A k \in DOMAIN r.codes : r.codes[k] \in Seq({0, 1})
      BY <2>1, LenProperties, ElementOfSeq DEF Codes
    <3> QED
      BY <3>1, LenProperties, ElementOfSeq
  <2>3. d \in Codes
    <3>1. \A k \in DOMAIN r.codes : /\ d[k] = [b \in DOMAIN r.codes[k] |-> d[k][b]]
                                   /\ \A b \in DOMAIN r.codes[k] : d[k][b] \in {0, 1}
      BY <2>2
    <3>2. d = [k \in DOMAIN r.codes |-> d[k]]
      OBVIOUS
    <3> HIDE DEF d
    <3> QED
      BY <2>1, <3>1, <3>2, CodesMapped
  <2>4. Masked(r) = [r EXCEPT !.codes = d]
    BY <1>2 DEF Masked
  <2> HIDE DEF d
  <2> QED
    BY <2>3, <2>4 DEF RemoteType
<1> QED
  BY <1>1, <1>2

LEMMA NormalisedType ==
  ASSUME NEW r \in RemoteType, ~Unreadable(r)
  PROVE  /\ Normalised(r) \in RemoteType /\ Normalised(r).id = r.id
         /\ Normalised(r).name = r.name /\ Normalised(r).bits = r.bits
<1> DEFINE reverse == ~IsRaw(r) /\ "REVERSE" \in r.flags
           codes == IF reverse THEN Reversed(r) ELSE r.codes
           flags == IF reverse THEN (r.flags \ {"REVERSE"}) \cup {"COMPAT_REVERSE"}
                               ELSE r.flags
           rc6 == IF "RC6" \in r.flags /\ r.rc6_mask = 0 THEN TogglePlace(r)
                                                       ELSE r.rc6_mask
           mask == IF r.toggle_bit_mask = 0 THEN TogglePlace(r) ELSE r.toggle_bit_mask
<1>1. codes \in {NoCodes} \cup Codes
  <2>1. CASE ~reverse
    BY <2>1 DEF RemoteType
  <2>2. CASE reverse
    <3>1. r.codes \in Codes
      BY <2>2 DEF RemoteType, Unreadable
    <3>2. \A k \in DOMAIN r.codes : r.codes[k] \in Seq({0, 1})
      BY <3>1, LenProperties, ElementOfSeq DEF Codes
    <3>3. \A k \in DOMAIN r.codes : \A b \in DOMAIN r.codes[k] : r.codes[k][b] \in {0, 1}
      BY <3>2, LenProperties, ElementOfSeq
    <3> DEFINE d == Reversed(r)
    <3>4. \A k \in DOMAIN r.codes : /\ d[k] = [b \in DOMAIN r.codes[k] |-> d[k][b]]
                                   /\ \A b \in DOMAIN r.codes[k] : d[k][b] \in {0, 1}
      BY <3>3 DEF Reversed
    <3>5. d = [k \in DOMAIN r.codes |-> d[k]]
      BY DEF Reversed
    <3> HIDE DEF d
    <3>6. d \in Codes
      BY <3>1, <3>4, <3>5, CodesMapped
    <3> QED
      BY <2>2, <3>6 DEF d
  <2> QED
    BY <2>1, <2>2
<1>2. flags \in SUBSET FlagNames /\ rc6 \in Nat /\ mask \in Nat
  <2>1. TogglePlace(r) \in Nat
    BY DEF TogglePlace, RemoteType
  <2> QED
    BY <2>1 DEF RemoteType, FlagNames
<1>3. Normalised(r) = [r EXCEPT !.codes = codes, !.flags = flags, !.rc6_mask = rc6,
                                !.toggle_bit_mask = mask, !.toggle_bit = 0]
  BY DEF Normalised, RemoteType
<1> HIDE DEF codes, flags, rc6, mask
<1>4. Normalised(r) = [id |-> r.id, name |-> r.name, codes |-> codes, bits |-> r.bits,
                       flags |-> flags, toggle_bit |-> 0, toggle_bit_mask |-> mask,
                       rc6_mask |-> rc6]
  BY <1>3 DEF RemoteType
<1>5. r.id \in 1 .. MaxRemotes /\ r.name \in BOOLEAN /\ r.bits \in Nat
  BY DEF RemoteType
<1> QED
  BY <1>1, <1>2, <1>4, <1>5 DEF RemoteType

\* What a file gives back holds the remotes it has read.
LEMMA ListReturned ==
  ASSUME NEW s \in Seq(RemoteType), \A k \in DOMAIN s : ~Unreadable(s[k])
  PROVE  LET l == Sorted([k \in DOMAIN s |-> Normalised(s[k])])
         IN  /\ l \in Seq(RemoteType) /\ Len(l) = Len(s)
             /\ Ids(l) = Ids(s)
             /\ (\A k \in DOMAIN s : s[k].name) => \A k \in DOMAIN l : l[k].name
<1> DEFINE n == [k \in DOMAIN s |-> Normalised(s[k])]
           l == Sorted(n)
<1>1. /\ Len(s) \in Nat /\ DOMAIN s = 1 .. Len(s)
      /\ \A k \in 1 .. Len(s) : s[k] \in RemoteType
  BY LenProperties, ElementOfSeq
<1>2. \A k \in 1 .. Len(s) : /\ Normalised(s[k]) \in RemoteType
                             /\ Normalised(s[k]).id = s[k].id
                             /\ Normalised(s[k]).name = s[k].name
  BY <1>1, NormalisedType
<1>3. n \in Seq(RemoteType)
  <2> DEFINE e(k) == Normalised(s[k])
  <2>1. \A k \in 1 .. Len(s) : e(k) \in RemoteType
    BY <1>2
  <2>2. n = [k \in 1 .. Len(s) |-> e(k)]
    BY <1>1
  <2> HIDE DEF e
  <2> QED
    BY <1>1, <2>1, <2>2, IsASeq
<1>4. DOMAIN n = DOMAIN s /\ \A k \in DOMAIN s : n[k] = Normalised(s[k])
  OBVIOUS
<1> HIDE DEF n
<1>5. Len(n) = Len(s)
  BY <1>1, <1>3, <1>4, LenProperties
<1>6. /\ l \in Seq(RemoteType) /\ Len(l) = Len(n)
      /\ \E p \in Bijection(DOMAIN n, DOMAIN n) : \A k \in DOMAIN n : l[k] = n[p[k]]
  BY <1>3, SortedIsPermutation
<1>7. DOMAIN l = DOMAIN s
  BY <1>1, <1>5, <1>6, LenProperties
<1>8. PICK p \in Bijection(DOMAIN s, DOMAIN s) : \A k \in DOMAIN s : l[k] = n[p[k]]
  BY <1>4, <1>6
<1> HIDE DEF l
<1>9. /\ \A k \in DOMAIN s : p[k] \in DOMAIN s
      /\ \A i \in DOMAIN s : \E k \in DOMAIN s : p[k] = i
  BY DEF Bijection, Injection, Surjection
<1>10. ASSUME NEW k \in DOMAIN s PROVE l[k].id = s[p[k]].id /\ l[k].name = s[p[k]].name
  <2>1. p[k] \in DOMAIN s
    BY <1>9
  <2>2. l[k] = Normalised(s[p[k]])
    BY <1>4, <1>8, <2>1
  <2> QED
    BY <1>1, <1>2, <2>1, <2>2
<1>11. Ids(l) = Ids(s)
  <2>1. Ids(l) = {s[p[k]].id : k \in DOMAIN s}
    BY <1>7, <1>10 DEF Ids
  <2>2. {s[p[k]].id : k \in DOMAIN s} = Ids(s)
    BY <1>9 DEF Ids
  <2> QED
    BY <2>1, <2>2
<1>12. (\A k \in DOMAIN s : s[k].name) => \A k \in DOMAIN l : l[k].name
  BY <1>7, <1>9, <1>10
<1> QED
  BY <1>5, <1>6, <1>11, <1>12 DEF l, n

LEMMA NewFrameOK == FrameOK(NewFrame)
<1>1. <<>> \in Seq(RemoteType) /\ <<>> \in Codes /\ Len(<<>>) = 0
  BY EmptySeq DEF Codes
<1> QED
  BY <1>1 DEF FrameOK, NewFrame, Frame, Modes
-----------------------------------------------------------------------------
(* Kinds of steps.                                                         *)

\* What a line may do to the frame of the remote it belongs to.
Edited(f) ==
  /\ FrameOK(f)
  /\ f.rem = Top.rem /\ Len(f.list) <= Len(Top.list)
  /\ overwritten' \/ Len(f.list) = Len(Top.list)
  /\ \A k \in 1 .. Len(f.list) : /\ f.list[k].id = Top.list[k].id
                                 /\ Top.list[k].name => f.list[k].name
                                 /\ k # Top.rem => f.list[k] = Top.list[k]
  /\ f.mode = "none" => EndRemote

Edit ==
  /\ pc = "read" /\ Top.mode # "none"
  /\ \E f \in Frame : SetTop(f) /\ Edited(f)
  /\ overwritten' \in BOOLEAN /\ (overwritten => overwritten')
  /\ parse_error' \in BOOLEAN /\ pc' = IF parse_error' THEN "leave" ELSE "read"
  /\ EndRemote \/ ended' = ended
  /\ UNCHANGED <<remotes, live, files, global_remotes, strayed>>

\* The end of a file, an error, a null pointer.
Stop ==
  /\ pc \in {"read", "leave"} /\ pc' \in {"leave", "crash"}
  /\ parse_error' \in BOOLEAN /\ (parse_error => parse_error') /\ (parse_error' => pc' = "leave")
  /\ pc' = "leave" /\ ~parse_error' => Top.mode = "none"
  /\ UNCHANGED <<stack, remotes, live, files, global_remotes, ended, overwritten, strayed>>

LEMMA RemFacts ==
  ASSUME TypeOK, pc # "done", Top.mode # "none"
  PROVE  /\ Top \in Frame /\ Len(Top.list) \in Nat /\ Top.rem \in 1 .. Len(Top.list)
         /\ DOMAIN Top.list = 1 .. Len(Top.list)
         /\ Rem \in RemoteType
<1>1. FrameOK(Top)
  BY TopFacts
<1>2. Top \in Frame /\ Top.list \in Seq(RemoteType) /\ Top.rem \in Nat
  BY <1>1 DEF FrameOK, Frame
<1>3. Len(Top.list) \in Nat /\ DOMAIN Top.list = 1 .. Len(Top.list)
  BY <1>2, LenProperties
<1>4. Top.rem \in 1 .. Len(Top.list)
  BY <1>1, <1>2, <1>3 DEF FrameOK
<1>5. Rem \in RemoteType
  BY <1>2, <1>4, ElementOfSeq DEF Rem
<1> QED
  BY <1>2, <1>3, <1>4, <1>5

\* A line that changes the remote being read, and perhaps the frame around it.
LEMMA RemoteEdited ==
  ASSUME TypeOK, pc # "done", Top.mode # "none",
         NEW r \in RemoteType, r.id = Rem.id, Rem.name => r.name,
         NEW f \in Frame, f.mode # "none", f.rem = Top.rem,
         f.list = [Top.list EXCEPT ![Top.rem] = r]
  PROVE  Edited(f)
<1>1. /\ Top \in Frame /\ Len(Top.list) \in Nat /\ Top.rem \in 1 .. Len(Top.list)
      /\ Top.list \in Seq(RemoteType)
  BY RemFacts DEF Frame
<1>2. /\ Len(f.list) = Len(Top.list)
      /\ \A k \in 1 .. Len(Top.list) : f.list[k] = IF k = Top.rem THEN r ELSE Top.list[k]
  BY <1>1, ExceptSeq
<1>3. FrameOK(f)
  BY <1>1, <1>2 DEF FrameOK
<1>4. \A k \in 1 .. Len(f.list) : /\ f.list[k].id = Top.list[k].id
                                  /\ Top.list[k].name => f.list[k].name
                                  /\ k # Top.rem => f.list[k] = Top.list[k]
  BY <1>1, <1>2 DEF Rem
<1>5. Len(f.list) <= Len(Top.list)
  BY <1>1, <1>2
<1>6. overwritten' \/ Len(f.list) = Len(Top.list)
  BY <1>2
<1>7. f.rem = Top.rem /\ (f.mode = "none" => EndRemote)
  OBVIOUS
<1> QED
  BY <1>3, <1>4, <1>5, <1>6, <1>7 DEF Edited

\* A line that changes the frame only.
LEMMA FrameEdited ==
  ASSUME TypeOK, pc # "done", Top.mode # "none",
         NEW f \in Frame, f.mode # "none", f.rem = Top.rem, f.list = Top.list
  PROVE  Edited(f)
<1>1. /\ Top \in Frame /\ Len(Top.list) \in Nat /\ Top.rem \in 1 .. Len(Top.list)
      /\ Top.list \in Seq(RemoteType) /\ Rem \in RemoteType
  BY RemFacts DEF Frame
<1>2. [Top.list EXCEPT ![Top.rem] = Rem] = Top.list
  BY <1>1, LenProperties DEF Rem
<1> QED
  BY <1>1, <1>2, RemoteEdited

\* As the code writes them: SetRem(r), or the frame with some of its fields set.
LEMMA RemSet ==
  ASSUME TypeOK, pc # "done", Top.mode # "none",
         NEW r \in RemoteType, SetRem(r), r.id = Rem.id, Rem.name => r.name
  PROVE  \E f \in Frame : SetTop(f) /\ Edited(f)
<1>1. Top \in Frame /\ Top.list \in Seq(RemoteType) /\ Top.rem \in 1 .. Len(Top.list)
  BY RemFacts DEF Frame
<1> DEFINE f == [Top EXCEPT !.list = [@ EXCEPT ![Top.rem] = r]]
<1>2. SetTop(f)
  BY DEF SetRem
<1>3. /\ f \in Frame /\ f.mode = Top.mode /\ f.rem = Top.rem
      /\ f.list = [Top.list EXCEPT ![Top.rem] = r]
  BY <1>1, ExceptSeq DEF Frame
<1> HIDE DEF f
<1> QED
  BY <1>2, <1>3, RemoteEdited

LEMMA AttributeEdits == ParserInv /\ Attribute => Edit
<1> SUFFICES ASSUME ParserInv, Attribute PROVE Edit
  OBVIOUS
<1>1. Top.mode # "none" /\ pc = "read" /\ ~parse_error /\ TypeOK
  BY DEF Attribute, Reading, ParserInv, Control
<1>2. Rem \in RemoteType
  BY <1>1, RemFacts
<1>3. \E r \in RemoteType : SetRem(r) /\ r.id = Rem.id /\ (Rem.name => r.name)
  <2>1. ASSUME NEW n \in Nat
        PROVE  /\ [Rem EXCEPT !.bits = n] \in RemoteType
               /\ [Rem EXCEPT !.toggle_bit = n] \in RemoteType
    BY <1>2 DEF RemoteType
  <2>2. [Rem EXCEPT !.name = TRUE] \in RemoteType
    BY <1>2 DEF RemoteType
  <2>3. Rem.id \in 1 .. MaxRemotes
    BY <1>2 DEF RemoteType
  <2>4. BitCounts[Rem.id] \subseteq Nat /\ ToggleBits[Rem.id] \subseteq Nat
    BY <2>3, BoundsAssumption
  <2>5. CASE SetRem([Rem EXCEPT !.name = TRUE])
    BY <1>2, <2>2, <2>5 DEF RemoteType
  <2>6. CASE \E n \in BitCounts[Rem.id] : SetRem([Rem EXCEPT !.bits = n])
    BY <1>2, <2>1, <2>4, <2>6 DEF RemoteType
  <2>7. CASE \E n \in ToggleBits[Rem.id] : SetRem([Rem EXCEPT !.toggle_bit = n])
    BY <1>2, <2>1, <2>4, <2>7 DEF RemoteType
  <2> QED
    BY <2>5, <2>6, <2>7 DEF Attribute
<1>4. \E f \in Frame : SetTop(f) /\ Edited(f)
  BY <1>1, <1>3, RemSet
<1> QED
  BY <1>1, <1>4 DEF Edit, Attribute, TypeOK

LEMMA FlagsLineEdits == ParserInv /\ FlagsLine => Edit
<1> SUFFICES ASSUME ParserInv, FlagsLine PROVE Edit
  OBVIOUS
<1>1. Top.mode # "none" /\ pc = "read" /\ ~parse_error /\ TypeOK
  BY DEF FlagsLine, Reading, ParserInv, Control
<1>2. Rem \in RemoteType /\ Rem.id \in 1 .. MaxRemotes
  BY <1>1, RemFacts DEF RemoteType
<1>3. PICK g \in Flags[Rem.id] : SetRem([Rem EXCEPT !.flags = @ \cup {g}])
  BY DEF FlagsLine
<1>4. g \in FlagNames
  BY <1>2, BoundsAssumption DEF FlagNames
<1> DEFINE r == [Rem EXCEPT !.flags = @ \cup {g}]
<1>5. r \in RemoteType /\ r.id = Rem.id /\ r.name = Rem.name
  BY <1>2, <1>4 DEF RemoteType
<1> HIDE DEF r
<1>6. \E f \in Frame : SetTop(f) /\ Edited(f)
  BY <1>1, <1>3, <1>5, RemSet DEF r
<1> QED
  BY <1>1, <1>6 DEF Edit, FlagsLine, TypeOK

LEMMA BeginCodesEdits == ParserInv /\ BeginCodes => Edit
<1> SUFFICES ASSUME ParserInv, BeginCodes PROVE Edit
  OBVIOUS
<1>1. Top.mode # "none" /\ pc = "read" /\ ~parse_error /\ TypeOK
  BY DEF BeginCodes, Reading, ParserInv, Control
<1>2. /\ Top \in Frame /\ Top.list \in Seq(RemoteType) /\ Top.rem \in 1 .. Len(Top.list)
      /\ Rem \in RemoteType /\ Rem = Top.list[Top.rem]
  BY <1>1, RemFacts DEF Frame, Rem
<1>3. <<>> \in Codes
  BY EmptySeq DEF Codes
<1>4. CASE SetTop([Top EXCEPT !.mode = "codes", !.codes = <<>>])
  <2> DEFINE f == [Top EXCEPT !.mode = "codes", !.codes = <<>>]
  <2>1. f \in Frame /\ f.mode = "codes" /\ f.rem = Top.rem /\ f.list = Top.list
    BY <1>2, <1>3 DEF Frame, Modes
  <2> HIDE DEF f
  <2>2. Edited(f)
    BY <1>1, <2>1, FrameEdited
  <2> QED
    BY <1>1, <1>4, <2>1, <2>2 DEF f, Edit, BeginCodes, TypeOK
<1>5. CASE SetTop([Top EXCEPT !.mode = "raw_codes", !.codes = <<>>,
                              !.list[Top.rem].flags = SetProtocol(@, "RAW_CODES")])
  <2> DEFINE r == [Rem EXCEPT !.flags = SetProtocol(@, "RAW_CODES")]
             l == [Top.list EXCEPT ![Top.rem] = r]
             f == [Top EXCEPT !.mode = "raw_codes", !.codes = <<>>, !.list = l]
  <2>1. r \in RemoteType /\ r.id = Rem.id /\ r.name = Rem.name
    BY <1>2 DEF RemoteType, FlagNames, SetProtocol, Protocols
  <2>2. SetTop(f)
    BY <1>2, <1>5
  <2> HIDE DEF r
  <2>3. l \in Seq(RemoteType)
    BY <1>2, <2>1, ExceptSeq
  <2> HIDE DEF l
  <2>4. f \in Frame /\ f.mode = "raw_codes" /\ f.rem = Top.rem /\ f.list = l
    BY <1>2, <1>3, <2>3 DEF Frame, Modes
  <2> HIDE DEF f
  <2>5. Edited(f)
    BY <1>1, <2>1, <2>4, RemoteEdited DEF l
  <2> QED
    BY <1>1, <2>2, <2>4, <2>5 DEF Edit, BeginCodes, TypeOK
<1> QED
  BY <1>4, <1>5 DEF BeginCodes

LEMMA CodeEdits == ParserInv /\ Code => Edit
<1> SUFFICES ASSUME ParserInv, Code PROVE Edit
  OBVIOUS
<1>1. Top.mode = "codes" /\ pc = "read" /\ ~parse_error /\ TypeOK
  BY DEF Code, Reading, ParserInv, Control
<1>2. Top \in Frame /\ Top.codes \in Codes
  BY <1>1, RemFacts DEF Frame
<1>3. PICK c \in CodeValues : SetTop([Top EXCEPT !.codes = Append(@, c)])
  BY DEF Code
<1>4. Append(Top.codes, c) \in Codes
  BY <1>2, CodeValuesAssumption, AppendProperties DEF Codes
<1> DEFINE f == [Top EXCEPT !.codes = Append(@, c)]
<1>5. f \in Frame /\ f.mode = "codes" /\ f.rem = Top.rem /\ f.list = Top.list
  BY <1>1, <1>2, <1>4 DEF Frame
<1> HIDE DEF f
<1>6. Edited(f)
  BY <1>1, <1>5, FrameEdited
<1> QED
  BY <1>1, <1>3, <1>5, <1>6 DEF f, Edit, Code, TypeOK

LEMMA SignalEdits == ParserInv /\ Signal => Edit
<1> SUFFICES ASSUME ParserInv, Signal PROVE Edit
  OBVIOUS
<1>1. Top.mode = "raw_name" /\ pc = "read" /\ ~parse_error /\ TypeOK
  BY DEF Signal, Reading, ParserInv, Control
<1>2. Top \in Frame /\ Top.signals \in Nat
  BY <1>1, RemFacts DEF Frame
<1> DEFINE f == [Top EXCEPT !.signals = @ + 1]
<1>3. f \in Frame /\ f.mode = "raw_name" /\ f.rem = Top.rem /\ f.list = Top.list
  BY <1>1, <1>2 DEF Frame
<1> HIDE DEF f
<1>4. Edited(f)
  BY <1>1, <1>3, FrameEdited
<1> QED
  BY <1>1, <1>3, <1>4 DEF f, Edit, Signal, TypeOK

LEMMA RawCodesType ==
  ASSUME TypeOK, pc # "done" PROVE RawCodes \in Codes
<1>1. Top \in Frame /\ Top.codes \in Codes /\ Top.signals \in Nat
  BY TopFacts DEF FrameOK, Frame
<1>2. [i \in 1 .. Top.signals |-> 0] \in Seq({0, 1})
  <2> DEFINE e(i) == 0
  <2> QED
    BY <1>1, IsASeq
<1> QED
  BY <1>1, <1>2, AppendProperties DEF RawCodes, Codes

\* The codes that were read become those of the remote.
LEMMA CodesClosed ==
  ASSUME TypeOK, pc # "done", Top.mode # "none", NEW c \in Codes,
         SetTop([Top EXCEPT !.mode = "remote", !.list[Top.rem].codes = c])
  PROVE  \E f \in Frame : SetTop(f) /\ Edited(f)
<1>1. /\ Top \in Frame /\ Top.list \in Seq(RemoteType) /\ Top.rem \in 1 .. Len(Top.list)
      /\ Rem \in RemoteType /\ Rem = Top.list[Top.rem]
  BY RemFacts DEF Frame, Rem
<1> DEFINE r == [Rem EXCEPT !.codes = c]
           l == [Top.list EXCEPT ![Top.rem] = r]
           f == [Top EXCEPT !.mode = "remote", !.list = l]
<1>2. r \in RemoteType /\ r.id = Rem.id /\ r.name = Rem.name
  BY <1>1 DEF RemoteType
<1>3. SetTop(f)
  BY <1>1
<1> HIDE DEF r
<1>4. l \in Seq(RemoteType)
  BY <1>1, <1>2, ExceptSeq
<1> HIDE DEF l
<1>5. f \in Frame /\ f.mode = "remote" /\ f.rem = Top.rem /\ f.list = l
  BY <1>1, <1>4 DEF Frame, Modes
<1> HIDE DEF f
<1>6. Edited(f)
  BY <1>2, <1>5, RemoteEdited DEF l
<1> QED
  BY <1>3, <1>5, <1>6

LEMMA EndCodesEdits == ParserInv /\ EndCodes => Edit
<1> SUFFICES ASSUME ParserInv, EndCodes PROVE Edit
  OBVIOUS
<1>1. Top.mode = "codes" /\ pc = "read" /\ ~parse_error /\ TypeOK
  BY DEF EndCodes, Reading, ParserInv, Control
<1>2. Top.codes \in Codes
  BY <1>1, RemFacts DEF Frame
<1>3. \E f \in Frame : SetTop(f) /\ Edited(f)
  BY <1>1, <1>2, CodesClosed DEF EndCodes
<1> QED
  BY <1>1, <1>3 DEF Edit, EndCodes, TypeOK

LEMMA EndRawCodesEdits == ParserInv /\ EndRawCodes => Edit
<1> SUFFICES ASSUME ParserInv, EndRawCodes PROVE Edit
  OBVIOUS
<1>1. Top.mode # "none" /\ pc = "read" /\ ~parse_error /\ TypeOK
  BY DEF EndRawCodes, ParserInv, Control
<1>2. \E f \in Frame : SetTop(f) /\ Edited(f)
  BY <1>1, RawCodesType, CodesClosed DEF EndRawCodes
<1>3. RawCodeEven \in BOOLEAN
  BY DEF RawCodeEven
<1> QED
  BY <1>1, <1>2, <1>3 DEF Edit, EndRawCodes, TypeOK

LEMMA RawNameEdits == ParserInv /\ RawName => Edit
<1> SUFFICES ASSUME ParserInv, RawName PROVE Edit
  OBVIOUS
<1>1. Top.mode # "none" /\ pc = "read" /\ ~parse_error /\ TypeOK
  BY DEF RawName, ParserInv, Control
<1>2. Top \in Frame /\ RawCodes \in Codes
  BY <1>1, RemFacts, RawCodesType
<1> DEFINE f == [Top EXCEPT !.mode = "raw_name", !.codes = RawCodes, !.signals = 0]
<1>3. f \in Frame /\ f.mode = "raw_name" /\ f.rem = Top.rem /\ f.list = Top.list
  BY <1>2 DEF Frame, Modes
<1>4. SetTop(f)
  BY DEF RawName
<1> HIDE DEF f
<1>5. Edited(f)
  BY <1>1, <1>3, FrameEdited
<1>6. RawCodeEven \in BOOLEAN
  BY DEF RawCodeEven
<1> QED
  BY <1>1, <1>3, <1>4, <1>5, <1>6 DEF Edit, RawName, TypeOK

LEMMA EndRemoteEdits == ParserInv /\ EndRemote => Edit \/ Stop
<1> SUFFICES ASSUME ParserInv, EndRemote PROVE Edit \/ Stop
  OBVIOUS
<1>1. Top.mode # "none" /\ pc = "read" /\ ~parse_error /\ TypeOK
  BY DEF EndRemote, Reading, ParserInv, Control
<1>2. /\ Top \in Frame /\ Top.list \in Seq(RemoteType) /\ Top.rem \in 1 .. Len(Top.list)
      /\ Rem \in RemoteType /\ Rem = Top.list[Top.rem] /\ Len(Top.list) \in Nat
  BY <1>1, RemFacts DEF Frame, Rem
<1>3. CASE Rem.codes = NoCodes /\ ~IsRaw(Rem)
  BY <1>1, <1>3 DEF EndRemote, Stop, TypeOK
<1>4. CASE ~(Rem.codes = NoCodes /\ ~IsRaw(Rem))
  <2> DEFINE l == Append(SubSeq(Top.list, 1, Top.rem - 1), Masked(Rem))
             f == [Top EXCEPT !.mode = "none", !.list = l]
  <2>1. SetTop(f) /\ overwritten' = (overwritten \/ Top.rem < Len(Top.list)) /\ pc' = pc
    BY <1>4 DEF EndRemote
  <2>2. /\ Masked(Rem) \in RemoteType /\ Masked(Rem).id = Rem.id
        /\ Masked(Rem).name = Rem.name
    BY <1>2, <1>4, MaskedType
  <2>3. /\ l \in Seq(RemoteType) /\ Len(l) = Top.rem
        /\ \A i \in 1 .. Top.rem : l[i] = IF i = Top.rem THEN Masked(Rem) ELSE Top.list[i]
    BY <1>2, <2>2, CutAndAppended
  <2> HIDE DEF l
  <2>4. f \in Frame /\ f.mode = "none" /\ f.rem = Top.rem /\ f.list = l
    BY <1>2, <2>3 DEF Frame, Modes
  <2> HIDE DEF f
  <2>5. FrameOK(f)
    BY <1>2, <2>3, <2>4 DEF FrameOK
  <2>6. \A k \in 1 .. Len(f.list) : /\ f.list[k].id = Top.list[k].id
                                    /\ Top.list[k].name => f.list[k].name
                                    /\ k # Top.rem => f.list[k] = Top.list[k]
    BY <1>2, <2>2, <2>3, <2>4
  <2>7. Len(f.list) <= Len(Top.list) /\ (overwritten' \/ Len(f.list) = Len(Top.list))
    <3>1. Len(f.list) = Top.rem /\ (Top.rem < Len(Top.list) \/ Top.rem = Len(Top.list))
      BY <1>2, <2>3, <2>4
    <3>2. Top.rem < Len(Top.list) => overwritten'
      BY <2>1
    <3>3. Len(f.list) <= Len(Top.list)
      BY <1>2, <3>1
    <3>4. CASE Top.rem < Len(Top.list)
      BY <3>2, <3>3, <3>4
    <3>5. CASE Top.rem = Len(Top.list)
      BY <3>1, <3>3, <3>5
    <3> QED
      BY <3>1, <3>4, <3>5
  <2>9. Edited(f)
    BY <2>4, <2>5, <2>6, <2>7 DEF Edited
  <2>10. overwritten' \in BOOLEAN /\ (overwritten => overwritten')
    BY <2>1
  <2> QED
    BY <1>1, <2>1, <2>4, <2>9, <2>10 DEF Edit, EndRemote, TypeOK
<1> QED
  BY <1>3, <1>4

LEMMA ErrorStops == ParserInv /\ pc = "read" /\ Error => Stop
BY DEF ParserInv, TypeOK, Error, Stop

LEMMA EndOfFileStops == ParserInv /\ EndOfFile => Stop
BY DEF ParserInv, TypeOK, Control, EndOfFile, Stop

\* What a file gives back when nothing was wrong with it.
HandedOn(list) ==
  /\ \A k \in DOMAIN Top.list : ~Unreadable(Top.list[k])
  /\ list = Sorted([k \in DOMAIN Top.list |-> Normalised(Top.list[k])])

\* A file returns to the one around it: an empty list after an error.
Return(list) ==
  /\ pc = "leave" /\ Len(stack) # 1 /\ list \in Seq(RemoteType)
  /\ Returned(list)
  /\ IF parse_error THEN list = <<>> /\ live' = live \ Ids(Top.list) /\ pc' = "leave"
     ELSE /\ HandedOn(list) /\ Ids(list) = Ids(Top.list) /\ live' = live /\ pc' = "read"
          /\ (\A k \in DOMAIN Top.list : Top.list[k].name) => \A k \in DOMAIN list : list[k].name
  /\ UNCHANGED <<parse_error, remotes, files, global_remotes, ended, strayed>>

\* The outermost file is done.
Finish ==
  /\ pc = "leave" /\ Len(stack) = 1
  /\ IF parse_error THEN /\ stack' = <<>> /\ live' = live \ Ids(Top.list) /\ pc' = "done"
     ELSE /\ pc' = "check" /\ live' = live
          /\ \E list \in Seq(RemoteType) :
               /\ stack' = <<[Top EXCEPT !.list = list]>> /\ Len(list) = Len(Top.list)
               /\ HandedOn(list) /\ Ids(list) = Ids(Top.list)
               /\ (\A k \in DOMAIN Top.list : Top.list[k].name)
                    => \A k \in DOMAIN list : list[k].name
  /\ UNCHANGED <<parse_error, remotes, files, global_remotes, ended, overwritten, strayed>>

LEMMA LeaveErrorKind ==
  ParserInv /\ LeaveError => (\E list \in Seq(RemoteType) : Return(list)) \/ Finish
<1> SUFFICES ASSUME ParserInv, LeaveError
             PROVE  (\E list \in Seq(RemoteType) : Return(list)) \/ Finish
  OBVIOUS
<1>1. <<>> \in Seq(RemoteType)
  BY EmptySeq
<1>2. CASE Len(stack) = 1
  BY <1>2 DEF LeaveError, Finish
<1>3. CASE Len(stack) # 1
  <2>1. Return(<<>>)
    BY <1>1, <1>3 DEF LeaveError, Return
  <2> QED
    BY <1>1, <2>1
<1> QED
  BY <1>2, <1>3

LEMMA LeaveKind ==
  ParserInv /\ Leave => (\E list \in Seq(RemoteType) : Return(list)) \/ Finish \/ Stop
<1> SUFFICES ASSUME ParserInv, Leave
             PROVE  (\E list \in Seq(RemoteType) : Return(list)) \/ Finish \/ Stop
  OBVIOUS
<1>1. pc = "leave" /\ ~parse_error /\ TypeOK
  BY DEF Leave, ParserInv
<1>2. Top \in Frame /\ Top.list \in Seq(RemoteType)
  BY <1>1, TopFacts DEF FrameOK, Frame
<1> DEFINE list == Sorted([k \in DOMAIN Top.list |-> Normalised(Top.list[k])])
<1>3. CASE \E k \in DOMAIN Top.list : Unreadable(Top.list[k])
  BY <1>1, <1>3 DEF Leave, Stop, TypeOK
<1>4. CASE \A k \in DOMAIN Top.list : ~Unreadable(Top.list[k])
  <2>1. /\ list \in Seq(RemoteType) /\ Len(list) = Len(Top.list)
        /\ Ids(list) = Ids(Top.list)
        /\ (\A k \in DOMAIN Top.list : Top.list[k].name)
             => \A k \in DOMAIN list : list[k].name
    BY <1>2, <1>4, ListReturned
  <2>0. HandedOn(list)
    BY <1>4 DEF HandedOn
  <2>2. /\ IF Len(stack) = 1
           THEN /\ stack' = <<[Top EXCEPT !.list = list]>> /\ pc' = "check"
                /\ UNCHANGED overwritten
           ELSE Returned(list) /\ pc' = "read"
        /\ UNCHANGED <<parse_error, remotes, live, files, global_remotes, ended, strayed>>
    BY <1>4 DEF Leave
  <2> HIDE DEF list
  <2>3. CASE Len(stack) = 1
    BY <1>1, <2>0, <2>1, <2>2, <2>3 DEF Finish
  <2>4. CASE Len(stack) # 1
    <3>1. Return(list)
      BY <1>1, <2>0, <2>1, <2>2, <2>4 DEF Return
    <3> QED
      BY <2>1, <3>1
  <2> QED
    BY <2>3, <2>4
<1> QED
  BY <1>3, <1>4

\* Every step is one of these.
Step ==
  \/ Edit \/ BeginRemote \/ Include \/ Stop \/ Finish \/ CheckList
  \/ \E list \in Seq(RemoteType) : Return(list)

LEMMA StepKinds == ParserInv /\ Next => Step
<1>1. ParserInv /\ Line => Step
  BY AttributeEdits, FlagsLineEdits, BeginCodesEdits, CodeEdits, SignalEdits, EndCodesEdits,
     EndRawCodesEdits, RawNameEdits, EndRemoteEdits, ErrorStops
     DEF Line, Step, Junk, BeginCodesAgain, EndRemoteWithoutName, IncludeTooDeep, Reading
<1> QED
  BY <1>1, EndOfFileStops, LeaveErrorKind, LeaveKind DEF Next, Step
-----------------------------------------------------------------------------
(* Types.                                                                  *)

\* begin remote: the frame that takes the place of the top frame.
Begun == [Top EXCEPT !.mode = "remote", !.list = Attach(Top, <<NewRemote(remotes + 1)>>),
                     !.rem = @ + 1]

LEMMA BegunFacts ==
  ASSUME TypeOK, pc # "done", BeginRemote
  PROVE  /\ remotes + 1 \in 1 .. MaxRemotes
         /\ Begun \in Frame /\ FrameOK(Begun) /\ SetTop(Begun)
         /\ Begun.mode = "remote" /\ Begun.rem = Top.rem + 1
         /\ Len(Begun.list) = Top.rem + 1
         /\ \A i \in 1 .. Top.rem : Begun.list[i] = Top.list[i]
         /\ Begun.list[Top.rem + 1] = NewRemote(remotes + 1)
<1>1. remotes + 1 \in 1 .. MaxRemotes /\ remotes' = remotes + 1
  BY BoundsAssumption DEF TypeOK, BeginRemote
<1>2. FrameOK(Top) /\ Top \in Frame /\ Top.list \in Seq(RemoteType) /\ Top.rem \in 0 .. Len(Top.list)
  BY TopFacts, LenProperties DEF FrameOK, Frame
<1> DEFINE t == <<NewRemote(remotes + 1)>>
           l == SubSeq(Top.list, 1, Top.rem) \o t
<1>3. t \in Seq(RemoteType) /\ Len(t) = 1 /\ t[1] = NewRemote(remotes + 1)
  BY <1>1, NewRemoteType
<1> HIDE DEF t
<1>4. /\ l \in Seq(RemoteType) /\ Len(l) = Top.rem + 1
      /\ \A i \in 1 .. Top.rem : l[i] = Top.list[i]
      /\ l[Top.rem + 1] = NewRemote(remotes + 1)
  <2>1. /\ l \in Seq(RemoteType) /\ Len(l) = Top.rem + Len(t)
        /\ \A i \in 1 .. Top.rem : l[i] = Top.list[i]
        /\ \A i \in 1 .. Len(t) : l[Top.rem + i] = t[i]
    BY <1>2, <1>3, Linked
  <2> HIDE DEF l
  <2> QED
    BY <1>3, <2>1
<1>5. Begun = [Top EXCEPT !.mode = "remote", !.list = l, !.rem = @ + 1]
  BY DEF Begun, Attach, t
<1> HIDE DEF l
<1>6. /\ Begun \in Frame /\ Begun.mode = "remote" /\ Begun.rem = Top.rem + 1
      /\ Begun.list = l
  <2>1. Top.rem + 1 \in Nat
    BY <1>2 DEF Frame
  <2> QED
    BY <1>2, <1>4, <1>5, <2>1 DEF Frame, Modes
<1>7. FrameOK(Begun)
  BY <1>2, <1>4, <1>6 DEF FrameOK
<1>8. SetTop(Begun)
  BY <1>1 DEF BeginRemote, Begun
<1> QED
  BY <1>1, <1>4, <1>6, <1>7, <1>8

\* The frame around the top frame, before and after the return.
LEMMA ReturnedFacts ==
  ASSUME TypeOK, pc # "done", Len(stack) # 1, NEW l \in Seq(RemoteType), Returned(l)
  PROVE  LET n == Len(stack) - 1
             above == stack[n]
             below == stack'[n]
         IN  /\ n \in 1 .. Len(stack) /\ n \in Nat
             /\ stack' \in Seq(Frame) /\ Len(stack') = n
             /\ \A d \in 1 .. n - 1 : stack'[d] = stack[d]
             /\ FrameOK(above) /\ FrameOK(below) /\ below.mode = above.mode
             /\ above.rem \in 0 .. Len(above.list) /\ Len(above.list) \in Nat
             /\ Len(below.list) = above.rem + Len(l)
             /\ \A i \in 1 .. above.rem : below.list[i] = above.list[i]
             /\ \A i \in 1 .. Len(l) : below.list[above.rem + i] = l[i]
             /\ overwritten' = (overwritten \/ above.rem < Len(above.list))
<1> DEFINE n == Len(stack) - 1
           above == stack[n]
           list == Attach(above, l)
           rem == IF l = <<>> THEN above.rem ELSE above.rem + 1
           below == [above EXCEPT !.list = list, !.rem = rem]
<1>1. /\ stack \in Seq(Frame) /\ n \in Nat /\ n \in 1 .. Len(stack) /\ Len(stack) \in Nat
      /\ n # 0
  <2>1. Len(stack) \in Nat /\ Len(stack) # 0 /\ stack \in Seq(Frame)
    BY TopFacts DEF TypeOK
  <2>2. \A m \in Nat : m # 0 /\ m # 1 => m - 1 \in Nat /\ m - 1 \in 1 .. m /\ m - 1 # 0
    OBVIOUS
  <2> QED
    BY <2>1, <2>2
<1>2. FrameOK(above)
  BY <1>1, TopFacts
<1>3. stack' = Append(SubSeq(stack, 1, n - 1), below)
  <2>1. n - 1 = Len(stack) - 2
    BY <1>1
  <2> QED
    BY <2>1 DEF Returned
<1>4. overwritten' = (overwritten \/ above.rem < Len(above.list))
  BY DEF Returned
<1> HIDE DEF n
<1> HIDE DEF above
<1>5. /\ above \in Frame /\ above.list \in Seq(RemoteType)
      /\ above.rem \in 0 .. Len(above.list) /\ Len(above.list) \in Nat
  BY <1>2, LenProperties DEF FrameOK, Frame
<1>6. /\ list \in Seq(RemoteType) /\ Len(list) = above.rem + Len(l)
      /\ \A i \in 1 .. above.rem : list[i] = above.list[i]
      /\ \A i \in 1 .. Len(l) : list[above.rem + i] = l[i]
  BY <1>5, Linked DEF Attach
<1> HIDE DEF list
<1>7. Len(l) \in Nat /\ (l # <<>> => Len(l) # 0) /\ (l = <<>> => Len(l) = 0)
  BY LenProperties, EmptySeq
<1>8. /\ below \in Frame /\ below.mode = above.mode /\ below.list = list
      /\ below.rem = rem
  <2>1. rem \in Nat
    BY <1>5
  <2> HIDE DEF rem
  <2> QED
    BY <1>5, <1>6, <2>1 DEF Frame
<1> HIDE DEF below
<1>9. FrameOK(below)
  <2>1. below.rem <= Len(below.list)
    BY <1>5, <1>6, <1>7, <1>8
  <2>2. below.rem = 0 => above.rem = 0 /\ l = <<>>
    BY <1>5, <1>8
  <2>3. below.rem = 0 => below.mode = "none"
    BY <1>2, <1>8, <2>2 DEF FrameOK
  <2>4. below.rem = 0 => below.list = <<>>
    BY <1>6, <1>7, <1>8, <2>2, EmptySeq
  <2> QED
    BY <1>8, <2>1, <2>3, <2>4 DEF FrameOK
<1>10. /\ stack' \in Seq(Frame) /\ Len(stack') = n
       /\ \A d \in 1 .. n : stack'[d] = IF d = n THEN below ELSE stack[d]
  BY <1>1, <1>3, <1>8, CutAndAppended
<1>11. stack'[n] = below /\ \A d \in 1 .. n - 1 : stack'[d] = stack[d]
  BY <1>1, <1>10
<1> QED
  BY <1>1, <1>2, <1>4, <1>5, <1>6, <1>8, <1>9, <1>10, <1>11 DEF n, above

LEMMA EditFacts ==
  ASSUME TypeOK, Edit
  PROVE  /\ stack' \in Seq(Frame) /\ Len(stack') = Len(stack) /\ stack' # <<>>
         /\ Len(stack) \in Nat \ {0}
         /\ Edited(Top')
         /\ \A d \in DOMAIN stack' : FrameOK(stack'[d])
         /\ \A d \in 1 .. Len(stack) - 1 : stack'[d] = stack[d]
<1>1. pc # "done" /\ \E f \in Frame : SetTop(f) /\ Edited(f)
  BY DEF Edit
<1>2. PICK f \in Frame : SetTop(f) /\ Edited(f)
  BY <1>1
<1>3. /\ stack' \in Seq(Frame) /\ Len(stack') = Len(stack) /\ stack' # <<>>
      /\ Top' = f
      /\ \A d \in DOMAIN stack' : FrameOK(stack'[d])
      /\ \A d \in 1 .. Len(stack) - 1 : stack'[d] = stack[d]
  BY <1>1, <1>2, TopReplaced DEF SetTop, Edited
<1> QED
  BY <1>1, <1>2, <1>3, TopFacts

\* Well-formed frames on the stack are what TypeOK says of it.
LEMMA StackTypes ==
  ASSUME stack' \in Seq(Frame), Len(stack') <= MaxIncludes + 2,
         pc' # "done" => stack' # <<>>,
         \A d \in DOMAIN stack' : FrameOK(stack'[d]),
         parse_error' \in BOOLEAN, overwritten' \in BOOLEAN, strayed' \in BOOLEAN,
         remotes' \in 0 .. MaxRemotes, live' \subseteq 1 .. remotes', files' \in Nat,
         pc' \in {"read", "leave", "check", "done", "crash"},
         global_remotes' \in Seq(RemoteType)
  PROVE  TypeOK'
BY DEF TypeOK, FrameOK

LEMMA InitTypes == Init => ParserInv
<1> SUFFICES ASSUME Init PROVE ParserInv
  OBVIOUS
<1>1. stack = <<NewFrame>> /\ NewFrame \in Frame /\ FrameOK(NewFrame)
  BY NewFrameOK DEF Init, FrameOK
<1>2. /\ stack \in Seq(Frame) /\ Len(stack) = 1 /\ stack # <<>>
      /\ \A d \in DOMAIN stack : FrameOK(stack[d])
  BY <1>1
<1>3. <<>> \in Seq(RemoteType)
  BY EmptySeq
<1>4. TypeOK
  <2>1. remotes \in 0 .. MaxRemotes /\ live \subseteq 1 .. remotes /\ files \in Nat
    BY BoundsAssumption DEF Init
  <2>2. Len(stack) <= MaxIncludes + 2
    BY <1>2, MaxIncludesAssumption
  <2>3. /\ parse_error \in BOOLEAN /\ overwritten \in BOOLEAN /\ strayed \in BOOLEAN
        /\ pc \in {"read", "leave", "check", "done", "crash"}
        /\ global_remotes \in Seq(RemoteType)
    BY <1>3 DEF Init
  <2> QED
    BY <1>2, <2>1, <2>2, <2>3 DEF TypeOK, FrameOK
<1> QED
  BY <1>4 DEF Init, ParserInv, Control

LEMMA TypesEdit == ParserInv /\ Edit => ParserInv'
<1> SUFFICES ASSUME ParserInv, Edit PROVE ParserInv'
  OBVIOUS
<1>1. TypeOK /\ pc # "done"
  BY DEF ParserInv, Edit
<1>2. /\ overwritten' \in BOOLEAN /\ parse_error' \in BOOLEAN
      /\ pc' = IF parse_error' THEN "leave" ELSE "read"
      /\ UNCHANGED <<remotes, live, files, global_remotes, strayed>>
  BY DEF Edit
<1>3. TypeOK'
  BY <1>1, <1>2, EditFacts, StackTypes DEF TypeOK
<1>4. Control'
  BY <1>2 DEF Control
<1> QED
  BY <1>3, <1>4 DEF ParserInv

LEMMA TypesBegin == ParserInv /\ BeginRemote => ParserInv'
<1> SUFFICES ASSUME ParserInv, BeginRemote PROVE ParserInv'
  OBVIOUS
<1>1. TypeOK /\ pc = "read" /\ ~parse_error
  BY DEF ParserInv, Control, BeginRemote, Reading
<1>2. /\ stack' \in Seq(Frame) /\ Len(stack') = Len(stack) /\ stack' # <<>>
      /\ \A d \in DOMAIN stack' : FrameOK(stack'[d])
  BY <1>1, BegunFacts, TopReplaced DEF SetTop
<1>3. /\ remotes' = remotes + 1 /\ live' = live \cup {remotes + 1}
      /\ overwritten' = (overwritten \/ Top.rem < Len(Top.list))
      /\ UNCHANGED <<parse_error, files, pc, global_remotes, strayed>>
  BY DEF BeginRemote
<1>4. remotes' \in 0 .. MaxRemotes /\ live' \subseteq 1 .. remotes'
  BY <1>1, <1>3, BegunFacts, BoundsAssumption DEF TypeOK
<1>5. overwritten' \in BOOLEAN
  BY <1>3
<1>6. TypeOK'
  BY <1>1, <1>2, <1>3, <1>4, <1>5, StackTypes DEF TypeOK
<1>7. Control'
  BY <1>1, <1>3 DEF Control
<1> QED
  BY <1>6, <1>7 DEF ParserInv

LEMMA TypesInclude == ParserInv /\ Include => ParserInv'
<1> SUFFICES ASSUME ParserInv, Include PROVE ParserInv'
  OBVIOUS
<1>1. TypeOK /\ pc = "read" /\ ~parse_error
  BY DEF ParserInv, Control, Include
<1>2. stack' = Append(stack, NewFrame) /\ NewFrame \in Frame
  BY NewFrameOK DEF Include, FrameOK
<1>3. /\ stack' \in Seq(Frame) /\ Len(stack') = Len(stack) + 1 /\ stack' # <<>>
      /\ \A d \in DOMAIN stack' : FrameOK(stack'[d])
  BY <1>1, <1>2, NewFrameOK, FramePushed
<1>4. Len(stack') <= MaxIncludes + 2
  <2>1. Len(stack) \in Nat /\ Len(stack) - 1 <= MaxIncludes
    BY <1>1, TopFacts DEF Include
  <2> QED
    BY <1>3, <2>1, MaxIncludesAssumption
<1>5. /\ parse_error' = FALSE /\ files' = files + 1 /\ strayed' = (strayed \/ Top.mode # "none")
      /\ UNCHANGED <<remotes, live, pc, global_remotes, overwritten>>
  BY DEF Include
<1>6. strayed' \in BOOLEAN /\ files' \in Nat
  BY <1>1, <1>5 DEF TypeOK
<1>7. TypeOK'
  BY <1>1, <1>3, <1>4, <1>5, <1>6, StackTypes DEF TypeOK
<1>8. Control'
  BY <1>1, <1>5 DEF Control
<1> QED
  BY <1>7, <1>8 DEF ParserInv

LEMMA TypesStop == ParserInv /\ Stop => ParserInv'
<1> SUFFICES ASSUME ParserInv, Stop PROVE ParserInv'
  OBVIOUS
<1>1. Top' = Top
  BY DEF Stop, Top
<1>2. TypeOK'
  BY DEF ParserInv, TypeOK, Stop
<1>3. Control'
  BY <1>1 DEF Control, Stop
<1> QED
  BY <1>2, <1>3 DEF ParserInv

LEMMA TypesReturn ==
  ASSUME ParserInv, NEW list \in Seq(RemoteType), Return(list) PROVE ParserInv'
<1>1. TypeOK /\ pc = "leave" /\ Len(stack) # 1 /\ Returned(list)
  BY DEF ParserInv, Return
<1> DEFINE n == Len(stack) - 1
<1>2. /\ n \in Nat /\ n \in 1 .. Len(stack)
      /\ stack' \in Seq(Frame) /\ Len(stack') = n
      /\ \A d \in 1 .. n - 1 : stack'[d] = stack[d]
      /\ FrameOK(stack'[n])
      /\ overwritten' = (overwritten \/ stack[n].rem < Len(stack[n].list))
  BY <1>1, ReturnedFacts
<1> HIDE DEF n
<1>3. \A d \in DOMAIN stack' : FrameOK(stack'[d])
  <2>1. \A d \in 1 .. n - 1 : FrameOK(stack'[d])
    BY <1>1, <1>2, TopFacts
  <2>2. DOMAIN stack' = 1 .. n
    BY <1>2, LenProperties
  <2> QED
    BY <1>2, <2>1, <2>2
<1>4. Len(stack') <= MaxIncludes + 2 /\ stack' # <<>>
  <2>1. Len(stack) \in Nat /\ Len(stack) <= MaxIncludes + 2
    BY <1>1, TopFacts DEF TypeOK
  <2>2. n <= MaxIncludes + 2 /\ n # 0
    BY <1>2, <2>1, MaxIncludesAssumption
  <2> QED
    BY <1>2, <2>2, EmptySeq
<1>5. /\ live' \subseteq live
      /\ parse_error => pc' = "leave"
      /\ ~parse_error => pc' = "read"
      /\ UNCHANGED <<parse_error, remotes, files, global_remotes, strayed>>
  BY DEF Return
<1>6. TypeOK'
  BY <1>1, <1>2, <1>3, <1>4, <1>5, StackTypes DEF TypeOK
<1>7. Control'
  BY <1>1, <1>5 DEF Control, TypeOK
<1> QED
  BY <1>6, <1>7 DEF ParserInv

\* The lists of the outermost file, when it is done.
LEMMA FinishFacts ==
  ASSUME TypeOK, Finish, ~parse_error,
         NEW list \in Seq(RemoteType), stack' = <<[Top EXCEPT !.list = list]>>,
         Len(list) = Len(Top.list)
  PROVE  /\ stack' \in Seq(Frame) /\ Len(stack') = 1 /\ stack' # <<>>
         /\ Top' = [Top EXCEPT !.list = list] /\ FrameOK(Top') /\ stack'[1] = Top'
         /\ Top'.list = list /\ Top'.mode = Top.mode
<1>1. FrameOK(Top)
  BY TopFacts DEF Finish
<1> DEFINE f == [Top EXCEPT !.list = list]
<1>2. f \in Frame /\ f.mode = Top.mode /\ f.rem = Top.rem /\ f.list = list
  BY <1>1 DEF FrameOK, Frame
<1>3. FrameOK(f)
  <2>1. Top.list = <<>> => list = <<>>
    BY EmptySeq
  <2> QED
    BY <1>1, <1>2, <2>1 DEF FrameOK
<1> HIDE DEF f
<1>4. stack' = <<f>>
  BY DEF f
<1>5. stack' \in Seq(Frame) /\ Len(stack') = 1 /\ stack' # <<>> /\ stack'[1] = f
  BY <1>2, <1>4
<1>6. Top' = f
  BY <1>5 DEF Top
<1> QED
  BY <1>2, <1>3, <1>5, <1>6 DEF f

LEMMA TypesFinish == ParserInv /\ Finish => ParserInv'
<1> SUFFICES ASSUME ParserInv, Finish PROVE ParserInv'
  OBVIOUS
<1>1. /\ TypeOK /\ pc = "leave"
      /\ UNCHANGED <<parse_error, remotes, files, global_remotes, overwritten, strayed>>
  BY DEF ParserInv, Finish
<1>2. CASE parse_error
  <2>1. stack' = <<>> /\ live' = live \ Ids(Top.list) /\ pc' = "done"
    BY <1>2 DEF Finish
  <2>2. stack' \in Seq(Frame) /\ Len(stack') = 0 /\ DOMAIN stack' = {}
    BY <2>1, EmptySeq
  <2>3. Len(stack') <= MaxIncludes + 2
    BY <2>2, MaxIncludesAssumption
  <2>4. TypeOK'
    BY <1>1, <2>1, <2>2, <2>3, StackTypes DEF TypeOK
  <2>5. Control'
    BY <2>1 DEF Control
  <2> QED
    BY <2>4, <2>5 DEF ParserInv
<1>3. CASE ~parse_error
  <2>1. /\ pc' = "check" /\ live' = live
        /\ \E list \in Seq(RemoteType) :
             stack' = <<[Top EXCEPT !.list = list]>> /\ Len(list) = Len(Top.list)
    BY <1>3 DEF Finish
  <2>2. /\ stack' \in Seq(Frame) /\ Len(stack') = 1 /\ stack' # <<>>
        /\ FrameOK(Top') /\ stack'[1] = Top' /\ Top'.mode = Top.mode
    BY <1>1, <1>3, <2>1, FinishFacts
  <2>3. \A d \in DOMAIN stack' : FrameOK(stack'[d])
    BY <2>2, LenProperties
  <2>4. Len(stack') <= MaxIncludes + 2
    BY <2>2, MaxIncludesAssumption
  <2>5. TypeOK'
    BY <1>1, <2>1, <2>2, <2>3, <2>4, StackTypes DEF TypeOK
  <2>6. Top.mode = "none"
    BY <1>1, <1>3 DEF ParserInv, Control
  <2>7. Control'
    BY <1>1, <1>3, <2>1, <2>2, <2>6 DEF Control
  <2> QED
    BY <2>5, <2>7 DEF ParserInv
<1> QED
  BY <1>2, <1>3

LEMMA TypesCheck == ParserInv /\ CheckList => ParserInv'
<1> SUFFICES ASSUME ParserInv, CheckList PROVE ParserInv'
  OBVIOUS
<1>1. /\ TypeOK /\ pc = "check" /\ stack' = <<>> /\ pc' = "done"
      /\ UNCHANGED <<parse_error, remotes, files, ended, overwritten, strayed>>
  BY DEF ParserInv, CheckList
<1>2. Top.list \in Seq(RemoteType)
  BY <1>1, TopFacts DEF FrameOK, Frame
<1>3. live' \subseteq live /\ global_remotes' \in Seq(RemoteType)
  BY <1>1, <1>2 DEF CheckList, TypeOK
<1>4. stack' \in Seq(Frame) /\ Len(stack') = 0 /\ DOMAIN stack' = {}
  BY <1>1, EmptySeq
<1>5. Len(stack') <= MaxIncludes + 2
  BY <1>4, MaxIncludesAssumption
<1>6. TypeOK'
  BY <1>1, <1>3, <1>4, <1>5, StackTypes DEF TypeOK
<1>7. Control'
  BY <1>1 DEF Control
<1> QED
  BY <1>6, <1>7 DEF ParserInv

LEMMA TypesStutter == ParserInv /\ UNCHANGED vars => ParserInv'
<1> SUFFICES ASSUME ParserInv, UNCHANGED vars PROVE ParserInv'
  OBVIOUS
<1>1. TypeOK'
  BY DEF vars, ParserInv, TypeOK
<1>2. Control'
  BY DEF vars, ParserInv, Control, Top
<1> QED
  BY <1>1, <1>2 DEF ParserInv

LEMMA ParserInvariant == Spec => []ParserInv
<1>1. ParserInv /\ [Next]_vars => ParserInv'
  BY StepKinds, TypesEdit, TypesBegin, TypesInclude, TypesStop, TypesReturn, TypesFinish,
     TypesCheck, TypesStutter DEF Step
<1> QED
  BY InitTypes, <1>1, PTL DEF Spec

\* The variables keep their types, the recursion stays within MAX_INCLUDES and rem
\* within its list (config.cpp:805, config.cpp:841).
THEOREM TypeCorrect == Spec => []TypeOK
<1>1. ParserInv => TypeOK
  BY DEF ParserInv
<1> QED
  BY <1>1, ParserInvariant, PTL

\* An error at any level of include is final (config.cpp:765).
THEOREM ErrorsStay == Spec => ErrorsAreFinal
<1>1. ParserInv /\ [Next]_vars => (parse_error => parse_error')
  <2>1. ParserInv /\ UNCHANGED vars => (parse_error => parse_error')
    BY DEF vars
  <2>2. ParserInv /\ Step => (parse_error => parse_error')
    <3>1. ParserInv /\ parse_error => pc \in {"leave", "done"}
      BY DEF ParserInv, Control
    <3>2. ASSUME NEW list \in Seq(RemoteType), Return(list) PROVE parse_error' = parse_error
      BY <3>2 DEF Return
    <3>3. Stop => (parse_error => parse_error')
      BY DEF Stop
    <3>4. Finish \/ CheckList \/ BeginRemote => parse_error' = parse_error
      BY DEF Finish, CheckList, BeginRemote
    <3>5. Edit \/ Include => pc = "read"
      BY DEF Edit, Include
    <3> QED
      BY <3>1, <3>2, <3>3, <3>4, <3>5 DEF Step
  <2> QED
    BY <2>1, <2>2, StepKinds
<1> QED
  BY <1>1, ParserInvariant, PTL DEF Spec, ErrorsAreFinal
-----------------------------------------------------------------------------
(* The accepted remotes are complete.                                      *)

\* Only the remote being read may lack a name.
Named(f) == \A k \in DOMAIN f.list : f.list[k].name \/ (f.mode # "none" /\ k = f.rem)

\* Unless a file was included within a remote, only the top frame reads one.
NamesKnown ==
  ~strayed => /\ \A d \in 1 .. Len(stack) - 1 : stack[d].mode = "none"
              /\ \A d \in DOMAIN stack : Named(stack[d])

NamesInv == NamesKnown /\ AcceptedHaveCodes

LEMMA ListOf ==
  ASSUME NEW f, FrameOK(f)
  PROVE  /\ f \in Frame /\ f.list \in Seq(RemoteType) /\ Len(f.list) \in Nat /\ f.rem \in Nat
         /\ f.rem <= Len(f.list) /\ DOMAIN f.list = 1 .. Len(f.list)
<1>1. f \in Frame /\ f.list \in Seq(RemoteType) /\ f.rem \in Nat /\ f.rem <= Len(f.list)
  BY DEF FrameOK, Frame
<1> QED
  BY <1>1, LenProperties

\* What holds of the frames below the top and of the new top holds of the stack.
LEMMA NamesOfStack ==
  ASSUME TypeOK, pc # "done", NamesKnown, ~strayed,
         NEW n \in Nat, stack' \in Seq(Frame), Len(stack') = n, n - 1 < Len(stack),
         \A d \in 1 .. n - 1 : stack'[d] = stack[d],
         \A d \in 1 .. n - 1 : stack[d].mode = "none",
         n # 0 => Named(stack'[n])
  PROVE  NamesKnown'
<1>1. DOMAIN stack' = 1 .. n /\ Len(stack) \in Nat /\ DOMAIN stack = 1 .. Len(stack)
  BY TopFacts, LenProperties DEF TypeOK
<1>2. \A d \in 1 .. n - 1 : d \in DOMAIN stack
  BY <1>1
<1>3. \A d \in 1 .. n - 1 : Named(stack'[d])
  BY <1>2 DEF NamesKnown
<1>4. \A d \in DOMAIN stack' : Named(stack'[d])
  <2> SUFFICES ASSUME NEW d \in 1 .. n PROVE Named(stack'[d])
    BY <1>1
  <2>1. d = n \/ d \in 1 .. n - 1
    OBVIOUS
  <2> QED
    BY <1>3, <2>1
<1> QED
  BY <1>4 DEF NamesKnown

LEMMA NamesEdit == ParserInv /\ NamesInv /\ Edit => NamesInv'
<1> SUFFICES ASSUME ParserInv, NamesInv, Edit PROVE NamesInv'
  OBVIOUS
<1>1. TypeOK /\ pc # "done" /\ strayed' = strayed /\ global_remotes' = global_remotes
  BY DEF ParserInv, Edit
<1>2. /\ stack' \in Seq(Frame) /\ Len(stack') = Len(stack) /\ Len(stack) \in Nat \ {0}
      /\ Edited(Top') /\ \A d \in 1 .. Len(stack) - 1 : stack'[d] = stack[d]
  BY <1>1, EditFacts
<1>3. ASSUME ~strayed PROVE NamesKnown'
  <2>1. Named(Top) /\ \A d \in 1 .. Len(stack) - 1 : stack[d].mode = "none"
    BY <1>1, <1>3, TopFacts, LenProperties DEF NamesInv, NamesKnown, Top, TypeOK
  <2>2. Top.mode # "none" /\ DOMAIN Top.list = 1 .. Len(Top.list) /\ Len(Top.list) \in Nat
    BY <1>1, RemFacts DEF Edit
  <2> DEFINE f == Top'
  <2>3. FrameOK(f)
    BY <1>2 DEF Edited
  <2>4. /\ f.rem = Top.rem /\ Len(f.list) <= Len(Top.list)
        /\ \A k \in 1 .. Len(f.list) : Top.list[k].name => f.list[k].name
        /\ f.mode = "none" => Top.list[f.rem].name
    BY <1>2 DEF Edited, EndRemote, Rem
  <2>5. DOMAIN f.list = 1 .. Len(f.list) /\ Len(f.list) \in Nat
    BY <2>3, ListOf
  <2>6. stack'[Len(stack)] = f
    BY <1>2 DEF Top
  <2> HIDE DEF f
  <2>7. ASSUME NEW k \in DOMAIN f.list PROVE f.list[k].name \/ (f.mode # "none" /\ k = f.rem)
    <3>1. k \in 1 .. Len(f.list) /\ k \in DOMAIN Top.list
      BY <2>2, <2>4, <2>5
    <3>2. Top.list[k].name \/ k = Top.rem
      BY <2>1, <3>1 DEF Named
    <3>3. CASE Top.list[k].name
      BY <2>4, <3>1, <3>3
    <3>4. CASE k = Top.rem
      BY <2>4, <3>1, <3>4
    <3> QED
      BY <3>2, <3>3, <3>4
  <2>8. Named(f)
    BY <2>7 DEF Named
  <2> QED
    BY <1>1, <1>2, <1>3, <2>1, <2>6, <2>8, NamesOfStack DEF NamesInv
<1> QED
  BY <1>1, <1>3 DEF NamesInv, NamesKnown, AcceptedHaveCodes

LEMMA NamesBegin == ParserInv /\ NamesInv /\ BeginRemote => NamesInv'
<1> SUFFICES ASSUME ParserInv, NamesInv, BeginRemote PROVE NamesInv'
  OBVIOUS
<1>1. /\ TypeOK /\ pc # "done" /\ strayed' = strayed /\ global_remotes' = global_remotes
      /\ Top.mode = "none"
  BY DEF ParserInv, BeginRemote, Reading
<1>2. /\ Begun \in Frame /\ FrameOK(Begun) /\ SetTop(Begun)
      /\ Begun.mode = "remote" /\ Begun.rem = Top.rem + 1
      /\ Len(Begun.list) = Top.rem + 1
      /\ \A i \in 1 .. Top.rem : Begun.list[i] = Top.list[i]
  BY <1>1, BegunFacts
<1>3. /\ stack' \in Seq(Frame) /\ Len(stack') = Len(stack) /\ Top' = Begun
      /\ \A d \in 1 .. Len(stack) - 1 : stack'[d] = stack[d]
      /\ Len(stack) \in Nat \ {0}
  BY <1>1, <1>2, TopReplaced, TopFacts DEF SetTop
<1>4. stack'[Len(stack)] = Begun
  BY <1>3 DEF Top
<1>5. ASSUME ~strayed PROVE NamesKnown'
  <2>1. Named(Top) /\ \A d \in 1 .. Len(stack) - 1 : stack[d].mode = "none"
    BY <1>1, <1>5, TopFacts, LenProperties DEF NamesInv, NamesKnown, Top, TypeOK
  <2>2. /\ DOMAIN Top.list = 1 .. Len(Top.list) /\ Len(Top.list) \in Nat /\ Top.rem \in Nat
        /\ Top.rem <= Len(Top.list)
    BY <1>1, TopFacts, ListOf
  <2>3. DOMAIN Begun.list = 1 .. Top.rem + 1
    BY <1>2, ListOf
  <2>4. ASSUME NEW k \in DOMAIN Begun.list PROVE Begun.list[k].name \/ k = Begun.rem
    <3>1. k = Top.rem + 1 \/ (k \in 1 .. Top.rem /\ k \in DOMAIN Top.list)
      BY <2>2, <2>3
    <3> QED
      BY <1>1, <1>2, <2>1, <3>1 DEF Named
  <2>5. Named(Begun)
    BY <1>2, <2>4 DEF Named
  <2> QED
    BY <1>1, <1>3, <1>4, <1>5, <2>1, <2>5, NamesOfStack DEF NamesInv
<1> QED
  BY <1>1, <1>5 DEF NamesInv, NamesKnown, AcceptedHaveCodes

\* What ~strayed says of the top frame, and of all when it is in no section.
LEMMA NamesAtTop ==
  ASSUME TypeOK, pc # "done", NamesKnown, ~strayed
  PROVE  /\ Named(Top)
         /\ Top.mode = "none" => \A k \in DOMAIN Top.list : Top.list[k].name
BY TopFacts, LenProperties DEF NamesKnown, Named, Top, TypeOK

LEMMA NamesInclude == ParserInv /\ NamesInv /\ Include => NamesInv'
<1> SUFFICES ASSUME ParserInv, NamesInv, Include PROVE NamesInv'
  OBVIOUS
<1>1. /\ TypeOK /\ pc # "done" /\ strayed' = (strayed \/ Top.mode # "none")
      /\ global_remotes' = global_remotes /\ stack' = Append(stack, NewFrame)
  BY DEF ParserInv, Include
<1>2. /\ stack' \in Seq(Frame) /\ Len(stack') = Len(stack) + 1 /\ Top' = NewFrame
      /\ \A d \in 1 .. Len(stack) : stack'[d] = stack[d]
      /\ Len(stack) \in Nat \ {0}
  BY <1>1, NewFrameOK, FramePushed, TopFacts DEF FrameOK
<1>3. Named(NewFrame)
  BY DEF Named, NewFrame
<1>4. stack'[Len(stack) + 1] = NewFrame
  BY <1>2 DEF Top
<1>5. ASSUME ~strayed' PROVE NamesKnown'
  <2>1. ~strayed /\ Top.mode = "none"
    BY <1>1, <1>5
  <2>2. \A d \in 1 .. Len(stack) - 1 : stack[d].mode = "none"
    BY <2>1 DEF NamesInv, NamesKnown
  <2>3. \A d \in 1 .. Len(stack) : stack[d].mode = "none"
    <3> SUFFICES ASSUME NEW d \in 1 .. Len(stack) PROVE stack[d].mode = "none"
      OBVIOUS
    <3>1. d = Len(stack) \/ d \in 1 .. Len(stack) - 1
      BY <1>2
    <3> QED
      BY <2>1, <2>2, <3>1 DEF Top
  <2> DEFINE n == Len(stack) + 1
  <2>4. n \in Nat /\ n - 1 = Len(stack)
    BY <1>2
  <2>5. DOMAIN stack' = 1 .. n /\ DOMAIN stack = 1 .. Len(stack)
    BY <1>1, <1>2, LenProperties DEF TypeOK
  <2>6. \A d \in 1 .. Len(stack) : Named(stack'[d])
    BY <1>2, <2>1, <2>5 DEF NamesInv, NamesKnown
  <2>7. \A d \in DOMAIN stack' : Named(stack'[d])
    <3> SUFFICES ASSUME NEW d \in DOMAIN stack' PROVE Named(stack'[d])
      OBVIOUS
    <3>1. d = Len(stack) + 1 \/ d \in 1 .. Len(stack)
      BY <1>2, <2>5
    <3> QED
      BY <1>3, <1>4, <2>6, <3>1
  <2>8. \A d \in 1 .. Len(stack') - 1 : stack'[d].mode = "none"
    BY <1>2, <2>3, <2>4
  <2> QED
    BY <2>7, <2>8 DEF NamesKnown
<1>6. AcceptedHaveCodes'
  BY <1>1 DEF NamesInv, AcceptedHaveCodes
<1>7. NamesKnown'
  BY <1>5 DEF NamesKnown
<1> QED
  BY <1>6, <1>7 DEF NamesInv

LEMMA NamesReturn ==
  ASSUME ParserInv, NamesInv, NEW list \in Seq(RemoteType), Return(list) PROVE NamesInv'
<1>1. /\ TypeOK /\ pc = "leave" /\ Len(stack) # 1 /\ Returned(list)
      /\ strayed' = strayed /\ global_remotes' = global_remotes
  BY DEF ParserInv, Return
<1> DEFINE n == Len(stack) - 1
           above == stack[n]
           below == stack'[n]
<1>2. /\ n \in Nat /\ n \in 1 .. Len(stack)
      /\ stack' \in Seq(Frame) /\ Len(stack') = n
      /\ \A d \in 1 .. n - 1 : stack'[d] = stack[d]
      /\ FrameOK(above) /\ FrameOK(below) /\ below.mode = above.mode
      /\ above.rem \in 0 .. Len(above.list) /\ Len(above.list) \in Nat
      /\ Len(below.list) = above.rem + Len(list)
      /\ \A i \in 1 .. above.rem : below.list[i] = above.list[i]
      /\ \A i \in 1 .. Len(list) : below.list[above.rem + i] = list[i]
  BY <1>1, ReturnedFacts
<1> HIDE DEF below
<1>3. ASSUME ~strayed PROVE NamesKnown'
  <2>1. /\ \A d \in 1 .. n : stack[d].mode = "none"
        /\ \A d \in 1 .. n : Named(stack[d])
    <3>1. Len(stack) \in Nat /\ DOMAIN stack = 1 .. Len(stack) /\ n = Len(stack) - 1
      BY <1>1, TopFacts, LenProperties DEF TypeOK
    <3>2. \A d \in 1 .. n : d \in DOMAIN stack
      BY <3>1
    <3>3. \A d \in 1 .. n : stack[d].mode = "none"
      BY <1>3, <3>1 DEF NamesInv, NamesKnown
    <3>4. \A d \in 1 .. n : Named(stack[d])
      BY <1>3, <3>2 DEF NamesInv, NamesKnown
    <3> QED
      BY <3>3, <3>4
  <2>2. \A k \in DOMAIN list : list[k].name
    <3>1. CASE parse_error
      BY <1>1, <3>1 DEF Return
    <3>2. CASE ~parse_error
      <4>1. Top.mode = "none"
        BY <1>1, <3>2 DEF ParserInv, Control
      <4> QED
        BY <1>1, <1>3, <3>2, <4>1, NamesAtTop DEF NamesInv, Return
    <3> QED
      BY <3>1, <3>2
  <2>3. above.mode = "none" /\ Named(above)
    BY <1>2, <2>1
  <2>4. /\ DOMAIN above.list = 1 .. Len(above.list) /\ DOMAIN list = 1 .. Len(list)
        /\ Len(list) \in Nat
    BY <1>2, ListOf, LenProperties
  <2>5. DOMAIN below.list = 1 .. above.rem + Len(list)
    BY <1>2, ListOf
  <2> HIDE DEF above
  <2>6. ASSUME NEW k \in DOMAIN below.list PROVE below.list[k].name
    <3>1. CASE k \in 1 .. above.rem
      <4>1. k \in DOMAIN above.list
        BY <1>2, <2>4, <3>1
      <4> QED
        BY <1>2, <2>3, <3>1, <4>1 DEF Named
    <3>2. CASE k \notin 1 .. above.rem
      <4>1. k - above.rem \in 1 .. Len(list) /\ above.rem + (k - above.rem) = k
        BY <1>2, <2>4, <2>5, <3>2
      <4>2. below.list[k] = list[k - above.rem]
        BY <1>2, <4>1
      <4> QED
        BY <2>2, <2>4, <4>1, <4>2
    <3> QED
      BY <3>1, <3>2
  <2>7. Named(below)
    BY <2>6 DEF Named
  <2>8. \A d \in 1 .. n - 1 : stack[d].mode = "none"
    BY <1>2, <2>1
  <2>9. n - 1 < Len(stack)
    BY <1>1, <1>2, TopFacts
  <2> HIDE DEF n
  <2> QED
    BY <1>1, <1>2, <1>3, <2>7, <2>8, <2>9, NamesOfStack DEF NamesInv, below
<1>4. AcceptedHaveCodes'
  BY <1>1 DEF NamesInv, AcceptedHaveCodes
<1> QED
  BY <1>1, <1>3, <1>4 DEF NamesInv, NamesKnown

LEMMA NamesFinish == ParserInv /\ NamesInv /\ Finish => NamesInv'
<1> SUFFICES ASSUME ParserInv, NamesInv, Finish PROVE NamesInv'
  OBVIOUS
<1>1. TypeOK /\ pc = "leave" /\ strayed' = strayed /\ global_remotes' = global_remotes
  BY DEF ParserInv, Finish
<1>2. AcceptedHaveCodes'
  BY <1>1 DEF NamesInv, AcceptedHaveCodes
<1>3. CASE parse_error
  <2>1. stack' = <<>>
    BY <1>3 DEF Finish
  <2>2. Len(stack') = 0 /\ DOMAIN stack' = {}
    BY <2>1
  <2>3. 1 .. Len(stack') - 1 = {}
    BY <2>2
  <2>4. NamesKnown'
    BY <2>2, <2>3 DEF NamesKnown
  <2> QED
    BY <1>2, <2>4 DEF NamesInv
<1>4. CASE ~parse_error
  <2>1. PICK list \in Seq(RemoteType) :
          /\ stack' = <<[Top EXCEPT !.list = list]>> /\ Len(list) = Len(Top.list)
          /\ (\A k \in DOMAIN Top.list : Top.list[k].name) => \A k \in DOMAIN list : list[k].name
    BY <1>4 DEF Finish
  <2>2. /\ stack' \in Seq(Frame) /\ Len(stack') = 1
        /\ FrameOK(Top') /\ stack'[1] = Top' /\ Top'.list = list
    BY <1>1, <1>4, <2>1, FinishFacts
  <2>3. Top.mode = "none"
    BY <1>1, <1>4 DEF ParserInv, Control
  <2>4. ASSUME ~strayed PROVE NamesKnown'
    <3>1. \A k \in DOMAIN list : list[k].name
      BY <1>1, <2>1, <2>3, <2>4, NamesAtTop DEF NamesInv
    <3>2. Named(stack'[1])
      BY <2>2, <3>1 DEF Named
    <3>3. DOMAIN stack' = {1} /\ 1 .. Len(stack') - 1 = {}
      BY <2>2, LenProperties
    <3> QED
      BY <3>2, <3>3 DEF NamesKnown
  <2> QED
    BY <1>1, <1>2, <2>4 DEF NamesInv, NamesKnown
<1> QED
  BY <1>3, <1>4

LEMMA NamesCheck == ParserInv /\ NamesInv /\ CheckList => NamesInv'
<1> SUFFICES ASSUME ParserInv, NamesInv, CheckList PROVE NamesInv'
  OBVIOUS
<1>1. /\ TypeOK /\ pc = "check" /\ stack' = <<>> /\ strayed' = strayed
      /\ Top.mode = "none"
  BY DEF ParserInv, Control, CheckList
<1>2. Len(stack') = 0 /\ DOMAIN stack' = {}
  BY <1>1
<1>3. 1 .. Len(stack') - 1 = {}
  BY <1>2
<1>4. NamesKnown'
  BY <1>2, <1>3 DEF NamesKnown
<1>5. CASE \E k \in DOMAIN Top.list : Top.list[k].codes = NoCodes
  BY <1>1, <1>4, <1>5 DEF CheckList, NamesInv, AcceptedHaveCodes
<1>6. CASE \A k \in DOMAIN Top.list : Top.list[k].codes # NoCodes
  <2>1. global_remotes' = Top.list
    BY <1>6 DEF CheckList
  <2>2. ~strayed => \A k \in DOMAIN Top.list : Top.list[k].name
    BY <1>1, NamesAtTop DEF NamesInv
  <2>3. AcceptedHaveCodes'
    BY <1>1, <1>6, <2>1, <2>2 DEF AcceptedHaveCodes
  <2> QED
    BY <1>4, <2>3 DEF NamesInv
<1> QED
  BY <1>5, <1>6

LEMMA NamesInvariant == Spec => []NamesInv
<1>1. Init => NamesInv
  <2> SUFFICES ASSUME Init PROVE NamesInv
    OBVIOUS
  <2>1. DOMAIN stack = {1} /\ 1 .. Len(stack) - 1 = {} /\ stack[1] = NewFrame
    BY DEF Init
  <2>2. Named(NewFrame)
    BY DEF Named, NewFrame
  <2> QED
    BY <2>1, <2>2 DEF Init, NamesInv, NamesKnown, AcceptedHaveCodes
<1>2. ParserInv /\ NamesInv /\ Next => NamesInv'
  <2>1. NamesInv /\ Stop => NamesInv'
    BY DEF NamesInv, NamesKnown, AcceptedHaveCodes, Stop
  <2> QED
    BY <2>1, StepKinds, NamesEdit, NamesBegin, NamesInclude, NamesReturn, NamesFinish,
       NamesCheck DEF Step
<1>3. NamesInv /\ UNCHANGED vars => NamesInv'
  BY DEF NamesInv, NamesKnown, AcceptedHaveCodes, vars
<1>4. ParserInv /\ NamesInv /\ [Next]_vars => NamesInv'
  BY <1>2, <1>3
<1> QED
  BY <1>1, <1>4, ParserInvariant, PTL DEF Spec

\* Remotes that decoding and sending see have a name and codes (irconfig.cpp:84).
THEOREM AcceptedComplete == Spec => []AcceptedHaveCodes
<1>1. NamesInv => AcceptedHaveCodes
  BY DEF NamesInv
<1> QED
  BY <1>1, NamesInvariant, PTL
-----------------------------------------------------------------------------
(* Nothing leaks.                                                          *)

\* While the files are read, each allocated remote is in the list of one frame.
OwnedOnce ==
  /\ \A x : x \in live <=> \E d \in DOMAIN stack : x \in Ids(stack[d].list)
  /\ \A d, e \in DOMAIN stack : \A x :
       x \in Ids(stack[d].list) /\ x \in Ids(stack[e].list) => d = e

LeakInv ==
  /\ pc # "done" => global_remotes = <<>> /\ (~overwritten => OwnedOnce)
  /\ NothingLeaks

\* The top frame's list changes, from the remotes `from` to the remotes `to`.
LEMMA OwnersOfStack ==
  ASSUME OwnedOnce, NEW n \in Nat \ {0}, DOMAIN stack = 1 .. n, DOMAIN stack' = 1 .. n,
         \A d \in 1 .. n - 1 : stack'[d] = stack[d],
         NEW new, new \cap live = {},
         Ids(stack'[n].list) = Ids(stack[n].list) \cup new,
         live' = live \cup new
  PROVE  OwnedOnce'
<1> DEFINE own(d) == Ids(stack[d].list)
           owns(d) == Ids(stack'[d].list)
<1>1. \A d \in 1 .. n : owns(d) = IF d = n THEN own(n) \cup new ELSE own(d)
  <2> SUFFICES ASSUME NEW d \in 1 .. n PROVE owns(d) = IF d = n THEN own(n) \cup new ELSE own(d)
    OBVIOUS
  <2>1. d = n \/ d \in 1 .. n - 1
    OBVIOUS
  <2> QED
    BY <2>1
<1>2. \A x : x \in live <=> \E d \in 1 .. n : x \in own(d)
  BY DEF OwnedOnce
<1>3. \A d, e \in 1 .. n : \A x : x \in own(d) /\ x \in own(e) => d = e
  BY DEF OwnedOnce
<1>4. n \in 1 .. n
  OBVIOUS
<1> HIDE DEF own, owns
<1>5. \A x : x \in live' <=> \E d \in 1 .. n : x \in owns(d)
  <2> SUFFICES ASSUME NEW x PROVE x \in live' <=> \E d \in 1 .. n : x \in owns(d)
    OBVIOUS
  <2>1. x \in live => \E d \in 1 .. n : x \in owns(d)
    BY <1>1, <1>2
  <2>2. x \in new => \E d \in 1 .. n : x \in owns(d)
    BY <1>1, <1>4
  <2>3. (\E d \in 1 .. n : x \in owns(d)) => x \in live \/ x \in new
    BY <1>1, <1>2
  <2> QED
    BY <2>1, <2>2, <2>3
<1>6. ASSUME NEW d \in 1 .. n, NEW e \in 1 .. n, NEW x, x \in owns(d), x \in owns(e)
      PROVE  d = e
  <2>1. CASE x \in new
    <3>1. \A c \in 1 .. n : x \notin own(c)
      BY <1>2, <2>1
    <3> QED
      BY <1>1, <1>6, <3>1
  <2>2. CASE x \notin new
    BY <1>1, <1>3, <1>6, <2>2
  <2> QED
    BY <2>1, <2>2
<1> QED
  BY <1>5, <1>6 DEF OwnedOnce, owns

LEMMA LeaksEdit == ParserInv /\ LeakInv /\ Edit => LeakInv'
<1> SUFFICES ASSUME ParserInv, LeakInv, Edit PROVE LeakInv'
  OBVIOUS
<1>1. /\ TypeOK /\ pc # "done" /\ pc' # "done" /\ live' = live
      /\ global_remotes' = global_remotes /\ (overwritten => overwritten')
  BY DEF ParserInv, Edit
<1>2. /\ stack' \in Seq(Frame) /\ Len(stack') = Len(stack) /\ Len(stack) \in Nat \ {0}
      /\ Edited(Top') /\ \A d \in 1 .. Len(stack) - 1 : stack'[d] = stack[d]
  BY <1>1, EditFacts
<1>3. ASSUME ~overwritten' PROVE OwnedOnce'
  <2> DEFINE f == Top'
  <2>1. /\ FrameOK(f) /\ Len(f.list) = Len(Top.list)
        /\ \A k \in 1 .. Len(f.list) : f.list[k].id = Top.list[k].id
    BY <1>2, <1>3 DEF Edited
  <2>2. /\ stack'[Len(stack)] = f /\ stack[Len(stack)] = Top
    BY <1>2 DEF Top
  <2> HIDE DEF f
  <2>3. DOMAIN f.list = 1 .. Len(f.list) /\ DOMAIN Top.list = 1 .. Len(Top.list)
    BY <1>1, <2>1, ListOf, TopFacts
  <2>4. Ids(f.list) = Ids(Top.list)
    BY <2>1, <2>3 DEF Ids
  <2>5. DOMAIN stack = 1 .. Len(stack) /\ DOMAIN stack' = 1 .. Len(stack)
    BY <1>1, <1>2, LenProperties DEF TypeOK
  <2>6. OwnedOnce
    BY <1>1, <1>3 DEF LeakInv
  <2>7. /\ {} \cap live = {} /\ live' = live \cup {}
        /\ Ids(stack'[Len(stack)].list) = Ids(stack[Len(stack)].list) \cup {}
    BY <1>1, <2>2, <2>4
  <2> QED
    BY <1>2, <2>5, <2>6, <2>7, OwnersOfStack
<1> QED
  BY <1>1, <1>3 DEF LeakInv, NothingLeaks

LEMMA LeaksBegin == ParserInv /\ LeakInv /\ BeginRemote => LeakInv'
<1> SUFFICES ASSUME ParserInv, LeakInv, BeginRemote PROVE LeakInv'
  OBVIOUS
<1>1. /\ TypeOK /\ pc # "done" /\ pc' # "done" /\ live' = live \cup {remotes + 1}
      /\ global_remotes' = global_remotes
      /\ overwritten' = (overwritten \/ Top.rem < Len(Top.list))
  BY DEF ParserInv, BeginRemote, Reading
<1>2. /\ Begun \in Frame /\ FrameOK(Begun) /\ SetTop(Begun)
      /\ Len(Begun.list) = Top.rem + 1
      /\ \A i \in 1 .. Top.rem : Begun.list[i] = Top.list[i]
      /\ Begun.list[Top.rem + 1] = NewRemote(remotes + 1)
  BY <1>1, BegunFacts
<1>3. /\ stack' \in Seq(Frame) /\ Len(stack') = Len(stack) /\ Top' = Begun
      /\ \A d \in 1 .. Len(stack) - 1 : stack'[d] = stack[d]
      /\ Len(stack) \in Nat \ {0}
  BY <1>1, <1>2, TopReplaced, TopFacts DEF SetTop
<1>4. stack'[Len(stack)] = Begun /\ stack[Len(stack)] = Top
  BY <1>3 DEF Top
<1>5. ASSUME ~overwritten' PROVE OwnedOnce'
  <2>1. /\ DOMAIN Top.list = 1 .. Len(Top.list) /\ Len(Top.list) \in Nat /\ Top.rem \in Nat
        /\ Top.rem <= Len(Top.list)
    BY <1>1, TopFacts, ListOf
  <2>2. Top.rem = Len(Top.list)
    <3>1. ~(Top.rem < Len(Top.list))
      BY <1>1, <1>5, Zenon
    <3> QED
      BY <2>1, <3>1
  <2>3. DOMAIN Begun.list = 1 .. Top.rem + 1
    BY <1>2, ListOf
  <2>4. 1 .. Top.rem + 1 = (1 .. Top.rem) \cup {Top.rem + 1}
    BY <2>1
  <2>5. Begun.list[Top.rem + 1].id = remotes + 1
    BY <1>2 DEF NewRemote
  <2>6. Ids(Begun.list) = Ids(Top.list) \cup {remotes + 1}
    BY <1>2, <2>1, <2>2, <2>3, <2>4, <2>5 DEF Ids
  <2>7. {remotes + 1} \cap live = {}
    BY <1>1 DEF TypeOK
  <2>8. DOMAIN stack = 1 .. Len(stack) /\ DOMAIN stack' = 1 .. Len(stack)
    BY <1>1, <1>3, LenProperties DEF TypeOK
  <2>9. OwnedOnce
    BY <1>1, <1>5 DEF LeakInv
  <2> QED
    BY <1>1, <1>3, <1>4, <2>6, <2>7, <2>8, <2>9, OwnersOfStack
<1> QED
  BY <1>1, <1>5 DEF LeakInv, NothingLeaks

\* A new frame owns nothing.
LEMMA LeaksInclude == ParserInv /\ LeakInv /\ Include => LeakInv'
<1> SUFFICES ASSUME ParserInv, LeakInv, Include PROVE LeakInv'
  OBVIOUS
<1>1. /\ TypeOK /\ pc # "done" /\ pc' # "done" /\ live' = live
      /\ global_remotes' = global_remotes /\ overwritten' = overwritten
      /\ stack' = Append(stack, NewFrame)
  BY DEF ParserInv, Include
<1> DEFINE n == Len(stack)
<1>2. /\ stack' \in Seq(Frame) /\ Len(stack') = n + 1 /\ Top' = NewFrame
      /\ \A d \in 1 .. n : stack'[d] = stack[d]
      /\ n \in Nat \ {0}
  BY <1>1, NewFrameOK, FramePushed, TopFacts DEF FrameOK
<1>3. DOMAIN stack = 1 .. n /\ DOMAIN stack' = 1 .. n + 1
  BY <1>1, <1>2, LenProperties DEF TypeOK
<1>4. Ids(stack'[n + 1].list) = {}
  BY <1>2 DEF Top, NewFrame, Ids
<1> HIDE DEF n
<1>5. ASSUME OwnedOnce PROVE OwnedOnce'
  <2> DEFINE own(d) == Ids(stack[d].list)
             owns(d) == Ids(stack'[d].list)
  <2>1. \A d \in 1 .. n : owns(d) = own(d)
    BY <1>2
  <2>2. owns(n + 1) = {}
    BY <1>4
  <2>3. \A x : x \in live <=> \E d \in 1 .. n : x \in own(d)
    BY <1>3, <1>5 DEF OwnedOnce
  <2>4. \A d, e \in 1 .. n : \A x : x \in own(d) /\ x \in own(e) => d = e
    BY <1>3, <1>5 DEF OwnedOnce
  <2>5. \A d : d \in 1 .. n + 1 <=> d \in 1 .. n \/ d = n + 1
    BY <1>2
  <2> HIDE DEF own, owns
  <2>6. \A x : x \in live' <=> \E d \in 1 .. n + 1 : x \in owns(d)
    BY <1>1, <2>1, <2>2, <2>3, <2>5
  <2>7. \A d, e \in 1 .. n + 1 : \A x : x \in owns(d) /\ x \in owns(e) => d = e
    BY <2>1, <2>2, <2>4, <2>5
  <2> QED
    BY <1>3, <2>6, <2>7 DEF OwnedOnce, owns
<1> QED
  BY <1>1, <1>5 DEF LeakInv, NothingLeaks

\* The top frame goes: its remotes are freed, or the frame above has them.
LEMMA OwnersOfParent ==
  ASSUME OwnedOnce, NEW n \in Nat \ {0}, DOMAIN stack = 1 .. n + 1, DOMAIN stack' = 1 .. n,
         \A d \in 1 .. n - 1 : stack'[d] = stack[d],
         \/ /\ Ids(stack'[n].list) = Ids(stack[n].list)
            /\ live' = live \ Ids(stack[n + 1].list)
         \/ /\ Ids(stack'[n].list) = Ids(stack[n].list) \cup Ids(stack[n + 1].list)
            /\ live' = live
  PROVE  OwnedOnce'
<1> DEFINE own(d) == Ids(stack[d].list)
           owns(d) == Ids(stack'[d].list)
           got == IF live' = live /\ owns(n) = own(n) \cup own(n + 1) THEN own(n + 1) ELSE {}
<1>1. \A d \in 1 .. n - 1 : owns(d) = own(d)
  OBVIOUS
<1>2. owns(n) = own(n) \cup got /\ got \subseteq own(n + 1)
  OBVIOUS
<1>3. live' = (live \ own(n + 1)) \cup got
  <2>1. own(n + 1) \subseteq live
    BY DEF OwnedOnce
  <2> QED
    BY <2>1
<1>4. \A x : x \in live <=> \E d \in 1 .. n + 1 : x \in own(d)
  BY DEF OwnedOnce
<1>5. \A d, e \in 1 .. n + 1 : \A x : x \in own(d) /\ x \in own(e) => d = e
  BY DEF OwnedOnce
<1> HIDE DEF own, owns, got
<1>6. \A d \in 1 .. n : /\ d \in 1 .. n + 1 /\ d # n + 1
                       /\ owns(d) = IF d = n THEN own(d) \cup got ELSE own(d)
  <2> SUFFICES ASSUME NEW d \in 1 .. n
               PROVE  /\ d \in 1 .. n + 1 /\ d # n + 1
                      /\ owns(d) = IF d = n THEN own(d) \cup got ELSE own(d)
    OBVIOUS
  <2>1. d \in 1 .. n + 1 /\ d # n + 1 /\ (d = n \/ d \in 1 .. n - 1)
    OBVIOUS
  <2> QED
    BY <1>1, <1>2, <2>1
<1>7. n \in 1 .. n /\ n + 1 \in 1 .. n + 1 /\ \A d \in 1 .. n + 1 : d \in 1 .. n \/ d = n + 1
  OBVIOUS
<1>8. \A x : x \in live' <=> \E d \in 1 .. n : x \in owns(d)
  <2> SUFFICES ASSUME NEW x PROVE x \in live' <=> \E d \in 1 .. n : x \in owns(d)
    OBVIOUS
  <2>1. x \in got => x \in live' /\ x \in owns(n)
    BY <1>2, <1>3
  <2>2. ASSUME x \in live, x \notin own(n + 1) PROVE \E d \in 1 .. n : x \in owns(d)
    BY <1>4, <1>6, <1>7, <2>2
  <2>3. ASSUME NEW d \in 1 .. n, x \in owns(d), x \notin got PROVE x \in live'
    <3>1. x \in own(d) /\ d \in 1 .. n + 1 /\ d # n + 1
      BY <1>6, <2>3
    <3>2. x \notin own(n + 1)
      BY <1>5, <1>7, <3>1
    <3> QED
      BY <1>3, <1>4, <3>1, <3>2
  <2> QED
    BY <1>3, <1>7, <2>1, <2>2, <2>3
<1>9. ASSUME NEW d \in 1 .. n, NEW e \in 1 .. n, NEW x, x \in owns(d), x \in owns(e)
      PROVE  d = e
  <2>1. CASE x \in got
    <3>1. x \in own(n + 1)
      BY <1>2, <2>1
    <3>2. x \notin own(d) /\ x \notin own(e)
      BY <1>5, <1>6, <1>7, <3>1
    <3> QED
      BY <1>6, <1>9, <3>2
  <2>2. CASE x \notin got
    BY <1>5, <1>6, <1>9, <2>2
  <2> QED
    BY <2>1, <2>2
<1> QED
  BY <1>8, <1>9 DEF OwnedOnce, owns

LEMMA LeaksReturn ==
  ASSUME ParserInv, LeakInv, NEW list \in Seq(RemoteType), Return(list) PROVE LeakInv'
<1>1. /\ TypeOK /\ pc = "leave" /\ pc' # "done" /\ Len(stack) # 1 /\ Returned(list)
      /\ global_remotes' = global_remotes
  BY DEF ParserInv, Return
<1> DEFINE n == Len(stack) - 1
           above == stack[n]
           below == stack'[n]
<1>2. /\ n \in Nat /\ n \in 1 .. Len(stack)
      /\ stack' \in Seq(Frame) /\ Len(stack') = n
      /\ \A d \in 1 .. n - 1 : stack'[d] = stack[d]
      /\ FrameOK(above) /\ FrameOK(below)
      /\ above.rem \in 0 .. Len(above.list) /\ Len(above.list) \in Nat
      /\ Len(below.list) = above.rem + Len(list)
      /\ \A i \in 1 .. above.rem : below.list[i] = above.list[i]
      /\ \A i \in 1 .. Len(list) : below.list[above.rem + i] = list[i]
      /\ overwritten' = (overwritten \/ above.rem < Len(above.list))
  BY <1>1, ReturnedFacts
<1>3. /\ Len(stack) \in Nat /\ n + 1 = Len(stack) /\ n \in Nat \ {0}
      /\ DOMAIN stack = 1 .. n + 1 /\ DOMAIN stack' = 1 .. n
  <2>1. Len(stack) \in Nat /\ DOMAIN stack = 1 .. Len(stack)
    BY <1>1, TopFacts, LenProperties DEF TypeOK
  <2>2. DOMAIN stack' = 1 .. n
    BY <1>2, LenProperties
  <2> QED
    BY <1>2, <2>1, <2>2
<1>4. Top = stack[n + 1]
  BY <1>3 DEF Top
<1> HIDE DEF n, above, below
<1>5. ASSUME ~overwritten' PROVE OwnedOnce'
  <2>1. OwnedOnce
    BY <1>1, <1>2, <1>5, Zenon DEF LeakInv
  <2>2. above.rem = Len(above.list)
    <3>1. ~(above.rem < Len(above.list))
      BY <1>2, <1>5, Zenon
    <3> QED
      BY <1>2, <3>1
  <2>3. /\ DOMAIN above.list = 1 .. above.rem /\ DOMAIN list = 1 .. Len(list)
        /\ Len(list) \in Nat /\ above.rem \in Nat /\ DOMAIN below.list = 1 .. above.rem + Len(list)
    BY <1>2, <2>2, ListOf, LenProperties
  <2>4. Ids(below.list) = Ids(above.list) \cup Ids(list)
    <3>1. Ids(above.list) \cup Ids(list) \subseteq Ids(below.list)
      <4>1. \A k \in 1 .. above.rem : k \in DOMAIN below.list
        BY <2>3
      <4>2. \A k \in 1 .. Len(list) : above.rem + k \in DOMAIN below.list
        BY <2>3
      <4>3. \A k \in DOMAIN above.list : above.list[k].id \in Ids(below.list)
        BY <1>2, <2>3, <4>1 DEF Ids
      <4>4. ASSUME NEW k \in DOMAIN list PROVE list[k].id \in Ids(below.list)
        <5>1. below.list[above.rem + k] = list[k] /\ above.rem + k \in DOMAIN below.list
          BY <1>2, <2>3, <4>2
        <5> QED
          BY <5>1 DEF Ids
      <4> QED
        BY <4>3, <4>4 DEF Ids
    <3>2. ASSUME NEW k \in DOMAIN below.list
          PROVE  below.list[k].id \in Ids(above.list) \cup Ids(list)
      <4>1. CASE k \in 1 .. above.rem
        BY <1>2, <2>3, <4>1 DEF Ids
      <4>2. CASE k \notin 1 .. above.rem
        <5>1. k - above.rem \in 1 .. Len(list) /\ above.rem + (k - above.rem) = k
          BY <2>3, <4>2
        <5>2. below.list[k] = list[k - above.rem]
          BY <1>2, <5>1
        <5> QED
          BY <2>3, <5>1, <5>2 DEF Ids
      <4> QED
        BY <4>1, <4>2
    <3> QED
      BY <3>1, <3>2 DEF Ids
  <2>5. CASE parse_error
    <3>1. list = <<>> /\ live' = live \ Ids(Top.list)
      BY <2>5 DEF Return
    <3>2. Ids(list) = {}
      BY <3>1 DEF Ids
    <3>3. Ids(below.list) = Ids(above.list)
      BY <2>4, <3>2
    <3> QED
      BY <1>2, <1>3, <1>4, <2>1, <3>1, <3>3, OwnersOfParent DEF above, below
  <2>6. CASE ~parse_error
    <3>1. Ids(list) = Ids(Top.list) /\ live' = live
      BY <2>6 DEF Return
    <3> QED
      BY <1>2, <1>3, <1>4, <2>1, <2>4, <3>1, OwnersOfParent DEF above, below
  <2> QED
    BY <2>5, <2>6
<1> QED
  BY <1>1, <1>5 DEF LeakInv, NothingLeaks

LEMMA LeaksFinish == ParserInv /\ LeakInv /\ Finish => LeakInv'
<1> SUFFICES ASSUME ParserInv, LeakInv, Finish PROVE LeakInv'
  OBVIOUS
<1>1. /\ TypeOK /\ pc = "leave" /\ Len(stack) = 1
      /\ global_remotes' = global_remotes /\ overwritten' = overwritten
  BY DEF ParserInv, Finish
<1>2. DOMAIN stack = {1} /\ Top = stack[1]
  BY <1>1, LenProperties DEF TypeOK, Top
<1>3. ~overwritten => OwnedOnce /\ live = Ids(Top.list)
  BY <1>1, <1>2 DEF LeakInv, OwnedOnce
<1>4. global_remotes = <<>>
  BY <1>1 DEF LeakInv
<1>5. CASE parse_error
  <2>1. live' = live \ Ids(Top.list) /\ pc' = "done"
    BY <1>5 DEF Finish
  <2>2. Ids(global_remotes') = {}
    BY <1>1, <1>4 DEF Ids
  <2> QED
    BY <1>1, <1>3, <2>1, <2>2 DEF LeakInv, NothingLeaks
<1>6. CASE ~parse_error
  <2>1. /\ pc' = "check" /\ live' = live
        /\ \E list \in Seq(RemoteType) :
             /\ stack' = <<[Top EXCEPT !.list = list]>> /\ Len(list) = Len(Top.list)
             /\ Ids(list) = Ids(Top.list)
    BY <1>6 DEF Finish
  <2>2. /\ stack' \in Seq(Frame) /\ Len(stack') = 1 /\ Ids(stack'[1].list) = Ids(Top.list)
    BY <1>1, <1>6, <2>1, FinishFacts
  <2>3. DOMAIN stack' = {1}
    BY <2>2, LenProperties
  <2>4. ~overwritten => OwnedOnce'
    BY <1>3, <2>1, <2>2, <2>3 DEF OwnedOnce
  <2> QED
    BY <1>1, <1>4, <2>1, <2>4 DEF LeakInv, NothingLeaks
<1> QED
  BY <1>5, <1>6

LEMMA LeaksCheck == ParserInv /\ LeakInv /\ CheckList => LeakInv'
<1> SUFFICES ASSUME ParserInv, LeakInv, CheckList PROVE LeakInv'
  OBVIOUS
<1>1. /\ TypeOK /\ pc = "check" /\ Len(stack) = 1 /\ pc' = "done" /\ overwritten' = overwritten
  BY DEF ParserInv, Control, CheckList
<1>2. DOMAIN stack = {1} /\ Top = stack[1]
  BY <1>1, LenProperties DEF TypeOK, Top
<1>3. ~overwritten => live = Ids(Top.list)
  BY <1>1, <1>2 DEF LeakInv, OwnedOnce
<1>4. global_remotes = <<>>
  BY <1>1 DEF LeakInv
<1>5. Ids(<<>>) = {}
  BY DEF Ids
<1>6. \/ live' = live \ Ids(Top.list) /\ global_remotes' = global_remotes
      \/ live' = live /\ global_remotes' = Top.list
  BY DEF CheckList
<1> QED
  BY <1>1, <1>3, <1>4, <1>5, <1>6 DEF LeakInv, NothingLeaks

\* In the end exactly the accepted remotes are allocated (config.cpp:1081-1090,
\* irconfig.cpp:84-94), unless rem->next lost a successor.
THEOREM NothingLeaked == Spec => []NothingLeaks
<1>1. Init => LeakInv
  <2> SUFFICES ASSUME Init PROVE LeakInv
    OBVIOUS
  <2>1. DOMAIN stack = {1} /\ stack[1] = NewFrame
    BY DEF Init
  <2>2. Ids(NewFrame.list) = {}
    BY DEF NewFrame, Ids
  <2> QED
    BY <2>1, <2>2 DEF Init, LeakInv, OwnedOnce, NothingLeaks
<1>2. ParserInv /\ LeakInv /\ Next => LeakInv'
  <2>1. LeakInv /\ Stop => LeakInv'
    <3> SUFFICES ASSUME LeakInv, Stop PROVE LeakInv'
      OBVIOUS
    <3>1. /\ pc # "done" /\ pc' # "done"
          /\ UNCHANGED <<stack, live, global_remotes, overwritten>>
      BY DEF Stop
    <3>2. OwnedOnce => OwnedOnce'
      BY <3>1 DEF OwnedOnce
    <3> QED
      BY <3>1, <3>2 DEF LeakInv, NothingLeaks
  <2> QED
    BY <2>1, StepKinds, LeaksEdit, LeaksBegin, LeaksInclude, LeaksReturn, LeaksFinish,
       LeaksCheck DEF Step
<1>3. LeakInv /\ UNCHANGED vars => LeakInv'
  BY DEF LeakInv, OwnedOnce, NothingLeaks, vars
<1>4. ParserInv /\ LeakInv /\ [Next]_vars => LeakInv'
  BY <1>2, <1>3
<1>5. LeakInv => NothingLeaks
  BY DEF LeakInv
<1> QED
  BY <1>1, <1>4, <1>5, ParserInvariant, PTL DEF Spec
-----------------------------------------------------------------------------
(* The accepted remotes are those that the files define.                   *)

\* The remotes of a list whose `end remote` was read.
Closed(f) == {f.list[k] : k \in {i \in DOMAIN f.list : f.mode = "none" \/ i # f.rem}}

Norms(f) == {Normalised(r) : r \in Closed(f)}

InFrames == UNION {Norms(stack[d]) : d \in DOMAIN stack}

Written == {Normalised(ended[k]) : k \in DOMAIN ended}

InOrder(list) ==
  \A j, k \in DOMAIN list : j < k =>
    \/ list[j].bits < list[k].bits
    \/ list[j].bits = list[k].bits /\ list[j].id < list[k].id

\* Of remotes with as many bits the older comes first, and the open one comes last.
IdsRise(f) ==
  \A j, k \in DOMAIN f.list :
    j < k /\ (f.list[j].bits = f.list[k].bits \/ (f.mode # "none" /\ k = f.rem)) =>
      f.list[j].id < f.list[k].id

\* What a file has read is older than what it includes afterwards.
OldestBelow ==
  /\ \A d \in DOMAIN stack : \A x \in Ids(stack[d].list) : x <= remotes
  /\ \A d, e \in DOMAIN stack : d < e =>
       \A x \in Ids(stack[d].list), y \in Ids(stack[e].list) : x < y

ListsRise ==
  /\ Top.mode # "none" => Top.rem = Len(Top.list)
  /\ \A d \in DOMAIN stack : IdsRise(stack[d])

AllWritten == ended \in Seq(RemoteType) /\ InFrames = Written

Arranged ==
  pc = "check" =>
    InOrder(Top.list) /\ \A k \in DOMAIN Top.list : Normalised(Top.list[k]) = Top.list[k]

ReadSoFar == ListsRise /\ OldestBelow /\ AllWritten /\ Arranged

\* Nothing was lost, misplaced or wrong so far.
Sound ==
  ~overwritten /\ ~strayed /\ ~parse_error /\ pc \in {"read", "leave", "check"}

WrittenInv ==
  /\ Sound => ReadSoFar
  /\ pc # "done" => global_remotes = <<>>
  /\ ResultAsWritten

\* Every file around an included one normalises its remotes again: that changes nothing.
LEMMA NormalisedTwice ==
  ASSUME NEW r \in RemoteType, ~Unreadable(r)
  PROVE  Normalised(Normalised(r)) = Normalised(r)
<1> DEFINE reverse == ~IsRaw(r) /\ "REVERSE" \in r.flags
           n == Normalised(r)
<1>1. /\ n \in RemoteType /\ n.toggle_bit = 0
      /\ n.flags = IF reverse THEN (r.flags \ {"REVERSE"}) \cup {"COMPAT_REVERSE"} ELSE r.flags
  <2>1. n \in RemoteType
    BY NormalisedType
  <2> QED
    BY <2>1 DEF Normalised, RemoteType
<1> HIDE DEF n
<1>2. ~(~IsRaw(n) /\ "REVERSE" \in n.flags)
  <2>1. CASE reverse
    BY <1>1, <2>1
  <2>2. CASE ~reverse
    BY <1>1, <2>2 DEF IsRaw
  <2> QED
    BY <2>1, <2>2
<1>3. TogglePlace(n) = 0
  BY <1>1 DEF TogglePlace, RemoteType
<1>4. Normalised(n) = [n EXCEPT !.codes = n.codes, !.flags = n.flags, !.rc6_mask = n.rc6_mask,
                                !.toggle_bit_mask = n.toggle_bit_mask, !.toggle_bit = 0]
  BY <1>1, <1>2, <1>3 DEF Normalised, RemoteType
<1>5. Normalised(n) = n
  BY <1>1, <1>4 DEF RemoteType
<1> QED
  BY <1>5 DEF n

\* What a file gives back is in order, if its own list was but for the bits.
LEMMA ListArranged ==
  ASSUME NEW s \in Seq(RemoteType), \A k \in DOMAIN s : ~Unreadable(s[k]),
         \A j, k \in DOMAIN s : j < k /\ s[j].bits = s[k].bits => s[j].id < s[k].id
  PROVE  LET l == Sorted([k \in DOMAIN s |-> Normalised(s[k])])
         IN  /\ l \in Seq(RemoteType) /\ Len(l) = Len(s)
             /\ InOrder(l)
             /\ \A k \in DOMAIN l : Normalised(l[k]) = l[k]
             /\ {l[k] : k \in DOMAIN l} = {Normalised(s[k]) : k \in DOMAIN s}
<1> DEFINE n == [k \in DOMAIN s |-> Normalised(s[k])]
           l == Sorted(n)
<1>1. /\ Len(s) \in Nat /\ DOMAIN s = 1 .. Len(s)
      /\ \A k \in 1 .. Len(s) : s[k] \in RemoteType
  BY LenProperties, ElementOfSeq
<1>2. \A k \in 1 .. Len(s) : /\ Normalised(s[k]) \in RemoteType
                             /\ Normalised(s[k]).id = s[k].id
                             /\ Normalised(s[k]).bits = s[k].bits
                             /\ Normalised(Normalised(s[k])) = Normalised(s[k])
                             /\ s[k].bits \in Nat /\ s[k].id \in Nat
  <2>1. \A k \in 1 .. Len(s) : s[k].bits \in Nat /\ s[k].id \in Nat
    BY <1>1 DEF RemoteType
  <2> QED
    BY <1>1, <2>1, NormalisedType, NormalisedTwice
<1>3. n \in Seq(RemoteType)
  <2> DEFINE e(k) == Normalised(s[k])
  <2>1. \A k \in 1 .. Len(s) : e(k) \in RemoteType
    BY <1>2
  <2>2. n = [k \in 1 .. Len(s) |-> e(k)]
    BY <1>1
  <2> HIDE DEF e
  <2> QED
    BY <1>1, <2>1, <2>2, IsASeq
<1>4. DOMAIN n = DOMAIN s /\ \A k \in DOMAIN s : n[k] = Normalised(s[k])
  OBVIOUS
<1> HIDE DEF n
<1>5. Len(n) = Len(s)
  BY <1>1, <1>3, <1>4, LenProperties
<1>6. /\ l \in Seq(RemoteType) /\ Len(l) = Len(n)
      /\ \E p \in Bijection(DOMAIN n, DOMAIN n) :
           /\ \A k \in DOMAIN n : l[k] = n[p[k]]
           /\ \A j, k \in DOMAIN n : j < k => Before(n[p[j]], p[j], n[p[k]], p[k])
  BY <1>3, SortedIsPermutation
<1>7. DOMAIN l = DOMAIN s
  BY <1>1, <1>5, <1>6, LenProperties
<1>8. PICK p \in Bijection(DOMAIN s, DOMAIN s) :
        /\ \A k \in DOMAIN s : l[k] = n[p[k]]
        /\ \A j, k \in DOMAIN s : j < k => Before(n[p[j]], p[j], n[p[k]], p[k])
  BY <1>4, <1>6
<1> HIDE DEF l
<1>9. /\ \A k \in DOMAIN s : p[k] \in DOMAIN s
      /\ \A i \in DOMAIN s : \E k \in DOMAIN s : p[k] = i
  BY DEF Bijection, Injection, Surjection
<1>10. \A k \in DOMAIN s : l[k] = Normalised(s[p[k]])
  BY <1>4, <1>8, <1>9
<1>11. InOrder(l)
  <2> SUFFICES ASSUME NEW j \in DOMAIN s, NEW k \in DOMAIN s, j < k
               PROVE  \/ l[j].bits < l[k].bits
                      \/ l[j].bits = l[k].bits /\ l[j].id < l[k].id
    BY <1>7 DEF InOrder
  <2>1. Before(n[p[j]], p[j], n[p[k]], p[k])
    BY <1>8
  <2>2. PICK a \in DOMAIN s, b \in DOMAIN s : a = p[j] /\ b = p[k]
    BY <1>9
  <2>3. /\ l[j].bits = s[a].bits /\ l[k].bits = s[b].bits
        /\ l[j].id = s[a].id /\ l[k].id = s[b].id
        /\ n[a].bits = s[a].bits /\ n[b].bits = s[b].bits
    BY <1>1, <1>2, <1>4, <1>10, <2>2
  <2>4. s[a].bits < s[b].bits \/ (s[a].bits = s[b].bits /\ a < b)
    BY <2>1, <2>2, <2>3 DEF Before
  <2> QED
    BY <2>3, <2>4
<1>12. \A k \in DOMAIN l : Normalised(l[k]) = l[k]
  BY <1>1, <1>2, <1>7, <1>9, <1>10
<1>13. {l[k] : k \in DOMAIN l} = {Normalised(s[k]) : k \in DOMAIN s}
  <2>1. {l[k] : k \in DOMAIN l} = {Normalised(s[p[k]]) : k \in DOMAIN s}
    BY <1>7, <1>10
  <2>2. {Normalised(s[p[k]]) : k \in DOMAIN s} = {Normalised(s[k]) : k \in DOMAIN s}
    BY <1>9
  <2> QED
    BY <2>1, <2>2
<1> QED
  BY <1>5, <1>6, <1>11, <1>12, <1>13 DEF l, n

\* ids are numbers, and the frames are those of the stack.
LEMMA StackFacts ==
  ASSUME TypeOK, pc # "done"
  PROVE  /\ Len(stack) \in Nat \ {0} /\ DOMAIN stack = 1 .. Len(stack)
         /\ stack[Len(stack)] = Top /\ FrameOK(Top)
         /\ \A d \in 1 .. Len(stack) : FrameOK(stack[d]) /\ Ids(stack[d].list) \subseteq Nat
         /\ remotes \in Nat
<1>1. /\ Len(stack) \in Nat \ {0} /\ FrameOK(Top) /\ stack[Len(stack)] = Top
      /\ \A d \in 1 .. Len(stack) : FrameOK(stack[d])
  BY TopFacts DEF Top
<1>2. DOMAIN stack = 1 .. Len(stack)
  BY LenProperties DEF TypeOK
<1>3. ASSUME NEW f, FrameOK(f) PROVE Ids(f.list) \subseteq Nat
  <2>1. DOMAIN f.list = 1 .. Len(f.list) /\ f.list \in Seq(RemoteType)
    BY <1>3, ListOf
  <2>3. \A k \in 1 .. Len(f.list) : f.list[k] \in RemoteType
    BY <2>1, ElementOfSeq
  <2>4. \A r \in RemoteType : r.id \in Nat
    BY DEF RemoteType
  <2>2. \A k \in DOMAIN f.list : f.list[k].id \in Nat
    BY <2>1, <2>3, <2>4
  <2> QED
    BY <2>2 DEF Ids
<1>4. remotes \in Nat
  BY BoundsAssumption DEF TypeOK
<1> QED
  BY <1>1, <1>2, <1>3, <1>4

\* The top frame gets no remote but a new one.
LEMMA OldestOfStack ==
  ASSUME OldestBelow, NEW n \in Nat \ {0}, DOMAIN stack = 1 .. n, DOMAIN stack' = 1 .. n,
         \A d \in 1 .. n - 1 : stack'[d] = stack[d],
         \A d \in 1 .. n : Ids(stack[d].list) \subseteq Nat,
         remotes \in Nat, remotes' \in Nat, remotes <= remotes',
         \A x \in Ids(stack'[n].list) :
           x \in Ids(stack[n].list) \/ (x \in Nat /\ remotes < x /\ x <= remotes')
  PROVE  OldestBelow'
<1> DEFINE own(d) == Ids(stack[d].list)
           owns(d) == Ids(stack'[d].list)
<1>1. \A d \in 1 .. n - 1 : owns(d) = own(d)
  OBVIOUS
<1>2. \A x \in owns(n) : x \in own(n) \/ (x \in Nat /\ remotes < x /\ x <= remotes')
  OBVIOUS
<1>3. /\ \A d \in 1 .. n : \A x \in own(d) : x \in Nat /\ x <= remotes
      /\ \A d, e \in 1 .. n : d < e => \A x \in own(d), y \in own(e) : x < y
  BY DEF OldestBelow
<1> HIDE DEF own, owns
<1>4. \A d \in 1 .. n : d \in 1 .. n - 1 \/ d = n
  OBVIOUS
<1>5. \A d \in 1 .. n : \A x \in owns(d) : x <= remotes'
  <2> SUFFICES ASSUME NEW d \in 1 .. n, NEW x \in owns(d) PROVE x <= remotes'
    OBVIOUS
  <2>1. x \in Nat /\ (x <= remotes \/ x <= remotes')
    BY <1>1, <1>2, <1>3, <1>4
  <2> QED
    BY <2>1
<1>6. ASSUME NEW d \in 1 .. n, NEW e \in 1 .. n, d < e, NEW x \in owns(d), NEW y \in owns(e)
      PROVE  x < y
  <2>1. d \in 1 .. n - 1 /\ x \in own(d) /\ x \in Nat /\ x <= remotes
    <3>1. d \in 1 .. n - 1
      BY <1>6
    <3> QED
      BY <1>1, <1>3, <1>6, <3>1
  <2>2. CASE y \in own(e)
    BY <1>3, <1>6, <2>1, <2>2
  <2>3. CASE y \notin own(e)
    <3>1. y \in Nat /\ remotes < y
      BY <1>1, <1>2, <1>4, <1>6, <2>3
    <3> QED
      BY <2>1, <3>1
  <2> QED
    BY <2>2, <2>3
<1> QED
  BY <1>5, <1>6 DEF OldestBelow, owns

\* The frame below gets the remotes of the top frame.
LEMMA OldestOfParent ==
  ASSUME OldestBelow, NEW n \in Nat \ {0}, DOMAIN stack = 1 .. n + 1, DOMAIN stack' = 1 .. n,
         \A d \in 1 .. n - 1 : stack'[d] = stack[d], remotes' = remotes,
         Ids(stack'[n].list) \subseteq Ids(stack[n].list) \cup Ids(stack[n + 1].list)
  PROVE  OldestBelow'
<1> DEFINE own(d) == Ids(stack[d].list)
           owns(d) == Ids(stack'[d].list)
<1>1. \A d \in 1 .. n - 1 : owns(d) = own(d)
  OBVIOUS
<1>2. owns(n) \subseteq own(n) \cup own(n + 1)
  OBVIOUS
<1>3. /\ \A d \in 1 .. n + 1 : \A x \in own(d) : x <= remotes
      /\ \A d, e \in 1 .. n + 1 : d < e => \A x \in own(d), y \in own(e) : x < y
  BY DEF OldestBelow
<1> HIDE DEF own, owns
<1>4. \A d \in 1 .. n : /\ d \in 1 .. n - 1 \/ d = n
                        /\ d \in 1 .. n + 1 /\ d < n + 1
  OBVIOUS
<1>5. n + 1 \in 1 .. n + 1
  OBVIOUS
<1>6. \A d \in 1 .. n : \A x \in owns(d) : x <= remotes'
  BY <1>1, <1>2, <1>3, <1>4, <1>5
<1>7. ASSUME NEW d \in 1 .. n, NEW e \in 1 .. n, d < e, NEW x \in owns(d), NEW y \in owns(e)
      PROVE  x < y
  <2>1. x \in own(d)
    <3>1. d \in 1 .. n - 1
      BY <1>7
    <3> QED
      BY <1>1, <1>7, <3>1
  <2>2. y \in own(e) \/ y \in own(n + 1)
    BY <1>1, <1>2, <1>4, <1>7
  <2> QED
    BY <1>3, <1>4, <1>5, <1>7, <2>1, <2>2
<1> QED
  BY <1>6, <1>7 DEF OldestBelow, owns

\* The finished remotes of the top frame, with those that are new there.
LEMMA NormsOfStack ==
  ASSUME NEW n \in Nat \ {0}, DOMAIN stack = 1 .. n, DOMAIN stack' = 1 .. n,
         \A d \in 1 .. n - 1 : stack'[d] = stack[d],
         NEW new, Norms(stack'[n]) = Norms(stack[n]) \cup new
  PROVE  InFrames' = InFrames \cup new
<1> DEFINE g(d) == Norms(stack[d])
           h(d) == Norms(stack'[d])
<1>1. \A d \in 1 .. n - 1 : h(d) = g(d)
  OBVIOUS
<1>2. h(n) = g(n) \cup new
  OBVIOUS
<1>3. /\ \A x : x \in InFrames <=> \E d \in 1 .. n : x \in g(d)
      /\ \A x : x \in InFrames' <=> \E d \in 1 .. n : x \in h(d)
  BY DEF InFrames
<1>4. n \in 1 .. n /\ \A d \in 1 .. n : d \in 1 .. n - 1 \/ d = n
  OBVIOUS
<1> HIDE DEF g, h
<1>5. \A d \in 1 .. n : h(d) = IF d = n THEN g(d) \cup new ELSE g(d)
  BY <1>1, <1>2, <1>4
<1>6. \A x : (\E d \in 1 .. n : x \in h(d)) <=> (\E d \in 1 .. n : x \in g(d)) \/ x \in new
  BY <1>4, <1>5
<1> QED
  BY <1>3, <1>6

LEMMA NormsOfParent ==
  ASSUME NEW n \in Nat \ {0}, DOMAIN stack = 1 .. n + 1, DOMAIN stack' = 1 .. n,
         \A d \in 1 .. n - 1 : stack'[d] = stack[d],
         Norms(stack'[n]) = Norms(stack[n]) \cup Norms(stack[n + 1])
  PROVE  InFrames' = InFrames
<1> DEFINE g(d) == Norms(stack[d])
           h(d) == Norms(stack'[d])
<1>1. \A d \in 1 .. n - 1 : h(d) = g(d)
  OBVIOUS
<1>2. h(n) = g(n) \cup g(n + 1)
  OBVIOUS
<1>3. /\ \A x : x \in InFrames <=> \E d \in 1 .. n + 1 : x \in g(d)
      /\ \A x : x \in InFrames' <=> \E d \in 1 .. n : x \in h(d)
  BY DEF InFrames
<1>4. /\ n \in 1 .. n /\ n + 1 \in 1 .. n + 1
      /\ \A d \in 1 .. n : d \in 1 .. n + 1 /\ (d \in 1 .. n - 1 \/ d = n)
      /\ \A d \in 1 .. n + 1 : d \in 1 .. n \/ d = n + 1
  OBVIOUS
<1> HIDE DEF g, h
<1>5. \A d \in 1 .. n : h(d) = IF d = n THEN g(d) \cup g(n + 1) ELSE g(d)
  BY <1>1, <1>2, <1>4
<1>6. \A x : (\E d \in 1 .. n : x \in h(d)) <=> (\E d \in 1 .. n + 1 : x \in g(d))
  BY <1>4, <1>5
<1> QED
  BY <1>3, <1>6

\* A step that changes the top frame only.
LEMMA ReadOfStack ==
  ASSUME TypeOK, pc # "done", ListsRise, OldestBelow, AllWritten,
         stack' \in Seq(Frame), Len(stack') = Len(stack),
         \A d \in 1 .. Len(stack) - 1 : stack'[d] = stack[d],
         Top'.mode # "none" => Top'.rem = Len(Top'.list),
         IdsRise(Top'),
         remotes' \in Nat, remotes <= remotes',
         \A x \in Ids(Top'.list) :
           x \in Ids(Top.list) \/ (x \in Nat /\ remotes < x /\ x <= remotes'),
         NEW new, Norms(Top') = Norms(Top) \cup new,
         ended' \in Seq(RemoteType), Written' = Written \cup new
  PROVE  ListsRise' /\ OldestBelow' /\ AllWritten'
<1> DEFINE n == Len(stack)
<1>1. /\ n \in Nat \ {0} /\ DOMAIN stack = 1 .. n /\ stack[n] = Top
      /\ \A d \in 1 .. n : Ids(stack[d].list) \subseteq Nat
      /\ remotes \in Nat
  BY StackFacts
<1>2. DOMAIN stack' = 1 .. n /\ stack'[n] = Top'
  BY LenProperties DEF Top
<1>3. \A d \in 1 .. n - 1 : stack'[d] = stack[d]
  OBVIOUS
<1> HIDE DEF n
<1>4. OldestBelow'
  <2>1. \A x \in Ids(stack'[n].list) :
          x \in Ids(stack[n].list) \/ (x \in Nat /\ remotes < x /\ x <= remotes')
    BY <1>1, <1>2
  <2> QED
    BY <1>1, <1>2, <1>3, <2>1, OldestOfStack
<1>5. AllWritten'
  <2>1. Norms(stack'[n]) = Norms(stack[n]) \cup new
    BY <1>1, <1>2
  <2>2. InFrames' = InFrames \cup new
    BY <1>1, <1>2, <1>3, <2>1, NormsOfStack
  <2> QED
    BY <2>2 DEF AllWritten
<1>6. ListsRise'
  <2>1. \A d \in 1 .. n : d = n \/ (d \in 1 .. n - 1 /\ d \in DOMAIN stack)
    BY <1>1
  <2>2. \A d \in DOMAIN stack' : IdsRise(stack'[d])
    BY <1>2, <1>3, <2>1 DEF ListsRise
  <2> QED
    BY <2>2 DEF ListsRise
<1> QED
  BY <1>4, <1>5, <1>6

\* A line within a remote.
LEMMA ReadEdit ==
  ASSUME ParserInv, ReadSoFar, Edit, ~EndRemote, ~overwritten'
  PROVE  ReadSoFar'
<1>1. /\ TypeOK /\ pc # "done" /\ pc' # "check" /\ Top.mode # "none"
      /\ remotes' = remotes /\ ended' = ended
  BY DEF ParserInv, Edit
<1>2. /\ stack' \in Seq(Frame) /\ Len(stack') = Len(stack)
      /\ \A d \in 1 .. Len(stack) - 1 : stack'[d] = stack[d]
      /\ Edited(Top')
  BY <1>1, EditFacts
<1> DEFINE f == Top'
<1>3. /\ FrameOK(f) /\ f.mode # "none" /\ f.rem = Top.rem /\ Len(f.list) = Len(Top.list)
      /\ \A k \in 1 .. Len(f.list) : /\ f.list[k].id = Top.list[k].id
                                     /\ k # Top.rem => f.list[k] = Top.list[k]
  BY <1>2 DEF Edited
<1>4. Top.rem = Len(Top.list) /\ IdsRise(Top) /\ remotes \in Nat
  BY <1>1, StackFacts DEF ReadSoFar, ListsRise
<1>5. /\ DOMAIN Top.list = 1 .. Len(Top.list) /\ Len(Top.list) \in Nat
      /\ DOMAIN f.list = 1 .. Len(Top.list)
  BY <1>1, <1>3, RemFacts, ListOf
<1> HIDE DEF f
<1>6. Closed(f) = Closed(Top)
  BY <1>1, <1>3, <1>5 DEF Closed
<1>7. IdsRise(f)
  <2> SUFFICES ASSUME NEW j \in 1 .. Len(Top.list), NEW k \in 1 .. Len(Top.list), j < k,
                      f.list[j].bits = f.list[k].bits \/ k = f.rem
               PROVE  f.list[j].id < f.list[k].id
    BY <1>5 DEF IdsRise
  <2>1. j # Top.rem /\ f.list[j] = Top.list[j] /\ f.list[k].id = Top.list[k].id
    BY <1>3, <1>4, <1>5
  <2>2. Top.list[j].bits = Top.list[k].bits \/ k = Top.rem
    BY <1>3, <2>1
  <2>3. Top.list[j].id < Top.list[k].id
    BY <1>1, <1>4, <1>5, <2>2 DEF IdsRise
  <2> QED
    BY <2>1, <2>3
<1>8. Ids(f.list) = Ids(Top.list)
  BY <1>3, <1>5 DEF Ids
<1>9. Norms(f) = Norms(Top) \cup {} /\ Written' = Written \cup {} /\ ended' \in Seq(RemoteType)
  BY <1>1, <1>6 DEF Norms, Written, ReadSoFar, AllWritten
<1>10. f.mode # "none" => f.rem = Len(f.list)
  BY <1>3, <1>4
<1>11. ListsRise' /\ OldestBelow' /\ AllWritten'
  <2>1. /\ Top'.mode # "none" => Top'.rem = Len(Top'.list)
        /\ IdsRise(Top')
        /\ \A x \in Ids(Top'.list) :
             x \in Ids(Top.list) \/ (x \in Nat /\ remotes < x /\ x <= remotes')
        /\ Norms(Top') = Norms(Top) \cup {}
    BY <1>7, <1>8, <1>9, <1>10 DEF f
  <2>2. remotes' \in Nat /\ remotes <= remotes'
    BY <1>1, <1>4
  <2>3. ListsRise /\ OldestBelow /\ AllWritten
    BY DEF ReadSoFar
  <2> HIDE DEF f
  <2> QED
    BY <1>1, <1>2, <1>9, <2>1, <2>2, <2>3, ReadOfStack
<1> QED
  BY <1>1, <1>11 DEF ReadSoFar, Arranged

\* end remote: what it finishes is written down.
LEMMA ReadEnd ==
  ASSUME ParserInv, ReadSoFar, EndRemote, Edit, ~overwritten'
  PROVE  ReadSoFar'
<1>1. /\ TypeOK /\ pc # "done" /\ pc' # "check" /\ pc' # "crash" /\ Top.mode # "none"
      /\ remotes' = remotes
  BY DEF ParserInv, Edit
<1>2. /\ stack' \in Seq(Frame) /\ Len(stack') = Len(stack)
      /\ \A d \in 1 .. Len(stack) - 1 : stack'[d] = stack[d]
      /\ Edited(Top')
  BY <1>1, EditFacts
<1>3. ~(Rem.codes = NoCodes /\ ~IsRaw(Rem))
  BY <1>1 DEF EndRemote
<1>4. /\ Rem \in RemoteType /\ Top.rem \in 1 .. Len(Top.list) /\ Top \in Frame
      /\ DOMAIN Top.list = 1 .. Len(Top.list) /\ Len(Top.list) \in Nat
      /\ Top.list \in Seq(RemoteType)
  BY <1>1, RemFacts DEF Frame
<1> DEFINE r == Masked(Rem)
           l == Append(SubSeq(Top.list, 1, Top.rem - 1), r)
           f == Top'
<1>5. r \in RemoteType
  BY <1>3, <1>4, MaskedType
<1>6. /\ l \in Seq(RemoteType) /\ Len(l) = Top.rem /\ l[Top.rem] = r
  BY <1>4, <1>5, CutAndAppended
<1>7. /\ stack' = [stack EXCEPT ![Len(stack)] = [Top EXCEPT !.mode = "none", !.list = l]]
      /\ ended' = Append(ended, r)
  BY <1>3 DEF EndRemote, SetTop
<1>8. f.mode = "none" /\ f.list = l
  <2>1. stack'[Len(stack)] = [Top EXCEPT !.mode = "none", !.list = l]
    BY <1>1, <1>7, StackFacts
  <2>2. f = [Top EXCEPT !.mode = "none", !.list = l]
    BY <1>2, <2>1 DEF Top
  <2> HIDE DEF f, l
  <2> QED
    BY <1>4, <2>2 DEF Frame
<1> HIDE DEF l, r
<1>9. /\ FrameOK(f) /\ f.rem = Top.rem /\ Len(f.list) = Len(Top.list)
      /\ \A k \in 1 .. Len(f.list) : /\ f.list[k].id = Top.list[k].id
                                     /\ k # Top.rem => f.list[k] = Top.list[k]
  BY <1>2 DEF Edited
<1>10. Top.rem = Len(Top.list) /\ IdsRise(Top) /\ remotes \in Nat
  BY <1>1, StackFacts DEF ReadSoFar, ListsRise
<1>11. DOMAIN f.list = 1 .. Len(Top.list)
  BY <1>9, ListOf
<1>12. f.list[Top.rem] = r
  BY <1>6, <1>8
<1> HIDE DEF f
<1>13. Closed(f) = Closed(Top) \cup {r}
  <2>1. Closed(f) = {f.list[k] : k \in 1 .. Len(Top.list)}
    BY <1>8, <1>11 DEF Closed
  <2>2. Closed(Top) = {Top.list[k] : k \in {i \in 1 .. Len(Top.list) : i # Top.rem}}
    BY <1>1, <1>4 DEF Closed
  <2> QED
    BY <1>4, <1>9, <1>12, <2>1, <2>2
<1>14. IdsRise(f)
  <2> SUFFICES ASSUME NEW j \in 1 .. Len(Top.list), NEW k \in 1 .. Len(Top.list), j < k,
                      f.list[j].bits = f.list[k].bits
               PROVE  f.list[j].id < f.list[k].id
    BY <1>8, <1>11 DEF IdsRise
  <2>1. /\ j # Top.rem /\ f.list[j] = Top.list[j] /\ f.list[k].id = Top.list[k].id
    BY <1>4, <1>9, <1>10
  <2>2. Top.list[j].bits = Top.list[k].bits \/ k = Top.rem
    BY <1>9, <2>1
  <2>3. Top.list[j].id < Top.list[k].id
    BY <1>1, <1>4, <1>10, <2>2 DEF IdsRise
  <2> QED
    BY <2>1, <2>3
<1>15. Ids(f.list) = Ids(Top.list)
  BY <1>4, <1>9, <1>11 DEF Ids
<1>16. Norms(f) = Norms(Top) \cup {Normalised(r)}
  BY <1>13 DEF Norms
<1>17. ended' \in Seq(RemoteType) /\ Written' = Written \cup {Normalised(r)}
  <2>1. ended \in Seq(RemoteType)
    BY DEF ReadSoFar, AllWritten
  <2>2. /\ ended' \in Seq(RemoteType) /\ Len(ended') = Len(ended) + 1 /\ Len(ended) \in Nat
        /\ \A i \in 1 .. Len(ended) : ended'[i] = ended[i]
        /\ ended'[Len(ended) + 1] = r
    BY <1>5, <1>7, <2>1, AppendProperties, LenProperties
  <2>3. DOMAIN ended = 1 .. Len(ended) /\ DOMAIN ended' = 1 .. Len(ended) + 1
    BY <2>1, <2>2, LenProperties
  <2>4. \A i \in 1 .. Len(ended) + 1 : i \in 1 .. Len(ended) \/ i = Len(ended) + 1
    BY <2>2
  <2>5. \A i \in 1 .. Len(ended) : i \in 1 .. Len(ended) + 1
    BY <2>2
  <2>6. Len(ended) + 1 \in 1 .. Len(ended) + 1
    BY <2>2
  <2>7. Written' = {Normalised(ended'[k]) : k \in 1 .. Len(ended) + 1}
    BY <2>3 DEF Written
  <2>8. Written = {Normalised(ended[k]) : k \in 1 .. Len(ended)}
    BY <2>3 DEF Written
  <2> QED
    BY <2>2, <2>4, <2>5, <2>6, <2>7, <2>8
<1>18. ListsRise' /\ OldestBelow' /\ AllWritten'
  <2>1. /\ Top'.mode # "none" => Top'.rem = Len(Top'.list)
        /\ IdsRise(Top')
        /\ \A x \in Ids(Top'.list) :
             x \in Ids(Top.list) \/ (x \in Nat /\ remotes < x /\ x <= remotes')
        /\ Norms(Top') = Norms(Top) \cup {Normalised(r)}
    BY <1>8, <1>14, <1>15, <1>16 DEF f
  <2>2. remotes' \in Nat /\ remotes <= remotes'
    BY <1>1, <1>10
  <2>3. ListsRise /\ OldestBelow /\ AllWritten
    BY DEF ReadSoFar
  <2> HIDE DEF f
  <2> QED
    BY <1>1, <1>2, <1>17, <2>1, <2>2, <2>3, ReadOfStack
<1> QED
  BY <1>1, <1>18 DEF ReadSoFar, Arranged

\* begin remote: the youngest remote is the last one of the top frame.
LEMMA ReadBegin ==
  ASSUME ParserInv, ReadSoFar, BeginRemote, ~overwritten'
  PROVE  ReadSoFar'
<1>1. /\ TypeOK /\ pc # "done" /\ pc' # "check" /\ Top.mode = "none"
      /\ remotes' = remotes + 1 /\ ended' = ended
      /\ overwritten' = (overwritten \/ Top.rem < Len(Top.list))
  BY DEF ParserInv, BeginRemote, Reading
<1>2. /\ FrameOK(Begun) /\ SetTop(Begun) /\ Begun \in Frame
      /\ Begun.mode = "remote" /\ Begun.rem = Top.rem + 1
      /\ Len(Begun.list) = Top.rem + 1
      /\ \A i \in 1 .. Top.rem : Begun.list[i] = Top.list[i]
      /\ Begun.list[Top.rem + 1] = NewRemote(remotes + 1)
  BY <1>1, BegunFacts
<1>3. /\ stack' \in Seq(Frame) /\ Len(stack') = Len(stack) /\ Top' = Begun
      /\ \A d \in 1 .. Len(stack) - 1 : stack'[d] = stack[d]
  BY <1>1, <1>2, TopReplaced DEF SetTop
<1>4. /\ DOMAIN Top.list = 1 .. Len(Top.list) /\ Len(Top.list) \in Nat /\ Top.rem \in Nat
      /\ Top.rem <= Len(Top.list) /\ Top.list \in Seq(RemoteType)
  BY <1>1, TopFacts, ListOf
<1>5. Top.rem = Len(Top.list)
  <2>1. ~(Top.rem < Len(Top.list))
    BY <1>1, Zenon
  <2> QED
    BY <1>4, <2>1
<1>6. DOMAIN Begun.list = 1 .. Top.rem + 1
  BY <1>2, ListOf
<1>7. /\ remotes \in Nat /\ IdsRise(Top)
      /\ \A x \in Ids(Top.list) : x \in Nat /\ x <= remotes
  <2>1. /\ Len(stack) \in DOMAIN stack /\ stack[Len(stack)] = Top /\ remotes \in Nat
        /\ Ids(Top.list) \subseteq Nat
    BY <1>1, StackFacts
  <2> QED
    BY <2>1 DEF ReadSoFar, ListsRise, OldestBelow
<1>8. Begun.list[Top.rem + 1].id = remotes + 1
  BY <1>2 DEF NewRemote
<1>9. \A k \in 1 .. Top.rem + 1 : k = Top.rem + 1 \/ (k \in 1 .. Top.rem /\ k # Top.rem + 1)
  BY <1>4
<1>10. \A k \in 1 .. Top.rem : k \in 1 .. Top.rem + 1 /\ k # Top.rem + 1
  BY <1>4
<1>11. Closed(Begun) = Closed(Top)
  <2>1. Closed(Begun) = {Begun.list[k] : k \in {i \in 1 .. Top.rem + 1 : i # Top.rem + 1}}
    BY <1>2, <1>6 DEF Closed
  <2>2. Closed(Top) = {Top.list[k] : k \in 1 .. Top.rem}
    BY <1>1, <1>4, <1>5 DEF Closed
  <2>3. {i \in 1 .. Top.rem + 1 : i # Top.rem + 1} = 1 .. Top.rem
    BY <1>9, <1>10
  <2> QED
    BY <1>2, <2>1, <2>2, <2>3
<1>12. IdsRise(Begun)
  <2> SUFFICES ASSUME NEW j \in 1 .. Top.rem + 1, NEW k \in 1 .. Top.rem + 1, j < k,
                      Begun.list[j].bits = Begun.list[k].bits \/ k = Begun.rem
               PROVE  Begun.list[j].id < Begun.list[k].id
    BY <1>2, <1>6 DEF IdsRise
  <2>1. j \in 1 .. Top.rem /\ Begun.list[j] = Top.list[j]
    BY <1>2, <1>4
  <2>2. CASE k = Top.rem + 1
    <3>1. Top.list[j].id \in Ids(Top.list)
      BY <1>4, <1>5, <2>1 DEF Ids
    <3> QED
      BY <1>7, <1>8, <2>1, <2>2, <3>1
  <2>3. CASE k # Top.rem + 1
    <3>1. k \in 1 .. Top.rem /\ Begun.list[k] = Top.list[k]
      BY <1>2, <1>9, <2>3
    <3> QED
      BY <1>2, <1>4, <1>5, <1>7, <2>1, <2>3, <3>1 DEF IdsRise
  <2> QED
    BY <2>2, <2>3
<1>13. \A x \in Ids(Begun.list) :
         x \in Ids(Top.list) \/ (x \in Nat /\ remotes < x /\ x <= remotes')
  <2> SUFFICES ASSUME NEW k \in 1 .. Top.rem + 1, Begun.list[k].id \notin Ids(Top.list)
               PROVE  LET x == Begun.list[k].id
                      IN  x \in Nat /\ remotes < x /\ x <= remotes'
    BY <1>6 DEF Ids
  <2>1. k \notin 1 .. Top.rem
    BY <1>2, <1>4, <1>5 DEF Ids
  <2> QED
    BY <1>1, <1>7, <1>8, <1>9, <2>1
<1>14. Norms(Begun) = Norms(Top) \cup {} /\ Written' = Written \cup {} /\ ended' \in Seq(RemoteType)
  BY <1>1, <1>11 DEF Norms, Written, ReadSoFar, AllWritten
<1>15. ListsRise' /\ OldestBelow' /\ AllWritten'
  <2>1. /\ Top'.mode # "none" => Top'.rem = Len(Top'.list)
        /\ IdsRise(Top')
        /\ \A x \in Ids(Top'.list) :
             x \in Ids(Top.list) \/ (x \in Nat /\ remotes < x /\ x <= remotes')
        /\ Norms(Top') = Norms(Top) \cup {}
    BY <1>2, <1>3, <1>12, <1>13, <1>14
  <2>2. remotes' \in Nat /\ remotes <= remotes'
    BY <1>1, <1>7
  <2>3. ListsRise /\ OldestBelow /\ AllWritten
    BY DEF ReadSoFar
  <2> QED
    BY <1>1, <1>3, <1>14, <2>1, <2>2, <2>3, ReadOfStack
<1> QED
  BY <1>1, <1>15 DEF ReadSoFar, Arranged

\* include: the new frame is empty.
LEMMA ReadInclude ==
  ASSUME ParserInv, ReadSoFar, Include
  PROVE  ReadSoFar'
<1>1. /\ TypeOK /\ pc # "done" /\ pc' # "check" /\ stack' = Append(stack, NewFrame)
      /\ remotes' = remotes /\ ended' = ended
  BY DEF ParserInv, Include
<1> DEFINE n == Len(stack)
<1>2. /\ stack' \in Seq(Frame) /\ Len(stack') = n + 1 /\ Top' = NewFrame
      /\ \A d \in 1 .. n : stack'[d] = stack[d]
  BY <1>1, NewFrameOK, FramePushed DEF FrameOK
<1>3. n \in Nat \ {0} /\ DOMAIN stack = 1 .. n
  BY <1>1, StackFacts
<1>4. DOMAIN stack' = 1 .. n + 1 /\ stack'[n + 1] = NewFrame
  BY <1>2, LenProperties DEF Top
<1> HIDE DEF n
<1>5. \A d \in 1 .. n + 1 : d \in 1 .. n \/ d = n + 1
  BY <1>3
<1>6. \A d \in 1 .. n : d \in 1 .. n + 1
  BY <1>3
<1>7. /\ NewFrame.mode = "none" /\ IdsRise(NewFrame) /\ Ids(NewFrame.list) = {}
      /\ Norms(NewFrame) = {}
  <2>1. NewFrame.mode = "none" /\ DOMAIN NewFrame.list = {}
    BY DEF NewFrame
  <2> QED
    BY <2>1 DEF IdsRise, Ids, Norms, Closed
<1>8. ListsRise'
  BY <1>2, <1>3, <1>4, <1>5, <1>7 DEF ReadSoFar, ListsRise
<1>9. OldestBelow'
  <2>1. \A d \in 1 .. n + 1 : \A x \in Ids(stack'[d].list) : d \in 1 .. n /\ x \in Ids(stack[d].list)
    BY <1>2, <1>4, <1>5, <1>7
  <2>2. /\ \A d \in 1 .. n : \A x \in Ids(stack[d].list) : x <= remotes
        /\ \A d, e \in 1 .. n : d < e =>
             \A x \in Ids(stack[d].list), y \in Ids(stack[e].list) : x < y
    BY <1>3 DEF ReadSoFar, OldestBelow
  <2> QED
    BY <1>1, <1>4, <2>1, <2>2 DEF OldestBelow
<1>10. AllWritten'
  <2>1. \A d \in 1 .. n : Norms(stack'[d]) = Norms(stack[d])
    BY <1>2
  <2>2. Norms(stack'[n + 1]) = {}
    BY <1>4, <1>7
  <2>3. InFrames' = UNION {Norms(stack'[d]) : d \in 1 .. n + 1}
    BY <1>4 DEF InFrames
  <2>4. InFrames = UNION {Norms(stack[d]) : d \in 1 .. n}
    BY <1>3 DEF InFrames
  <2>5. InFrames' = InFrames
    BY <1>5, <1>6, <2>1, <2>2, <2>3, <2>4
  <2> QED
    BY <1>1, <2>5 DEF ReadSoFar, AllWritten, Written
<1> QED
  BY <1>1, <1>8, <1>9, <1>10 DEF ReadSoFar, Arranged

\* A file that ends well has its remotes in order, whatever their bits.
LEMMA ListOfFile ==
  ASSUME FrameOK(Top), Top.mode = "none", IdsRise(Top), NEW list, HandedOn(list)
  PROVE  /\ list \in Seq(RemoteType) /\ Len(list) = Len(Top.list)
         /\ InOrder(list)
         /\ \A k \in DOMAIN list : Normalised(list[k]) = list[k]
         /\ {list[k] : k \in DOMAIN list} = Norms(Top)
<1>1. Top.list \in Seq(RemoteType)
  BY ListOf
<1>2. \A j, k \in DOMAIN Top.list : j < k /\ Top.list[j].bits = Top.list[k].bits =>
        Top.list[j].id < Top.list[k].id
  BY DEF IdsRise
<1> DEFINE s == Top.list
<1>3. Closed(Top) = {s[k] : k \in DOMAIN s}
  BY DEF Closed
<1>4. Norms(Top) = {Normalised(s[k]) : k \in DOMAIN s}
  BY <1>3 DEF Norms
<1>5. /\ list = Sorted([k \in DOMAIN s |-> Normalised(s[k])]) /\ s \in Seq(RemoteType)
      /\ \A k \in DOMAIN s : ~Unreadable(s[k])
      /\ \A j, k \in DOMAIN s : j < k /\ s[j].bits = s[k].bits => s[j].id < s[k].id
  BY <1>1, <1>2 DEF HandedOn
<1>6. Len(s) = Len(Top.list)
  OBVIOUS
<1> HIDE DEF s
<1> QED
  BY <1>4, <1>5, <1>6, ListArranged

\* Its list comes behind that of the file around it, whose remotes are older.
LEMMA ListsJoined ==
  ASSUME NEW a, NEW t, NEW b, FrameOK(a), FrameOK(t), FrameOK(b),
         a.mode = "none", b.mode = "none", IdsRise(a), a.rem = Len(a.list),
         NEW list \in Seq(RemoteType), Ids(list) = Ids(t.list), InOrder(list),
         \A k \in DOMAIN list : Normalised(list[k]) = list[k],
         {list[k] : k \in DOMAIN list} = Norms(t),
         \A x \in Ids(a.list), y \in Ids(t.list) : x < y,
         Len(b.list) = a.rem + Len(list),
         \A i \in 1 .. a.rem : b.list[i] = a.list[i],
         \A i \in 1 .. Len(list) : b.list[a.rem + i] = list[i]
  PROVE  /\ IdsRise(b) /\ Norms(b) = Norms(a) \cup Norms(t)
         /\ Ids(b.list) \subseteq Ids(a.list) \cup Ids(t.list)
<1> DEFINE m == Len(a.list)
           n == Len(list)
           s == a.list
           u == b.list
<1>1. /\ m \in Nat /\ n \in Nat /\ DOMAIN s = 1 .. m /\ DOMAIN list = 1 .. n
      /\ DOMAIN u = 1 .. m + n
  BY ListOf, LenProperties
<1>2. /\ \A i \in 1 .. m : u[i] = s[i]
      /\ \A i \in 1 .. n : u[m + i] = list[i]
  OBVIOUS
<1>3. /\ \A j, k \in 1 .. m : j < k /\ s[j].bits = s[k].bits => s[j].id < s[k].id
  BY <1>1 DEF IdsRise
<1>4. /\ Closed(a) = {s[k] : k \in 1 .. m} /\ Closed(b) = {u[k] : k \in 1 .. m + n}
      /\ Ids(s) = {s[k].id : k \in 1 .. m} /\ Ids(u) = {u[k].id : k \in 1 .. m + n}
      /\ Ids(t.list) = {list[k].id : k \in 1 .. n}
  BY <1>1 DEF Closed, Ids
<1>5. \A j, k \in 1 .. n : j < k =>
        \/ list[j].bits < list[k].bits
        \/ list[j].bits = list[k].bits /\ list[j].id < list[k].id
  BY <1>1 DEF InOrder
<1>6. \A k \in 1 .. n : list[k].bits \in Nat
  <2>1. \A k \in 1 .. n : list[k] \in RemoteType
    BY ElementOfSeq
  <2> QED
    BY <2>1 DEF RemoteType
<1>7. \A i \in 1 .. m, k \in 1 .. n : s[i].id < list[k].id
  BY <1>4
<1>8. Norms(t) = {list[k] : k \in 1 .. n} /\ \A k \in 1 .. n : Normalised(list[k]) = list[k]
  BY <1>1
<1>9. \A k \in 1 .. m + n : \/ k \in 1 .. m
                            \/ k - m \in 1 .. n /\ m + (k - m) = k
  BY <1>1
<1>10. /\ \A k \in 1 .. m : k \in 1 .. m + n
       /\ \A k \in 1 .. n : m + k \in 1 .. m + n
  BY <1>1
<1>11. b.mode = "none"
  OBVIOUS
<1> HIDE DEF m, n, s, u
<1>12. \A k \in 1 .. m + n : \/ k \in 1 .. m /\ u[k] = s[k]
                             \/ k - m \in 1 .. n /\ u[k] = list[k - m]
  BY <1>2, <1>9
<1>13. IdsRise(b)
  <2> SUFFICES ASSUME NEW j \in 1 .. m + n, NEW k \in 1 .. m + n, j < k, u[j].bits = u[k].bits
               PROVE  u[j].id < u[k].id
    BY <1>1, <1>11 DEF IdsRise, u
  <2>1. CASE k \in 1 .. m
    <3>1. j \in 1 .. m
      BY <1>1, <2>1
    <3> QED
      BY <1>2, <1>3, <2>1, <3>1
  <2>2. CASE k \notin 1 .. m
    <3>1. k - m \in 1 .. n /\ u[k] = list[k - m]
      BY <1>12, <2>2
    <3>2. CASE j \in 1 .. m
      BY <1>2, <1>7, <3>1, <3>2
    <3>3. CASE j \notin 1 .. m
      <4>1. j - m \in 1 .. n /\ u[j] = list[j - m] /\ j - m < k - m
        BY <1>1, <1>12, <3>3
      <4> QED
        BY <1>5, <1>6, <3>1, <4>1
    <3> QED
      BY <3>2, <3>3
  <2> QED
    BY <2>1, <2>2
<1>14. \A x : x \in Closed(b) <=> (x \in Closed(a) \/ x \in Norms(t))
  <2>1. \A x : x \in Closed(b) => x \in Closed(a) \/ x \in Norms(t)
    BY <1>4, <1>8, <1>12
  <2>2. \A x : x \in Closed(a) => x \in Closed(b)
    BY <1>2, <1>4, <1>10
  <2>3. \A x : x \in Norms(t) => x \in Closed(b)
    BY <1>2, <1>4, <1>8, <1>10
  <2> QED
    BY <2>1, <2>2, <2>3
<1>15. \A x \in Norms(t) : Normalised(x) = x
  BY <1>8
<1>16. Norms(b) = Norms(a) \cup Norms(t)
  <2> DEFINE N == Norms(t)
  <2>1. Norms(a) = {Normalised(r) : r \in Closed(a)}
    BY DEF Norms
  <2>2. Norms(b) = {Normalised(r) : r \in Closed(b)}
    BY DEF Norms
  <2>3. \A x \in N : Normalised(x) = x
    BY <1>15
  <2>4. \A x : x \in Closed(b) <=> (x \in Closed(a) \/ x \in N)
    BY <1>14
  <2> HIDE DEF N
  <2>5. {Normalised(r) : r \in Closed(b)} = {Normalised(r) : r \in Closed(a)} \cup N
    BY <2>3, <2>4
  <2> QED
    BY <2>1, <2>2, <2>5 DEF N
<1>17. Ids(u) \subseteq Ids(s) \cup Ids(t.list)
  BY <1>4, <1>12
<1> QED
  BY <1>13, <1>16, <1>17 DEF s, u

\* An included file returns what it read.
LEMMA ReadReturn ==
  ASSUME ParserInv, NamesInv, ReadSoFar, NEW list \in Seq(RemoteType), Return(list),
         ~parse_error, ~strayed, ~overwritten'
  PROVE  ReadSoFar'
<1>1. /\ TypeOK /\ pc = "leave" /\ pc' = "read" /\ Len(stack) # 1 /\ Returned(list)
      /\ remotes' = remotes /\ ended' = ended /\ HandedOn(list) /\ Ids(list) = Ids(Top.list)
      /\ Top.mode = "none"
  BY DEF ParserInv, Control, Return
<1> DEFINE n == Len(stack) - 1
           above == stack[n]
           below == stack'[n]
<1>2. /\ n \in Nat /\ n \in 1 .. Len(stack)
      /\ stack' \in Seq(Frame) /\ Len(stack') = n
      /\ \A d \in 1 .. n - 1 : stack'[d] = stack[d]
      /\ FrameOK(above) /\ FrameOK(below) /\ below.mode = above.mode
      /\ above.rem \in 0 .. Len(above.list) /\ Len(above.list) \in Nat
      /\ Len(below.list) = above.rem + Len(list)
      /\ \A i \in 1 .. above.rem : below.list[i] = above.list[i]
      /\ \A i \in 1 .. Len(list) : below.list[above.rem + i] = list[i]
      /\ overwritten' = (overwritten \/ above.rem < Len(above.list))
  BY <1>1, ReturnedFacts
<1>3. /\ n + 1 = Len(stack) /\ n \in Nat \ {0}
      /\ DOMAIN stack = 1 .. n + 1 /\ DOMAIN stack' = 1 .. n
      /\ stack[n + 1] = Top /\ FrameOK(Top)
  <2>1. /\ Len(stack) \in Nat /\ DOMAIN stack = 1 .. Len(stack) /\ FrameOK(Top)
        /\ stack[Len(stack)] = Top
    BY <1>1, StackFacts
  <2>2. DOMAIN stack' = 1 .. n
    BY <1>2, LenProperties
  <2> QED
    BY <1>2, <2>1, <2>2
<1>4. Top' = below
  BY <1>2 DEF Top
<1>5. above.mode = "none"
  <2>1. n \in 1 .. Len(stack) - 1
    BY <1>2, <1>3
  <2> QED
    BY <2>1 DEF NamesInv, NamesKnown
<1>6. above.rem = Len(above.list)
  <2>1. ~(above.rem < Len(above.list))
    BY <1>2, Zenon
  <2> QED
    BY <1>2, <2>1
<1> HIDE DEF n, above, below
<1>7. n \in 1 .. n + 1 /\ n + 1 \in 1 .. n + 1 /\ n < n + 1
  BY <1>3
<1>8. /\ IdsRise(above) /\ IdsRise(Top)
      /\ \A x \in Ids(above.list), y \in Ids(Top.list) : x < y
  <2>1. \A d \in 1 .. n + 1 : IdsRise(stack[d])
    BY <1>3 DEF ReadSoFar, ListsRise
  <2>2. \A x \in Ids(stack[n].list), y \in Ids(stack[n + 1].list) : x < y
    BY <1>3, <1>7 DEF ReadSoFar, OldestBelow
  <2> QED
    BY <1>3, <1>7, <2>1, <2>2 DEF above
<1>9. /\ InOrder(list)
      /\ \A k \in DOMAIN list : Normalised(list[k]) = list[k]
      /\ {list[k] : k \in DOMAIN list} = Norms(Top)
  BY <1>1, <1>3, <1>8, ListOfFile
<1>10. below.mode = "none"
  BY <1>2, <1>5
<1>11. /\ IdsRise(below) /\ Norms(below) = Norms(above) \cup Norms(Top)
       /\ Ids(below.list) \subseteq Ids(above.list) \cup Ids(Top.list)
  <2>1. /\ FrameOK(above) /\ FrameOK(Top) /\ FrameOK(below)
        /\ above.mode = "none" /\ below.mode = "none"
        /\ IdsRise(above) /\ above.rem = Len(above.list)
        /\ list \in Seq(RemoteType) /\ Ids(list) = Ids(Top.list) /\ InOrder(list)
        /\ \A k \in DOMAIN list : Normalised(list[k]) = list[k]
        /\ {list[k] : k \in DOMAIN list} = Norms(Top)
        /\ \A x \in Ids(above.list), y \in Ids(Top.list) : x < y
        /\ Len(below.list) = above.rem + Len(list)
        /\ \A i \in 1 .. above.rem : below.list[i] = above.list[i]
        /\ \A i \in 1 .. Len(list) : below.list[above.rem + i] = list[i]
    BY <1>1, <1>2, <1>3, <1>5, <1>6, <1>8, <1>9, <1>10
  <2> QED
    BY <2>1, ListsJoined
<1>12. OldestBelow'
  <2>1. Ids(stack'[n].list) \subseteq Ids(stack[n].list) \cup Ids(stack[n + 1].list)
    BY <1>3, <1>11 DEF above, below
  <2> QED
    BY <1>1, <1>2, <1>3, <2>1, OldestOfParent DEF ReadSoFar
<1>13. AllWritten'
  <2>1. Norms(stack'[n]) = Norms(stack[n]) \cup Norms(stack[n + 1])
    BY <1>3, <1>11 DEF above, below
  <2>2. InFrames' = InFrames
    BY <1>2, <1>3, <2>1, NormsOfParent
  <2> QED
    BY <1>1, <2>2 DEF ReadSoFar, AllWritten, Written
<1>14. ListsRise'
  <2>1. \A d \in 1 .. n - 1 : IdsRise(stack[d])
    <3>1. \A d \in 1 .. n - 1 : d \in 1 .. n + 1
      BY <1>3
    <3> QED
      BY <1>3, <3>1 DEF ReadSoFar, ListsRise
  <2>2. \A d \in 1 .. n : d = n \/ d \in 1 .. n - 1
    BY <1>3
  <2>3. \A d \in 1 .. n : IdsRise(stack'[d])
    BY <1>2, <1>11, <2>1, <2>2 DEF below
  <2> QED
    BY <1>3, <1>4, <1>10, <2>3 DEF ListsRise
<1> QED
  BY <1>1, <1>12, <1>13, <1>14 DEF ReadSoFar, Arranged

\* The outermost file is done: its list is in order.
LEMMA ReadFinish ==
  ASSUME ParserInv, ReadSoFar, Finish, ~parse_error
  PROVE  ReadSoFar'
<1>1. /\ TypeOK /\ pc = "leave" /\ pc' = "check" /\ Len(stack) = 1 /\ Top.mode = "none"
      /\ remotes' = remotes /\ ended' = ended
  BY DEF ParserInv, Control, Finish
<1>2. PICK list \in Seq(RemoteType) :
        /\ stack' = <<[Top EXCEPT !.list = list]>> /\ Len(list) = Len(Top.list)
        /\ HandedOn(list) /\ Ids(list) = Ids(Top.list)
  BY DEF Finish
<1>3. /\ stack' \in Seq(Frame) /\ Len(stack') = 1 /\ FrameOK(Top') /\ stack'[1] = Top'
      /\ Top'.list = list /\ Top'.mode = "none"
  BY <1>1, <1>2, FinishFacts
<1>4. /\ DOMAIN stack = 1 .. 1 /\ stack[1] = Top /\ FrameOK(Top) /\ remotes \in Nat
  BY <1>1, StackFacts
<1>5. /\ InOrder(list)
      /\ \A k \in DOMAIN list : Normalised(list[k]) = list[k]
      /\ {list[k] : k \in DOMAIN list} = Norms(Top)
  <2>1. IdsRise(Top)
    BY <1>4 DEF ReadSoFar, ListsRise
  <2> QED
    BY <1>1, <1>2, <1>4, <2>1, ListOfFile
<1>6. IdsRise(Top')
  <2>1. \A k \in DOMAIN list : list[k].bits \in Nat
    <3>1. \A k \in DOMAIN list : list[k] \in RemoteType
      BY LenProperties, ElementOfSeq
    <3> QED
      BY <3>1 DEF RemoteType
  <2>2. \A j, k \in DOMAIN list : j < k /\ list[j].bits = list[k].bits => list[j].id < list[k].id
    BY <1>5, <2>1 DEF InOrder
  <2> QED
    BY <1>3, <2>2 DEF IdsRise
<1>7. Norms(Top') = Norms(Top) \cup {}
  <2>1. Closed(Top') = {list[k] : k \in DOMAIN list}
    BY <1>3 DEF Closed
  <2>2. Norms(Top') = {Normalised(r) : r \in Closed(Top')}
    BY DEF Norms
  <2>3. \A r \in Closed(Top') : Normalised(r) = r
    BY <1>5, <2>1
  <2>4. {Normalised(r) : r \in Closed(Top')} = Closed(Top')
    BY <2>3
  <2> QED
    BY <1>5, <2>1, <2>2, <2>4
<1>8. Arranged'
  BY <1>3, <1>5 DEF Arranged
<1>9. ListsRise' /\ OldestBelow' /\ AllWritten'
  <2>1. \A d \in 1 .. Len(stack) - 1 : stack'[d] = stack[d]
    BY <1>1
  <2>2. \A x \in Ids(Top'.list) :
          x \in Ids(Top.list) \/ (x \in Nat /\ remotes < x /\ x <= remotes')
    BY <1>2, <1>3
  <2>3. ended' \in Seq(RemoteType) /\ Written' = Written \cup {}
    BY <1>1 DEF ReadSoFar, AllWritten, Written
  <2>4. ListsRise /\ OldestBelow /\ AllWritten /\ remotes' \in Nat /\ remotes <= remotes'
    BY <1>1, <1>4 DEF ReadSoFar
  <2>5. Top'.mode # "none" => Top'.rem = Len(Top'.list)
    BY <1>3
  <2>6. pc # "done" /\ Len(stack') = Len(stack)
    BY <1>1, <1>3
  <2> QED
    BY <1>1, <1>3, <1>6, <1>7, <2>1, <2>2, <2>3, <2>4, <2>5, <2>6, ReadOfStack
<1> QED
  BY <1>8, <1>9 DEF ReadSoFar

\* The list is accepted or freed.
LEMMA CheckWritten ==
  ASSUME ParserInv, WrittenInv, CheckList
  PROVE  ResultAsWritten'
<1>1. /\ TypeOK /\ pc = "check" /\ Len(stack) = 1 /\ Top.mode = "none" /\ ~parse_error
      /\ ended' = ended /\ overwritten' = overwritten /\ strayed' = strayed
      /\ global_remotes = <<>>
      /\ global_remotes' = global_remotes \/ global_remotes' = Top.list
  BY DEF ParserInv, Control, CheckList, WrittenInv
<1> SUFFICES ASSUME global_remotes' # <<>>, ~overwritten, ~strayed
             PROVE  /\ {Top.list[k] : k \in DOMAIN Top.list} = Written
                    /\ InOrder(Top.list)
  <2>1. ASSUME global_remotes' = Top.list, {Top.list[k] : k \in DOMAIN Top.list} = Written,
               InOrder(Top.list)
        PROVE  ResultAsWritten'
    <3>1. {global_remotes'[k] : k \in DOMAIN global_remotes'} =
            {Normalised(ended'[k]) : k \in DOMAIN ended'}
      BY <1>1, <2>1 DEF Written
    <3>2. InOrder(global_remotes')
      BY <2>1
    <3> QED
      BY <3>1, <3>2 DEF ResultAsWritten, InOrder
  <2>2. global_remotes' # <<>> => global_remotes' = Top.list
    BY <1>1
  <2>3. (global_remotes' = <<>> \/ overwritten \/ strayed) => ResultAsWritten'
    BY <1>1, Zenon DEF ResultAsWritten
  <2> QED
    BY <2>1, <2>2, <2>3
<1>2. ReadSoFar
  BY <1>1 DEF WrittenInv, Sound
<1>3. DOMAIN stack = 1 .. 1 /\ stack[1] = Top
  BY <1>1, StackFacts
<1>4. InFrames = Norms(Top)
  BY <1>3 DEF InFrames
<1>5. \A k \in DOMAIN Top.list : Normalised(Top.list[k]) = Top.list[k]
  BY <1>1, <1>2 DEF ReadSoFar, Arranged
<1>6. Closed(Top) = {Top.list[k] : k \in DOMAIN Top.list}
  BY <1>1 DEF Closed
<1>7. Norms(Top) = {Top.list[k] : k \in DOMAIN Top.list}
  <2>1. \A r \in Closed(Top) : Normalised(r) = r
    BY <1>5, <1>6
  <2>2. {Normalised(r) : r \in Closed(Top)} = Closed(Top)
    BY <2>1
  <2> QED
    BY <1>6, <2>2 DEF Norms
<1> QED
  BY <1>1, <1>2, <1>4, <1>7 DEF ReadSoFar, AllWritten, Arranged

LEMMA WrittenInit == Init => WrittenInv
<1> SUFFICES ASSUME Init PROVE WrittenInv
  OBVIOUS
<1>1. /\ stack = <<NewFrame>> /\ DOMAIN stack = {1} /\ stack[1] = NewFrame /\ Top = NewFrame
      /\ remotes = 0 /\ pc = "read" /\ global_remotes = <<>> /\ ended = <<>>
  BY DEF Init, Top
<1>2. NewFrame.mode = "none" /\ NewFrame.list = <<>> /\ DOMAIN NewFrame.list = {}
  BY DEF NewFrame
<1>3. IdsRise(NewFrame) /\ Ids(NewFrame.list) = {} /\ Norms(NewFrame) = {}
  BY <1>2 DEF IdsRise, Ids, Norms, Closed
<1>4. ListsRise /\ OldestBelow
  BY <1>1, <1>2, <1>3 DEF ListsRise, OldestBelow
<1>5. AllWritten
  <2>1. ended \in Seq(RemoteType) /\ DOMAIN ended = {}
    BY <1>1, EmptySeq
  <2>2. InFrames = {}
    BY <1>1, <1>3 DEF InFrames
  <2>3. Written = {}
    BY <2>1 DEF Written
  <2> QED
    BY <2>1, <2>2, <2>3 DEF AllWritten
<1> QED
  BY <1>1, <1>4, <1>5 DEF WrittenInv, ReadSoFar, Arranged, ResultAsWritten

\* What a step keeps of the whole invariant, if it keeps what was read.
LEMMA StillWritten ==
  ASSUME WrittenInv, pc # "done", pc' # "done", global_remotes' = global_remotes,
         Sound' => Sound, Sound' /\ ReadSoFar => ReadSoFar'
  PROVE  WrittenInv'
<1>1. ResultAsWritten'
  BY DEF ResultAsWritten
<1> QED
  BY <1>1 DEF WrittenInv

LEMMA WrittenReturn ==
  ASSUME ParserInv, NamesInv, WrittenInv, NEW list \in Seq(RemoteType), Return(list)
  PROVE  WrittenInv'
<1>1. /\ pc = "leave" /\ pc' # "done" /\ global_remotes' = global_remotes
      /\ strayed' = strayed /\ parse_error' = parse_error
      /\ overwritten => overwritten'
  BY DEF Return, Returned
<1>2. Sound' => Sound
  BY <1>1 DEF Sound
<1>3. Sound' /\ ReadSoFar => ReadSoFar'
  BY <1>1, ReadReturn DEF Sound
<1> QED
  BY <1>1, <1>2, <1>3, StillWritten

LEMMA WrittenFinish == ParserInv /\ WrittenInv /\ Finish => WrittenInv'
<1> SUFFICES ASSUME ParserInv, WrittenInv, Finish PROVE WrittenInv'
  OBVIOUS
<1>1. /\ pc = "leave" /\ global_remotes' = global_remotes /\ global_remotes = <<>>
      /\ UNCHANGED <<parse_error, overwritten, strayed>>
  BY DEF Finish, WrittenInv
<1>2. CASE parse_error
  <2>1. pc' = "done"
    BY <1>2 DEF Finish
  <2> QED
    BY <1>1, <2>1 DEF WrittenInv, ResultAsWritten, Sound
<1>3. CASE ~parse_error
  <2>1. pc' = "check" /\ (Sound' => Sound)
    BY <1>1, <1>3 DEF Finish, Sound
  <2>2. ReadSoFar => ReadSoFar'
    BY <1>3, ReadFinish
  <2> QED
    BY <1>1, <2>1, <2>2, StillWritten
<1> QED
  BY <1>2, <1>3

LEMMA WrittenNext == ParserInv /\ NamesInv /\ WrittenInv /\ Next => WrittenInv'
<1> SUFFICES ASSUME ParserInv, NamesInv, WrittenInv, Next PROVE WrittenInv'
  OBVIOUS
<1>1. pc = "read" => ~parse_error
  BY DEF ParserInv, Control
<1>2. CASE Edit
  <2>1. /\ pc = "read" /\ pc' # "done" /\ global_remotes' = global_remotes
        /\ overwritten => overwritten'
        /\ strayed' = strayed
    BY <1>2 DEF Edit
  <2>2. Sound' => Sound
    BY <1>1, <2>1 DEF Sound
  <2>3. Sound' /\ ReadSoFar => ReadSoFar'
    BY <1>2, ReadEdit, ReadEnd DEF Sound
  <2> QED
    BY <2>1, <2>2, <2>3, StillWritten
<1>3. CASE BeginRemote
  <2>1. /\ pc = "read" /\ pc' # "done" /\ global_remotes' = global_remotes
        /\ overwritten => overwritten'
        /\ strayed' = strayed
    BY <1>3 DEF BeginRemote, Reading
  <2>2. Sound' => Sound
    BY <1>1, <2>1 DEF Sound
  <2>3. Sound' /\ ReadSoFar => ReadSoFar'
    BY <1>3, ReadBegin DEF Sound
  <2> QED
    BY <2>1, <2>2, <2>3, StillWritten
<1>4. CASE Include
  <2>1. /\ pc = "read" /\ pc' # "done" /\ global_remotes' = global_remotes
        /\ overwritten' = overwritten
        /\ strayed => strayed'
    BY <1>4 DEF Include
  <2>2. Sound' => Sound
    BY <1>1, <2>1 DEF Sound
  <2>3. ReadSoFar => ReadSoFar'
    BY <1>4, ReadInclude
  <2> QED
    BY <2>1, <2>2, <2>3, StillWritten
<1>5. CASE Stop
  <2>1. /\ pc \in {"read", "leave"} /\ pc' \in {"leave", "crash"}
        /\ parse_error => parse_error'
        /\ UNCHANGED <<stack, remotes, global_remotes, ended, overwritten, strayed>>
    BY <1>5 DEF Stop
  <2>2. Sound' => Sound
    BY <2>1 DEF Sound
  <2>3. ReadSoFar => ReadSoFar'
    BY <2>1 DEF ReadSoFar, ListsRise, OldestBelow, AllWritten, Arranged, Top, InFrames, Written
  <2> QED
    BY <2>1, <2>2, <2>3, StillWritten
<1>6. CASE CheckList
  <2>1. pc' = "done"
    BY <1>6 DEF CheckList
  <2> QED
    BY <1>6, <2>1, CheckWritten DEF WrittenInv, Sound
<1> QED
  BY <1>2, <1>3, <1>4, <1>5, <1>6, StepKinds, WrittenFinish, WrittenReturn DEF Step

\* What is accepted are the remotes of the files, each normalised once however deep
\* its file was included, fewer bits first and otherwise in the order of the files
\* (config.cpp:1091-1186), unless rem->next lost a successor or a file was included
\* within a remote.
THEOREM AcceptedAsWritten == Spec => []ResultAsWritten
<1>1. WrittenInv /\ UNCHANGED vars => WrittenInv'
  BY DEF WrittenInv, Sound, ReadSoFar, ListsRise, OldestBelow, AllWritten, Arranged, Top,
         InFrames, Written, ResultAsWritten, vars
<1>2. ParserInv /\ NamesInv /\ WrittenInv /\ [Next]_vars => WrittenInv'
  BY <1>1, WrittenNext
<1>3. WrittenInv => ResultAsWritten
  BY DEF WrittenInv
<1> QED
  BY <1>2, <1>3, WrittenInit, ParserInvariant, NamesInvariant, PTL DEF Spec
=============================================================================
