----------------------------- MODULE LineBuffer -----------------------------
(***************************************************************************)
(* How Cserver::ThreadProc cuts the bytes of a client into lines.  A text  *)
(* is a sequence of tokens: words, SP (blank, tab or carriage return) and  *)
(* NL.  Words that touch are one word to strtok.                           *)
(***************************************************************************)
EXTENDS Naturals, Sequences, FiniteSetsExt, SequencesExt

SP == "sp"
NL == "nl"

Newlines(t) == {i \in DOMAIN t : t[i] = NL}

\* The line that the newline at position p ends.
LineAt(t, p) ==
  LET before == {q \in Newlines(t) : q < p} \cup {0}
  IN  SubSeq(t, Max(before) + 1, p - 1)

Blank(line) == \A i \in DOMAIN line : line[i] = SP

BlankLines(t) == {p \in Newlines(t) : Blank(LineAt(t, p))}

\* The k-th of a set of positions, in their order.
Nth(S, k) == CHOOSE p \in S : Cardinality({q \in S : q <= p}) = k

LinesAt(t, ends) == [k \in 1 .. Cardinality(ends) |-> LineAt(t, Nth(ends, k))]

\* The lines the loop executes: those before the first blank one, where it breaks.
LinesRead(t) == LinesAt(t, {p \in Newlines(t) : \A b \in BlankLines(t) : p < b})

\* Mutant: the buffer is cleared when its lines have been executed.
KeptNothing(t) == IF Newlines(t) = {} THEN t ELSE <<>>

\* What strlen(clientData[i]) still sees afterwards.  Without a blank line the
\* unfinished line is moved to the front.  After a blank line nothing is moved,
\* and the first line, now ended by a 0, is what remains.
Kept(t) ==
  IF BlankLines(t) = {}
  THEN SubSeq(t, Max(Newlines(t) \cup {0}) + 1, Len(t))
  ELSE LineAt(t, Min(Newlines(t)))

\* What strtok returns one after the other: the tokens that touch.
Groups(line) ==
  LET starts == {i \in DOMAIN line : line[i] # SP /\ (i > 1 => line[i - 1] = SP)}
      end(i) == Min({j \in DOMAIN line : j > i /\ line[j] = SP} \cup {Len(line) + 1})
  IN  [k \in 1 .. Cardinality(starts) |->
         SubSeq(line, Nth(starts, k), end(Nth(starts, k)) - 1)]
=============================================================================
