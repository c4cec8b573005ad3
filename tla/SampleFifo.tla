----------------------------- MODULE SampleFifo -----------------------------
(***************************************************************************)
(* What a plug-in's ring promises: samples come out in the order they went *)
(* in, each once, as long as at most Size - 1 of them wait.  One more      *)
(* breaks the promise until the plug-in is initialised again.              *)
(***************************************************************************)
EXTENDS Naturals, Sequences

CONSTANTS Size, MaxSamples

VARIABLES
  q,       \* the samples that wait
  last,    \* the sample taken out and not yet handed on, or 0
  broken   \* an overrun happened

vars == <<q, last, broken>>

Empty == q = <<>> /\ last = 0 /\ broken = FALSE

Init == Empty

Put == /\ ~broken /\ Len(q) < Size - 1
       /\ \E s \in 1 .. MaxSamples : q' = Append(q, s)
       /\ UNCHANGED <<last, broken>>

Take == /\ ~broken /\ q # <<>>
        /\ last' = Head(q)
        /\ q' = Tail(q)
        /\ UNCHANGED broken

HandOn == last' = 0 /\ UNCHANGED <<q, broken>>

Overrun == /\ ~broken /\ Len(q) = Size - 1
           /\ q' = <<>> /\ last' = 0 /\ broken' = TRUE

Restart == q' = <<>> /\ last' = 0 /\ broken' = FALSE

Next == Put \/ Take \/ HandOn \/ Overrun \/ Restart

Spec == Init /\ [][Next]_vars
=============================================================================
