---------------------------- MODULE MCBroadcast ----------------------------
(* Instances of Broadcast for TLC: clients that only listen, all alike.    *)
EXTENDS Broadcast

CONSTANTS c1, c2, c3

ScriptSilent == [c \in Clients |-> <<>>]

\* No client sends a command.
NoRemotes == <<>>

AllAlike == Permutations(Clients)
=============================================================================
