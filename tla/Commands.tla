------------------------------ MODULE Commands ------------------------------
(***************************************************************************)
(* The commands of a client, winlirc/server.cpp: which of them succeed,    *)
(* for a line that was split into words.                                   *)
(***************************************************************************)
EXTENDS Naturals, Sequences

CONSTANTS
  Codes,        \* Codes[r]: the names of the codes of remote r in global_remotes
  Number        \* Number[w]: what atoi reads in word w, 0 if it is no number

\* get_code_by_name returns the end of the table and never NULL: any third word of
\* LIST is answered with SUCCESS, never with "unknown code" (server.cpp:489).
ListSucceeds(words) == Len(words) = 1 \/ words[2] \in DOMAIN Codes

VersionSucceeds(words) == Len(words) = 1

\* Both names must be found, and the plug-in must have sent the code.
SendSucceeds(words, sent) ==
  Len(words) >= 3 /\ words[2] \in DOMAIN Codes /\ words[3] \in Codes[words[2]] /\ sent

\* A number above 32 ends the command; what is no number is skipped.
TransmittersSucceed(words, set) ==
  (\A k \in 2 .. Len(words) : words[k] \in DOMAIN Number => Number[words[k]] <= 32) /\ set

\* What ThreadProc does with a line; driver is the answer of the plug-in, if asked.
Succeeds(words, driver) ==
  CASE words[1] = "VERSION"          -> VersionSucceeds(words)
    [] words[1] = "LIST"             -> ListSucceeds(words)
    [] words[1] = "SET_TRANSMITTERS" -> TransmittersSucceed(words, driver)
    [] words[1] = "SEND_ONCE"        -> SendSucceeds(words, driver)
    [] OTHER                         -> FALSE

\* A line that asks for something that exists.
Valid(words) ==
  \/ words[1] = "VERSION" /\ Len(words) = 1
  \/ /\ words[1] = "LIST"
     /\ Len(words) >= 2 => words[2] \in DOMAIN Codes
     /\ Len(words) >= 3 => words[3] \in Codes[words[2]]
  \/ words[1] = "SET_TRANSMITTERS" /\ \A k \in 2 .. Len(words) :
       words[k] \in DOMAIN Number => Number[words[k]] \in 0 .. 32
  \/ words[1] = "SEND_ONCE" /\ Len(words) >= 3 /\ words[2] \in DOMAIN Codes
     /\ words[3] \in Codes[words[2]]

\* LIST with a code its remote does not have: invalid, and answered with SUCCESS.
ListsUnknownCode(words) ==
  /\ words[1] = "LIST" /\ Len(words) >= 3
  /\ words[2] \in DOMAIN Codes /\ words[3] \notin Codes[words[2]]
=============================================================================
