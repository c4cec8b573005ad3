------------------------------ MODULE MCServer ------------------------------
(* Instances of Server for TLC: who connects and what each client sends.   *)
EXTENDS Server

CONSTANTS c1, c2, c3

\* One remote with one code; a transmitter beyond the last.
OneRemote == ("tv" :> {"on"})
Numbers   == ("1" :> 1) @@ ("33" :> 33)

\* What the tokens of the scripts mean.
Words1 == ("junk" :> <<"junk">>) @@ ("list" :> <<"LIST">>) @@ ("version" :> <<"VERSION">>)
          @@ ("list vcr" :> <<"LIST", "vcr">>) @@ ("send on" :> <<"SEND_ONCE", "tv", "on">>)
          @@ ("set 33" :> <<"SET_TRANSMITTERS", "1", "33">>)
          @@ ("list off" :> <<"LIST", "tv", "off">>)

LineOf(w) == <<w, NL>>

\* A line longer than the buffer; a code that is sent and one that the remote does not
\* have; a transmitter too many.
ScriptMixed == (c1 :> <<"junk", "junk", "junk", "junk">>)
               @@ (c2 :> LineOf("send on") \o LineOf("list off")) @@ (c3 :> LineOf("set 33"))

\* One command each.
ScriptShort == (c1 :> LineOf("list")) @@ (c2 :> LineOf("list vcr")) @@ (c3 :> LineOf("set 33"))

\* A line of blanks between two commands.
ScriptBlank == (c1 :> LineOf("list") \o <<SP, NL>> \o LineOf("version"))
=============================================================================
