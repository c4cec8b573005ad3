---------------------------- MODULE ConfigParser ----------------------------
(***************************************************************************)
(* How winlirc/config.cpp reads remotes.cfg: read_config_recursive works   *)
(* line by line, one frame per nested `include`, and CIRConfig::readConfig *)
(* accepts or rejects the list of remotes it returns.                      *)
(*                                                                         *)
(* A list linked by next is a sequence, and the pointer rem an index into  *)
(* it: `rem->next = x` cuts the sequence behind rem and appends x.  Any    *)
(* line may come next; files are finite.  malloc does not fail, and        *)
(* numbers are well formed except in the line "junk".                      *)
(***************************************************************************)
EXTENDS Integers, Sequences, FiniteSets

CONSTANTS
  MaxIncludes,   \* MAX_INCLUDES (10)
  MaxRemotes,    \* bound: remotes in all files
  MaxCodes,      \* bound: codes of a remote
  MaxSignals,    \* bound: signals of a raw code
  MaxFiles,      \* bound: files opened
  BitCounts,     \* BitCounts[n]: values of `bits` in the n-th remote that is read
  Flags,         \* Flags[n]: flags it may set, of REVERSE, RC6 and RAW_CODES
  ToggleBits,    \* ToggleBits[n]: values of its `toggle_bit`
  Sections,      \* Sections[n]: sections it may have, of codes and raw_codes
  CodeValues,    \* codes, as sequences of bits, the lowest first
  NoCodes,       \* rem->codes = NULL
  IncludeModes   \* the modes in which an include line occurs

ASSUME MaxIncludesAssumption == MaxIncludes \in Nat
ASSUME BoundsAssumption ==
  /\ MaxRemotes \in Nat
  /\ BitCounts \in [1 .. MaxRemotes -> SUBSET Nat]
  /\ ToggleBits \in [1 .. MaxRemotes -> SUBSET Nat]
  /\ Flags \in [1 .. MaxRemotes -> SUBSET {"REVERSE", "RC6", "RAW_CODES"}]
ASSUME CodeValuesAssumption == CodeValues \subseteq Seq({0, 1})

VARIABLES
  stack,        \* frames of read_config_recursive, the outermost first
  parse_error,  \* the static variable all frames share
  remotes,      \* how many struct ir_remote were allocated
  live,         \* those not freed yet
  files,        \* how many files were opened
  pc,           \* "read", "leave", "check", "done", or "crash"
  global_remotes,
  ended,        \* the remotes as they were when `end remote` was read
  overwritten,  \* `rem->next = x` met a rem that had a successor
  strayed       \* an include came within a remote

vars == <<stack, parse_error, remotes, live, files, pc, global_remotes, ended,
          overwritten, strayed>>

Top == stack[Len(stack)]
Rem == Top.list[Top.rem]

\* The remote that Rem will be; rem = 0 stands for NULL.
SetTop(frame)  == stack' = [stack EXCEPT ![Len(stack)] = frame]
SetRem(remote) == SetTop([Top EXCEPT !.list[Top.rem] = remote])

NewFrame ==
  [mode |-> "none", list |-> <<>>, rem |-> 0, codes |-> <<>>, signals |-> 0]

NewRemote(id) ==
  [id |-> id, name |-> FALSE, codes |-> NoCodes, bits |-> 0, flags |-> {},
   toggle_bit |-> 0, toggle_bit_mask |-> 0, rc6_mask |-> 0]

\* IR_PROTOCOL_MASK: the flags of which a remote should have one at most.
Protocols == {"RC6", "RAW_CODES"}

SetProtocol(flags, protocol) == (flags \ Protocols) \cup {protocol}

IsRaw(r) == r.flags \cap Protocols = {"RAW_CODES"}

\* rem->next = list, or top_rem = list when there is no remote yet.
Attach(frame, list) == SubSeq(frame.list, 1, frame.rem) \o list

Init ==
  /\ stack = <<NewFrame>> /\ parse_error = FALSE
  /\ remotes = 0 /\ live = {} /\ files = 1
  /\ pc = "read" /\ global_remotes = <<>>
  /\ ended = <<>> /\ overwritten = FALSE /\ strayed = FALSE
-----------------------------------------------------------------------------
(* Lines.  A comment, an empty line, an unknown pair outside all sections  *)
(* and an included file that cannot be opened change nothing.              *)

Reading(mode) == pc = "read" /\ Top.mode = mode

Error ==
  /\ parse_error' = TRUE /\ pc' = "leave"
  /\ UNCHANGED <<stack, remotes, live, files, global_remotes, ended, overwritten, strayed>>

\* A keyword out of place, a value that is no number, a file name without quotes.
Junk == pc = "read" /\ Error

\* begin remote.
BeginRemote ==
  /\ Reading("none") /\ remotes < MaxRemotes
  /\ remotes' = remotes + 1 /\ live' = live \cup {remotes'}
  /\ SetTop([Top EXCEPT !.mode = "remote", !.list = Attach(Top, <<NewRemote(remotes')>>),
                        !.rem = @ + 1])
  /\ overwritten' = (overwritten \/ Top.rem < Len(Top.list))
  /\ UNCHANGED <<parse_error, files, pc, global_remotes, ended, strayed>>

\* The lines of a remote: defineRemote.
Attribute ==
  /\ Reading("remote")
  /\ \/ SetRem([Rem EXCEPT !.name = TRUE])
     \/ \E n \in BitCounts[Rem.id] : SetRem([Rem EXCEPT !.bits = n])
     \/ \E n \in ToggleBits[Rem.id] : SetRem([Rem EXCEPT !.toggle_bit = n])
  /\ UNCHANGED <<parse_error, remotes, live, files, pc, global_remotes, ended,
                 overwritten, strayed>>

\* A flags line adds to the flags: parseFlags.  Two protocols in one line are an
\* error (Junk), in two lines both are set.
FlagsLine ==
  /\ Reading("remote")
  /\ \E f \in Flags[Rem.id] : SetRem([Rem EXCEPT !.flags = @ \cup {f}])
  /\ UNCHANGED <<parse_error, remotes, live, files, pc, global_remotes, ended,
                 overwritten, strayed>>

\* begin codes, begin raw_codes: only once for each remote.
BeginCodes ==
  /\ Reading("remote") /\ Rem.codes = NoCodes
  /\ \/ /\ "codes" \in Sections[Rem.id]
        /\ SetTop([Top EXCEPT !.mode = "codes", !.codes = <<>>])
     \/ /\ "raw_codes" \in Sections[Rem.id]
        /\ SetTop([Top EXCEPT !.mode = "raw_codes", !.codes = <<>>,
                              !.list[Top.rem].flags = SetProtocol(@, "RAW_CODES")])
  /\ UNCHANGED <<parse_error, remotes, live, files, pc, global_remotes, ended,
                 overwritten, strayed>>

BeginCodesAgain == Reading("remote") /\ Rem.codes # NoCodes /\ Error

\* A name and a number: defineCode.
Code ==
  /\ Reading("codes") /\ Len(Top.codes) < MaxCodes
  /\ \E c \in CodeValues : SetTop([Top EXCEPT !.codes = Append(@, c)])
  /\ UNCHANGED <<parse_error, remotes, live, files, pc, global_remotes, ended,
                 overwritten, strayed>>

EndCodes ==
  /\ Reading("codes")
  /\ SetTop([Top EXCEPT !.mode = "remote", !.list[Top.rem].codes = Top.codes])
  /\ UNCHANGED <<parse_error, remotes, live, files, pc, global_remotes, ended,
                 overwritten, strayed>>

Signal ==
  /\ Reading("raw_name") /\ Top.signals < MaxSignals
  /\ SetTop([Top EXCEPT !.signals = @ + 1])
  /\ UNCHANGED <<parse_error, remotes, live, files, pc, global_remotes, ended,
                 overwritten, strayed>>

\* A raw code ends at the next name or at end raw_codes.  Of its signals only their
\* number counts, which must be odd.
RawCodes == IF Top.mode = "raw_name" THEN Append(Top.codes, [i \in 1 .. Top.signals |-> 0])
                                     ELSE Top.codes

RawCodeEven == Top.mode = "raw_name" /\ Top.signals % 2 = 0

RawName ==
  /\ pc = "read" /\ Top.mode \in {"raw_codes", "raw_name"} /\ Len(RawCodes) < MaxCodes
  /\ SetTop([Top EXCEPT !.mode = "raw_name", !.codes = RawCodes, !.signals = 0])
  /\ parse_error' = RawCodeEven /\ pc' = IF RawCodeEven THEN "leave" ELSE "read"
  /\ UNCHANGED <<remotes, live, files, global_remotes, ended, overwritten, strayed>>

EndRawCodes ==
  /\ pc = "read" /\ Top.mode \in {"raw_codes", "raw_name"}
  /\ SetTop([Top EXCEPT !.mode = "remote", !.list[Top.rem].codes = RawCodes])
  /\ parse_error' = RawCodeEven /\ pc' = IF RawCodeEven THEN "leave" ELSE "read"
  /\ UNCHANGED <<remotes, live, files, global_remotes, ended, overwritten, strayed>>

\* The bits a code has beyond `bits` are cut off: sanityChecks.
Masked(r) ==
  IF IsRaw(r) THEN r
  ELSE [r EXCEPT !.codes =
    [k \in DOMAIN r.codes |-> [b \in DOMAIN r.codes[k] |->
                                 IF b <= r.bits THEN r.codes[k][b] ELSE 0]]]

\* end remote, which also sets rem->next to NULL.  A remote needs a name; one
\* without codes makes sanityChecks read through a null pointer.
EndRemote ==
  /\ Reading("remote") /\ Rem.name
  /\ IF Rem.codes = NoCodes /\ ~IsRaw(Rem)
     THEN pc' = "crash" /\ UNCHANGED <<stack, ended, overwritten>>
     ELSE /\ SetTop([Top EXCEPT !.mode = "none",
                                !.list = Append(SubSeq(@, 1, Top.rem - 1), Masked(Rem))])
          /\ ended' = Append(ended, Masked(Rem))
          /\ overwritten' = (overwritten \/ Top.rem < Len(Top.list))
          /\ UNCHANGED pc
  /\ UNCHANGED <<parse_error, remotes, live, files, global_remotes, strayed>>

EndRemoteWithoutName == Reading("remote") /\ ~Rem.name /\ Error
-----------------------------------------------------------------------------
(* include and the end of a file.                                          *)

IncludeAnyDepth ==
  /\ pc = "read" /\ Top.mode \in IncludeModes /\ files < MaxFiles
  /\ files' = files + 1
  /\ stack' = Append(stack, NewFrame)
  /\ strayed' = (strayed \/ Top.mode # "none")
  /\ parse_error' = FALSE
  /\ UNCHANGED <<remotes, live, pc, global_remotes, ended, overwritten>>

\* The outermost file has depth 0.
Include ==
  /\ pc = "read" /\ Top.mode \in IncludeModes /\ files < MaxFiles
  /\ Len(stack) - 1 <= MaxIncludes
  /\ files' = files + 1
  /\ stack' = Append(stack, NewFrame)
  /\ strayed' = (strayed \/ Top.mode # "none")
  /\ parse_error' = FALSE
  /\ UNCHANGED <<remotes, live, pc, global_remotes, ended, overwritten>>

IncludeTooDeep == pc = "read" /\ Len(stack) - 1 > MaxIncludes /\ Error

\* The file ends: within a section that is an error.
EndOfFile ==
  /\ pc = "read"
  /\ pc' = "leave" /\ parse_error' = (Top.mode # "none")
  /\ UNCHANGED <<stack, remotes, live, files, global_remotes, ended, overwritten, strayed>>

Ids(list) == {list[k].id : k \in DOMAIN list}

\* The frame above receives what read_config_recursive returned; NULL is <<>>.
Returned(list) ==
  LET above == stack[Len(stack) - 1]
      below == [above EXCEPT !.list = Attach(above, list),
                             !.rem = IF list = <<>> THEN @ ELSE @ + 1]
  IN  /\ stack' = Append(SubSeq(stack, 1, Len(stack) - 2), below)
      /\ overwritten' = (overwritten \/ above.rem < Len(above.list))

LeaveErrorForgets ==
  /\ pc = "leave" /\ parse_error
  /\ live' = live \ Ids(Top.list)
  /\ IF Len(stack) = 1
     THEN stack' = <<>> /\ pc' = "done" /\ UNCHANGED <<overwritten, parse_error>>
     ELSE Returned(<<>>) /\ pc' = "read" /\ parse_error' = FALSE
  /\ UNCHANGED <<remotes, files, global_remotes, ended, strayed>>

LeaveErrorFreesLast ==
  /\ pc = "leave" /\ parse_error
  /\ live' = IF Top.rem = 0 THEN live ELSE live \ {Rem.id}
  /\ IF Len(stack) = 1
     THEN stack' = <<>> /\ pc' = "done" /\ UNCHANGED overwritten
     ELSE Returned(<<>>) /\ UNCHANGED pc
  /\ UNCHANGED <<parse_error, remotes, files, global_remotes, ended, strayed>>

\* free_config(top_rem), and the frame above leaves as well.
LeaveError ==
  /\ pc = "leave" /\ parse_error
  /\ live' = live \ Ids(Top.list)
  /\ IF Len(stack) = 1
     THEN stack' = <<>> /\ pc' = "done" /\ UNCHANGED overwritten
     ELSE Returned(<<>>) /\ UNCHANGED pc
  /\ UNCHANGED <<parse_error, remotes, files, global_remotes, ended, strayed>>

Reversed(r) ==
  [k \in DOMAIN r.codes |-> [b \in DOMAIN r.codes[k] |->
    LET from == r.bits + 1 - b
    IN  IF from \in DOMAIN r.codes[k] THEN r.codes[k][from] ELSE 0]]

\* The highest bit is number 1.  The code shifts by a negative count for a toggle
\* bit beyond the code, which gives 0 in the x86 build.
TogglePlace(r) == IF r.toggle_bit \in 1 .. r.bits THEN r.bits + 1 - r.toggle_bit ELSE 0

NormalisedKeepsFlag(r) ==
  LET reverse == ~IsRaw(r) /\ "REVERSE" \in r.flags
  IN  [r EXCEPT
        !.codes = IF reverse THEN Reversed(r) ELSE @,
        !.flags = IF reverse THEN @ \cup {"COMPAT_REVERSE"} ELSE @,
        !.rc6_mask = IF "RC6" \in r.flags /\ @ = 0 THEN TogglePlace(r) ELSE @,
        !.toggle_bit_mask = IF @ = 0 THEN TogglePlace(r) ELSE @,
        !.toggle_bit = 0]

\* "kick reverse flag" and what follows.  An included remote comes here once for
\* every file around it.
Normalised(r) ==
  LET reverse == ~IsRaw(r) /\ "REVERSE" \in r.flags
  IN  [r EXCEPT
        !.codes = IF reverse THEN Reversed(r) ELSE @,
        !.flags = IF reverse THEN (@ \ {"REVERSE"}) \cup {"COMPAT_REVERSE"} ELSE @,
        !.rc6_mask = IF "RC6" \in r.flags /\ @ = 0 THEN TogglePlace(r) ELSE @,
        !.toggle_bit_mask = IF @ = 0 THEN TogglePlace(r) ELSE @,
        !.toggle_bit = 0]

\* sort_by_bit_count inserts each remote behind those with as many bits.
Before(r, i, s, j) == r.bits < s.bits \/ (r.bits = s.bits /\ i < j)

Sorted(list) ==
  LET place(i) == 1 + Cardinality({j \in DOMAIN list : Before(list[j], j, list[i], i)})
  IN  [k \in DOMAIN list |-> list[CHOOSE i \in DOMAIN list : place(i) = k]]

\* A remote without codes whose codes are to be reversed: a null pointer again.
Unreadable(r) == r.codes = NoCodes /\ ~IsRaw(r) /\ "REVERSE" \in r.flags

Leave ==
  LET list == Sorted([k \in DOMAIN Top.list |-> Normalised(Top.list[k])])
  IN  /\ pc = "leave" /\ ~parse_error
      /\ IF \E k \in DOMAIN Top.list : Unreadable(Top.list[k])
         THEN pc' = "crash" /\ UNCHANGED <<stack, overwritten>>
         ELSE IF Len(stack) = 1
              THEN /\ stack' = <<[Top EXCEPT !.list = list]>> /\ pc' = "check"
                   /\ UNCHANGED overwritten
              ELSE Returned(list) /\ pc' = "read"
      /\ UNCHANGED <<parse_error, remotes, live, files, global_remotes, ended, strayed>>

AcceptAnyList ==
  /\ pc = "check"
  /\ stack' = <<>> /\ pc' = "done"
  /\ global_remotes' = Top.list
  /\ UNCHANGED <<parse_error, remotes, live, files, ended, overwritten, strayed>>

\* CIRConfig::readConfig.
CheckList ==
  /\ pc = "check"
  /\ stack' = <<>> /\ pc' = "done"
  /\ IF \E k \in DOMAIN Top.list : Top.list[k].codes = NoCodes
     THEN live' = live \ Ids(Top.list) /\ UNCHANGED global_remotes
     ELSE global_remotes' = Top.list /\ UNCHANGED live
  /\ UNCHANGED <<parse_error, remotes, files, ended, overwritten, strayed>>
-----------------------------------------------------------------------------
Line == \/ Junk \/ BeginRemote \/ Attribute \/ FlagsLine \/ BeginCodes
        \/ BeginCodesAgain \/ Code \/ EndCodes \/ Signal \/ RawName \/ EndRawCodes \/ EndRemote
        \/ EndRemoteWithoutName \/ Include \/ IncludeTooDeep

Next == Line \/ EndOfFile \/ LeaveError \/ Leave \/ CheckList

Spec == Init /\ [][Next]_vars
-----------------------------------------------------------------------------
(* What must hold.                                                         *)

Modes == {"none", "remote", "codes", "raw_codes", "raw_name"}

FlagNames == {"REVERSE", "RC6", "RAW_CODES", "COMPAT_REVERSE"}

Codes == Seq(Seq({0, 1}))

RemoteType ==
  [id : 1 .. MaxRemotes, name : BOOLEAN, codes : {NoCodes} \cup Codes, bits : Nat,
   flags : SUBSET FlagNames, toggle_bit : Nat, toggle_bit_mask : Nat, rc6_mask : Nat]

Frame == [mode : Modes, list : Seq(RemoteType), rem : Nat, codes : Codes, signals : Nat]

\* The variables have their types; only the frames between depth 0 and
\* MAX_INCLUDES + 1 exist (config.cpp:805), and rem is NULL only outside all
\* sections of a file without remotes.
TypeOK ==
  /\ parse_error \in BOOLEAN /\ overwritten \in BOOLEAN /\ strayed \in BOOLEAN
  /\ remotes \in 0 .. MaxRemotes /\ live \subseteq 1 .. remotes /\ files \in Nat
  /\ pc \in {"read", "leave", "check", "done", "crash"}
  /\ stack \in Seq(Frame) /\ Len(stack) <= MaxIncludes + 2
  /\ pc # "done" => stack # <<>>
  /\ \A d \in DOMAIN stack :
       /\ stack[d].rem <= Len(stack[d].list)
       /\ stack[d].rem = 0 => stack[d].mode = "none" /\ stack[d].list = <<>>
  /\ global_remotes \in Seq(RemoteType)

\* config.cpp:765, one parse_error for the files of all levels: an error that any
\* level met is never forgotten by the levels around it.
ErrorsAreFinal == [][parse_error => parse_error']_vars

\* The accepted remotes are those the files define, each with a name and codes
\* and normalised once however deep its file was included; fewer bits first, in
\* the order of the files otherwise.  Except where rem->next lost a successor or
\* a file was included within a remote.
ResultAsWritten ==
  pc = "done" /\ global_remotes # <<>> /\ ~overwritten /\ ~strayed =>
    /\ {global_remotes[k] : k \in DOMAIN global_remotes} =
         {Normalised(ended[k]) : k \in DOMAIN ended}
    /\ \A j, k \in DOMAIN global_remotes : j < k =>
         \/ global_remotes[j].bits < global_remotes[k].bits
         \/ /\ global_remotes[j].bits = global_remotes[k].bits
            /\ global_remotes[j].id < global_remotes[k].id

\* irconfig.cpp:84, "bad input causes codes to be null, but no error is returned
\* from read_config": what decoding and sending see has codes all the same.
AcceptedHaveCodes ==
  \A k \in DOMAIN global_remotes :
    (strayed \/ global_remotes[k].name) /\ global_remotes[k].codes # NoCodes

\* In the end exactly the accepted remotes are allocated, whatever failed at which
\* level, except where rem->next lost a successor.
NothingLeaks ==
  pc = "done" /\ ~overwritten => live = Ids(global_remotes)
=============================================================================
