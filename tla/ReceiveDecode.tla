--------------------------- MODULE ReceiveDecode ---------------------------
(***************************************************************************)
(* From pulses and spaces to codes: receive_decode of                      *)
(* DLL/Common/Receive.cpp, called for each remote of remotes.cfg in turn   *)
(* by decodeCommand of DLL/Common/IRRemote.cpp.  A remote control sends    *)
(* frames, the ones RemoteSignal makes where init_send knows the protocol  *)
(* and Foreign otherwise; a receiver delivers them with its errors.        *)
(*                                                                         *)
(* Every combination of bits is a key of its remote.  Sequences of codes   *)
(* and toggles are the subject of DecodeCommand.                           *)
(***************************************************************************)
EXTENDS Waveform

CONSTANTS
  Remote,      \* remote -> its record; signals are the codes of a raw remote
  Tables,      \* the contents of remotes.cfg: sequences of remotes
  Keys,        \* key -> [remote, bits]: what a remote control sends; for a raw remote
               \* bits is <<the number of its signal>>
  Foreign,     \* key -> its frame, for protocols that init_send does not know
  Errors,      \* receivers lengthen a pulse and shorten a space by one of these
  Silence,     \* the space before a press
  Patience,    \* a wait for data may time out in a pause that is longer (100000 us; a
               \* smaller value lets more of them time out)
  Repeats,     \* the numbers of repeats of a press
  MaxPresses,  \* bound of the model: number of presses
  REC_SYNC,    \* spaces that sync_rec_buffer tries (8)
  NoRemote     \* last_remote = NULL

VARIABLES
  table,              \* the remotes the daemon thread tries
  wire,               \* what decoding has not consumed: rec_buffer and what will arrive
  last_remote,        \* the remote of the signal decoded last, unless one was garbled since
  last_decoded,       \* the same, whatever was garbled
  last_code,          \* remote -> bits of its last code, <<>> for NULL
  reps,               \* remote -> repeats of it so far
  min_remaining_gap,  \* remote -> shortest gap to the next signal
  max_remaining_gap,  \* remote -> longest gap to the next signal
  sent, broken,       \* history: the key and the frames of the press, whether it broke off,
  heard, presses      \* what was decoded of it, and a counter for the bound

remoteVars == <<last_remote, last_decoded, last_code, reps, min_remaining_gap, max_remaining_gap>>
vars       == <<table, wire, remoteVars, sent, broken, heard, presses>>

Remotes == DOMAIN Remote
-----------------------------------------------------------------------------
(* receive_decode.                                                         *)

\* sync_rec_buffer: the first space that is no shorter than the gap after the signal
\* decoded last.
RECURSIVE SyncFrom(_, _, _)
SyncFrom(r, b, count) ==
  LET pulse == GetKind(b, "pulse")
      space == GetKind(pulse, "space")
      found == \/ last_remote = NoRemote \/ r.protocol = "rcmm"
               \/ AtLeast(Remote[last_remote], b.got.us, min_remaining_gap[last_remote])
  IN  IF ~b.ok \/ found THEN [b EXCEPT !.sum = 0]
      ELSE IF ~pulse.ok THEN pulse
      ELSE IF space.ok /\ count >= REC_SYNC THEN Failed(space)
      ELSE SyncFrom(r, space, count + 1)

SyncRec(r, data) == SyncFrom(r, GetKind(Rewound(data), "space"), 0)

\* The first signal of a raw remote that the marks are; after a mismatch the next one
\* is tried from the start, after too short a gap it is tried from there.
RECURSIVE RawFrom(_, _, _)
RawFrom(r, b, i) ==
  LET c   == Expects(r, b, RawMarks(r.signals[i]))
      gap == GetGap(r, c, IF is_const(r) THEN min_gap(r) - c.sum ELSE min_gap(r))
  IN  IF i > Len(r.signals) THEN Failed(b)
      ELSE IF ~c.ok THEN RawFrom(r, Done(SyncRec(r, b.data)), i + 1)
      ELSE IF ~gap.ok THEN RawFrom(r, Done(gap), i + 1)
      ELSE AddBits(gap, <<i>>)

\* The gap after a code; the first header of a NO_HEAD_REP remote is not part of the
\* constant length.
GetCodeGap(r, b, headed) ==
  LET apart == headed /\ {"NO_HEAD_REP", "CONST_LENGTH"} \subseteq r.flags
      len   == IF apart THEN r.header[1] + r.header[2] ELSE 0
      c     == [b EXCEPT !.sum = @ - len]
  IN  GetGap(r, c, IF r.protocol = "rcmm" THEN 1000 ELSE Remaining(r, c, min_gap(r)))

\* What follows the header of a code, each part only after the ones before it.
Part(r, b, part, headed) ==
  CASE part = "lead"  -> GetLead(r, b)
    [] part = "pre"   -> GetPre(r, b)
    [] part = "code"  -> GetData(r, b, r.bits, Len(r.pre_data))
    [] part = "post"  -> GetPost(r, b)
    [] part = "trail" -> GetTrail(r, b)
    [] part = "foot"  -> GetFoot(r, b)
    [] part = "gap"   -> GetCodeGap(r, b, headed)

CodeThenGap(r, b, headed) ==
  FoldLeft(LAMBDA c, part : IF c.ok THEN Part(r, c, part, headed) ELSE c,
           b, <<"lead", "pre", "code", "post", "trail", "foot", "gap">>)

Result(b, again, min, max) ==
  [ok |-> b.ok, bits |-> b.bits, again |-> again, at |-> b.at, data |-> b.data,
   min |-> min, max |-> max]

Nothing(b) == Result(Failed(b), FALSE, 0, 0)

CodeResult(r, b, again) ==
  Result(b, again, Remaining(r, b, min_gap(r)), Remaining(r, b, max_gap(r)))

RepeatResult(r, b, code) ==
  Result([b EXCEPT !.bits = code], TRUE,
         RepeatGap(r, b, min_gap(r)), RepeatGap(r, b, max_gap(r)))

\* A frame with the code itself.  In a repeat there may be no header.
AfterHeader(r, b, headed) ==
  IF r.protocol = "raw" THEN RawFrom(r, b, 1) ELSE CodeThenGap(r, b, headed)

DecodeCode(name, b) ==
  LET r       == Remote[name]
      header  == IF Has(r.header) THEN GetHeader(r, b) ELSE b
      headed  == Has(r.header) /\ header.ok
      mayMiss == "NO_HEAD_REP" \in r.flags /\ AtMost(r, b.got.us, max_gap(r))
      again   == /\ ~Has(r.repeat) \/ reps[name] < r.min_code_repeat
                 /\ AtMost(r, b.got.us, max_remaining_gap[name])
  IN  IF header.ok \/ mayMiss
      THEN CodeResult(r, AfterHeader(r, Done(header), headed), again)
      ELSE Nothing(header)

receive_decode(name, data) ==
  LET r      == Remote[name]
      b      == SyncRec(r, data)
      tries  == Has(r.repeat) /\ last_remote = name
      headed == IF "REPEAT_HEADER" \in r.flags /\ Has(r.header) THEN GetHeader(r, b) ELSE b
      repeat == Then(headed, LAMBDA c : GetRepeat(r, c))
  IN  IF ~b.ok THEN Nothing(b)
      ELSE IF tries /\ ~headed.ok THEN Nothing(headed)
      ELSE IF ~tries \/ ~repeat.ok THEN DecodeCode(name, b)
      ELSE IF last_code[name] = <<>> THEN Nothing(repeat)
      ELSE RepeatResult(r, repeat, last_code[name])

\* decodeCommand tries the remotes in turn until one has the signal.
Found(data) ==
  FoldLeft(LAMBDA found, name :
             IF found.d.ok THEN found
             ELSE [remote |-> name, d |-> receive_decode(name, data)],
           [remote |-> NoRemote, d |-> [ok |-> FALSE]], table)
-----------------------------------------------------------------------------
(* What arrives.                                                           *)

NoToggle == [mask |-> 0, bits |-> {}]

\* A remote control repeats the code itself before it sends repeat signals.
IsRepeat(r, k) == Has(r.repeat) /\ k > r.min_code_repeat

\* The k-th frame (from 0) of a key that is held down.
FrameOf(key, k) ==
  LET r == Remote[Keys[key].remote]
  IN  IF IsRepeat(r, k) THEN RepeatMarks(r)
      ELSE IF key \in DOMAIN Foreign THEN Foreign[key]
      ELSE IF r.protocol = "raw" THEN RawMarks(r.signals[Keys[key].bits[1]])
      ELSE CodeMarks(r, Keys[key].bits, k > 0, NoToggle)

\* The pause after it.
PauseOf(key, k) ==
  LET r     == Remote[Keys[key].remote]
      extra == IF k = 0 /\ "NO_HEAD_REP" \in r.flags THEN r.header[1] + r.header[2] ELSE 0
  IN  IF IsRepeat(r, k) /\ r.repeat_gap > 0 THEN r.repeat_gap
      ELSE IF is_const(r) THEN min_gap(r) - (Total(FrameOf(key, k)) - extra)
      ELSE min_gap(r)

\* As a receiver delivers marks; the last of them is the pause after a frame, with what
\* merges into it.
Delivered(marks, error) ==
  [i \in DOMAIN marks |->
     [kind |-> marks[i].kind, pause |-> i = Len(marks),
      us |-> IF marks[i].kind = "pulse" THEN marks[i].us + error ELSE marks[i].us - error]]

Received(key, k, error) ==
  Delivered(Merged(FrameOf(key, k) \o <<SpaceMark(PauseOf(key, k))>>), error)

Init ==
  /\ table \in Tables /\ wire = <<>>
  /\ last_remote = NoRemote /\ last_decoded = NoRemote
  /\ last_code = [r \in Remotes |-> <<>>]
  /\ reps = [r \in Remotes |-> 0]
  /\ min_remaining_gap = [r \in Remotes |-> 0]
  /\ max_remaining_gap = [r \in Remotes |-> 0]
  /\ sent = <<>> /\ broken = FALSE /\ heard = <<>> /\ presses = 0

\* A key is held down for some frames, the last of which may break off after a pulse.
Press ==
  /\ wire = <<>> /\ presses < MaxPresses
  /\ \E key \in {k \in DOMAIN Keys : \E i \in DOMAIN table : table[i] = Keys[k].remote},
        n \in Repeats, error \in Errors :
       \E frames \in {[k \in 1 .. n + 1 |-> Received(key, k - 1, error)]} :
         LET last  == Front(frames[n + 1])
             start == <<[kind |-> "space", pause |-> TRUE, us |-> Silence]>>
         IN  \E cut \in {c \in DOMAIN last : c % 2 = 1} :
               /\ wire' = start \o FlattenSeq(Front(frames)) \o SubSeq(last, 1, cut)
               /\ broken' = (cut < Len(last))
               /\ sent' = <<key, n + 1>>
  /\ heard' = <<>> /\ presses' = presses + 1
  /\ UNCHANGED <<table, remoteVars>>

\* The prefixes of the wire that arrive before a wait for the next mark times out.
Arrived ==
  {n \in DOMAIN wire : n = Len(wire) \/ (wire[n + 1].pause /\ wire[n + 1].us > Patience)}

\* clear_rec_buffer keeps what was read but not used; without that, or if nothing
\* was used, the next sample is the first one.
Rest(d, n) ==
  (IF d.at > 0 /\ d.at < n THEN SubSeq(d.data, d.at + 1, n) ELSE <<>>)
  \o SubSeq(wire, n + 1, Len(wire))

DecodeIR ==
  /\ wire # <<>>
  /\ \E n \in Arrived : \E found \in {Found(SubSeq(wire, 1, n))} :
       LET d == found.d  name == found.remote
       IN  /\ wire' = Rest(d, n)
           /\ IF d.ok
              THEN /\ last_remote' = name /\ last_decoded' = name
                   /\ reps' = [reps EXCEPT ![name] =
                        IF d.again /\ last_decoded = name /\ d.bits = last_code[name]
                        THEN @ + 1 ELSE 0]
                   /\ last_code' = [last_code EXCEPT ![name] = d.bits]
                   /\ min_remaining_gap' = [min_remaining_gap EXCEPT ![name] = d.min]
                   /\ max_remaining_gap' = [max_remaining_gap EXCEPT ![name] = d.max]
                   /\ heard' = Append(heard, [remote |-> name, bits |-> d.bits,
                                              again |-> d.again])
              ELSE /\ last_remote' = NoRemote
                   /\ UNCHANGED <<last_decoded, last_code, reps, min_remaining_gap,
                                  max_remaining_gap, heard>>
  /\ UNCHANGED <<table, sent, broken, presses>>

Next == Press \/ DecodeIR

Spec == Init /\ [][Next]_vars
-----------------------------------------------------------------------------
(* What must hold.                                                         *)

\* The pre_data, code and post_data of a key.
AllBits(key) ==
  LET r == Remote[Keys[key].remote]
  IN  r.pre_data \o Keys[key].bits \o r.post_data

\* The frames that are heard.  What a serial remote leaves of an open end is shorter
\* than a gap: its last frame gets lost unless the pause after it is delivered.
Audible ==
  IF Remote[Keys[sent[1]].remote].protocol = "serial" THEN sent[2] - 1 ELSE sent[2]

\* A press that did not break off is heard as it was sent: every frame, with the code
\* of the key, the first one as new and all others as repeats.
HeardAsSent ==
  wire = <<>> /\ presses > 0 /\ ~broken =>
    heard = [k \in 1 .. Audible |->
               [remote |-> Keys[sent[1]].remote, bits |-> AllBits(sent[1]), again |-> k > 1]]

\* Whatever breaks off, no other code is heard.  Of a biphase signal that breaks off
\* after a pulse, the one to come may be taken for a zero: expectone has then ungot
\* the pulse that it did not read.
NoOtherCode ==
  \A i \in DOMAIN heard :
    LET key  == Keys[sent[1]]
        bits == AllBits(sent[1])
    IN  /\ heard[i].remote = key.remote
        /\ IF broken /\ is_biphase(Remote[key.remote])
           THEN \A j \in DOMAIN bits : heard[i].bits[j] <= bits[j]
           ELSE heard[i].bits = bits
=============================================================================
