-------------------------------- MODULE Send --------------------------------
(***************************************************************************)
(* init_send of DLL/Common/Send.cpp: how a SEND_ONCE of a client or the    *)
(* Send button turns a code and its repeats into the send buffer that a    *)
(* plug-in transmits.  CS_global_remotes admits one send at a time, but    *)
(* the daemon thread decodes without that lock and writes into the same    *)
(* struct ir_remote between any two steps.                                 *)
(***************************************************************************)
EXTENDS RemoteSignal, Integers

CONSTANTS
  Remote,        \* remote -> its definition, see RemoteSignal
  Code,          \* code -> [remote, parts, signals]: struct ir_ncode; parts[1] is its code,
                 \* the others the chain at next; signals is used by raw remotes only
  Repeats,       \* the repeats that users and clients ask for
  RepeatCap,     \* the most a client gets (10)
  HeardLengths,  \* the lengths of signals the daemon thread decodes
  MaxSends,      \* bound of the model: number of sends
  MaxDecodes     \* bound of the model: number of decoded signals

Remotes == DOMAIN Remote
Codes   == DOMAIN Code

VARIABLES
  send_buffer,
  transmit_state,         \* code -> 0 (NULL) or the number of the next node of its chain
  toggle_mask_state,      \* remote -> 0 .. 3
  toggle_bit_mask_state,  \* remote -> the set of bits that are on
  min_remaining_gap,      \* remote -> gap
  repeat_countdown,       \* remote -> frames still to repeat
  pc,                     \* where init_send is
  code, repeat,           \* its argument and its local variable
  todo,                   \* marks of the frame not yet sent
  result,                 \* what init_send returned last
  asked,                  \* history: what the current send was asked for, with which part
                          \* it began, and whether the daemon thread decoded since
  sends, decodes          \* counters for the bounds

remoteVars == <<toggle_mask_state, toggle_bit_mask_state, min_remaining_gap>>
vars == <<send_buffer, transmit_state, remoteVars, repeat_countdown, pc, code, repeat, todo,
          result, asked, sends, decodes>>

R   == Remote[Code[code].remote]
raw == R.protocol = "raw"

ToggleOf(r) == [mask |-> toggle_mask_state[r], bits |-> toggle_bit_mask_state[r]]

\* What a frame is made of.  No length is 0, a frame starts with a pulse, and
\* there is a gap between frames.
PulsesFirst(marks) ==
  /\ marks \in Seq(Mark) /\ marks # <<>> /\ marks[1].kind = "pulse"
  /\ \A i \in DOMAIN marks : marks[i].us > 0

ASSUME RemoteAssumption ==
  \A r \in Remotes : /\ Remote[r].toggle_bit_mask \in SUBSET Nat
                     /\ min_gap(Remote[r]) \in Nat \ {0} /\ Remote[r].repeat_gap \in Nat
                     /\ Remote[r].min_repeat \in Nat
                     /\ \A i \in {1, 2} : Remote[r].header[i] \in Nat

ASSUME CodeAssumption ==
  \A c \in Codes : /\ Code[c].remote \in Remotes
                   /\ Code[c].parts \in Seq(Seq({0, 1})) /\ Code[c].parts # <<>>
                   /\ Code[c].signals \in Seq(Nat \ {0})

ASSUME DataAssumption ==
  \A r \in Remotes : Remote[r].pre_data \in Seq({0, 1}) /\ Remote[r].post_data \in Seq({0, 1})

\* A raw code has no signals or an odd number of them (config.cpp:927, 1010).
ASSUME RawAssumption ==
  \A c \in Codes : Code[c].signals = <<>> \/ Len(Code[c].signals) % 2 = 1

ASSUME FrameAssumption ==
  \A c \in Codes : LET r == Remote[Code[c].remote] IN
    /\ Has(r.repeat) => PulsesFirst(RepeatMarks(r))
    /\ r.protocol # "raw" =>
         \A k \in DOMAIN Code[c].parts, again \in BOOLEAN, mask \in 0 .. 3,
            bits \in SUBSET r.toggle_bit_mask :
           PulsesFirst(CodeMarks(r, Code[c].parts[k], again, [mask |-> mask, bits |-> bits]))

ASSUME BoundsAssumption ==
  Repeats \subseteq Int /\ RepeatCap \in Nat

\* What the daemon thread decodes as a signal of a remote of constant length is
\* shorter than that length.
ASSUME HeardAssumption ==
  /\ HeardLengths \subseteq Nat
  /\ \A r \in Remotes, length \in HeardLengths :
       is_const(Remote[r]) => length < min_gap(Remote[r])

TypeOK ==
  /\ send_buffer \in [data : Seq(Mark), too_long : BOOLEAN, pendingp : Nat,
                      pendings : Nat, sum : Int]
  /\ Len(send_buffer.data) <= WBUF_SIZE
  /\ transmit_state \in [Codes -> Nat]
  /\ \A c \in Codes : transmit_state[c] < Len(Code[c].parts)
  /\ toggle_mask_state \in [Remotes -> 0 .. 3]
  /\ toggle_bit_mask_state \in [Remotes -> SUBSET Nat]
  /\ \A r \in Remotes : toggle_bit_mask_state[r] \subseteq Remote[r].toggle_bit_mask
  /\ min_remaining_gap \in [Remotes -> Nat]
  /\ repeat_countdown \in [Remotes -> Nat]
  /\ pc \in {"idle", "frame", "marks", "gap", "space"}
  /\ code \in Codes /\ repeat \in BOOLEAN
  /\ result \in {"none", "ok", "failed"}

Init ==
  /\ send_buffer = Cleared
  /\ transmit_state = [c \in Codes |-> 0]
  /\ toggle_mask_state = [r \in Remotes |-> 0]
  /\ toggle_bit_mask_state = [r \in Remotes |-> {}]
  /\ min_remaining_gap = [r \in Remotes |-> 0]
  /\ repeat_countdown = [r \in Remotes |-> 0]
  /\ pc = "idle" /\ code \in Codes /\ repeat = FALSE /\ todo = <<>> /\ result = "none"
  /\ asked = [repeats |-> 0, bits |-> {}, part |-> 0, from |-> 0, frames |-> 0, disturbed |-> FALSE]
  /\ sends = 0 /\ decodes = 0
-----------------------------------------------------------------------------
(* The requests.                                                           *)

Larger(a, b)  == IF a > b THEN a ELSE b
Smaller(a, b) == IF a < b THEN a ELSE b

Unsupported(r) == Remote[r].protocol \in {"grundig", "goldstar", "serial", "bo"}

\* Both callers set the toggles, then init_send starts.
Start(c, repeats) ==
  LET r    == Code[c].remote
      mask == Remote[r].toggle_bit_mask
      bits == mask \ toggle_bit_mask_state[r]
  IN  /\ toggle_mask_state' = IF Remote[r].toggle_mask = {} THEN toggle_mask_state
                              ELSE [toggle_mask_state EXCEPT ![r] = 0]
      /\ toggle_bit_mask_state' = [toggle_bit_mask_state EXCEPT ![r] = bits]
      /\ code' = c /\ repeat' = FALSE
      /\ asked' = [repeats |-> Larger(Remote[r].min_repeat, repeats), bits |-> bits,
                    part |-> transmit_state[c], from |-> 0, frames |-> 0, disturbed |-> FALSE]
      /\ sends' = sends + 1
      /\ IF Unsupported(r)
         THEN /\ result' = "failed"
              /\ UNCHANGED <<send_buffer, repeat_countdown, pc>>
         ELSE /\ result' = "none" /\ pc' = "frame"
              /\ send_buffer' = Cleared
              /\ repeat_countdown' =
                   [repeat_countdown EXCEPT ![r] = Larger(Remote[r].min_repeat, repeats)]
      /\ UNCHANGED <<transmit_state, min_remaining_gap, todo, decodes>>

MayStart == pc = "idle" /\ sends < MaxSends

\* parseSendString: SEND_ONCE of a client or of another program of the user.
parseSendString ==
  /\ MayStart
  /\ \E c \in Codes, n \in Repeats :
       Start(c, Smaller(Larger(n, Remote[Code[c].remote].min_repeat), RepeatCap))

\* The Send button, which knows no cap.
OnSendcode ==
  /\ MayStart
  /\ \E c \in Codes, n \in Repeats \cap Nat :
       Start(c, Larger(n, Remote[Code[c].remote].min_repeat))
-----------------------------------------------------------------------------
(* init_send.                                                              *)

Fail == pc' = "idle" /\ result' = "failed"

SendsCodeOnly == 1

\* The part that is sent now: the code itself or a node of its chain.
PartNo == transmit_state[code] + 1

SendsRepeat == repeat /\ Has(R.repeat)

BeginFrame ==
  /\ pc = "frame"
  /\ IF raw /\ ~SendsRepeat /\ Code[code].signals = <<>>
     THEN Fail /\ UNCHANGED todo
     ELSE /\ pc' = "marks" /\ UNCHANGED result
          /\ todo' = CASE SendsRepeat -> RepeatMarks(R)
                       [] raw /\ ~SendsRepeat -> RawMarks(Code[code].signals)
                       [] OTHER -> CodeMarks(R, Code[code].parts[PartNo], repeat,
                                             ToggleOf(Code[code].remote))
  /\ asked' = [asked EXCEPT !.from = Len(send_buffer.data), !.frames = @ + 1]
  /\ UNCHANGED <<send_buffer, transmit_state, remoteVars, repeat_countdown, code, repeat,
                 sends, decodes>>

\* send_pulse, send_space; send_signals adds to the array directly.
SendMark ==
  /\ pc = "marks" /\ todo # <<>>
  /\ LET mark == Head(todo)
     IN  send_buffer' = IF raw /\ ~SendsRepeat THEN Add(send_buffer, mark)
                        ELSE IF mark.kind = "pulse" THEN Pulse(send_buffer, mark.us)
                        ELSE Space(send_buffer, mark.us)
  /\ todo' = Tail(todo)
  /\ UNCHANGED <<transmit_state, remoteVars, repeat_countdown, pc, code, repeat, result,
                 asked, sends, decodes>>

AdvanceOnly(state) == state + 1

\* toggle_mask_state counts 0, 1, 2, 3, 2, 3, ...
Advance(state) == IF state + 1 = 4 THEN 2 ELSE state + 1

\* The first header of a NO_HEAD_REP remote is not part of the constant length.
HeaderLeftOut ==
  IF ~raw /\ ~repeat /\ {"NO_HEAD_REP", "CONST_LENGTH"} \subseteq R.flags
  THEN R.header[1] + R.header[2] ELSE 0

EndFrame ==
  LET synced == Sync([send_buffer EXCEPT !.sum = @ - HeaderLeftOut])
      r      == Code[code].remote
  IN  /\ pc = "marks" /\ todo = <<>>
      /\ send_buffer' = synced
      /\ toggle_mask_state' = IF SendsRepeat \/ raw \/ R.toggle_mask = {} THEN toggle_mask_state
                              ELSE [toggle_mask_state EXCEPT ![r] = Advance(@)]
      /\ IF Bad(synced) THEN Fail ELSE pc' = "gap" /\ UNCHANGED result
      /\ UNCHANGED <<transmit_state, toggle_bit_mask_state, min_remaining_gap,
                     repeat_countdown, code, repeat, todo, asked, sends, decodes>>

\* The part after this one.  XMP goes on with the chain for ever.
NextPart ==
  LET n == Len(Code[code].parts)
  IN  IF n = 1 THEN 0
      ELSE IF transmit_state[code] = n - 1 THEN (IF R.protocol = "xmp" THEN 1 ELSE 0)
      ELSE transmit_state[code] + 1

WholeGap == min_gap(R)

RemainingGap == min_gap(R) - send_buffer.sum

ComputeGap ==
  LET ownGap == R.repeat_gap > 0 /\ SendsRepeat
      const  == ~ownGap /\ is_const(R)
      fits   == min_gap(R) > send_buffer.sum
      gap    == IF ownGap THEN R.repeat_gap
                ELSE IF const /\ fits THEN RemainingGap ELSE min_gap(R)
  IN  /\ pc = "gap"
      /\ min_remaining_gap' = [min_remaining_gap EXCEPT ![Code[code].remote] = gap]
      /\ IF const /\ ~fits
         THEN Fail /\ UNCHANGED transmit_state
         ELSE /\ pc' = "space" /\ UNCHANGED result
              /\ transmit_state' = [transmit_state EXCEPT ![code] = NextPart]
      /\ UNCHANGED <<send_buffer, toggle_mask_state, toggle_bit_mask_state, repeat_countdown,
                     code, repeat, todo, asked, sends, decodes>>

GoesOnForRepeats(r) == repeat_countdown[r] > 0

\* Whether another frame follows.
GoesOn(r) == repeat_countdown[r] > 0 \/ transmit_state[code] # 0

SendGap ==
  LET r       == Code[code].remote
      flushed == Flush(Space(send_buffer, min_remaining_gap[r]))
  IN  /\ pc = "space"
      /\ IF GoesOn(r)
         THEN /\ pc' = "frame" /\ UNCHANGED result
              /\ send_buffer' = [flushed EXCEPT !.sum = 0]
              /\ IF transmit_state[code] = 0
                 THEN /\ repeat_countdown' = [repeat_countdown EXCEPT ![r] = @ - 1]
                      /\ repeat' = TRUE
                 ELSE UNCHANGED <<repeat_countdown, repeat>>
         ELSE /\ send_buffer' = flushed
              /\ pc' = "idle"
              /\ result' = IF Usable(flushed) THEN "ok" ELSE "failed"
              /\ UNCHANGED <<repeat_countdown, repeat>>
      /\ UNCHANGED <<transmit_state, remoteVars, code, todo, asked, sends, decodes>>

init_send == BeginFrame \/ SendMark \/ EndFrame \/ ComputeGap \/ SendGap
-----------------------------------------------------------------------------
(* The daemon thread, in decodeCommand.                                    *)

\* set_code: the signal is one of r's.
Decoded(r) ==
  /\ \E bits \in SUBSET Remote[r].toggle_bit_mask :
       toggle_bit_mask_state' = [toggle_bit_mask_state EXCEPT ![r] = bits]
  /\ \E length \in HeardLengths :
       min_remaining_gap' = [min_remaining_gap EXCEPT ![r] =
         IF ~is_const(Remote[r]) THEN min_gap(Remote[r])
         ELSE IF min_gap(Remote[r]) > length THEN min_gap(Remote[r]) - length ELSE 0]
  /\ IF Remote[r].toggle_mask = {} THEN UNCHANGED toggle_mask_state
     ELSE \E state \in {1, Advance(toggle_mask_state[r])} :
            toggle_mask_state' = [toggle_mask_state EXCEPT ![r] = state]

\* The signal is none of r's.
NotDecoded(r) ==
  /\ toggle_mask_state' = [toggle_mask_state EXCEPT ![r] = 0]
  /\ UNCHANGED <<toggle_bit_mask_state, min_remaining_gap>>

Decode ==
  /\ decodes < MaxDecodes
  /\ decodes' = decodes + 1
  /\ \E r \in Remotes : Decoded(r) \/ NotDecoded(r)
  /\ asked' = [asked EXCEPT !.disturbed = @ \/ pc # "idle"]
  /\ UNCHANGED <<send_buffer, transmit_state, repeat_countdown, pc, code, repeat, todo,
                 result, sends>>

Next == parseSendString \/ OnSendcode \/ init_send \/ Decode

Spec == Init /\ [][Next]_vars
-----------------------------------------------------------------------------
(* What must hold.                                                         *)

\* What a plug-in takes for a pulse was sent as a pulse, and no entry is empty.
Alternates ==
  \A i \in DOMAIN send_buffer.data :
    /\ send_buffer.data[i].kind = "pulse" <=> i % 2 = 1
    /\ send_buffer.data[i].us > 0

\* The k-th frame (from 0) of the transmission asked for: every part once, then
\* all of it again for each repeat.  A send that was refused between two parts
\* leaves transmit_state where it was, and the next send of that code goes on there.
PlannedFrame(k) ==
  LET n == Len(Code[code].parts)
  IN  IF k >= n /\ Has(R.repeat) THEN RepeatMarks(R)
      ELSE IF raw THEN RawMarks(Code[code].signals)
      ELSE CodeMarks(R, Code[code].parts[(k % n) + 1], k >= n,
                     [mask |-> k - asked.part, bits |-> asked.bits])

\* What of a frame the gap makes up to the constant length.  A space at its end is
\* still pending when the sum is read: ConstLength.
UpToPulse(marks) == SubSeq(marks, 1, Max({i \in DOMAIN marks : marks[i].kind = "pulse"}))

PlannedGap(k) ==
  LET n     == Len(Code[code].parts)
      extra == IF ~raw /\ k < n /\ "NO_HEAD_REP" \in R.flags
               THEN R.header[1] + R.header[2] ELSE 0
  IN  IF k >= n /\ Has(R.repeat) /\ R.repeat_gap > 0 THEN R.repeat_gap
      ELSE IF is_const(R) THEN min_gap(R) - (Total(UpToPulse(PlannedFrame(k))) - extra)
      ELSE min_gap(R)

\* The frames of the transmission that are still to be sent when it begins.
PlannedFrames == asked.part .. Len(Code[code].parts) * (1 + asked.repeats) - 1

Planned ==
  LET frame(k) == PlannedFrame(k) \o <<SpaceMark(PlannedGap(k))>>
  IN  Merged(FlattenSeq([i \in 1 .. Cardinality(PlannedFrames) |-> frame(asked.part + i - 1)]))

\* A send that reports success left in the buffer the code and all its repeats
\* (without the parts a refused send got through), with the right toggles, headers and
\* gaps and nothing of an earlier send or of what was decoded before it.  (Decoding
\* during it changes toggles and gaps.)
SentAsAsked == result = "ok" /\ ~asked.disturbed => send_buffer.data = Planned

\* A send that reports success holds every part of every repeat, from the part on at
\* which the last refused send stopped, and lost no entry, also if the daemon thread
\* decodes meanwhile.
WholeSend ==
  result = "ok" =>
    /\ ~send_buffer.too_long
    /\ asked.part + asked.frames = Len(Code[code].parts) * (1 + asked.repeats)

\* init_send goes round the chain of an XMP code until the buffer is full.
Endless == R.protocol = "xmp" /\ Len(Code[code].parts) > 1

\* A send fails only if the protocol or the code cannot be sent, a frame is longer
\* than the constant length or the buffer is too small for all the repeats.
FailsOnlyIfImpossible ==
  result = "failed" /\ ~asked.disturbed =>
    \/ Unsupported(Code[code].remote)
    \/ Endless \/ (raw /\ Code[code].signals = <<>>)
    \/ \E k \in PlannedFrames : PlannedGap(k) <= 0
    \/ Len(Planned) > WBUF_SIZE

\* A frame with its gap is in the buffer.  Not counted are the first header of
\* NO_HEAD_REP and a repeat signal with its own gap; a decode during the send may
\* replace the gap.
ConstFrameSent ==
  /\ pc = "space" /\ pc' # "space" /\ is_const(R) /\ ~asked.disturbed
  /\ ~(SendsRepeat /\ R.repeat_gap > 0)

FrameLength(data) == Total(SubSeq(data, asked.from + 1, Len(data)))

\* No space was left pending when the gap of the frame is sent: the frame ended in a pulse.
EndsInPulse == send_buffer.pendings = 0

\* A frame of constant length that ends in a pulse has, with its gap, the length the
\* configuration asks for, wherever it stands in the transmission.  For frames that end in
\* a space nothing is claimed: sum lacks that space and the code sends it on top of the
\* length, although LIRCDefines.h:58 says "signal length+gap is always constant".
ConstLength ==
  [][ConstFrameSent /\ EndsInPulse =>
       FrameLength(send_buffer'.data) = min_gap(R) + HeaderLeftOut]_vars
=============================================================================
