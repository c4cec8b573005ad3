---------------------------- MODULE DecodeCommand ----------------------------
(***************************************************************************)
(* decodeCommand, get_code and set_code of DLL/Common/IRRemote.cpp: how    *)
(* the daemon thread turns the signals it hears into messages, a key and   *)
(* how often it repeated.  What remains between two signals is in struct   *)
(* ir_remote and struct ir_ncode: how much of each key's sequence of codes *)
(* was heard, toggles, repeats, and the remote heard last.                 *)
(*                                                                         *)
(* Timing is reduced to the two comparisons the code makes: whether a      *)
(* signal came at most max_remaining_gap after the one before it (close)   *)
(* and whether a remote's last signal is less than a second ago (recent).  *)
(***************************************************************************)
EXTENDS Naturals, Sequences, FiniteSets, FiniteSetsExt

CONSTANTS
  Remote,       \* the list of remotes, in the order of next; each is a record
                \* wave: its encoding (what receive_decode tells apart), pre: pre_data,
                \* codes: struct ir_ncode array; a code is the sequence of its values,
                \* the first is its code, the others the chain at next,
                \* toggle_mask, toggle_bit, repeat, xmp : BOOLEAN, min_code_repeat
  MaxPresses,   \* bound of the model: number of presses of a key
  MaxSignals,   \* bound of the model: number of signals
  MaxGarbled    \* bound of the model: frames that arrive garbled

Remotes  == DOMAIN Remote
Codes(r) == DOMAIN Remote[r].codes
Parts(r, c) == Remote[r].codes[c]
IsChain(r, c) == Len(Parts(r, c)) > 1

ValuesOf(r) == UNION {{Parts(r, c)[i] : i \in DOMAIN Parts(r, c)} : c \in Codes(r)}
Values      == UNION {ValuesOf(r) : r \in Remotes}

Noise == [wave |-> "noise", pre |-> "", value |-> "", repeat |-> FALSE, inverted |-> FALSE,
          bit |-> FALSE, close |-> FALSE]

\* The list of remotes is not empty, nor is a remote without codes.
ASSUME RemoteAssumption ==
  /\ Len(Remote) \in Nat \ {0} /\ Remotes = 1 .. Len(Remote)
  /\ \A r \in Remotes :
       /\ Remote[r].codes \in Seq(Seq(Values) \ {<<>>}) /\ Remote[r].codes # <<>>
       /\ Remote[r].min_code_repeat \in Nat
       /\ {Remote[r].toggle_mask, Remote[r].toggle_bit, Remote[r].repeat, Remote[r].xmp}
            \subseteq BOOLEAN
       /\ Remote[r].wave # Noise.wave

\* What a user's remotes.cfg can contain without two keys being confused: the
\* last value of a key occurs nowhere else in its remote, remotes whose signals
\* look the same have no value in common, and schemes that mark repeats are not
\* combined.
ASSUME DistinctAssumption ==
  \A r \in Remotes :
    /\ \A c, d \in Codes(r) : \A i \in DOMAIN Parts(r, d) :
         Parts(r, d)[i] = Parts(r, c)[Len(Parts(r, c))] => c = d /\ i = Len(Parts(r, c))
    /\ \A q \in Remotes \ {r} :
         Remote[q].wave = Remote[r].wave /\ Remote[q].pre = Remote[r].pre
         => ValuesOf(q) \cap ValuesOf(r) = {}
    /\ \A c \in Codes(r) :
         IsChain(r, c) => ~Remote[r].toggle_mask /\ ~Remote[r].repeat
    /\ Remote[r].repeat => ~Remote[r].toggle_mask /\ ~Remote[r].toggle_bit

VARIABLES
  current,                \* remote -> code -> 0 (NULL) or the number of a node of its chain
  reps,
  toggle_mask_state,
  toggle_bit_mask_state,  \* remote -> the toggle bit
  toggle_code,            \* remote -> 0 (NULL) or a code
  last_code,              \* remote -> 0 (NULL) or a code
  last_remote,            \* 0 (NULL) or a remote
  last_decoded,           \* static in set_code
  recent,                 \* remotes whose last_send is less than a second ago
  press,                  \* the key the user holds down, and what became of it
  bits,                   \* toggle bit that the user's remote controls send
  heard,                  \* history: remote -> code -> the values that count for the key, and
                          \* whether they came inverted
  presses, signals, garbled  \* counters for the bounds

remoteVars == <<current, reps, toggle_mask_state, toggle_bit_mask_state, toggle_code,
                last_code, last_remote, last_decoded, recent>>
vars == <<remoteVars, press, bits, heard, presses, signals, garbled>>

NoPress == [remote |-> 1, code |-> 1, close |-> FALSE, frames |-> 0, whole |-> FALSE,
            messages |-> <<>>]

TypeOK ==
  /\ DOMAIN current = Remotes
  /\ \A r \in Remotes :
       /\ DOMAIN current[r] = Codes(r)
       /\ \A c \in Codes(r) : current[r][c] \in 0 .. Len(Parts(r, c)) - 1
       /\ toggle_code[r] \in {0} \cup Codes(r) /\ last_code[r] \in {0} \cup Codes(r)
  /\ toggle_code \in [Remotes -> Nat] /\ last_code \in [Remotes -> Nat]
  /\ reps \in [Remotes -> Nat]
  /\ toggle_mask_state \in [Remotes -> 0 .. 3]
  /\ toggle_bit_mask_state \in [Remotes -> BOOLEAN]
  /\ last_remote \in {0} \cup Remotes /\ last_decoded \in {0} \cup Remotes
  /\ recent \subseteq Remotes

Init ==
  /\ current = [r \in Remotes |-> [c \in Codes(r) |-> 0]]
  /\ reps = [r \in Remotes |-> 0]
  /\ toggle_mask_state = [r \in Remotes |-> 0]
  /\ toggle_bit_mask_state = [r \in Remotes |-> FALSE]
  /\ toggle_code = [r \in Remotes |-> 0]
  /\ last_code = [r \in Remotes |-> 0]
  /\ last_remote = 0 /\ last_decoded = 0 /\ recent = {}
  /\ press = NoPress
  /\ bits = [r \in Remotes |-> FALSE]
  /\ heard = [r \in Remotes |-> [c \in Codes(r) |-> <<>>]]
  /\ presses = 0 /\ signals = 0 /\ garbled = 0
-----------------------------------------------------------------------------
(* get_code: which key of a remote a signal belongs to.                    *)

Odd(r) == toggle_mask_state[r] % 2 = 1

\* receive_decode: the signal has the form of the remote's signals; a repeat
\* signal is looked for only if the remote was the last one heard.
DecodeFunc(r, signal) ==
  /\ signal.wave = Remote[r].wave
  /\ signal.repeat => Remote[r].repeat /\ last_remote = r /\ last_code[r] # 0

\* A repeat signal stands for the code heard last.
ValueOf(r, signal) == IF signal.repeat THEN Parts(r, last_code[r])[1] ELSE signal.value

RepeatFlag(r, signal) ==
  \/ signal.repeat
  \/ signal.close /\ (Remote[r].repeat => reps[r] < Remote[r].min_code_repeat)

\* The signal gets as far as the loop over the codes.
Compared(r, signal) ==
  DecodeFunc(r, signal) /\ (signal.repeat \/ signal.pre = Remote[r].pre)

\* The second signal of a pair has the bits of toggle_mask inverted.
SameValue(r, signal, value) ==
  /\ ValueOf(r, signal) = value
  /\ signal.inverted = (Remote[r].toggle_mask /\ Odd(r))

\* The code that a key waits for.
Expected(r, c) == Parts(r, c)[current[r][c] + 1]

IsComplete(r, c, signal) ==
  SameValue(r, signal, Expected(r, c)) /\ current[r][c] + 1 = Len(Parts(r, c))

\* After s of the i values heard are given up, the others are the key's first
\* ones, and the signal is the next one.
Shifts(r, c, signal) ==
  LET parts == Parts(r, c)  i == current[r][c]
  IN  {s \in 1 .. i : /\ SubSeq(parts, 1, i - s) = SubSeq(parts, s + 1, i)
                      /\ SameValue(r, signal, parts[i - s + 1])}

StartsOver(r, c, signal) ==
  LET i == current[r][c]
  IN  IF SameValue(r, signal, Expected(r, c))
      THEN (IF i + 1 = Len(Parts(r, c)) THEN 0 ELSE i + 1)
      ELSE 0

\* "find longest matching sequence"
NextCurrent(r, c, signal) ==
  LET i == current[r][c]
  IN  IF SameValue(r, signal, Expected(r, c))
      THEN (IF i + 1 = Len(Parts(r, c)) THEN 0 ELSE i + 1)
      ELSE IF Shifts(r, c, signal) = {} THEN 0
      ELSE i - Min(Shifts(r, c, signal)) + 1

\* The first key that is complete, or else the last one that the signal continues.
FoundCode(r, signal) ==
  LET complete  == {c \in Codes(r) : IsComplete(r, c, signal)}
      continued == {c \in Codes(r) : NextCurrent(r, c, signal) # 0}
  IN  IF complete # {} THEN Min(complete)
      ELSE IF continued # {} THEN Max(continued) ELSE 0

\* The second signal of a pair must be of the same key as the first.
get_code(r, signal) ==
  LET found == FoundCode(r, signal)
  IN  IF Remote[r].toggle_mask /\ Odd(r) /\ found # toggle_code[r] THEN 0 ELSE found

Hit(r, signal) == Compared(r, signal) /\ get_code(r, signal) # 0
-----------------------------------------------------------------------------
(* set_code: whether the key is held down or was pressed anew.             *)

SameKeySoon(r, c, signal) ==
  /\ last_decoded = r
  /\ c = last_code[r] \/ NextCurrent(r, c, signal) # 0
  /\ r \in recent
  /\ Remote[r].toggle_bit => signal.bit = toggle_bit_mask_state[r]

SameKey(r, c, signal) ==
  /\ last_decoded = r
  /\ c = last_code[r] \/ NextCurrent(r, c, signal) # 0
  /\ RepeatFlag(r, signal)
  /\ r \in recent
  /\ Remote[r].toggle_bit => signal.bit = toggle_bit_mask_state[r]

NextReps(r, c, signal) ==
  LET partly == NextCurrent(r, c, signal) # 0
  IN  IF SameKey(r, c, signal)
      THEN IF (Remote[r].toggle_mask /\ toggle_mask_state[r] = 3)
              \/ (~Remote[r].toggle_mask /\ ~partly)
           THEN reps[r] + 1 ELSE reps[r]
      ELSE IF IsChain(r, c) /\ ~partly THEN 1 ELSE 0

CountUp(state) == state + 1
CountRound(state) == IF state = 3 THEN 2 ELSE state + 1

NextToggle(r, c, signal) ==
  IF ~Remote[r].toggle_mask THEN toggle_mask_state[r]
  ELSE IF SameKey(r, c, signal) THEN CountRound(toggle_mask_state[r]) ELSE 1
-----------------------------------------------------------------------------
(* decodeCommand.                                                          *)

\* The remotes tried before the one with the number hit fail.
Tried(hit) == {r \in Remotes : r < hit}

AfterGetCode(tried, signal) ==
  [r \in Remotes |-> IF r \in tried /\ Compared(r, signal)
                     THEN [c \in Codes(r) |-> NextCurrent(r, c, signal)] ELSE current[r]]

ToggleCodeAfter(tried, signal) ==
  [r \in Remotes |->
     IF r \in tried /\ Compared(r, signal) /\ Remote[r].toggle_mask /\ FoundCode(r, signal) # 0
     THEN (IF Odd(r) THEN 0 ELSE FoundCode(r, signal)) ELSE toggle_code[r]]

HeardValue(r, signal) == <<ValueOf(r, signal), signal.inverted>>

\* A value that did not come inverted.
AsSent(value) == <<value, FALSE>>

HeardAfter(tried, signal) ==
  [r \in Remotes |-> IF r \in tried /\ Compared(r, signal)
                     THEN [c \in Codes(r) |->
                             Append(heard[r][c], HeardValue(r, signal))]
                     ELSE heard[r]]

\* A report starts all keys anew, but an XMP key goes on behind its first value.
HeardAnew(r, c, again) ==
  [q \in Remotes |-> [d \in Codes(q) |->
     IF again = 1 /\ q = r /\ d = c THEN <<AsSent(Parts(r, c)[1])>> ELSE <<>>]]

KeptRemote == last_remote

NoRemote == 0

\* No remote knows the signal.
DecodeNothing(held, signal) ==
  /\ \A r \in Remotes : ~Hit(r, signal)
  /\ current' = AfterGetCode(Remotes, signal)
  /\ heard' = HeardAfter(Remotes, signal)
  /\ toggle_code' = ToggleCodeAfter(Remotes, signal)
  /\ toggle_mask_state' = [r \in Remotes |-> 0]
  /\ last_remote' = NoRemote
  /\ press' = held
  /\ UNCHANGED <<reps, toggle_bit_mask_state, last_code, last_decoded, recent>>

\* The signal is one of remote r: the first of the list that knows it.
DecodeSignal(held, r, signal) ==
  LET c       == get_code(r, signal)
      tried   == Tried(r) \cup {r}
      partly  == NextCurrent(r, c, signal) # 0
      toggle  == NextToggle(r, c, signal)
      silent  == (Remote[r].toggle_mask /\ toggle % 2 = 1) \/ partly
      again   == IF Remote[r].xmp /\ IsChain(r, c) THEN 1 ELSE 0
      clean   == [q \in Remotes |-> [d \in Codes(q) |-> 0]]
  IN  /\ Hit(r, signal) /\ \A q \in Tried(r) : ~Hit(q, signal)
      /\ reps' = [reps EXCEPT ![r] = NextReps(r, c, signal)]
      /\ toggle_mask_state' = [q \in Remotes |-> IF q < r THEN 0 ELSE IF q = r THEN toggle
                                                 ELSE toggle_mask_state[q]]
      /\ toggle_code' = IF Remote[r].toggle_mask /\ ~SameKey(r, c, signal)
                        THEN [ToggleCodeAfter(tried, signal) EXCEPT ![r] = c]
                        ELSE ToggleCodeAfter(tried, signal)
      /\ toggle_bit_mask_state' =
           IF Remote[r].toggle_bit /\ ~SameKey(r, c, signal)
           THEN [toggle_bit_mask_state EXCEPT ![r] = signal.bit] ELSE toggle_bit_mask_state
      /\ last_code' = IF partly THEN last_code ELSE [last_code EXCEPT ![r] = c]
      /\ last_remote' = r /\ last_decoded' = r /\ recent' = recent \cup {r}
      /\ IF silent
         THEN /\ current' = AfterGetCode(tried, signal)
              /\ heard' = HeardAfter(tried, signal)
         ELSE /\ current' = [clean EXCEPT ![r][c] = again]
              /\ heard' = HeardAnew(r, c, again)
      /\ press' = [held EXCEPT !.messages =
           IF silent THEN @
           ELSE Append(@, [remote |-> r, code |-> c,
                           reps |-> NextReps(r, c, signal) - (IF IsChain(r, c) THEN 1 ELSE 0)])]

decodeCommand(held, signal) ==
  DecodeNothing(held, signal) \/ \E r \in Remotes : DecodeSignal(held, r, signal)
-----------------------------------------------------------------------------
(* Remote controls.  A key that is held down sends its codes in turn with  *)
(* no more than the gap between them (Send.cpp sends the same); pairs are  *)
(* sent whole.                                                             *)

\* The place of the value that is sent j-th (from 0); XMP repeats the chain only.
PlaceOf(r, c, j) ==
  LET n == Len(Parts(r, c))
  IN  IF Remote[r].xmp /\ j >= n /\ n > 1 THEN 2 + ((j - n) % (n - 1)) ELSE (j % n) + 1

PartOf(r, c, j) == Parts(r, c)[PlaceOf(r, c, j)]

SignalOf(j) ==
  LET r == press.remote
  IN  [wave |-> Remote[r].wave, pre |-> Remote[r].pre, value |-> PartOf(r, press.code, j),
       repeat |-> Remote[r].repeat /\ j > Remote[r].min_code_repeat,
       inverted |-> Remote[r].toggle_mask /\ j % 2 = 1, bit |-> bits[r],
       close |-> IF j = 0 THEN press.close ELSE TRUE]

\* The user lets go of the key and presses one.  Without a pause between them only
\* another key can be told from the one before, and only if that one was reported.
PressKey ==
  /\ presses < MaxPresses /\ presses' = presses + 1
  /\ presses = 0 \/ press.frames > 0
  /\ Remote[press.remote].toggle_mask => press.frames % 2 = 0
  /\ \E r \in Remotes, close \in BOOLEAN, still \in {recent, {}} :
       \E c \in Codes(r) :
         /\ close => /\ still = recent /\ <<r, c>> # <<press.remote, press.code>>
                     /\ press.whole /\ press.messages # <<>>
         /\ press' = [remote |-> r, code |-> c, close |-> close, frames |-> 0, whole |-> TRUE,
                      messages |-> <<>>]
         /\ bits' = [bits EXCEPT ![r] = Remote[r].toggle_bit /\ ~@]
         /\ recent' = still
  /\ UNCHANGED <<current, reps, toggle_mask_state, toggle_bit_mask_state, toggle_code,
                 last_code, last_remote, last_decoded, heard, signals, garbled>>

\* The next signal of the press arrives.
Arrives == presses > 0 /\ signals < MaxSignals /\ signals' = signals + 1

Signal ==
  /\ Arrives
  /\ decodeCommand([press EXCEPT !.frames = @ + 1], SignalOf(press.frames))
  /\ UNCHANGED <<bits, presses, garbled>>

\* A signal that no remote knows arrives in place of the right one.
GarbledSignal ==
  /\ Arrives /\ garbled < MaxGarbled /\ garbled' = garbled + 1
  /\ decodeCommand([press EXCEPT !.frames = @ + 1, !.whole = FALSE], Noise)
  /\ UNCHANGED <<bits, presses>>

Next == PressKey \/ Signal \/ GarbledSignal

Spec == Init /\ [][Next]_vars
-----------------------------------------------------------------------------
(* What must hold.                                                         *)

\* How many messages the first n signals of a press make.
MessagesDue(r, c, n) ==
  LET len == Len(Parts(r, c))
  IN  IF Remote[r].toggle_mask THEN n \div 2
      ELSE IF Remote[r].xmp /\ len > 1 THEN (IF n < len THEN 0 ELSE 1 + (n - len) \div (len - 1))
      ELSE n \div len

\* A press that arrives whole is reported at once and with repeat counts 0, 1, 2, ...,
\* whatever was pressed, broken off or garbled before it.
PressesReported ==
  press.whole =>
    press.messages = [k \in 1 .. MessagesDue(press.remote, press.code, press.frames) |->
                        [remote |-> press.remote, code |-> press.code, reps |-> k - 1]]

\* Also if signals arrive garbled, the clients hear only of the key that is pressed,
\* at most once for every time it was sent whole.
NoGhostKeys ==
  /\ \A i \in DOMAIN press.messages :
       press.messages[i].remote = press.remote /\ press.messages[i].code = press.code
  /\ Len(press.messages) <= MessagesDue(press.remote, press.code, press.frames)

EndsWith(values, parts) ==
  /\ Len(parts) <= Len(values)
  /\ SubSeq(values, Len(values) - Len(parts) + 1, Len(values)) = parts

Unmasked(parts) == [i \in DOMAIN parts |-> AsSent(parts[i])]

\* IRRemote.cpp:229, "find longest matching sequence": current stands after the
\* longest beginning of the key that the values heard end with.
MatchIsLongest ==
  \A r \in Remotes : \A c \in Codes(r) :
    current[r][c] = Max({n \in 0 .. Len(Parts(r, c)) - 1 :
                           EndsWith(heard[r][c], Unmasked(SubSeq(Parts(r, c), 1, n)))})
=============================================================================
