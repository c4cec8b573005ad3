----------------------------- MODULE SendBuffer -----------------------------
(***************************************************************************)
(* struct sbuf of DLL/Common/LIRCDefines.h and the functions of            *)
(* DLL/Common/Send.cpp that fill it.  The array holds durations; whether   *)
(* one is a pulse or a space follows from its index, pulses first.  Here   *)
(* an entry also keeps the kind it was sent as, so that the two can be     *)
(* compared.  wptr is Len(b.data).                                         *)
(***************************************************************************)
EXTENDS Naturals, Sequences

CONSTANT WBUF_SIZE   \* slots of send_buffer._data (2048)

\* The last gap of a transmission has an even number of entries before it at most.
ASSUME BufferAssumption == WBUF_SIZE \in Nat \ {0} /\ WBUF_SIZE % 2 = 0

Mark == [kind : {"pulse", "space"}, us : Nat]

PulseMark(us) == [kind |-> "pulse", us |-> us]
SpaceMark(us) == [kind |-> "space", us |-> us]

Buffers ==
  [data : Seq(Mark), too_long : BOOLEAN, pendingp : Nat, pendings : Nat, sum : Nat]

\* clear_send_buffer
Cleared == [data |-> <<>>, too_long |-> FALSE, pendingp |-> 0, pendings |-> 0, sum |-> 0]

\* add_send_buffer
Add(b, mark) ==
  IF Len(b.data) < WBUF_SIZE
  THEN [b EXCEPT !.sum = @ + mark.us, !.data = Append(@, mark)]
  ELSE [b EXCEPT !.too_long = TRUE]

AddPendingPulse(b) ==
  IF b.pendingp > 0 THEN [Add(b, PulseMark(b.pendingp)) EXCEPT !.pendingp = 0] ELSE b

AddPendingSpace(b) ==
  IF b.pendings > 0 THEN [Add(b, SpaceMark(b.pendings)) EXCEPT !.pendings = 0] ELSE b

PulseNotJoined(b, us) == [AddPendingSpace(AddPendingPulse(b)) EXCEPT !.pendingp = us]

\* send_pulse and send_space: what continues a pending mark lengthens it.
Pulse(b, us) ==
  IF b.pendingp > 0 THEN [b EXCEPT !.pendingp = @ + us]
  ELSE [AddPendingSpace(b) EXCEPT !.pendingp = us]

Space(b, us) ==
  IF b.data = <<>> /\ b.pendingp = 0 THEN b
  ELSE IF b.pendings > 0 THEN [b EXCEPT !.pendings = @ + us]
  ELSE [AddPendingPulse(b) EXCEPT !.pendings = us]

Flush(b) == AddPendingSpace(AddPendingPulse(b))

DropLast(b) == [b EXCEPT !.data = SubSeq(@, 1, Len(@) - 1)]

\* sync_send_buffer: a frame ends in a pulse.  A pending space stays pending.
Sync(b) ==
  LET c == AddPendingPulse(b)
  IN  IF c.data # <<>> /\ Len(c.data) % 2 = 0 THEN DropLast(c) ELSE c

BadWhenNearlyFull(b) == b.too_long \/ Len(b.data) >= WBUF_SIZE - 1

\* bad_send_buffer
Bad(b) == b.too_long \/ (Len(b.data) = WBUF_SIZE /\ b.pendingp > 0)

\* check_send_buffer
Usable(b) == b.data # <<>> /\ \A i \in DOMAIN b.data : b.data[i].us # 0
=============================================================================
