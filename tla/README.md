# WinLIRC in TLA+

Specifications of WinLIRC, the program that turns infrared signals into messages for its
clients and sends infrared codes on their behalf. TLC checks them on small instances, TLAPS
proves theorems about eight of them for every value of their constants. `PROJECT.json` lists
the runs, the lines of code behind every definition, the hazards, the findings and the
theorems.

## 1. The system

```
 clients <--TCP--> Cserver thread --SEND_ONCE--> CIRDriver.sendIR ----+
                      ^                                               v
                      | sendToClients                         plug-in (DLL): init, deinit,
 GUI thread           |                                       sendIR, decodeIR
 (Cdrvdlg) --init,--> CIRDriver: daemon thread --decodeIR---->   |  receive thread -> ring
   deinit,  load,     |                                          v  -> rec_buffer
   unload             +---- readConfig: global_remotes ----> Common: decodeCommand, init_send
```

| Part | State | Operations | Interacts through |
|---|---|---|---|
| `Cserver` (winlirc/server.cpp) | slots `m_clients`, one line buffer and event a slot, exit event | accept, refuse, receive, cut into lines, execute, reply, stop | Winsock events; `CS_global_remotes`; the driver's `sendIR`; `sendToClients`, called by the daemon thread |
| `CIRDriver` (winlirc/irdriver.cpp) | library handle and function pointers, daemon thread and its exit event | loadPlugin, unloadPlugin, init, deinit, the daemon loop | calls of the GUI, daemon and server threads into one plug-in; `m_dllLock` |
| `Cdrvdlg` (winlirc/drvdlg.cpp) | which dialog is open | initialize, configure, suspend, resume, send, exit | nested message loops; `CS_global_remotes` |
| `CIRConfig`, parser (irconfig.cpp, config.cpp) | settings, the list `global_remotes`; a stack of files being read, `parse_error` shared by all of them | readConfig, free_config, read_config_recursive, sort_by_bit_count | the list is read by daemon and server thread |
| plug-in, e.g. DLL/UDP | receive thread, ring of 256 samples, `dataReadyEvent` | init, deinit, receive, waitTillDataIsReady, readData, decodeIR | no lock: two indices of eight bits, one event, the host's exit event |
| plug-in that sends, e.g. DLL/MCE, DLL/IRToy | the object with its device, `exitEvent`, `threadHandle` | init, send (ends the receive thread, starts another), deinit | GUI and server thread, `m_dllLock` of the host |
| Common/Receive.cpp | `rec_buffer`, pending pulse and space, `sum`, last remote and its gap | clear, rewind, get next, receive_decode: sync, header, bits of nine encodings, trail, gap | the plug-in's readData |
| Common/IRRemote.cpp | toggles, `reps`, `current`, last code and remote in `struct ir_remote`, `struct ir_ncode` | decodeCommand, get_code, set_code | the same structures are written by init_send |
| Common/Send.cpp | send buffer, `transmit_state`, `repeat_countdown`, toggles, gap | init_send | the daemon thread's set_code, without a lock |

What is hard here: four threads and hardly a lock (GUI, server, daemon, receive thread);
state in `struct ir_remote` that outlives the signal it was set by; a plug-in that may be
told to go away while it is used, or may not go away when told; power messages that arrive
inside a modal dialog; line buffers, rings and send buffers at their limits; codes of
several parts, cut off anywhere.

What makes each part correct:

- **Server**: a slot belongs to one open connection; replies answer the complete lines of
  their client, in order; refusal only when full, and the server recovers from it; a client
  that behaves is never cut off and is answered.
- **Driver**: one daemon thread at most, and only in an initialized plug-in; init and
  FreeLibrary meet a clean plug-in; nothing is freed in use; the GUI comes back.
- **Plug-in**: the ring loses, repeats and reorders nothing until it overruns; the decoder
  reads a run of it; a wake-up is not lost; a stop request ends all threads before their
  objects are deleted.
- **decodeCommand**: what is reported is what is pressed, as often as it was sent, whatever
  preceded it.
- **receive_decode**: a press is heard as it was sent, frame by frame, within the tolerances;
  what breaks off or comes from another remote is not.
- **Parser**: what is accepted is what the files say, an error anywhere rejects all, and
  nothing stays allocated.
- **Broadcast**: a client that is connected all the time gets the message from its start,
  whoever else comes and goes.
- **init_send**: the buffer is the transmission that was asked for or the send is refused for
  a reason; pulses and spaces take turns.

## 2. Modules

| Module | Code | Remarks |
|---|---|---|
| `SampleFifo` | what the plug-in's ring promises | abstract: a bounded queue that may break |
| `PluginReceive` | DLL/UDP, clear/rewind/get_next of Receive.cpp, daemon loop, deinit | each access to ring, indices and event is a step of its own; implements `SampleFifo` |
| `LineBuffer` | cutting of `clientData` into lines, server.cpp:270-318 | pure operators |
| `Commands` | parseSendString, parseListString, parseVersion, parseTransmitters: which words succeed | pure operators |
| `Server` | Cserver::ThreadProc, reply, stopServer, KillThread | Winsock events as external actions; extends the two above |
| `Broadcast` | sendToClients, sendData in the daemon thread | extends `Server`: the two threads share `m_clients` |
| `Driver` | CIRDriver, Cdrvdlg's handlers, readConfig, KillThread2, server thread inside sendIR | a handler of the GUI thread is a sequence of steps (`pc`, `then`, `job`) |
| `SendReceiveData` | the plug-in's object around init, send and deinit: IRToy, Irdroid, MCE; Win32Helpers | extends `Driver` and implements it: refines what the host sees as one call |
| `SendBuffer`, `RemoteSignal` | struct sbuf and send_pulse to sync_send_buffer; send_header to send_repeat | pure operators: a mark is a pulse or a space and its length |
| `Send` | init_send, its two callers, set_code meanwhile | one mark a step, so that a decode can come between any two |
| `Waveform` | the readers of Receive.cpp: marks, tolerances, header, bits, trail, get_gap | pure operators on a reader's state (place, pending marks, sum, error) |
| `ReceiveDecode` | receive_decode over a table of remotes, with what a press puts on the air | user and time as external actions; signals are built by `RemoteSignal`, the sender's half |
| `DecodeCommand` | decodeCommand, get_code, set_code; the repeat decision of receive_decode | user and remote controls as external actions |
| `ConfigParser` | read_config_recursive, sort_by_bit_count, readConfig's test | a stack of frames, one for each level of include |
| `PluginReceiveProofs`, `DriverProofs`, `SendReceiveDataProofs`, `SendProofs`, `DecodeCommandProofs`, `ServerProofs`, `BroadcastProofs`, `ConfigParserProofs` | | theorems |
| `MC*` | | constants for TLC |

State variables carry the names of the code's variables. Variables the code does not have
are program counters (`pc`, `rx`, `tx`, `slot`, `dm`, `sv`, `daemon`), history (`asked`,
`heard`, `replies`, `press`, `present`) and counters for bounds, and are commented as such.
Data are reduced to what the properties distinguish: a sample is its number, a command a
token of a line, a code a value that is equal to another or not, a line of remotes.cfg the
kind of line it is. Only `Waveform` computes with microseconds, since tolerances are what it
is about.

Two modules are compositions. `Broadcast` runs the daemon thread's sendToClients beside the
server thread, on the same slots, with no lock between a test of `m_clients[i]` and its use,
as in the code. `SendReceiveData` replaces three calls of `Driver` (init, deinit, sendIR)
with what a plug-in does in them and shows that the host sees the same; its run therefore
also checks the properties of `Driver`.

`Send` and `DecodeCommand` merge one pair of steps: an update of the toggles of one remote is
one step, though both threads may make it; the increment that steps over the test `==4` is a
hazard no property covers yet. In `Server` a reply is sent in one step; partial sends are
modelled in `Broadcast`, where the other thread can come in between.

## 3. Runs

| Run | Question | Bounds and why they do |
|---|---|---|
| `plugin_receive` | Is the ring a FIFO, rec_buffer a run of it, the shutdown complete? | ring of 3, rec_buffer of 3, 5 samples in bursts of up to 3: the indices wrap, the ring overruns, rec_buffer fills and moves |
| `plugin_receive_wakeup` (violated) | Is a sample fetched once it was stored? | one lost wake-up is enough |
| `server` | Slots, replies, refusals, and do clients that behave keep their connection and get answers? | two slots, three clients, so that one is refused or waits; a line buffer of 4 places, 3 tokens and the terminating 0, which one client's line fills; that client may send before it is accepted, and leave; one sends two commands, SEND_ONCE and LIST of an unknown code, one SET_TRANSMITTERS with a number too high; stop at any time, with a thread that ends in time or not |
| `server_dispatch` (violated) | Does a client stay with three slots, of which a low one falls free? | |
| `server_blank` (violated) | Is each line executed once if one is blank? | |
| `broadcast` | Who gets the daemon thread's message? | three clients for two slots, so that a slot changes hands under the send; a message of three bytes: in one part, in two, in three |
| `driver` | Threads, plug-in, remotes and receive threads in every order of messages | three plug-ins: one that hands over its receive thread around a send (as IRToy or as MCE), one plain, one without decodeIR; two names each for daemon and receive threads, so that a second could exist; power messages in every message loop; sends that overlap init and deinit; a device that may fail, and answer again or not |
| `driver_lock` (violated) | Is the plug-in's object kept while sendIR runs? | the plug-ins of `driver`; two steps of the server thread and a deinit are enough |
| `send` | Is the buffer what was asked for, and a refusal justified? | thirteen codes of ten kinds of remote, frames of constant length that end in a pulse and in a space among them; two sends, one decode anywhere; 24 entries: some repeats fit, some do not; for one code the buffer is full between its two parts, so that its next send starts in the middle |
| `waveform` | Is what is heard what was sent, and nothing else? | remotes of fourteen kinds, alone and two in one table; two presses of one to three frames, each broken off anywhere; errors of -40, 0 and 40 us; the pause between presses on both sides of the gap |
| `decode` | Is what is reported what was pressed? | six kinds of remote, three presses, six signals, one of them garbled: two complete sequences with a rest between |
| `config` | Is what is accepted what the files say? | up to four files that define three remotes and include each other up to three levels deep (`MaxIncludes = 1` and the level that is refused); any order of lines, an error anywhere; one remote may be RC-6 and reversed, one may have two protocols |

A run that must be violated states what a comment, a readme or a text on the screen says,
and TLC shows a behaviour of the code that contradicts it; the findings in `PROJECT.json`
quote both. In short:

- **driver_lock**: `CSingleLock l(&m_dllLock)` without `TRUE` never locks (irdriver.cpp:161),
  and the GUI thread deletes the object the server thread sends with.
- **server_dispatch**: `events[]` has no gaps, slots have (server.cpp:255).
- **server_blank**: a blank line leaves the loop before the buffer is moved (server.cpp:295).
- **plugin_receive_wakeup**: the event is reset after the ring was tested (UDP/Server.cpp:186).

Where else the code goes wrong, or not as far as a comment says, the models do what the code
does, and the property that would fail names the exemption it needs: it says up to which point
the code is right. These are:

- *Sending.* A frame that ends in a space (no trailing pulse, no foot) is longer than its
  constant length by that space, though LIRCDefines.h:58 says that signal and gap are always
  constant: `sync_send_buffer` leaves the space pending, so that `sum` lacks it and the gap is
  added to it (Send.cpp:126-134, 444, 479). So for such frames the comment is wrong.
  `ConstLength` states it only of frames that end in a pulse (`EndsInPulse`), where it holds;
  `PlannedGap`, the reference, takes up only what of a frame ends in a pulse. A code of the XMP
  protocol with two parts is repeated until the buffer is full, since its `transmit_state`
  never returns to the start (Send.cpp:472-483; `Endless`). `transmit_state` survives a send
  that is refused between two parts, and the next send of that code starts in the middle
  (Send.cpp:435): it reports success for the rest alone, which `WholeSend` and `SentAsAsked`
  allow for through the history field `asked.part`. A decode during a send may replace
  `min_remaining_gap` (IRRemote.cpp:359), which the history field `asked.disturbed` takes out
  of `SentAsAsked`, `ConstLength` and `FailsOnlyIfImpossible` and leaves in `Alternates` and
  `WholeSend`.
- *Parser.* After an include `rem` is the first remote of the included file: if it had two or
  more, the next remote or include overwrites `rem->next` and loses the others
  (config.cpp:841; variable `overwritten`). An include inside a remote leaves that remote
  incomplete (`strayed`). A `REVERSE` remote without codes is a null pointer when its codes
  are reversed (outcome "crash").
- *Commands.* LIST of an unknown code reports success: get_code_by_name never returns NULL,
  and the answer "unknown code" (server.cpp:484-491) is never given. `winlirc-readme.txt:36`
  says "Fixed invalid commands reporting success". `Valid` counts such a line as invalid,
  `ListsUnknownCode` names it, and `RepliesMatch` exempts it and nothing else.
- *Stop.* KillThread gives up after 250 ms (globals.cpp:73) and stopServer closes the sockets
  of a thread that is anywhere; in `Server` it may do so at once. A client that the thread
  accepts after the slots were emptied and before the listening socket is closed
  (server.cpp:116-120) stays connected to the stopped server.
- *Broadcast.* From the third part on a message is sent from the wrong offset (server.cpp:147),
  so `BroadcastArrives` asks for the order of bytes only of messages that go out in at most two
  parts and does not catch this; and a socket that is full and non-blocking cuts the message.
- *Plug-ins.* `exitEvent` resets itself when a wait sees it: after a receive thread that could
  not be started the request to end it stays in the event and ends the next one.
  `EndsOnRequest` exempts such a request (`missed`), `ReceivesAgain` what follows a failed
  start (`startFailed`): the plug-in may then be deaf until its next init. The loop of MCE's
  threadProc does not look at exitEvent while DeviceIo fails (SendReceiveData.cpp:106-126,
  205-209): if the device is gone for good, KillThread waits for ever and the GUI thread with
  it, so `HandlerReturns` is asked only of behaviours in which the device answers in the end.
  Nothing keeps a send apart from init and deinit: `OneReceiver` and `HandlerReturns` speak of
  the time before the first overlap (`overlapped`), after which two receive threads may share
  a device and an event. `threadHandle` of MCE is uninitialized until the first thread starts
  (`Garbage`). `Server::exitThread` of the UDP plug-in is uninitialized when its init fails
  early, and deinit sets and closes whatever handle it then holds; the model takes it for no
  handle.
- *Host.* A resume message under the configuration dialog starts the driver (drvdlg.cpp:154),
  and readConfig then frees what the daemon thread decodes with; in a library that loadPlugin
  refused, that thread has no decodeIR. `early` collects the daemon threads started so;
  `NobodyUsesFreedRemotes` and `DaemonHasDecode` hold of all others.
- *Waveforms.* A biphase signal that breaks off before a one is read as ending in a zero,
  since expectone ungets a mark it did not read (Receive.cpp:290), and `NoOtherCode` allows
  that. A last frame that ends in an open line of the serial encoding is lost
  (Receive.cpp:742-746). A remote with NO_HEAD_REP accepts a start without header anywhere,
  also within another remote's signal, so it shares no table. A space-encoded remote without
  a trailing pulse can be told from its neighbour only by its pulses. A missing pending
  space in RC-MM and XMP is reported as 0, not as an error; the branch for a header without
  a pulse is never taken; an encoding's failure and the code of all ones are the same value
  `(ir_code) -1`.

`CHECK_DEADLOCK FALSE` stands where the system really stops: clients that have sent their
script and left, a program that ended, presses, sends and files that are used up.
`PluginReceive` is checked for deadlock.

### Assumptions of the models

- *Server*: a client sends after its connection was accepted, or at once if it is in `Eager`.
  `LinesAnswered` is not asked for eager clients: `ResetEvent` after `WSAEventSelect`
  (server.cpp:245) can erase the first FD_READ, which is listed as a hazard. The work on the
  bytes of one recv is one step, replies included: a stop in its middle only drops replies to
  a connection that is closed by then (server.cpp:170). The plug-in's answer is chosen anew for
  each line. No script of run `server` has a blank line; run `server_blank` is about that.
- *Broadcast*: the clients only listen and are alike, which makes the symmetry of its
  configuration sound; the daemon thread is not stopped (Driver has that).
- *PluginReceive*: init may fail before its threads run; deinit then meets what is there.
- *Driver*: power messages arrive in every message loop. `exitOnError` and the tray menu are
  not modelled.
- *SendReceiveData*: there is no `m_dllLock`, as it is never taken: a send may come between any
  two steps of init and deinit. A send that the GUI thread makes itself (OnSendcode,
  OnCopyData) is one step. A behaviour ends where a thread uses an object that was deleted
  (`Undefined`), since what follows has no meaning in C++; `driver_lock` shows that it comes to
  that. A device of MCE may fail whenever its thread waits (`DeviceFails`).
- *Send*: remotes have a positive gap and frames that begin with a pulse (`RemoteAssumption`,
  `FrameAssumption`); a raw code has an odd number of signals, which the parser sees to
  (config.cpp:927, 1010; `RawAssumption`); what is decoded as a signal of constant length is
  shorter than that length (`HeardAssumption`). `max_remaining_gap` is left out, nothing in a
  send depends on it. `WBUF_SIZE` is even, as the code's 2048 is (`BufferAssumption`): an odd
  one could lose the last gap of a send that reports success.
- *ReceiveDecode*: the decoder is called again when it returns, and a pause that is longer
  than `Patience` makes a wait time out; between frames the remote rests for its gap. `REC_SYNC`,
  the number of marks the sync may skip, is 8 (1000 in the code): no signal of the instance
  is longer than that away from a gap. LIRC_MODE_LIRCCODE, a full rec_buffer and the reset of
  `toggle_mask_state` in sync_rec_buffer are left out.
- *DecodeCommand*: receivers that pass waveforms (MODE2); the 325 ms rule for receivers that
  pass codes (Receive.cpp:1249) is left out. `RemoteAssumption` gives the table its types.
  `DistinctAssumption` says that keys can be told apart: the last value of a key occurs nowhere
  else in its remote, remotes whose signals look the same share no value, and schemes that mark
  repeats are not combined. The code takes any table; what it does with one in which keys
  cannot be told apart is not covered. Signals may be garbled, not lost. A press follows the
  last one without a pause only if it is another key and that one was reported, because the
  code takes what comes within the gap for a repeat. `toggle_mask` remotes send whole pairs.
- *ConfigParser*: a line is what read_config_recursive takes it for (begin, end, a value, a
  code, an include, an error); the conversion of numbers and the spelling of names are left
  out. A file is read by choosing its next line, so every file of the instance is covered.

### Fairness

- *PluginReceive*: weak fairness of the threads, that is, the operating system runs them;
  strong fairness of the end of a decode, since the decoder stops asking when it recognizes a
  signal or the buffer is full; the host, once it stops the plug-in, goes on. No datagram has
  to arrive.
- *Server*: the thread runs, Winsock signals what happened, stopServer goes on. Clients need
  not do anything. One weak fairness condition on all of that (`Work`) is enough: scripts are
  finite and each client connects once, so that no part of it can go on for ever and keep
  another from its turn.
- *SendReceiveData*, *Driver*: strong fairness of the GUI thread's steps, because the lock they
  may wait for is released again and again by a server thread that waits for the network in
  between; each receive thread runs; a send that has begun goes on (that a device answers again
  is not assumed, `HandlerReturns` has it as its premise); the server thread gives up a lock it
  waits for. Nothing is assumed of decodeIR, of a blocking `send()` to a client or of the user:
  KillThread2 bounds the wait.
- *Broadcast*, *Send*, *ReceiveDecode*, *DecodeCommand*, *ConfigParser*: safety only.

## 4. Proofs

All theorems hold for every value of the constants, under the ASSUMEs of their module, and
use no others, but for two theorems of `ServerProofs` that state their hypotheses. `TypeOK`
and the other invariants are first checked by TLC.

**PluginReceiveProofs** (`SizeAssumption`, `BoundsAssumption`). The invariant comes in
layers. `TypeInv` adds to the types that a receive thread about to store has a sample left.
`RingInv` adds where the two threads stand between the store and the increment of an index:
`bufferEnd` may lag one behind `sent`, and the slot it points at already holds the sample.
`RecInv` adds the shape of rec_buffer and what the decoder's local `data` holds between
fetch and append. The arithmetic of the ring is kept in one lemma about the next slot.
Theorems: `TypeCorrect`, `RingCorrect`, `RecBufferCorrect`, `ThreadsEndFirst`. `RingIsFifo`
is the refinement: from `RingInv` the abstract queue is the run of arrival numbers from the
first not yet taken to the last stored, so that the increment of `bufferEnd` appends, the
increment of `bufferStart` takes the head, an overrun breaks the queue, and every other step
stutters.

**DriverProofs** (`NoThreadAssumption`). `LifeInv` says what the plug-in's state is at each
step of a handler and that each handler's message loop is the one it was started in; it gives
`DaemonUnique`, `DecodeNeedsPlugin` and `PluginClean` in all orders of messages.
`ConfigInv` adds that each step belongs to its handler and that no daemon thread lives while
the configuration changes, but for one in `early`, which a resume under the configuration
dialog has started before readConfig freed the remotes. It gives `RemotesNotFreedInUse` and
`DecodeFunctionPresent` with that exception and without a hypothesis.

**SendReceiveDataProofs** (`DevicesAssumption`, `KindsAssumption`, `ReceiversAssumption`).
`ImplementsDriver` shows that every step of the detailed plug-in is a step of `Driver` or a
stutter, so `LifeInv` holds here without a second proof. On top of it `HandOverInv` has three
parts: the types; `RequestState`, that a set event belongs to a thread that will look at it and
that KillThread waits for, or was missed, which holds in every interleaving; and `HandOver`,
which of event, device and thread exist at each step of init, send and deinit, which holds
until a send overlaps the start or the stop of the plug-in. `Watch` in every step makes that
an invariant: `overlapped` is set by the first overlap and reset with the object. Theorems:
`TypesCorrect`, `ReceiverUnique`, `RequestsFindTheirThread`.

**SendProofs** (`BufferAssumption`, `RemoteAssumption`, `CodeAssumption`, `DataAssumption`,
`RawAssumption`, `FrameAssumption`, `BoundsAssumption`, `HeardAssumption`). `Alternates` is not
inductive: it depends on what is pending. `Fits` relates the pending pulse or space to the
parity of the entries; `MarksFit` says that what is left of the frame fits the buffer, which
for raw codes, written without the pending mechanism, is a statement about parity; `SendInv`
joins them along the program counter. One lemma a helper of SendBuffer (`PulseSent`,
`SpaceSent`, `SyncEndsInPulse`, `GapSent`), one an action. For `WholeSend` the frames are
counted: `CountInv` says at each place of init_send that the frames sent, with the part the
send began with, are the rounds that repeat_countdown has counted off plus what transmit_state
says of this round. XMP chains (`Endless`) are the exception, they never report success. That
no entry is lost is a matter of parity: `bad_send_buffer` leaves an odd number of entries
before a gap, so with an even WBUF_SIZE that gap always finds a place (`GapStored`), although
init_send does not test again. Theorems: `TypeCorrect`, `BufferAlternates`, `SendIsWhole`, all
with a daemon thread that decodes at any moment.

*What the gap makes up for* (`SumInv`). `sum` is the length of what of the frame is in the
array, less the first header of a NO_HEAD_REP remote once the frame has ended. It relies on
`sync_send_buffer` taking nothing back, which for raw codes is a matter of parity once more
(`RawInv`). `LengthKept` is the step that sends the gap: array, pending space and gap make up
the constant length, for a frame that ends in a pulse; a pending space would come on top.

*What the buffer holds* (`PlanInv`). `SentAsAsked` compares the buffer with a fold over the
whole transmission, so the proof needs induction over data; the induction theorems of the
library take an operator as an argument, which the provers cannot instantiate, and
`AllNaturals` (induction for a *set* of numbers, from the least number outside it) stands in
for them. From it follow one lemma a fold: that `Merged`, `Total` and the frames in a row of
n + 1 entries are those of the first n, and the last one. `Content` is the array with what is
pending, and `Carries` says that it is the merged form of a list of marks; one lemma says
what `Pulse`, `Space`, `Add`, `Sync` and the gap add to it. On that rest three invariants.
`RequestInv`: repeat, the countdown and the toggles agree with the number of frames sent, so
long as no decode came between (`ToggleCounted`: toggle_mask_state counts 0, 1, 2, 3, 2, 3
and only its parity is sent). `CarryInv`: after n frames the buffer carries the first n frames of
the plan with their gaps and what of the frame under way is no longer in `todo`; it includes
what `sum` knows of that frame, since the gap depends on it. `DoneInv`: at the end the plan is
complete, and a refusal has its reason: the buffer only grows, so what does not fit now is too
much in all (`Grows`), and a gap that is not positive is one of the plan's. Theorems:
`LengthKept`, `SentIsAsAsked`, `FailsOnlyThen`.

**DecodeCommandProofs** (`RemoteAssumption`, `DistinctAssumption`). The module has three
layers, each an invariant of its own. *Matching*: `heard` keeps, for each key, the values
that count for it since the last report, and `Longest(values, parts, n)` says that `n` is
the length of the longest beginning of the key, short of the whole, that the values end
with. `NextIsLongest` is the step of a string matcher: the loop of get_code that shifts the
chain against itself (IRRemote.cpp:236-280) finds the longest one again after one more
value. It needs that a complete key has no beginning at its end, which the distinct last
values give. With the types this is `TypeInv` and proves `TypeCorrect` and `LongestMatched`.
*No ghosts*: `OnlyPressed` says what may outlive a press without harm: a repeat signal can
only stand for the pressed key's own code, and an odd toggle state can only be the first half
of a pair of this very press, heard just before. So only the pressed key's last value can
complete a key (`CompletesPressed`), and MessagesDue grows with each report: `NoGhosts`.
*Whole presses*: for a press without a garbled signal, `Counts` relates reps, last_code,
the toggle state and what was heard to the number of signals so far, one part for single
keys, one for chains and XMP, one for pairs. It needs the layers below: that a chain's key
is found at its last value rests on `Longest`, that no other remote answers first on
`OnlyPressed`. Three lemmas take a step, one for a value within a chain, for the last one
and for a half of a pair: `WholePressesReported`.

**ConfigParserProofs** (`MaxIncludesAssumption`, `BoundsAssumption`, `CodeValuesAssumption`).
Every step is first classified by what it does to the stack of frames (`Step`: an edit of
the innermost frame, the start of a remote, an include, a stop, a finish, a return to the
including file, the final test), so that each invariant is proved for seven cases and not
for each kind of line. `ParserInv` joins the types with the shape of the stack (every
frame but the innermost waits in an include, none is deeper than `MaxIncludes + 1`);
`NamesInv` says that a remote without a name is the one being read or one an include
interrupted; `LeakInv` that every allocated remote is owned by exactly one list, one frame or
the result. Theorems: `TypeCorrect`, `ErrorsStay`, `AcceptedComplete`, `NothingLeaked`,
`AcceptedAsWritten`.

*What the files say is what is accepted* (`WrittenInv`). As long as no `rem->next` lost a
successor, no file came within a remote and no error was met, `AllWritten` says that the
finished remotes in all frames together are, once normalised, those at which `end remote` was
read. A remote that was included is normalised when its file returns and again by every file
around it, so the equation survives a return only because a second time changes nothing
(`NormalisedTwice`: REVERSE is gone and toggle_bit is 0). The order needs more than the final
list shows: `SortedIsPermutation` gives that sort_by_bit_count keeps the remotes and, among
those with as many bits, their order (each has the place of its rank, ranks differ, so every
place is taken); `ListsRise` that within a frame remotes with as many bits rise by their
number even though an included list sits sorted between lines of its own; `OldestBelow` that
all a frame has read is older than anything a file it includes reads, so that joining the
sorted list behind it keeps both (`ListsJoined`). At the end one frame is left, in order and
normalised (`Arranged`), which is `ResultAsWritten`.

**ServerProofs** (`MaxClientsAssumption`, `MaxDataAssumption`, `NoneAssumption`,
`ScriptAssumption`). `TypeCorrect` includes that a line buffer never takes the place of its
terminating 0; it rests on `KeptIsShorter`: what the loop over the lines leaves is a part of
the text. `SlotsCorrect` needs `SlotInv`, which adds to `SlotsMatchConnections` that the
backlog holds queued connections, each once, so that an accepted one is in no slot yet; and
`ServedSlotIsSlot`, that the index into `events[]`, though it may name the wrong slot, always
names one.

*What a line buffer holds* (`ReadInv`). The bytes of a client are in three places: the
script it still has to send, the socket's `inbox`, and `clientData` of its slot. For a client
that has sent no blank line, `HoldsLine` says that its buffer is the part of the script from
the last newline up to the bytes `recv` has returned, and has no newline; `InboxHolds` that
the inbox is what follows. `EventMeans` adds that a set event of a slot in use has bytes or
the client's departure behind it. A client just accepted is excepted (`NotServed`) until
`ResetSlot` has cleared what the former occupant left. `CutOffForAReason` follows: without a
gap the event served is the slot's own, so `recv` returns 0 only if the client has left or the
buffer is full, and a full buffer is one line that leaves no room (`FullBufferIsLongLine`).
After a blank line the buffer holds an executed line with the next bytes glued to it, which may
fill it though no line is too long; hence `SentBlankLine` in `ClosedForAReason`.

*Which lines are answered* (`ReplyInv`). The replies are related to a position in the script:
`Answered` says that there is a `k` up to which every line has its reply, and that for a client
being served `k` is where the line in its buffer begins. One step of the loop takes the text
`clientData` and `recv` make together; `LinesOfText` shows that the lines read in it are those
of the script from `LinesTo(c, k) + 1` on, which needs that the n-th newline of a part is the
(m + n)-th of the whole where m come before it (`CountMoved`, `NthFound`). `AnswersKept` and
`SuccessIsValid` give `EachAnsweredRightly`, which speaks of each client by itself: a blank
line of one does not disturb the replies to another. That only a valid command succeeds has one
exception in both theorems as in the code, LIST of an unknown code. `RepliesRight` is the
property of the run. Both assume `NoNegativeNumber`, since the code only tests a transmitter
number against 32 and shifts by it, so that a negative one is accepted; `RepliesRight` also
assumes `NoBlankLine`, without which `server_blank` refutes it.

**BroadcastProofs** (`MessageLengthAssumption` and those of Server). `BroadcastReaches` rests
on `StaysInSlot`: a connection that stays open stays in its slot, whatever the server thread
does with the others. So `PresentServed` can divide the connections that are there all the
time by their slots: those behind `i` have the message or are cut, those before it have
nothing, and the one at `i` has what `length` and `lastSent` say; and `socket` names that
one, since the handle of an open connection is not given away.

Only model-checked: all liveness (`ShutdownCompletes`, `NextDatagramRecovers`,
`ConnectionsHandled`, `LinesAnswered`, `HandlerReturns`, `ReceivesAgain`), which needs
fairness and ENABLED; `HeardAsSent` and `NoOtherCode` of `ReceiveDecode`,
whose readers are RECURSIVE operators.

## 5. Not modelled

- The registry, dialogs, tray icon, debug console; the conversion of the numbers and names
  in remotes.cfg.
- The start, restart and failures of the server's listening socket; ExitInstance, which
  destroys the driver before the server thread is stopped; why the server thread is late when
  KillThread gives up (that it may be is modelled).
- Receivers that deliver whole codes (LIRC_MODE_LIRCCODE) in Receive.cpp, and the numbers a
  code is made of (masks, the message's text).
- The other plug-ins. Their receive halves repeat the ring, the event and the wait of the
  UDP plug-in, which `PluginReceive` models, or poll a vendor's library; what is their own is
  the protocol of a device that the repository does not contain. Audio and Serial compute
  with the time itself: signal levels and busy waits, whose result a model would have to
  assume.
- IRRecord, gen_ir and the tools, which are programs of their own. IRRecord guesses an
  encoding from statistics over what it hears; its emulation of a driver is a copy of
  Common's receive code.
- Vendored code: tinyxml2, libusb examples, the hidpi headers.

## 6. Plan

The order put the behaviour first that several threads or long histories can break. Done:
the receive pipeline, the server with its commands, the broadcast, the driver, the hand-over
of receive threads, the parser, recognition of waveforms, decoding, sending, and the proofs
of section 4. What is left, in this order:

1. **Process**: start and end, tray notification, Server and Driver composed; startServer and
   restartServer with a bind that fails.
2. **LIRCCODE**: receivers that deliver codes, with the 325 ms rule, in ReceiveDecode and
   DecodeCommand.
3. **Other plug-ins** with an order of calls of their own: Tira and Technotrend (callbacks of
   a library during deinit), Serial (polarity and pulse thread).

Abstract specifications worth stating: a press-to-message specification that
DecodeCommand implements, and a mailbox for each client that Server and Broadcast implement.
