# Verification of LTE_monitor_c2xx

TLA+ models of the parts of LTE_monitor_c2xx that carry its own logic, the TLC
configurations that check them, and TLAPS proofs. Paths are relative to the
repository; `modem/` stands for `samsung_lte_tap/modem/`, `kalmia.c` for
`old_kernel_code/kernel/kalmia/kalmia.c`. `PROJECT.json` maps every definition to
the lines it models.

    tlc -config MCAtHandshake_nopin.cfg MCAtHandshake.tla
    tlapm AtHandshakeProofs.tla

## 1. The system

A Samsung GT-B3730/B3740 dongle has two USB interfaces: a modem with AT commands
and a control channel that carries ethernet frames and debug messages. The
**modem manager** `modem/lte` (one thread, libusb) dials up over the first and
relays the second to a TAP device and to GSMTAP. The **old kernel driver** kalmia
did the same in the kernel and gave the debug messages to the program
`kalmiadump` through a FIFO and an ioctl.

| Component (source) | State it keeps | Operations | What makes it correct | Here |
|---|---|---|---|---|
| AT dialogue (`modem/modem.c`, `lte.c`) | `state`, `curstate`, `nwstate`, `cgact_1_0`, `isconn`, the IN transfer | `modem_process`, `modem_response`, `send_at_cmd`, `connected`, `cb_req_modem`, SIGINT handler `unattach` | one command at a time; connected only after the whole script; the attach only after registration; exit only when detached | `AtHandshake` |
| Downlink (`protocol.c`, `tap.c`, `gsmtap.c`, `tapcfg_unix.c`, `cb_req_ctrl`) | static read buffer, the TAP's started/status/hwaddr | `process_response` and its handlers, resubmission | the modem's packets, whole, in order, once; the modem's address on the TAP | `CtrlLink` |
| Uplink (`tap_read`, `lte_send_ctrl`) | `isconn`, the packet being sent | read a packet, frame it, send it | packets whole, in order, at most once; nothing sent that was not read | `EventLoop` |
| Event loop (`process_events_once`, `alloc_fds`, `cb_remove_pollfd`) | `fds`, `nfds`, `tap_fd` | poll, walk the descriptors, hand the rest to libusb | every ready descriptor served; the poll set complete whenever it is polled, though it is replaced in the middle of a walk | `EventLoop` |
| AT parser (`atcmd.c/.l/.y`, the searches of `modem_response`) | scanner start condition, `flexmark`, `args`, `narg`, the read buffer | `at_parse`, its callbacks, `strstr` over the buffer | every line heard once, as it was sent; nothing of an earlier transfer taken for a report | `AtParser` |
| USB set-up (`init_modem`, `release_usb_device`, `main`) | the handle | straight line with one retry loop | no use of a handle that was not opened | hazards only |
| Kernel debug FIFO (`kalmia.c`, `kalmiadump.c`) | `c2xx_fifo`, `read_lock` | `kalmia_rx_fixup` puts, `c2xx_ioctl` takes; `c2xx_init` resets it, not modelled | until it is reset: whole records, in order, once; readers never stuck | `KalmiaFifo` |
| Kernel network side (`kalmia_tx_fixup`, `kalmia_rx_fixup`) | an skb | add and strip frame headers | frames stripped, in order, once; header and padding fit; the loop ends | `KalmiaFrames` |
| USB monitor dump (`usbdump.c`) | lines of the last sequence | print what `/dev/usbmon` delivers | - | no, see 5 |
| Mode switch (`mod_switch/switch.c`) | none | five libusb calls | - | no |
| TAP library ports, hex dump, generated `lex.yy.c`/`y.tab.c`, Wireshark | - | - | - | vendored, generated or display only |

How they interact: `main` loops over `process_events_once` and `modem_process`.
libusb calls `cb_req_modem` and `cb_req_ctrl` from `process_events_once`, and also
from every synchronous transfer, because that handles events while it waits; so a
callback may run in the middle of `modem_process`. Parser, dialogue and downlink
run inside these callbacks and share global variables. `connected()` sets
`isconn`, which opens the uplink. The SIGINT handler runs on top of anything and
calls libusb itself. In the kernel, the receiver is a softirq and the readers are
threads; the FIFO is shared without a common lock.

The hard behaviours are therefore: callbacks inside sends; a command's answer
taken for another's; transfers that cut lines and frames while the buffer keeps
old bytes; results of failed calls that are only printed; a signal handler that
waits for its own thread; readers between the three puts of a record; a FIFO reset
inside a reader's call. `PROJECT.json` lists each at its line.

## 2. The modules

| Module | What it is |
|---|---|
| `AtScript` | what the dial-up promises: steps issued one at a time, up only at the end |
| `AtHandshake` | the dialogue as coded, its disturbances, its properties |
| `AtHandshakeProofs`, `AtHandshakePinProofs` | theorems about `AtHandshake`; the second has those that also hold with a PIN |
| `CtrlLink` | the downlink as coded |
| `CtrlLinkProofs` | theorems about `CtrlLink` |
| `RecordQueue` | what the kernel FIFO and the uplink promise: records whole, in order, once, any of them lost |
| `KalmiaFifo` | the FIFO as coded, implements `RecordQueue` |
| `KalmiaFifoProofs`, `KalmiaFifoQueueProofs` | theorems about `KalmiaFifo`; the second has the refinement |
| `EventLoop` | the main loop, the poll set and the uplink as coded, implements `RecordQueue` |
| `EventLoopProofs` | theorems about `EventLoop` |
| `AtParser` | scanner, grammar and the searches in the read buffer, transfer by transfer |
| `AtParserProofs` | theorems about `AtParser` |
| `KalmiaFrames` | the lengths and offsets of the two fixup functions |
| `KalmiaFramesProofs` | theorems about `KalmiaFrames` |
| `MC...` | the instances for TLC |

The four models of the manager meet in what they leave to each other. `AtParser`
says what a transfer of the modem endpoint makes of its bytes; `AtHandshake` takes
from it that a transfer yields any number of the OKs in it up to all, and that
`nwstate` only grows. `EventLoop` says when a callback runs and that its transfer is
submitted again; `AtHandshake` and `CtrlLink` say what the callback does. `isconn`,
set by `connected` in `AtHandshake`, is the gate of the uplink in `EventLoop`, where
`connected` may happen at any pass.

Operators with a name such as `Connect_Early`, marked *Mutant*, are the code with
one plausible mistake. They are used in no specification; each stands for a mistake
that one property is known to notice.

### AtHandshake

Variables have the names of the C globals; `pc` is the place of the main loop
(`events` = in `process_events_once`, `process` = `modem_process` up to its first
send, `pin`/`send` = inside a send), `sig` that of the handler, `posted` tells
whether the IN transfer is submitted. The modem and libusb are external. The byte
stream to the manager is kept as what the manager reacts to: a number of OKs, the
set of reported network states, the line `+CGACT:1,0`.

| Actions | Code |
|---|---|
| `EndEvents`, `ProcessStep`, `PinReturns`, `SendReturns`, `Connect`, `ProcessIdle` | `main` 484-488, `modem_process` cut at each send, where callbacks may run |
| `Receive`, `ReceiveError`, `ReceiveNoDevice` | the three ends of `cb_req_modem`, each with its resubmission |
| `Sigint`, `ByeReturns`, `HandlerExits` | `unattach` |
| `Modem...` | the dongle: accepts, refuses, detaches, reports |

`curstate = state` is executed behind the send and takes the `state` of that moment.
The branch under `err` is not modelled: nothing sets `err`, and `error_cb` is NULL.
When lines are cut (`garbled`), OKs may be lost, and the digit of a network state or of
the answer to `AT+CGACT?` may be one that an earlier transfer left in the buffer. That a
later scan finds a whole line of a transfer that failed is left out: the modem did send it,
and no property depends on when it is found.
The constant `May` selects what may go wrong (9 disturbances, listed in the
module); a run or a theorem that leaves one out says so.

### CtrlLink

The read buffer is kept word by word (a word is two bytes), because the hazard is
that words of an earlier transfer are taken for words of this one. A word is known
by the frame it comes from and its place in it, not by its value; payloads are cut
to one word. `Receive` is the whole of `cb_req_ctrl`: fill the buffer, walk it as
`process_response` does, apply each frame, resubmit. The walk trusts the length
field it reads, wherever that lies, behind the buffer too. `past` remembers whether
a transfer was cut or an ioctl failed in a way that changed an output, so that one
run checks both what holds of whole transfers and what holds after any. A transfer that
fails (`ReceiveError`) may have put words into the buffer, which are not read and gone from
the wire. Two approximations: a transfer has an even number of bytes, and payload words never
look like the start of a frame.

### EventLoop

`pc` is the place in `main`'s loop: `poll`, `walk` (the `for` of
`process_events_once`, at descriptor `i`), `sending` (in `lte_send_ctrl`, called by
`read_tap` in the walk), `events` (`libusb_handle_events_timeout`), `process`
(`modem_process`), `atsend` (in `lte_send_modem`).

| Actions | Code |
|---|---|
| `Poll`, `PollInterrupted` | the `poll` of line 239 and its error return |
| `WalkLibusb`, `WalkIdleTap`, `WalkTap`, `WalkEnd` | the walk, one descriptor a step |
| `SendReturns` | the end of the transfer of `lte_send_ctrl`: sent, timed out, or refused |
| `Events`, `NestedEvents` | libusb handling events, from the loop or inside a synchronous transfer: callbacks, resubmission, `cb_remove_pollfd` with `alloc_fds` |
| `ProcessIdle`, `connected`, `SendAt`, `AtTaken`, `AtFails` | what `modem_process` may do |
| `PacketArrives`, `TapDeleted`, `Complete`, `Unplug` | the network stack and the dongle |

`alloc_fds` frees the array that the walk is over and puts a new one in the global
that the walk reads: the model replaces `fds` under the walk and leaves `i` where it
is. `cb_add_pollfd` is called only while the device is opened, before the loop.
No transfer with a timeout is pending when the loop polls, so that
`libusb_get_next_timeout` has nothing to report there.

### AtParser

A stream of lines is cut into transfers anywhere; `Transfer(n)` is the whole of
`modem_response` for n characters. The scanner is a fold over the characters that
ends a word with the longest match (`Word`), knows the two start conditions and drops
what no rule takes. The grammar is regular; `Arcs` is its automaton, and what has no
arc is a syntax error, behind which the rest of the transfer is not read. `Gives`
states, independently of scanner and grammar, what each line is meant to give.
Scanner start condition, `flexmark` and `args` survive the transfer, `state` of the
automaton does not. The buffer keeps the characters of earlier transfers and the
zero that `modem_response` writes behind its scan. Names are shortened to a letter, and
a character that is no letter or digit has its name ("plus", "CR"). `End(k)` is the place
in the stream behind line k.
Which handler gets a line is left out: all handlers registered by `modem_at_init`
print and change nothing but what `AtHandshake` has.

### KalmiaFifo

`RxStart`, `RxLen`, `RxData` are the three `kfifo_in` of `kalmia_rx_fixup` with the
one comparison of the room before them; `Lock`, `FetchStart`, `FetchLen`, `FetchData`
the ioctl; `FetchFault` its -EFAULT returns. A call of a reader (`kfifo_out`,
`kfifo_to_user`) has two steps: `Begin` looks how much there is, and the end of the call,
in each `Fetch...`, moves `out` over what was copied; the receiver may put between, and
finds the room that `out` still leaves. What was copied is gone, also when the ioctl then
fails. All these steps interleave freely;
what one processor does (the receiver, a softirq, runs to its end before a reader goes
on) is among these behaviours, and `during` in `fetched` tells where the receiver was when
the call looked.

The FIFO is not reset. `INIT_KFIFO` in `c2xx_init` takes no lock (kalmia.c:537), and a
reader may be inside a call at that moment, asleep in a page fault for example; its
`out += n` then leaves `out` ahead of `in`, and the FIFO promises nothing any more (see
6). All that is checked and proved of it is for the time until the dongle is plugged in
again.

Cells are two bytes: the start word 0x55AA55AA has two equal halves, so a reader off by
one cell is possible and modelled. Data is assumed not to contain the start word.

### KalmiaFrames

One behaviour is one call. A packet is a sequence of parts with a length field and
the bytes that really follow, cut anywhere. `HeadersAt(d)` is what the driver can find
at byte d: the part that begins there, or anything if none does. `ToDebug`,
`LastFrame` and `NextFrame` are the three ways through the loop body of
`kalmia_rx_fixup`, `usb_packet_length` is 16 bits wide, `skb_pull` and `skb_trim` do
nothing when the skb is too short (Linux). No call gets more than `rx_urb_size` bytes,
the size of the buffer kalmia.c:187-188 asks usbnet for: it is what keeps the 16-bit
length of a packet from wrapping before the loop begins. `kalmia_tx_fixup` is one step for any
length, headroom, tailroom and sharing. What the debug FIFO does with a record is in
`KalmiaFifo`; here it takes it or has no room.

## 3. The runs

| Run | Question | Result |
|---|---|---|
| `handshake_nopin` | no PIN, every disturbance: does the dialogue keep its promises? | `TypeOK`, `HandshakeInv`, `ConnectedAfterScript`, `StopAndWait`, `SpinIsFinal` hold and it implements `AtScript` |
| `handshake_pin` | with a PIN: what is left of them? | at most one step of the script is missed (`ConnectedMissesOne`), at most two commands are outstanding, none is sent twice, the attach follows a registration, Control-C exits detached |
| `handshake_live` | nothing fails, no answer is handled inside a send | the dialogue gets connected |
| `handshake_live_pin` | a PIN, answers inside sends | it gets connected or stalls in the one way described by `Stalled` |
| `handshake_apn` | with a PIN, is the APN always configured? | **no**: see 6 |
| `handshake_swallowed` | is it enough that the modem accepts everything? | **no**: see 6 |
| `link` | transfers end anywhere or fail, ioctls and submissions fail: what of the downlink is left? | as long as transfers end with a frame, exactly the modem's packets and messages, in order, once (`NoSplice`), and the modem's address before them (`AddressOfModem`); whatever was misread before, the next whole transfer is parsed exactly (`Resync`) |
| `fifo` | any number of processors, page faults, no reset | the FIFO implements `RecordQueue`; a fetch gives all of a record's data or none; the readers always reach the end of the FIFO |
| `fifo_whole` | is a reported event there? | **no**: see 6 |
| `event_loop` | poll set replaced in the walk, TAP deleted, transfers failed or timed out, dongle unplugged | what is polled is complete, what was reported is handled, the uplink implements `RecordQueue`; TAP and endpoints are served for ever, an unplugged dongle leaves the poll set; no deadlock |
| `parser` | lines of 11 kinds cut into transfers anywhere | callbacks get what was sent, reports survive stale bytes; the scanner goes deaf in the ways described by `DeafOnlyByQuotation` and `DeafUntilQuote`, and in no other |
| `frames` | packets of 3 parts cut anywhere, frames with every split of the room | frames are passed on stripped, in order, once; header and padding fit; each round that begins with 12 bytes or more shortens the packet |

**Bounds.** `AtHandshake` has none but the program's own 18 steps; the network
states are one on either side of the threshold of modem.c:130. `CtrlLink` checks
all sequences of 3 frames of 6 kinds: with three, one frame brings the TAP up, one is
misread and one is checked. Its buffer of 9 words holds an
address message and a packet, so the buffer limit and stale words both occur.
`KalmiaFifo` has 2 readers, 3 records of 1 or 2 cells and 11 cells of room,
so that a second or third record is refused, at every remaining room.
`EventLoop` is bounded by 3 packets alone (one being sent, one waiting, one to come);
everything else of it is finite. `AtParser` has all pairs of the 11 kinds of lines and
all triples of an OK and two quotations, in up to three transfers: a line cut, one
scanned in the state that left, one behind it. `KalmiaFrames` has lengths below and
above two headers and one that is found in a length field only; rooms of 0 to 11 are
on both sides of each comparison, also of the sum.

**Deadlock** is not an error where the real thing may stop: a script that got no
answer with a dead endpoint, a handler that spins, a modem that sends no more, a call
that has returned. `event_loop` checks it: the main loop never stops.

**Fairness.** `AtHandshake`: `WF(MainLoop)`, the `while(1)` of `main`, whose calls all
return; `WF(ModemAccepts)` and weak fairness of a report above 3, the assumption
that the modem answers and the network is there; `SF(Drain)`, the endpoint is emptied
again and again, as each pass through `process_events_once` handles the completed
transfer and submits it anew (strong, since the loop is at `events` only now and
then). `EventLoop`: `WF(MainLoop)` as above; `SF(Poll)`, signals do not interrupt
every poll; `WF(NestedEvents)`, libusb handles events while a synchronous transfer
waits. That the modem takes an AT command is not assumed, as the transfer has no
timeout: `TapServed` names the case. `KalmiaFifo`: weak fairness of the readers
together, `kalmiadump`'s `while (1)` over the ioctl. Nothing is assumed of the other
actors.

## 4. What is proved

`AtHandshakeProofs` proves, for every script length and place of the special steps,
every set of network states and every set of disturbances, under
`HandshakeAssumption` alone (the special steps are naturals in the order they have
in the table):

| Theorem | Statement |
|---|---|
| `TypeCorrect` | `Spec => []TypeOK` |
| `HandshakeInvariant` | `Spec => []HandshakeInv` |
| `ConnectedAfterScriptHolds` | no PIN: `connected()` only after every step was accepted |
| `StopAndWaitHolds` | no PIN: a command is written only when all before it are accepted and their OKs consumed |
| `ScriptImplemented` | no PIN: `Spec => ScriptSpec`, the dialogue refines `AtScript` |
| `SpinIsFinalHolds` | a handler that spins before `cgact_1_0` is set never leaves |
| `ExitOnlyWhenDetachedHolds` | Control-C ends the process only when the modem has detached, unless AT+CGACT? was answered `+CGACT:1,0` |
| `AttachAfterRegistrationHolds` | AT+CGATT=1 is written only after a state above 3 was reported, if reports arrive whole |

`ConnectedAfterScript` is not inductive: that `state` exceeds 18 says nothing unless
each increment is known to answer a distinct command. `HandshakeInv` says so: the
commands written are `1..Len(sent)`, all accepted but perhaps the last; while no
signal came, `state` counts the accepted steps, at most one OK is in the endpoint and
then it is for the step `state`, and a step not yet handled is not yet written. Once
a signal came the main loop is frozen and only the first part is needed. Proof: one
lemma for the steps that write, for a callback, for an acceptance, for `Connect`;
`NextInv` puts them together. The refinement maps `issued` to `Len(sent)` and
`accepted` to the cardinality of `acked`, which the invariant makes an interval.
Exits and attaches have small invariants of their own (`ByeInv`, `NoticeInv`,
`ReportInv`).

`EventLoopProofs` proves, for any number of packets and every set of disturbances,
under `LoopAssumption` (the bound is a natural, the disturbances are known ones):

| Theorem | Statement |
|---|---|
| `LoopTypeCorrect` | `Spec => []TypeOK`; with it, the walk reads no descriptor that is not there |
| `PollSetCurrentHolds` | `poll` gets the descriptors libusb has now, and the TAP |
| `ReportsHandledHolds` | nothing that `poll` reported is left unhandled when the pass ends |
| `ShortOnlyWhenDeletedHolds` | a frame without a packet goes up only when the TAP was deleted |
| `UplinkImplemented` | `Spec => UplinkSpec`: the uplink refines `RecordQueue` |

A reported descriptor lives in three places in turn: the `revents` of a descriptor the
walk has still to reach, `process_libusb`, and the call that handles it. `LoopInv`
follows it: the set is always libusb's descriptors, then the TAP (`PollSetInv`), so
the TAP is the last one walked, and when the set is replaced inside its send (`NestedEvents`) nothing
behind it loses its `revents`; what is reported is ahead of the walk or noted
(`WalkInv`); the TAP is read only if it has a packet or was deleted (`TapInv`). The
place of the TAP in the set, a detail of `alloc_fds` that no comment mentions, is what
`ReportsHandled` rests on. There is one lemma per action. For the refinement, the
queue is the packet being sent before those in the TAP (`Waiting`); a packet dropped
before the connection or by a failed send is a `Lose` of the first record, a deleted
TAP one of all records behind the packet being sent.

`AtHandshakePinProofs` adds what holds with and without a PIN, under
`HandshakeAssumption`:

| Theorem | Statement |
|---|---|
| `CommandsOnceHolds` | no command is written twice |
| `TwoOutstandingHolds` | at most two commands are without an answer |
| `ConnectedMissesOneHolds` | connected only when all steps but at most one were accepted |

`HandshakeInv` does not hold here: with two commands outstanding, an OK no longer tells
which it answers. `DialogueInv` counts instead. Each OK, consumed or still in the
endpoint, goes back to an accepted command, so `state - 1 + okline` is at most the
number of accepted commands; every command written is a step up to `Mark` (`curstate`,
or `state` inside a send) or the PIN, so a step above `Mark` is new; the PIN is written
once, as it leaves `curstate` at its step. Of the commands accepted, one may be the
PIN and not a step, which is the step `connected()` may miss.

`CtrlLinkProofs` proves, for every sequence of frames of the six kinds, every size of the
read buffer that holds a frame and every set of disturbances (`LinkAssumption`):

| Theorem | Statement |
|---|---|
| `LinkTypeCorrect` | `Spec => []TypeOK` |
| `NoSpliceHolds` | while every transfer ended with a frame, what goes up is whole packets and messages of the modem, in order, once |
| `AddressOfModemHolds` | the TAP's address is one the modem sent, before any packet that goes up; a TAP that is up has one |
| `ResyncHolds` | with the TAP up, a transfer of whole frames hands over exactly the packets it has, whatever was misread before |

`LinkInv` says of the words still to come that they are whole frames but for a first one
that was cut, in order (`WireInv`), of the buffer that its words are words of frames, and,
while nothing was cut, of what was handed over that it is below everything to come
(`GoodOut`). The heart is the walk of `process_response`, a recursive function over the
places of the buffer. A transfer that begins with a frame is walked frame by frame:
every frame that lies wholly in it and before an end marker is met (`WalkMeets`), nothing
else is (`FrameBefore`, `AlignedWalk`), and the walk stops at the first end marker or with
the transfer (`WalkStops`), so that the old words behind it are never read. For
`Resync` the packets handed over are then counted against the frames of the transfer
by a bijection.

`KalmiaFifoProofs` and `KalmiaFifoQueueProofs` prove, for every set of readers,
every capacity, any lengths and number of records (`FifoAssumption`), as long as the FIFO
is not reset:

| Theorem | Statement |
|---|---|
| `FifoTypeCorrect` | `Spec => []TypeOK`; the FIFO never holds more than its capacity, no call takes more than there is |
| `FetchesRecordsHolds` | a fetch gives the data of one record, whole, or none at all if the receiver had just put the length |
| `QueueHolds` | `Spec => QueueSpec`: the FIFO refines `RecordQueue` |

`FifoInv` has five parts. Each cell in the FIFO is followed by the rest of its record as
far as that was written, and then by later records, and the room the receiver checked
once is still there at its second and third put (`DataInv`); who is in the ioctl holds
the lock (`LockInv`); a reader between two takes is at the right cell
of a record, or has overtaken the receiver and finds the FIFO empty (`PlaceInv`); a call
takes no more than there is, and the last one of an ioctl takes what it wanted, or nothing
if the receiver was about to put it (`CallInv`); the fetches made so far are good ones
(`FetchedInv`). The second case of `PlaceInv` is the interleaving of section 6, and it is
why the invariant speaks of the receiver's place. For the refinement, the waiting records are those complete in the FIFO with
their first cell, and the one a reader has begun. The receiver's last put is
a `Put`, or nothing if the record's beginning is gone; a take of data is a `Take`, and
everything else that removes cells is a `Lose` of the first waiting records or a stutter.

`KalmiaFramesProofs` proves, for every set of lengths of 16 bits, every rooms of a
skb and any number of parts and rounds (`LengthsAssumption`, `RoomsAssumption`,
`BoundsAssumption`):

| Theorem | Statement |
|---|---|
| `FramesTypeCorrect` | `Spec => []TypeOK` |
| `TxFramedHolds` | header and padding fit into the skb however the room was made; the length field and the alignment are right |
| `LoopShortensHolds` | every round of the receive loop that goes on shortens the packet, unless fewer than 12 bytes are left |
| `FramesDeliveredHolds` | the frames of a packet are passed on stripped, in order and none twice; all of them if the call succeeds |

`RxInv` adds to the types that nothing is passed on before the loop begins and that
the debug FIFO gets its record in the last round. That a round shortens the packet,
although `usb_packet_length` is computed modulo 2^16 and `skb_pull` does nothing
when it is asked for too much, is a case split on the three ways through the loop body.
`DeliveryInv`, for `FramesDelivered`, says that in a packet of whole frames the skb begins
at a frame in every round and that what was passed on are the frames before it, in
order. No length wraps on the way, which needs `rx_urb_size`.

`AtParserProofs` proves, for every set of conversations of the eleven kinds of lines and
every number of transfers (`ParserAssumption`):

| Theorem | Statement |
|---|---|
| `TypesHold` | `Spec => []TypeOK` |
| `HandledAsSentHolds` | wherever the transfers end, an OK, an ERROR or a response is called back for a line that is one, with the arguments of that line alone |
| `ArgsOfOneLineHolds` | the argument count never grows over more than one line |
| `DeafOnlyByQuotationHolds` | the scanner is left inside a quotation only by a line with a quote that was cut, or by a hyphen in a quotation |
| `HearsWholeLinesHolds` | a transfer of whole lines, begun outside a quotation, calls back what each of them gives |
| `DeafUntilQuoteHolds` | a scanner left inside a quotation hears nothing and stays there until a transfer has a quote before every other text |
| `StateFromReportsHolds` | if no report was cut, `nwstate` and `cgact_1_0` are those of the reports that arrived, whatever is left in the read buffer |

`ScannerInv` has the types of the scanner; `TypeOK` follows with `BufferInv`, which adds
that the buffer holds bytes of the stream and zeros and that `find_nws` returns a natural.
For `DeafUntilQuote` those are enough: no arc of the grammar leads from the start of a
line by a quoted text (`NoLineBeginsQuoted`), so the first text is a syntax error, and
behind one the scanner does not move.

The four properties of the callbacks need the automaton followed through the eleven lines
from every place a transfer may begin. `Partway(p, l, o)` says what scanner and automaton
are when the first o characters of line l were taken from the start of the line: one
table for each part of a line (`InName`, `InNumbers`, `InQuoted`, `InDash`, `InEcho`,
...). `Lost` is the scanner that follows no line: behind a syntax error, in a quotation no
line begins with, in the rest of a line that was cut, in a word or a line end there. A
lemma for each table shows that the next character of the line leads to its next row or,
in a hyphen's quotation, to a syntax error; another that who is lost stays lost or stands
at the beginning of a line. `Track` says that every place of a transfer begun with a line
is `Partway` through one, with the callbacks of the lines before it, unless a hyphen came.
`ParserInv` is what is left of that between transfers: start condition and arguments as a
whole or a cut line leaves them (`Excuse` names the line to blame for a quotation),
callbacks as in `HandledAsSent`, at most one for each line and none beyond `pos`.

`StateFromReports` is about bytes and not lines. `Traced` says of the buffer that each byte
but a zero has a place in the stream, and that the byte behind it is of the next place
unless a transfer ended there. A transfer keeps that (`TransferTraced`): the new bytes end
where it does, then comes a zero, and what lies behind that is a rest of the old buffer. So an occurrence of a pattern in the buffer lies in one line, up
to the next cut. A report that was not cut is therefore found with its own digit
(`ReportAt`, `ReportText`), none is found that did not arrive (`ReportsFrom`), and the ones
of this transfer are all found (`ReportsOf`), as the zero written behind a transfer never
falls on bytes the search still has to reach. `StateInv` says what the two numbers are
then; a report found again among stale bytes is one already counted.

The names of the model have one letter, so the rest of a cut echo is never a command here.
With the real ones it can be (the rest of `AT+CGATT=1` behind `AT+CG` begins with AT),
which is why `HandledAsSent` says of a command only where its line ends.

**Recursion and folds.** A recursive function, or a fold of the community modules, is a
CHOOSE of a function that satisfies an equation. That there is one is shown by the
least number for which there is none (`LeastNumber`, from the well-foundedness of < on
the naturals), and so is what holds of every step: no induction theorem that takes an
operator is needed (`FoldGoesOn`, `FoldExists`, `FoldStepwise` in `AtParserProofs`, which
state it once for the scanner, the spelling of lines and `atoi`; the like for the walk in
`CtrlLinkProofs`).

**Only model-checked**: liveness (`EventuallyConnected`, `ConnectedOrStalled`,
`TapServed`, `EndpointsServed`, `UnplugNoticed`, `Drained`) and with it ENABLED and
fairness, out of the prover's reach, and the three runs that end in a violation. Every
invariant and action property of a run is a theorem, and so are the refinements.

## 5. Not modelled

* USB set-up (`init_modem`, `release_usb_device`, `main` before its loop), the mode
  switch and the set-up messages of kalmia: straight lines of calls whose failure
  paths are listed as hazards.
* `usbdump.c`: another project's tool that prints what `/dev/usbmon` delivers; no
  state of the system passes through it.
* `src/wireshark`, a vendored copy of Wireshark, is more than 99% of the repository's
  lines. The dissectors for the C2XX messages display a packet and keep no state of
  the system. Measured against the whole repository the map therefore covers next to
  nothing; of the manager and the kernel driver it covers what has state.
* The TAP library beyond `tapcfg_iface_set_status`, `tapcfg_iface_set_hwaddr`,
  `tapcfg_read` and `tapcfg_write`; the ports to other operating systems; the
  generated `lex.yy.c` and `y.tab.c` (`atcmd.l` and `atcmd.y` are modelled); output.
* The reset of the debug FIFO when the dongle is plugged in again (see 2); that the dialogue goes on
  after a failed submission (lte.c:379): it never does, so the runs about getting connected
  exclude one. A manager without a TAP (lte.c:293) is modelled, but no property is about it.
* A second dongle on the kernel driver; replies longer than the read buffer; the
  bytes of an uplink header (tap.c:50-55); the ownership of a skb.

## 6. Where code and documentation disagree

* **The PIN shifts the script** (`handshake_apn`; modem.c:116). With `-p` two commands
  are outstanding from step 10 on. When two OKs arrive in one transfer, a step is
  skipped; the run skips step 17 and the manager connects without the APN that
  README.md:66 requires.
* **An early OK is swallowed** (`handshake_swallowed`; modem.c:143). If the OK is handled
  inside the send of its own command, `curstate = state` marks the next step as done
  and the dialogue never goes on.
* **A fetched event without data** (`fifo_whole`; kalmia.c:453). A reader on another
  processor overtakes the receiver; the ioctl reports `nfetch = 1` (kalmiadump.c:24:
  "Number of events to fetch (out: fetched)") and copies nothing.

Seen while modelling, in parts no doc or test says anything about:

* The AT parser goes deaf, for good with the replies this modem gives, when a
  transfer ends inside a quotation, and when a quotation has a character atcmd.l:34 does
  not take: the text behind it is a syntax error, and the start condition is not reset
  for the next transfer (`DeafOnlyByQuotation`, `DeafUntilQuote`). An APN with a hyphen
  is such a quotation, in the echo of AT+CGDCONT.
* The uplink headers differ: the manager writes the frame's length plus two and bytes 6
  and 7 of the frame (tap.c:52-55), the kernel driver the length and bytes 12 and 13, the
  ethernet type (kalmia.c:247-253).
* A debug message is put into the FIFO and also handed to the network stack as a
  frame (kalmia.c:333).
* `INIT_KFIFO` inside a call of a reader (kalmia.c:537 and 437-453) leaves `out` ahead of
  `in`: `kfifo_len` is near 2^32, old records come out again and new ones are overwritten.
* With fewer than 12 bytes left, the receive loop of the kernel driver computes a
  length that wraps and may not advance (kalmia.c:348); `LoopShortens` excludes it.
* `device_disconnected` is set only by a transfer that ends with NO_DEVICE. It stays 0
  if both transfers had completed when the dongle went; nothing reads it (lte.c:373).

## 7. What is left

No invariant or action property of a run is without a theorem. What could follow:

* what is listed in section 5, of it the retries of `init_modem` and the ownership of a skb
  in the fixup functions first, and the debug FIFO as a ring with `in` and `out` of 32 bits,
  in which a reset could fall into a call;
* the four models of the manager composed: that a transfer gives `AtHandshake` no more than
  `AtParser` makes of it is argued in section 2, not checked.
