------------------------------ MODULE CtrlLink ------------------------------
(***************************************************************************)
(* The downlink of the modem manager: the frames of the modem arrive in    *)
(* bulk IN transfers of the control endpoint, and process_response         *)
(* (protocol.c) splits each transfer into ethernet packets for the TAP,    *)
(* messages for GSMTAP and the MAC address of the TAP (tap.c).             *)
(*                                                                         *)
(* read_buffer_ctrl is static: a transfer overwrites its start and leaves  *)
(* the rest, and the parser trusts the lengths it reads.  So the model     *)
(* keeps the buffer, in words of two bytes.  A word is known by where it   *)
(* comes from: word o of frame f (f = 0: from no transfer).                *)
(***************************************************************************)
EXTENDS Integers, Sequences, FiniteSets, SequencesExt

CONSTANTS
  Debug,      \* TRUE iff a GSMTAP host was given (-d)
  BufSize,    \* words in read_buffer_ctrl (0x2000 in the program)
  Kinds,      \* the kinds of frames the modem sends
  MaxFrames,  \* bound: frames the modem sends
  May         \* the disturbances that may happen, see Disturbances

Disturbances ==
  { "cut",     \* a transfer ends inside a frame
    "error",   \* a transfer fails and is submitted again
    "gone",    \* the device disappears
    "submit",  \* libusb_submit_transfer fails
    "notap",   \* create_tap failed: the manager goes on without a TAP
    "ioctl" }  \* an ioctl on the TAP interface fails

\* The frames: word 0 is 0x57 and the type, word 1 the length field, and the
\* whole has "size" words.  The payloads are cut short: one word of packet, one
\* of address.  A P frame carries an address by its length field, an end marker
\* is followed by 0x08 (protocol.c:29-30, 65).
Shape ==
  [data |-> [type |-> "D", field |-> 1, size |-> 4],
   conf |-> [type |-> "C", field |-> 0, size |-> 3],
   mac  |-> [type |-> "P", field |-> 2, size |-> 5],
   info |-> [type |-> "P", field |-> 0, size |-> 3],
   end  |-> [type |-> "Z", field |-> 0, size |-> 3],
   odd  |-> [type |-> "?", field |-> 1, size |-> 3]]

ASSUME LinkAssumption ==
  /\ Debug \in BOOLEAN
  /\ Kinds \subseteq DOMAIN Shape
  /\ BufSize \in Nat /\ \A k \in Kinds : Shape[k].size <= BufSize
  /\ MaxFrames \in Nat
  /\ May \subseteq Disturbances

VARIABLES
  frames,     \* kinds of the frames the modem has sent, in order
  wire,       \* words in the IN endpoint
  buf,        \* read_buffer_ctrl
  posted,     \* req_transfer_ctrl is submitted
  tap,        \* started, up, and the words its address was set from
  written,    \* packets written to the TAP while it was up
  gsm,        \* messages sent to the GSMTAP host
  past        \* history: a transfer was cut ("cut"), an ioctl failed ("ioctl")

vars == <<frames, wire, buf, posted, tap, written, gsm, past>>

Words == [f : 0..MaxFrames, o : 0..4]

TypeOK ==
  /\ frames \in Seq(Kinds) /\ Len(frames) <= MaxFrames
  /\ wire \in Seq(Words)
  /\ buf \in [0..(BufSize - 1) -> Words]
  /\ posted \in BOOLEAN
  /\ tap \in [started : BOOLEAN, up : BOOLEAN, hwaddr : Seq(Words)]
  /\ written \in Seq(Seq(Words)) /\ gsm \in Seq(Seq(Words))
  /\ past \subseteq {"cut", "ioctl"}

Outcomes(failure) == {TRUE} \cup (IF failure \in May THEN {FALSE} ELSE {})

Init ==
  /\ frames = << >> /\ wire = << >>
  /\ buf = [i \in 0..(BufSize - 1) |-> [f |-> 0, o |-> 0]]
  /\ posted = TRUE
  /\ tap \in [started : Outcomes("notap"), up : {FALSE}, hwaddr : {<< >>}]
  /\ written = << >> /\ gsm = << >> /\ past = {}

-----------------------------------------------------------------------------
(* process_response: the frames it finds, and what it does with each.      *)

\* A word that came in no transfer has its value as o; payload words are 0.
FieldOf(w) ==
  CASE w.f = 0 -> w.o
    [] w.f # 0 /\ w.o = 1 -> Shape[frames[w.f]].field
    [] OTHER -> 0

Starts(w) == w.f # 0 /\ w.o = 0
TypeOf(w) == Shape[frames[w.f]].type

\* check_len: the header, the length field, and one word more for a known type.
CheckLen(m, p) == 2 + FieldOf(m[p + 1]) + (IF TypeOf(m[p]) \in {"C", "D", "P"} THEN 1 ELSE 0)

\* Mutant: the loop runs to the end of the buffer instead of the received words.
Walk_WholeBuffer(m, n) ==
  LET from[p \in Nat] ==
        IF p < BufSize /\ Starts(m[p]) THEN <<p>> \o from[p + CheckLen(m, p)] ELSE << >>
  IN  IF n < 2 THEN << >> ELSE from[0]

\* Mutant: return behind the first frame (the line commented out, protocol.c:87).
Walk_FirstOnly(m, n) == IF n < 2 \/ ~Starts(m[0]) THEN << >> ELSE <<0>>

\* The places of the frames in the buffer m that n received words make: the loop
\* ends behind the received words, and at a word that starts no frame.
Walk(m, n) ==
  LET from[p \in Nat] ==
        IF p < n /\ Starts(m[p]) THEN <<p>> \o from[p + CheckLen(m, p)] ELSE << >>
  IN  IF n < 2 THEN << >> ELSE from[0]

Slice(m, from, to) == [i \in 1..(to - from) |-> m[from + i - 1]]

\* Mutant: the interface is brought up first.
tap_set_macaddr_UpFirst(t, addr, hwOK, upOK) ==
  LET u == t.up \/ (t.started /\ upOK)
  IN  [t EXCEPT !.hwaddr = IF t.started /\ ~u /\ hwOK THEN addr ELSE @, !.up = u]

\* tap_set_macaddr: the address is set only while the interface is down, and
\* the interface is brought up whether or not that worked.
tap_set_macaddr(t, addr, hwOK, upOK) ==
  [t EXCEPT !.hwaddr = IF t.started /\ ~t.up /\ hwOK THEN addr ELSE @,
            !.up = @ \/ (t.started /\ upOK)]

\* What the frame at p does to the outputs s, for given outcomes of the ioctls.
\* A write to a TAP that is down fails.
Handle(m, s, p, hwOK, upOK) ==
  LET end == p + CheckLen(m, p) IN
  CASE TypeOf(m[p]) = "C" /\ Debug -> [s EXCEPT !.gsm = Append(@, Slice(m, p, end))]
    [] TypeOf(m[p]) = "D" /\ s.tap.up -> [s EXCEPT !.written = Append(@, Slice(m, p + 3, end))]
    [] TypeOf(m[p]) = "P" /\ FieldOf(m[p + 1]) = 2 ->
         [s EXCEPT !.tap = tap_set_macaddr(@, Slice(m, p + 4, p + 5), hwOK, upOK)]
    [] OTHER -> s

\* The first n words of the endpoint end with a whole frame.
Whole(n) == n < Len(wire) => wire[n + 1].o = 0

\* The outputs of a transfer of n words, for given outcomes of the ioctls.
Outputs(m, n, hwOK, upOK) ==
  FoldLeft(LAMBDA s, p : Handle(m, s, p, hwOK, upOK),
           [tap |-> tap, written |-> written, gsm |-> gsm], Walk(m, n))

process_response(m, n) ==
  \E hwOK, upOK \in Outcomes("ioctl") :
    LET out == Outputs(m, n, hwOK, upOK)
    IN  /\ tap' = out.tap /\ written' = out.written /\ gsm' = out.gsm
        /\ past' = past \cup (IF Whole(n) THEN {} ELSE {"cut"})
                       \cup (IF out = Outputs(m, n, TRUE, TRUE) THEN {} ELSE {"ioctl"})

-----------------------------------------------------------------------------
\* The modem sends a frame.
ModemSends(k) ==
  /\ Len(frames) < MaxFrames
  /\ frames' = Append(frames, k)
  /\ wire' = wire \o [i \in 1..Shape[k].size |-> [f |-> Len(frames) + 1, o |-> i - 1]]
  /\ UNCHANGED <<buf, posted, tap, written, gsm, past>>

Resubmit == posted' \in Outcomes("submit")

\* Mutant: the buffer holds nothing but the transfer.
Filled_Exactly(n) == [i \in 0..(n - 1) |-> wire[i + 1]]

\* The buffer after a transfer of n words.
Filled(n) == [i \in DOMAIN buf |-> IF i < n THEN wire[i + 1] ELSE buf[i]]

\* What follows the buffer in memory: words of any value, here a length field
\* of 0 or of an address message.
Beyond(m, stray) ==
  [i \in 0..(BufSize + 4) |-> IF i \in DOMAIN m THEN m[i] ELSE [f |-> 0, o |-> stray]]

\* cb_req_ctrl with a completed transfer.
Receive ==
  /\ posted
  /\ \E n \in 1..Len(wire) :
       /\ n <= BufSize
       /\ "cut" \notin May => Whole(n)
       /\ wire' = SubSeq(wire, n + 1, Len(wire))
       /\ buf' = Filled(n)
       /\ \E stray \in {0, 2}, m \in {Filled(n)} : process_response(Beyond(m, stray), n)
  /\ Resubmit
  /\ UNCHANGED frames

\* cb_req_ctrl with a failed one: what libusb has put into the buffer is not read,
\* and only NO_DEVICE is not submitted again.
ReceiveError ==
  /\ posted
  /\ \E n \in 0..Len(wire) :
       /\ n <= BufSize
       /\ wire' = SubSeq(wire, n + 1, Len(wire))
       /\ buf' = Filled(n)
       /\ past' = past \cup (IF Whole(n) THEN {} ELSE {"cut"})
  /\ \/ "error" \in May /\ Resubmit
     \/ "gone" \in May /\ posted' = FALSE
  /\ UNCHANGED <<frames, tap, written, gsm>>

Next ==
  \/ \E k \in Kinds : ModemSends(k)
  \/ Receive
  \/ ReceiveError

Spec == Init /\ [][Next]_vars

-----------------------------------------------------------------------------
(* Properties.                                                             *)

Piece(f, from, to) == [i \in 1..(to - from) |-> [f |-> f, o |-> from + i - 1]]
Packet(f) == Piece(f, 3, Shape[frames[f]].size)
Address(f) == Piece(f, 4, 5)

\* The number of the frame a packet or a message begins with.
Source(piece) == piece[1].f

\* As long as every transfer ended with a frame, every packet on the TAP and every GSMTAP
\* message is the one of a frame of its type, in the order of the modem and none
\* twice: no word of an earlier transfer gets in (protocol.c:64-103).
NoSplice ==
  "cut" \notin past =>
    /\ \A i \in DOMAIN written : LET f == Source(written[i]) IN
         frames[f] = "data" /\ written[i] = Packet(f)
    /\ \A i \in DOMAIN gsm : LET f == Source(gsm[i]) IN
         frames[f] = "conf" /\ gsm[i] = Piece(f, 0, Shape[frames[f]].size)
    /\ \A i, j \in DOMAIN written : i < j => Source(written[i]) < Source(written[j])
    /\ \A i, j \in DOMAIN gsm : i < j => Source(gsm[i]) < Source(gsm[j])

\* The data frames in the first n words, up to the first end marker.
Brought(n) ==
  LET first == {i \in 1..n : wire[i].o = 0}
      ends  == {i \in first : frames[wire[i].f] = "end"}
  IN  {wire[i].f : i \in {j \in first : frames[wire[j].f] = "data" /\ \A e \in ends : j < e}}

\* Cut and failed transfers do no lasting harm: with the TAP up, a completed transfer
\* that begins and ends with a whole frame hands over exactly its data frames, whatever
\* the buffer holds from before (protocol.c:64, 102).
Resync ==
  [][\A n \in 1..Len(wire) :
       (/\ wire' = SubSeq(wire, n + 1, Len(wire)) /\ Len(wire') = Len(wire) - n
        /\ wire[1].o = 0 /\ Whole(n) /\ tap.up /\ Receive)
       => LET new == SubSeq(written', Len(written) + 1, Len(written'))
          IN  /\ ToSet(new) = {Packet(f) : f \in Brought(n)}
              /\ Len(new) = Cardinality(Brought(n))]_vars

\* As long as every transfer ended with a frame, the TAP has an address of the
\* modem, and no packet of a frame before that address message is on it, failed
\* ioctls or not; without failed ioctls it is not up without an address, cut
\* transfers or not (tap.c:24-28, tapcfg_unix.c:320).
AddressOfModem ==
  /\ ("cut" \notin past /\ tap.hwaddr # << >>) =>
       \E f \in DOMAIN frames :
         /\ frames[f] = "mac" /\ tap.hwaddr = Address(f)
         /\ \A i \in DOMAIN written : f < Source(written[i])
  /\ ("ioctl" \notin past /\ tap.up) => tap.hwaddr # << >>
=============================================================================
