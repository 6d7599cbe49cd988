---------------------------- MODULE KalmiaFrames ----------------------------
(***************************************************************************)
(* The network side of the old kernel driver (kalmia.c): kalmia_rx_fixup   *)
(* takes the Ethernet frames out of a USB packet, one per round of its     *)
(* loop, and puts what it does not know into the debug FIFO;               *)
(* kalmia_tx_fixup puts a frame into a USB packet.                         *)
(*                                                                         *)
(* A packet is a sequence of parts, each a header and the bytes behind it, *)
(* cut anywhere.  A header read where none begins, or behind the end of    *)
(* the data, may be any.  The room in the FIFO is any: see KalmiaFifo.     *)
(* The functions keep nothing from call to call: a behaviour is one call.  *)
(***************************************************************************)
EXTENDS Integers, Sequences, FiniteSets, SequencesExt

CONSTANTS
  Lengths,    \* lengths of frames, and what a length field may hold
  MaxParts,   \* bound: parts of a packet
  MaxRounds,  \* bound: rounds of the loop
  Rooms       \* head- and tailrooms of the frames to send

ASSUME LengthsAssumption == \A l \in Lengths : l \in Nat /\ l < 65536
ASSUME RoomsAssumption == Rooms \subseteq Nat
ASSUME BoundsAssumption == MaxParts \in Nat /\ MaxRounds \in Nat

KALMIA_HEADER_LENGTH == 6
rx_urb_size == 14000
KALMIA_ALIGN_SIZE == 4

\* Headers: of a frame, one of the two expected unknown headers, the end marker,
\* any other.  Each has a length field.
Kinds == {"data", "expected", "end", "other"}
Header == [is : Kinds, length : Lengths]

\* bytes: how many bytes really follow the header.
Part(is, length, bytes) == [is |-> is, length |-> length, bytes |-> bytes]
Parts ==
       {Part("data", l, b) : l, b \in Lengths \cap 0..rx_urb_size}
  \cup {Part("expected", l, l) : l \in Lengths \cap 7..rx_urb_size}
  \cup {Part("other", l, l) : l \in Lengths \cap 7..rx_urb_size}
  \cup {Part("end", 0, 0)}

VARIABLES
  pc,     \* "called", "loop" in kalmia_rx_fixup, or "done"
  parts,  \* the USB packet, and its length
  size,
  skb,    \* the part of it that is left: [at, len]
  i,      \* rounds of the loop
  out,    \* what the network stack got, by its place in the packet
  fifo,   \* what the debug FIFO got
  ret,
  tx      \* the packet made of a frame to send, if any

vars == <<pc, parts, size, skb, i, out, fifo, ret, tx>>

Total(p) == FoldLeft(LAMBDA n, part : n + KALMIA_HEADER_LENGTH + part.bytes, 0, p)
Offset(k) == Total(SubSeq(parts, 1, k - 1))

\* What a header at place d can be read as.
HeadersAt(d) ==
  LET here == {k \in DOMAIN parts : Offset(k) = d /\ d + KALMIA_HEADER_LENGTH <= size}
  IN  IF here = {} THEN Header
      ELSE {[is |-> parts[k].is, length |-> parts[k].length] : k \in here}

KindsAt(d) == {h.is : h \in HeadersAt(d)}

NoPacket == [at |-> 0, len |-> 0]

Init ==
  /\ pc = "called" /\ parts = << >> /\ size = 0 /\ skb = NoPacket /\ i = 0
  /\ out = << >> /\ fifo = << >> /\ ret = 0 /\ tx = << >>

-----------------------------------------------------------------------------
(* kalmia_rx_fixup.                                                        *)

\* Linux: they do nothing if the skb is too short.
skb_pull(s, n) == IF n > s.len THEN s ELSE [at |-> s.at + n, len |-> s.len - n]
skb_trim(s, n) == IF n > s.len THEN s ELSE [s EXCEPT !.len = n]

Packets == UNION {[1..n -> Parts] : n \in 0..MaxParts}

\* A packet, cut anywhere, and where the URB ends.
Receive ==
  /\ pc = "called"
  /\ \E p \in Packets : \E n \in 0..Total(p) :
       /\ n <= rx_urb_size
       /\ parts' = p /\ size' = n /\ skb' = [at |-> 0, len |-> n]
       /\ pc' = IF n < KALMIA_HEADER_LENGTH THEN "done" ELSE "loop"
  /\ UNCHANGED <<i, out, fifo, ret, tx>>

\* Return 1: usbnet passes on what is left in the skb, if anything is.
Return1(s, got) ==
  /\ pc' = "done" /\ ret' = 1 /\ skb' = s
  /\ out' = IF s.len = 0 THEN got ELSE Append(got, s)

Return0 == pc' = "done" /\ ret' = 0 /\ UNCHANGED <<skb, out>>

\* Mutant: the header stays in front of the frame.
Stripped_Not(s) == s

Stripped(s) == skb_pull(s, KALMIA_HEADER_LENGTH)

\* Mutant: the loop goes on behind a header that went to the FIFO.
ToDebug_GoesOn ==
  /\ pc = "loop" /\ i < MaxRounds
  /\ {"end", "other"} \cap KindsAt(skb.at) # {}
  /\ \/ fifo' = Append(fifo, skb) /\ skb' = Stripped(skb) /\ UNCHANGED <<pc, ret, out>>
     \/ fifo' = fifo /\ Return0
  /\ i' = i + 1
  /\ UNCHANGED <<parts, size, tx>>

\* Any header but the three known kinds: the rest of the packet goes to the FIFO.
ToDebug ==
  /\ pc = "loop" /\ i < MaxRounds
  /\ {"end", "other"} \cap KindsAt(skb.at) # {}
  /\ \/ fifo' = Append(fifo, skb) /\ Return1(skb, out)
     \/ fifo' = fifo /\ Return0
  /\ UNCHANGED <<parts, size, i, tx>>

\* 16 bits wide, less a header and the end marker.
usb_packet_length(s) == (s.len - 2 * KALMIA_HEADER_LENGTH) % 65536

\* Mutant: what is behind the length of the frame is not cut off.
Trimmed_Not(s, ether_packet_length) == s

Trimmed(s, ether_packet_length) == skb_trim(s, ether_packet_length)

\* A frame that is shorter than its header says is taken for one without an end
\* marker: all that is left of the packet.
LastFrame ==
  /\ pc = "loop" /\ i < MaxRounds
  /\ \E h \in HeadersAt(skb.at) :
       /\ h.is \in {"data", "expected"}
       /\ \/ /\ usb_packet_length(skb) < h.length
             /\ Return1(Trimmed(Stripped(skb), (usb_packet_length(skb) + KALMIA_HEADER_LENGTH) % 65536), out)
          \/ /\ usb_packet_length(skb) >= h.length
             /\ "end" \in KindsAt(Stripped(skb).at + h.length)
             /\ Return1(Trimmed(Stripped(skb), h.length), out)
  /\ UNCHANGED <<parts, size, i, fifo, tx>>

\* A frame that is not followed by the end marker is cloned, or cannot be.
NextFrame ==
  /\ pc = "loop" /\ i < MaxRounds
  /\ \E h \in HeadersAt(skb.at) :
       /\ h.is \in {"data", "expected"} /\ usb_packet_length(skb) >= h.length
       /\ KindsAt(Stripped(skb).at + h.length) # {"end"}
       /\ LET got  == Append(out, Trimmed(Stripped(skb), h.length))
              rest == skb_pull(Stripped(skb), h.length)
          IN  \/ Return0
              \/ rest.len = 0 /\ Return1(rest, got)
              \/ rest.len # 0 /\ pc' = pc /\ ret' = ret /\ skb' = rest /\ out' = got
  /\ i' = i + 1
  /\ UNCHANGED <<parts, size, fifo, tx>>

-----------------------------------------------------------------------------
(* kalmia_tx_fixup.                                                        *)

\* Mutant: only the headroom is looked at.
Room_Head(s) ==
  CASE ~s.cloned /\ s.head >= KALMIA_HEADER_LENGTH -> s
    [] OTHER -> [s EXCEPT !.head = KALMIA_HEADER_LENGTH, !.tail = KALMIA_ALIGN_SIZE]

Roomy(s) == ~s.cloned /\ s.tail >= KALMIA_ALIGN_SIZE /\ s.head >= KALMIA_HEADER_LENGTH
Movable(s) == ~s.cloned /\ s.head + s.tail > KALMIA_HEADER_LENGTH + KALMIA_ALIGN_SIZE
Copied(s) == ~Roomy(s) /\ ~Movable(s)

\* There is room, or the frame is moved to make room, or it is copied.
Room(s) ==
  CASE Roomy(s) -> s
    [] ~Roomy(s) /\ Movable(s) ->
         [s EXCEPT !.head = KALMIA_HEADER_LENGTH, !.tail = s.head + s.tail - KALMIA_HEADER_LENGTH]
    [] Copied(s) -> [s EXCEPT !.head = KALMIA_HEADER_LENGTH, !.tail = KALMIA_ALIGN_SIZE]

padlen(len) ==
  LET remainder == len % KALMIA_ALIGN_SIZE
  IN  IF remainder > 0 THEN KALMIA_ALIGN_SIZE - remainder ELSE 0

Framed(s) ==
  LET r   == Room(s)
      len == r.len + KALMIA_HEADER_LENGTH
  IN  [len |-> len + padlen(len), head |-> r.head - KALMIA_HEADER_LENGTH,
       tail |-> r.tail - padlen(len), content_len |-> r.len % 65536, of |-> s.len]

TxPacket == [len : Nat, head : Int, tail : Int, content_len : Nat, of : Nat]

Frames == [len : Lengths \cap 7..1600, head : Rooms, tail : Rooms, cloned : BOOLEAN]

\* The copy may fail; then nothing is sent.
kalmia_tx_fixup ==
  /\ pc = "called" /\ pc' = "done"
  /\ \E s \in Frames : tx' = <<Framed(s)>> \/ (Copied(s) /\ tx' = << >>)
  /\ UNCHANGED <<parts, size, skb, i, out, fifo, ret>>

-----------------------------------------------------------------------------
kalmia_rx_fixup == ToDebug \/ LastFrame \/ NextFrame

Next == Receive \/ kalmia_rx_fixup \/ kalmia_tx_fixup

Spec == Init /\ [][Next]_vars

-----------------------------------------------------------------------------
(* Properties.                                                             *)

Within(s) == s.at >= 0 /\ s.len >= 0 /\ s.at + s.len <= size

\* Whatever the packet holds, what is passed on lies in it.
TypeOK ==
  /\ pc \in {"called", "loop", "done"} /\ ret \in {0, 1} /\ i \in 0..MaxRounds
  /\ parts \in Seq(Parts) /\ size \in Nat
  /\ Within(skb) /\ \A k \in DOMAIN out : Within(out[k])
  /\ fifo = << >> \/ fifo = <<skb>>
  /\ tx \in Seq(TxPacket)

\* A packet of whole frames; the end marker may be missing.
Sane ==
  /\ size = Total(parts) /\ parts # << >>
  /\ \A k \in DOMAIN parts :
       \/ parts[k].is \in {"data", "expected"} /\ parts[k].bytes = parts[k].length /\ parts[k].length > 6
       \/ parts[k].is = "end" /\ k = Len(parts) /\ k > 1

FramesOf == {k \in DOMAIN parts : parts[k].is # "end"}

\* The network stack gets the frames of the packet, stripped, in order and none
\* twice; all of them, unless a clone could not be made (kalmia.c:277, kalmia.c:352).
FramesDelivered ==
  Sane =>
    /\ \A k \in DOMAIN out :
         k \in FramesOf /\ out[k] = [at |-> Offset(k) + KALMIA_HEADER_LENGTH, len |-> parts[k].length]
    /\ pc = "done" /\ ret = 1 => Len(out) = Cardinality(FramesOf)

\* Every round takes something off the packet, whatever its length fields say, so
\* that the loop ends; unless fewer than 12 bytes are left, where usb_packet_length
\* wraps and skb_pull may do nothing (kalmia.c:348, kalmia.c:393).
LoopShortens ==
  [][ pc = "loop" /\ pc' = "loop" /\ skb.len >= 2 * KALMIA_HEADER_LENGTH => skb'.len < skb.len ]_vars

\* Header and padding fit into the room there is, however it was made; the length
\* field is that of the frame, and the packet is aligned (kalmia.c:213-260).
TxFramed ==
  \A k \in DOMAIN tx :
    /\ tx[k].head >= 0 /\ tx[k].tail >= 0
    /\ tx[k].content_len = tx[k].of
    /\ tx[k].len % KALMIA_ALIGN_SIZE = 0
    /\ tx[k].len - KALMIA_HEADER_LENGTH - tx[k].of \in 0..3
=============================================================================
