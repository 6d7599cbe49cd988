------------------------- MODULE KalmiaFramesProofs -------------------------
(***************************************************************************)
(* What KalmiaFrames guarantees for every set of lengths and rooms, and    *)
(* every number of parts and rounds.                                       *)
(***************************************************************************)
EXTENDS KalmiaFrames, FiniteSetTheorems, WellFoundedInduction, TLAPS

\* A stretch of the USB packet.
Piece == [at : Nat, len : Nat]

\* What the loop keeps: the stretches lie in the packet, and the debug FIFO gets
\* something only in the last round.
RxInv ==
  /\ TypeOK
  /\ skb \in Piece /\ out \in Seq(Piece)
  /\ pc # "done" => fifo = << >>
  /\ pc = "called" => out = << >>

-----------------------------------------------------------------------------
(* Lengths and the helpers of kalmia_rx_fixup.                             *)

\* skb_pull takes off what it is told to if it can.
LEMMA PullShortens ==
  ASSUME NEW s \in Piece, NEW n \in Nat
  PROVE  /\ skb_pull(s, n) \in Piece
         /\ skb_pull(s, n).len <= s.len
         /\ n <= s.len => skb_pull(s, n).len = s.len - n
BY DEF skb_pull, Piece

\* It stays within the packet.
LEMMA PullWithin ==
  ASSUME NEW s \in Piece, NEW n \in Nat, NEW total \in Int, s.at + s.len <= total
  PROVE  /\ skb_pull(s, n) \in Piece
         /\ skb_pull(s, n).at + skb_pull(s, n).len <= total
BY DEF skb_pull, Piece

\* skb_trim stays within the packet.
LEMMA TrimWithin ==
  ASSUME NEW s \in Piece, NEW n \in Nat, NEW total \in Int, s.at + s.len <= total
  PROVE  /\ skb_trim(s, n) \in Piece
         /\ skb_trim(s, n).at + skb_trim(s, n).len <= total
BY DEF skb_trim, Piece

\* A length field holds a natural number, also where no header begins.
LEMMA HeaderTyped ==
  ASSUME TypeOK, NEW d, NEW h \in HeadersAt(d)
  PROVE  h.length \in Nat
<1>1. \A p \in Parts : p.length \in Nat
  BY LengthsAssumption DEF Parts, Part
<1>2. CASE h \in Header
  BY LengthsAssumption, <1>2 DEF Header
<1>3. ASSUME NEW k \in DOMAIN parts, h = [is |-> parts[k].is, length |-> parts[k].length]
      PROVE  h.length \in Nat
  <2>1. parts \in Seq(Parts)
    BY DEF TypeOK
  <2>2. parts[k] \in Parts
    BY <2>1
  <2> QED
    BY <1>1, <1>3, <2>2
<1> QED
  BY <1>2, <1>3 DEF HeadersAt

-----------------------------------------------------------------------------
(* Type correctness.                                                       *)

LEMMA InitInv == Init => RxInv
BY BoundsAssumption DEF Init, RxInv, TypeOK, NoPacket, Piece, Within

LEMMA ReceiveInv ==
  ASSUME RxInv, Receive
  PROVE  RxInv'
<1>1. PICK p \in Packets, n \in Int :
        /\ n \in 0..Total(p)
        /\ parts' = p /\ size' = n /\ skb' = [at |-> 0, len |-> n]
        /\ pc' = IF n < KALMIA_HEADER_LENGTH THEN "done" ELSE "loop"
  BY DEF Receive
<1>2. p \in Seq(Parts)
  <2>1. PICK m \in 0..MaxParts : p \in [1..m -> Parts]
    BY DEF Packets
  <2>2. m \in Nat
    BY <2>1, BoundsAssumption
  <2> QED
    BY <2>1, <2>2
<1>3. size' \in Nat
  BY <1>1
<1>4. skb' \in Piece /\ Within(skb)'
  BY <1>1, <1>3 DEF Piece, Within
<1>5. out' = out /\ fifo' = << >> /\ i' = i /\ ret' = ret /\ tx' = tx /\ pc' \in {"loop", "done"}
  BY <1>1 DEF Receive, RxInv
<1>6. out' = << >>
  BY DEF Receive, RxInv
<1>7. TypeOK'
  <2>1. /\ pc' \in {"called", "loop", "done"} /\ ret' \in {0, 1} /\ i' \in 0..MaxRounds
        /\ parts' \in Seq(Parts) /\ size' \in Nat
    BY <1>1, <1>2, <1>3, <1>5 DEF RxInv, TypeOK
  <2>2. Within(skb)' /\ \A k \in DOMAIN out' : Within(out[k])'
    BY <1>4, <1>6
  <2>3. tx' \in Seq(TxPacket)
    BY <1>5 DEF RxInv, TypeOK
  <2> QED
    BY <1>5, <2>1, <2>2, <2>3 DEF TypeOK
<1> QED
  BY <1>1, <1>2, <1>3, <1>4, <1>5, <1>6, <1>7 DEF RxInv

\* A frame lies within the packet that its header and length are read from.
LEMMA StrippedWithin ==
  ASSUME RxInv, NEW n \in Nat
  PROVE  /\ Stripped(skb) \in Piece /\ Within(Stripped(skb))
         /\ Trimmed(Stripped(skb), n) \in Piece /\ Within(Trimmed(Stripped(skb), n))
         /\ skb_pull(Stripped(skb), n) \in Piece /\ Within(skb_pull(Stripped(skb), n))
<1>1. size \in Int /\ skb \in Piece /\ skb.at + skb.len <= size
  BY DEF RxInv, TypeOK, Within
<1>2. Stripped(skb) \in Piece /\ Stripped(skb).at + Stripped(skb).len <= size
  BY <1>1, PullWithin DEF Stripped, KALMIA_HEADER_LENGTH
<1>3. \A s \in Piece : s.at + s.len <= size => Within(s)
  BY DEF Within, Piece
<1>4. /\ skb_pull(Stripped(skb), n) \in Piece
      /\ skb_pull(Stripped(skb), n).at + skb_pull(Stripped(skb), n).len <= size
  BY <1>1, <1>2, PullWithin
<1>5. /\ Trimmed(Stripped(skb), n) \in Piece
      /\ Trimmed(Stripped(skb), n).at + Trimmed(Stripped(skb), n).len <= size
  BY <1>1, <1>2, TrimWithin DEF Trimmed
<1> QED
  BY <1>2, <1>3, <1>4, <1>5

\* What the last round leaves and passes on.
LEMMA Return1Typed ==
  ASSUME NEW s \in Piece, NEW got \in Seq(Piece), Within(s),
         \A k \in DOMAIN got : Within(got[k]), size' = size, Return1(s, got)
  PROVE  /\ pc' = "done" /\ ret' \in {0, 1}
         /\ skb' \in Piece /\ Within(skb)'
         /\ out' \in Seq(Piece) /\ \A k \in DOMAIN out' : Within(out[k])'
<1>1. CASE s.len = 0
  BY <1>1 DEF Return1, Within
<1>2. CASE s.len # 0
  <2>1. out' = Append(got, s) /\ Len(out') = Len(got) + 1
    BY <1>2 DEF Return1
  <2>2. ASSUME NEW k \in DOMAIN out' PROVE Within(out'[k])
    BY <2>1
  <2> QED
    BY <2>1, <2>2 DEF Return1, Within
<1> QED
  BY <1>1, <1>2

\* What a step keeps if the loop ends, or goes on with the FIFO untouched.
LEMMA RxInvKept ==
  ASSUME RxInv, UNCHANGED <<parts, size, tx>>,
         pc' \in {"loop", "done"}, ret' \in {0, 1}, i' \in 0..MaxRounds,
         skb' \in Piece, Within(skb)',
         out' \in Seq(Piece), \A k \in DOMAIN out' : Within(out[k])',
         fifo' = << >> \/ (pc' = "done" /\ fifo' = <<skb'>>)
  PROVE  RxInv'
<1>1. parts' \in Seq(Parts) /\ size' \in Nat /\ tx' \in Seq(TxPacket)
  BY DEF RxInv, TypeOK
<1>2. TypeOK'
  BY <1>1 DEF TypeOK
<1> QED
  BY <1>2 DEF RxInv

LEMMA ToDebugInv ==
  ASSUME RxInv, ToDebug
  PROVE  RxInv'
<1>1. /\ i \in 0..MaxRounds /\ skb \in Piece /\ Within(skb) /\ fifo = << >> /\ ret \in {0, 1}
      /\ out \in Seq(Piece) /\ \A k \in DOMAIN out : Within(out[k])
  BY DEF RxInv, TypeOK, ToDebug
<1>2. UNCHANGED <<parts, size, tx>> /\ i' = i
  BY DEF ToDebug
<1>3. CASE fifo' = Append(fifo, skb) /\ Return1(skb, out)
  <2>1. fifo' = <<skb'>>
    BY <1>1, <1>3 DEF Return1
  <2> QED
    BY <1>1, <1>2, <1>3, <2>1, Return1Typed, RxInvKept
<1>4. CASE fifo' = fifo /\ Return0
  <2>1. Within(skb)' /\ \A k \in DOMAIN out' : Within(out[k])'
    BY <1>1, <1>2, <1>4 DEF Return0, Within
  <2> QED
    BY <1>1, <1>2, <1>4, <2>1, RxInvKept DEF Return0
<1> QED
  BY <1>3, <1>4 DEF ToDebug

LEMMA LastFrameInv ==
  ASSUME RxInv, LastFrame
  PROVE  RxInv'
<1>1. /\ i \in 0..MaxRounds /\ fifo = << >> /\ skb \in Piece
      /\ out \in Seq(Piece) /\ \A k \in DOMAIN out : Within(out[k])
  BY DEF RxInv, TypeOK, LastFrame
<1>2. UNCHANGED <<parts, size, tx, fifo>> /\ i' = i
  BY DEF LastFrame
<1>3. PICK h \in HeadersAt(skb.at) :
        \/ Return1(Trimmed(Stripped(skb), (usb_packet_length(skb) + KALMIA_HEADER_LENGTH) % 65536), out)
        \/ Return1(Trimmed(Stripped(skb), h.length), out)
  BY DEF LastFrame
<1>4. h.length \in Nat /\ (usb_packet_length(skb) + KALMIA_HEADER_LENGTH) % 65536 \in Nat
  BY <1>1, HeaderTyped DEF RxInv, usb_packet_length, KALMIA_HEADER_LENGTH, Piece
<1>5. PICK n \in Nat : Return1(Trimmed(Stripped(skb), n), out)
  BY <1>3, <1>4
<1> QED
  BY <1>1, <1>2, <1>5, StrippedWithin, Return1Typed, RxInvKept

LEMMA NextFrameInv ==
  ASSUME RxInv, NextFrame
  PROVE  RxInv'
<1>1. /\ i \in 0..MaxRounds /\ i < MaxRounds /\ fifo = << >> /\ pc = "loop" /\ ret \in {0, 1}
      /\ skb \in Piece /\ Within(skb) /\ out \in Seq(Piece) /\ \A k \in DOMAIN out : Within(out[k])
  BY DEF RxInv, TypeOK, NextFrame
<1>2. UNCHANGED <<parts, size, tx, fifo>> /\ i' = i + 1
  BY DEF NextFrame
<1>3. i' \in 0..MaxRounds
  <2>1. MaxRounds \in Nat
    BY BoundsAssumption
  <2>2. i \in Nat /\ i < MaxRounds /\ i' = i + 1
    BY <1>1, <1>2
  <2> QED
    BY <2>1, <2>2
<1>4. PICK h \in HeadersAt(skb.at) :
        LET got  == Append(out, Trimmed(Stripped(skb), h.length))
            rest == skb_pull(Stripped(skb), h.length)
        IN  \/ Return0
            \/ rest.len = 0 /\ Return1(rest, got)
            \/ rest.len # 0 /\ pc' = pc /\ ret' = ret /\ skb' = rest /\ out' = got
  BY DEF NextFrame
<1> DEFINE got == Append(out, Trimmed(Stripped(skb), h.length))
           rest == skb_pull(Stripped(skb), h.length)
<1>5. h.length \in Nat
  BY HeaderTyped DEF RxInv
<1>6. rest \in Piece /\ Within(rest) /\ Trimmed(Stripped(skb), h.length) \in Piece
      /\ Within(Trimmed(Stripped(skb), h.length))
  BY <1>5, StrippedWithin
<1>7. got \in Seq(Piece) /\ \A k \in DOMAIN got : Within(got[k])
  BY <1>1, <1>6
<1>8. CASE Return0
  <2>1. Within(skb)' /\ \A k \in DOMAIN out' : Within(out[k])'
    BY <1>1, <1>2, <1>8 DEF Return0, Within
  <2> QED
    BY <1>1, <1>2, <1>3, <1>8, <2>1, RxInvKept DEF Return0
<1>9. CASE Return1(rest, got)
  <2> HIDE DEF got, rest
  <2> QED
    BY <1>1, <1>2, <1>3, <1>6, <1>7, <1>9, Return1Typed, RxInvKept
<1>10. CASE pc' = pc /\ ret' = ret /\ skb' = rest /\ out' = got
  <2> HIDE DEF got, rest
  <2>1. Within(skb)' /\ \A k \in DOMAIN out' : Within(out[k])'
    BY <1>2, <1>6, <1>7, <1>10 DEF Within
  <2> QED
    BY <1>1, <1>2, <1>3, <1>6, <1>7, <1>10, <2>1, RxInvKept
<1> QED
  BY <1>4, <1>8, <1>9, <1>10

-----------------------------------------------------------------------------
(* kalmia_tx_fixup.                                                        *)

\* A frame that is framed right, for whatever was there to frame.
FramedRight(t) ==
  /\ t.head >= 0 /\ t.tail >= 0
  /\ t.content_len = t.of
  /\ t.len % KALMIA_ALIGN_SIZE = 0
  /\ t.len - KALMIA_HEADER_LENGTH - t.of \in 0..3

\* The padding reaches the next multiple of four, and is less than four bytes.
LEMMA PadlenAligns ==
  ASSUME NEW n \in Nat
  PROVE  padlen(n) \in 0..3 /\ (n + padlen(n)) % KALMIA_ALIGN_SIZE = 0
<1>1. n % 4 \in 0..3 /\ n = 4 * (n \div 4) + (n % 4)
  OBVIOUS
<1>2. n \div 4 \in Nat
  OBVIOUS
<1>3. CASE n % 4 = 0
  BY <1>3 DEF padlen, KALMIA_ALIGN_SIZE
<1>4. CASE n % 4 # 0
  <2>1. padlen(n) = 4 - (n % 4)
    BY <1>1, <1>4 DEF padlen, KALMIA_ALIGN_SIZE
  <2>2. n + padlen(n) = 4 * (n \div 4 + 1)
    BY <1>1, <1>2, <2>1
  <2> QED
    BY <1>1, <1>2, <1>4, <2>1, <2>2 DEF KALMIA_ALIGN_SIZE
<1> QED
  BY <1>3, <1>4

\* However the room is made, there is enough on either side.
LEMMA RoomMade ==
  ASSUME NEW s \in [len : Nat, head : Nat, tail : Nat, cloned : BOOLEAN]
  PROVE  /\ Room(s).len = s.len
         /\ Room(s).head \in Nat /\ Room(s).head >= KALMIA_HEADER_LENGTH
         /\ Room(s).tail \in Nat /\ Room(s).tail >= KALMIA_ALIGN_SIZE
<1>1. CASE Roomy(s)
  BY <1>1 DEF Room, Roomy, Movable, Copied, KALMIA_HEADER_LENGTH, KALMIA_ALIGN_SIZE
<1>2. CASE ~Roomy(s) /\ Movable(s)
  <2>1. Room(s) = [s EXCEPT !.head = KALMIA_HEADER_LENGTH, !.tail = s.head + s.tail - KALMIA_HEADER_LENGTH]
    BY <1>2 DEF Room, Copied
  <2>2. s.head + s.tail > 10
    BY <1>2 DEF Movable, KALMIA_HEADER_LENGTH, KALMIA_ALIGN_SIZE
  <2> QED
    BY <2>1, <2>2 DEF KALMIA_HEADER_LENGTH, KALMIA_ALIGN_SIZE
<1>3. CASE ~Roomy(s) /\ ~Movable(s)
  <2>1. Room(s) = [s EXCEPT !.head = KALMIA_HEADER_LENGTH, !.tail = KALMIA_ALIGN_SIZE]
    BY <1>3 DEF Room, Copied
  <2> QED
    BY <2>1 DEF KALMIA_HEADER_LENGTH, KALMIA_ALIGN_SIZE
<1> QED
  BY <1>1, <1>2, <1>3

LEMMA FrameFramed ==
  ASSUME NEW s \in Frames
  PROVE  Framed(s) \in TxPacket /\ FramedRight(Framed(s))
<1>1. s \in [len : Nat, head : Nat, tail : Nat, cloned : BOOLEAN] /\ s.len <= 1600
  <2>1. Rooms \subseteq Nat
    BY RoomsAssumption
  <2>2. \A l \in Lengths \cap 7..1600 : l \in Nat /\ l <= 1600
    BY LengthsAssumption
  <2>3. /\ s = [len |-> s.len, head |-> s.head, tail |-> s.tail, cloned |-> s.cloned]
        /\ s.len \in Lengths \cap 7..1600 /\ s.head \in Rooms /\ s.tail \in Rooms /\ s.cloned \in BOOLEAN
    BY DEF Frames
  <2>4. s.len \in Nat /\ s.len <= 1600 /\ s.head \in Nat /\ s.tail \in Nat
    BY <2>1, <2>2, <2>3
  <2> QED
    BY <2>3, <2>4
<1> DEFINE r == Room(s)
           n == r.len + KALMIA_HEADER_LENGTH
<1>2. /\ r.len = s.len /\ s.len \in Nat
      /\ r.head \in Nat /\ r.head >= KALMIA_HEADER_LENGTH
      /\ r.tail \in Nat /\ r.tail >= KALMIA_ALIGN_SIZE
  BY <1>1, RoomMade
<1>3. n \in Nat /\ padlen(n) \in 0..3 /\ (n + padlen(n)) % KALMIA_ALIGN_SIZE = 0
  <2>1. n \in Nat
    BY <1>2 DEF KALMIA_HEADER_LENGTH
  <2> QED
    BY <2>1, PadlenAligns
<1>4. r.len % 65536 = s.len
  <2>1. s.len \in Nat /\ s.len <= 1600
    BY <1>1
  <2>2. s.len % 65536 = s.len
    BY <2>1
  <2>3. r.len = s.len
    BY <1>2
  <2> QED
    BY <2>2, <2>3
<1>5. Framed(s) = [len |-> n + padlen(n), head |-> r.head - KALMIA_HEADER_LENGTH,
                   tail |-> r.tail - padlen(n), content_len |-> r.len % 65536, of |-> s.len]
  BY DEF Framed
<1> DEFINE pad == padlen(n)
<1>6. n = s.len + 6 /\ pad \in {0, 1, 2, 3} /\ n + pad \in Nat
  BY <1>2, <1>3 DEF KALMIA_HEADER_LENGTH
<1>7. r.head - KALMIA_HEADER_LENGTH \in Nat /\ r.tail - pad \in Nat
  BY <1>2, <1>6 DEF KALMIA_HEADER_LENGTH, KALMIA_ALIGN_SIZE
<1> HIDE DEF r, n, pad
<1>8. /\ Framed(s).len = n + pad /\ Framed(s).content_len = s.len /\ Framed(s).of = s.len
      /\ Framed(s).head \in Nat /\ Framed(s).tail \in Nat
  BY <1>4, <1>5, <1>7 DEF pad
<1>9. Framed(s) \in TxPacket
  BY <1>2, <1>4, <1>5, <1>6, <1>7 DEF TxPacket, pad
<1>10. (n + pad) - KALMIA_HEADER_LENGTH - s.len \in 0..3
  BY <1>2, <1>6 DEF KALMIA_HEADER_LENGTH
<1>11. FramedRight(Framed(s))
  BY <1>3, <1>8, <1>10 DEF FramedRight, pad
<1> QED
  BY <1>9, <1>11

-----------------------------------------------------------------------------
(* The theorems.                                                           *)

LEMMA TxInv ==
  ASSUME RxInv, kalmia_tx_fixup
  PROVE  RxInv'
<1>1. UNCHANGED <<parts, size, skb, i, out, fifo, ret>> /\ pc' = "done"
  BY DEF kalmia_tx_fixup
<1>2. tx' \in Seq(TxPacket)
  <2>1. PICK s \in Frames : tx' = <<Framed(s)>> \/ tx' = << >>
    BY DEF kalmia_tx_fixup
  <2>2. Framed(s) \in TxPacket
    BY FrameFramed
  <2>3. \A t \in TxPacket : <<t>> \in Seq(TxPacket)
    OBVIOUS
  <2>4. << >> \in Seq(TxPacket) /\ <<Framed(s)>> \in Seq(TxPacket)
    BY <2>2, <2>3
  <2> QED
    BY <2>1, <2>4, Zenon
<1>3. TypeOK'
  <2>1. Within(skb)' /\ \A k \in DOMAIN out' : Within(out[k])'
    BY <1>1 DEF RxInv, TypeOK, Within
  <2> QED
    BY <1>1, <1>2, <2>1 DEF RxInv, TypeOK
<1> QED
  BY <1>1, <1>3 DEF RxInv

LEMMA StutterInv ==
  ASSUME RxInv, UNCHANGED vars
  PROVE  RxInv'
BY DEF vars, RxInv, TypeOK, Within

LEMMA InvHolds == Spec => []RxInv
<1>1. RxInv /\ [Next]_vars => RxInv'
  BY ReceiveInv, ToDebugInv, LastFrameInv, NextFrameInv, TxInv, StutterInv
     DEF Next, kalmia_rx_fixup
<1> QED
  BY InitInv, <1>1, PTL DEF Spec

\* Type correctness: whatever the modem sends, no stretch of the packet that the
\* driver passes on or keeps reaches beyond the packet (kalmia.c:269-408).
THEOREM FramesTypeCorrect == Spec => []TypeOK
<1>1. RxInv => TypeOK
  BY DEF RxInv
<1> QED
  BY InvHolds, <1>1, PTL

\* A frame of any length up to 1600 bytes, with any room around it, is framed and
\* aligned within its room (kalmia.c:206-267).
THEOREM TxFramedHolds == Spec => []TxFramed
<1>1. Init => TxFramed
  BY DEF Init, TxFramed
<1>2. TxFramed /\ [Next]_vars => TxFramed'
  <2> SUFFICES ASSUME TxFramed, [Next]_vars PROVE TxFramed'
    OBVIOUS
  <2>1. CASE tx' = tx
    BY <2>1 DEF TxFramed
  <2>2. CASE kalmia_tx_fixup
    <3>1. CASE tx' = << >>
      BY <3>1 DEF TxFramed
    <3>2. ASSUME NEW s \in Frames, tx' = <<Framed(s)>> PROVE TxFramed'
      BY <3>2, FrameFramed DEF TxFramed, FramedRight
    <3> QED
      BY <2>2, <3>1, <3>2 DEF kalmia_tx_fixup
  <2> QED
    BY <2>1, <2>2 DEF Next, kalmia_rx_fixup, Receive, ToDebug, LastFrame, NextFrame, vars
<1> QED
  BY <1>1, <1>2, PTL DEF Spec

\* Every round of the loop shortens what is left of a packet that holds at least
\* two headers, whatever its length fields say: so the loop ends (kalmia.c:290-405).
THEOREM LoopShortensHolds == Spec => LoopShortens
<1>1. RxInv /\ [Next]_vars =>
        [pc = "loop" /\ pc' = "loop" /\ skb.len >= 2 * KALMIA_HEADER_LENGTH => skb'.len < skb.len]_vars
  <2> SUFFICES ASSUME RxInv, Next, pc = "loop", pc' = "loop", skb.len >= 2 * KALMIA_HEADER_LENGTH
               PROVE  skb'.len < skb.len
    OBVIOUS
  <2>1. skb \in Piece
    BY DEF RxInv
  <2>2. NextFrame
    BY DEF Next, kalmia_rx_fixup, Receive, ToDebug, LastFrame, Return1, Return0, kalmia_tx_fixup
  <2>3. PICK h \in HeadersAt(skb.at) : skb' = skb_pull(Stripped(skb), h.length)
    BY <2>2 DEF NextFrame, Return1, Return0
  <2>4. h.length \in Nat
    BY HeaderTyped DEF RxInv
  <2>5. Stripped(skb) \in Piece /\ Stripped(skb).len = skb.len - KALMIA_HEADER_LENGTH
    <3>1. 6 \in Nat /\ skb.len \in Nat /\ 6 <= skb.len
      BY <2>1 DEF Piece, KALMIA_HEADER_LENGTH
    <3> QED
      BY <2>1, <3>1, PullShortens DEF Stripped, KALMIA_HEADER_LENGTH
  <2>6. skb'.len <= Stripped(skb).len /\ skb' \in Piece
    BY <2>3, <2>4, <2>5, PullShortens
  <2> QED
    BY <2>1, <2>5, <2>6 DEF KALMIA_HEADER_LENGTH, Piece
<1> QED
  BY InvHolds, <1>1, PTL DEF Spec, LoopShortens

-----------------------------------------------------------------------------
(* The places of the parts in a packet.  Total is a fold, and a fold is    *)
(* a recursive function on the subsets of its indices: that there is one,  *)
(* and what it is, is proved from the least number for which it is not so. *)

LEMMA LeastNumber ==
  ASSUME NEW T \in SUBSET Nat, T # {}
  PROVE  \E m \in T : \A n \in T : m <= n
<1>1. PICK m \in T : \A n \in T : ~(<<n, m>> \in OpToRel(<, Nat))
  BY WFMin, NatLessThanWellFounded
<1>2. \A n \in T : ~(n < m)
  <2> SUFFICES ASSUME NEW n \in T, n < m PROVE FALSE
    OBVIOUS
  <2>1. n \in Nat /\ m \in Nat
    OBVIOUS
  <2>2. <<n, m>> \in Nat \X Nat /\ <<n, m>>[1] < <<n, m>>[2]
    BY <2>1
  <2>3. <<n, m>> \in {ss \in Nat \X Nat : ss[1] < ss[2]}
    BY <2>2
  <2>4. <<n, m>> \in OpToRel(<, Nat)
    BY <2>3, Zenon DEF OpToRel
  <2> QED
    BY <1>1, <2>4, Zenon
<1> QED
  BY <1>2

\* The largest index, as Max has it.
Largest(s) == CHOOSE x \in s : \A y \in s : x >= y

\* f is the fold on the subsets of S.
IsSums(p, S, f) ==
  f = [s \in SUBSET S |-> IF s = {} THEN 0
                          ELSE f[s \ {Largest(s)}] + KALMIA_HEADER_LENGTH + p[Largest(s)].bytes]
Sums(p) == CHOOSE f : IsSums(p, DOMAIN p, f)

\* The length of the first k parts.
Sum(p, k) == Sums(p)[1..k]

LEMMA TotalIsSums == ASSUME NEW p PROVE Total(p) = Sums(p)[DOMAIN p]
BY DEF Total, FoldLeft, MapThenFoldSet, Sums, IsSums, Max, KALMIA_HEADER_LENGTH, Largest

LEMMA LargestOf ==
  ASSUME NEW n \in Nat, NEW s \in SUBSET (1..(n + 1)), n + 1 \in s
  PROVE  Largest(s) = n + 1
<1>1. \A y \in s : n + 1 >= y
  OBVIOUS
<1>2. Largest(s) \in s /\ \A y \in s : Largest(s) >= y
  BY <1>1 DEF Largest
<1>3. ASSUME NEW x \in 1..(n + 1), n + 1 >= x, x >= n + 1 PROVE x = n + 1
  BY <1>3
<1>4. Largest(s) \in 1..(n + 1)
  BY <1>2
<1>5. n + 1 >= Largest(s) /\ Largest(s) >= n + 1
  BY <1>1, <1>2
<1> QED
  BY <1>3, <1>4, <1>5

\* The fold on 1..n goes on to 1..(n + 1).
LEMMA SumsGoOn ==
  ASSUME NEW p, NEW n \in Nat, NEW f, IsSums(p, 1..n, f)
  PROVE  \E g : IsSums(p, 1..(n + 1), g)
<1> DEFINE S == SUBSET (1..(n + 1))
           g == [s \in S |-> IF n + 1 \in s
                             THEN f[s \ {n + 1}] + KALMIA_HEADER_LENGTH + p[n + 1].bytes ELSE f[s]]
           body(s) == IF s = {} THEN 0
                      ELSE g[s \ {Largest(s)}] + KALMIA_HEADER_LENGTH + p[Largest(s)].bytes
<1>1. ASSUME NEW s \in S PROVE g[s] = body(s)
  <2>1. CASE n + 1 \in s
    <3>1. s # {} /\ Largest(s) = n + 1
      BY <2>1, LargestOf
    <3>2. s \ {n + 1} \in S /\ n + 1 \notin s \ {n + 1}
      OBVIOUS
    <3>3. g[s \ {n + 1}] = f[s \ {n + 1}]
      BY <3>2
    <3>4. g[s] = f[s \ {n + 1}] + KALMIA_HEADER_LENGTH + p[n + 1].bytes
      BY <2>1
    <3> QED
      BY <3>1, <3>3, <3>4
  <2>2. CASE n + 1 \notin s
    <3>1. s \in SUBSET (1..n)
      BY <2>2
    <3>2. f[s] = IF s = {} THEN 0
                 ELSE f[s \ {Largest(s)}] + KALMIA_HEADER_LENGTH + p[Largest(s)].bytes
      BY <3>1, Zenon DEF IsSums
    <3>3. g[s \ {Largest(s)}] = f[s \ {Largest(s)}]
      BY <2>2
    <3>4. g[s] = f[s]
      BY <2>2
    <3> QED
      BY <3>2, <3>3, <3>4
  <2> QED
    BY <2>1, <2>2
<1>2. g = [s \in S |-> body(s)]
  <2>1. g = [s \in S |-> g[s]]
    OBVIOUS
  <2> HIDE DEF g
  <2>2. [s \in S |-> g[s]] = [s \in S |-> body(s)]
    BY <1>1
  <2> QED
    BY <2>1, <2>2
<1> HIDE DEF g
<1> QED
  BY <1>2, Zenon DEF IsSums

LEMMA SumsExist ==
  ASSUME NEW p, NEW n \in Nat
  PROVE  \E f : IsSums(p, 1..n, f)
<1> DEFINE T == {m \in Nat : ~\E f : IsSums(p, 1..m, f)}
<1>1. ASSUME T # {} PROVE FALSE
  <2>1. PICK m \in T : \A k \in T : m <= k
    BY <1>1, LeastNumber
  <2>2. CASE m = 0
    <3> DEFINE f == [s \in SUBSET (1..0) |-> 0]
    <3>1. SUBSET (1..0) = {{}}
      BY SMT
    <3>2. f = [s \in SUBSET (1..0) |-> IF s = {} THEN 0
                ELSE f[s \ {Largest(s)}] + KALMIA_HEADER_LENGTH + p[Largest(s)].bytes]
      BY <3>1, Zenon
    <3>3. IsSums(p, 1..0, f)
      BY <3>2, Zenon DEF IsSums
    <3> QED
      BY <2>2, <3>3
  <2>3. CASE m # 0
    <3>1. m - 1 \in Nat /\ m - 1 \notin T /\ (m - 1) + 1 = m
      BY <2>1, <2>3
    <3>2. PICK f : IsSums(p, 1..(m - 1), f)
      BY <3>1
    <3> DEFINE j == m - 1
    <3>3. j \in Nat /\ IsSums(p, 1..j, f) /\ j + 1 = m
      BY <3>1, <3>2
    <3> HIDE DEF j
    <3>4. \E g : IsSums(p, 1..(j + 1), g)
      BY <3>3, SumsGoOn
    <3> QED
      BY <3>3, <3>4
  <2> QED
    BY <2>2, <2>3
<1> QED
  BY <1>1

\* One part more.
LEMMA SumStep ==
  ASSUME NEW p, NEW n \in Nat, DOMAIN p = 1..n
  PROVE  /\ Sum(p, 0) = 0
         /\ \A k \in 1..n : Sum(p, k) = Sum(p, k - 1) + KALMIA_HEADER_LENGTH + p[k].bytes
         /\ Total(p) = Sum(p, n)
<1> DEFINE f == Sums(p)
<1>1. IsSums(p, 1..n, f)
  BY SumsExist DEF Sums
<1>2. Total(p) = Sum(p, n)
  BY TotalIsSums DEF Sum
<1> HIDE DEF f
<1>3. f[{}] = 0
  BY <1>1, Zenon DEF IsSums
<1>4. ASSUME NEW k \in 1..n
      PROVE  f[1..k] = f[1..(k - 1)] + KALMIA_HEADER_LENGTH + p[k].bytes
  <2>1. 1..k \in SUBSET (1..n) /\ 1..k # {}
    BY SMTT(60)
  <2>2. k - 1 \in Nat /\ k = (k - 1) + 1 /\ 1..k \in SUBSET (1..((k - 1) + 1))
    OBVIOUS
  <2>3. Largest(1..k) = k
    <3> DEFINE j == k - 1
    <3>1. j \in Nat /\ k = j + 1
      BY <2>2
    <3> HIDE DEF j
    <3>2. Largest(1..(j + 1)) = j + 1
      BY <3>1, LargestOf
    <3> QED
      BY <3>1, <3>2
  <2>4. (1..k) \ {k} = 1..(k - 1)
    OBVIOUS
  <2>5. f[1..k] = f[(1..k) \ {Largest(1..k)}] + KALMIA_HEADER_LENGTH + p[Largest(1..k)].bytes
    BY <1>1, <2>1, Zenon DEF IsSums
  <2> QED
    BY <2>3, <2>4, <2>5
<1>5. 1..0 = {}
  OBVIOUS
<1> QED
  BY <1>2, <1>3, <1>4, <1>5 DEF f, Sum

\* The parts up to k of a shorter packet are those of the packet.
LEMMA SumOfPrefix ==
  ASSUME NEW p \in Seq(Parts), NEW k \in 0..Len(p)
  PROVE  Total(SubSeq(p, 1, k)) = Sum(p, k)
<1> DEFINE q == SubSeq(p, 1, k)
<1>1. DOMAIN q = 1..k /\ \A j \in 1..k : q[j] = p[j]
  OBVIOUS
<1>2. Len(p) \in Nat /\ DOMAIN p = 1..Len(p) /\ k \in Nat
  OBVIOUS
<1> HIDE DEF q
<1>3. /\ Sum(q, 0) = 0 /\ Total(q) = Sum(q, k)
      /\ \A j \in 1..k : Sum(q, j) = Sum(q, j - 1) + KALMIA_HEADER_LENGTH + q[j].bytes
  BY <1>1, <1>2, SumStep
<1>4. /\ Sum(p, 0) = 0
      /\ \A j \in 1..Len(p) : Sum(p, j) = Sum(p, j - 1) + KALMIA_HEADER_LENGTH + p[j].bytes
  BY <1>2, SumStep
<1> DEFINE T == {j \in 0..k : Sum(q, j) # Sum(p, j)}
<1>5. ASSUME T # {} PROVE FALSE
  <2>1. T \in SUBSET Nat
    BY <1>2
  <2>2. PICK m \in T : \A j \in T : m <= j
    BY <1>5, <2>1, LeastNumber
  <2>3. m # 0 /\ m \in 1..k /\ m \in 1..Len(p)
    BY <1>2, <1>3, <1>4, <2>2
  <2>4. m - 1 \in 0..k /\ m - 1 \notin T
    BY <2>2, <2>3
  <2>5. Sum(q, m - 1) = Sum(p, m - 1)
    BY <2>4
  <2>6. Sum(q, m) = Sum(p, m)
    BY <1>1, <1>3, <1>4, <2>3, <2>5
  <2> QED
    BY <2>2, <2>6
<1>6. Sum(q, k) = Sum(p, k)
  BY <1>2, <1>5
<1> QED
  BY <1>3, <1>6 DEF q

\* Where the parts begin.
Places(p) ==
  /\ Offset(1) = 0 /\ Offset(Len(p) + 1) = Total(p)
  /\ \A k \in 1..(Len(p) + 1) : Offset(k) \in Nat
  /\ \A k \in 1..Len(p) : Offset(k + 1) = Offset(k) + KALMIA_HEADER_LENGTH + p[k].bytes
  /\ \A j, k \in 1..(Len(p) + 1) : j < k => Offset(j) < Offset(k)

LEMMA BytesTyped == \A p \in Parts : p.bytes \in Nat /\ p.length \in Nat
<1>1. ASSUME NEW x, NEW l \in Nat, NEW b \in Nat PROVE Part(x, l, b).bytes \in Nat /\ Part(x, l, b).length \in Nat
  BY DEF Part
<1>2. (Lengths \cap 0..rx_urb_size) \subseteq Nat /\ (Lengths \cap 7..rx_urb_size) \subseteq Nat /\ 0 \in Nat
  BY LengthsAssumption
<1> SUFFICES ASSUME NEW p \in Parts PROVE p.bytes \in Nat /\ p.length \in Nat
  OBVIOUS
<1>3. \/ \E l, b \in Lengths \cap 0..rx_urb_size : p = Part("data", l, b)
      \/ \E l \in Lengths \cap 7..rx_urb_size : p = Part("expected", l, l)
      \/ \E l \in Lengths \cap 7..rx_urb_size : p = Part("other", l, l)
      \/ p = Part("end", 0, 0)
  BY SMTT(60) DEF Parts
<1>4. \E x : \E l, b \in Nat : p = Part(x, l, b)
  <2>1. CASE \E l, b \in Lengths \cap 0..rx_urb_size : p = Part("data", l, b)
    BY <1>2, <2>1, Zenon
  <2>2. CASE \E l \in Lengths \cap 7..rx_urb_size : p = Part("expected", l, l)
    BY <1>2, <2>2, Zenon
  <2>3. CASE \E l \in Lengths \cap 7..rx_urb_size : p = Part("other", l, l)
    BY <1>2, <2>3, Zenon
  <2>4. CASE p = Part("end", 0, 0)
    BY <1>2, <2>4, Zenon
  <2> QED
    BY <1>3, <2>1, <2>2, <2>3, <2>4
<1> QED
  BY <1>1, <1>4, Zenon

\* They begin one behind the other.
LEMMA PartsPlaced ==
  ASSUME parts \in Seq(Parts)
  PROVE  Places(parts)
<1> DEFINE n == Len(parts)
<1>1. n \in Nat /\ DOMAIN parts = 1..n /\ \A k \in 1..n : parts[k] \in Parts
  OBVIOUS
<1>2. \A k \in 1..(n + 1) : Offset(k) = Sum(parts, k - 1)
  <2>1. ASSUME NEW k \in 1..(n + 1) PROVE Offset(k) = Sum(parts, k - 1)
    <3> DEFINE j == k - 1
    <3>1. j \in 0..Len(parts)
      BY <1>1
    <3> HIDE DEF j
    <3>2. Total(SubSeq(parts, 1, j)) = Sum(parts, j)
      BY <3>1, SumOfPrefix
    <3> QED
      BY <3>2 DEF j, Offset
  <2> QED
    BY <2>1
<1>3. /\ Sum(parts, 0) = 0 /\ Total(parts) = Sum(parts, n)
      /\ \A k \in 1..n : Sum(parts, k) = Sum(parts, k - 1) + KALMIA_HEADER_LENGTH + parts[k].bytes
  BY <1>1, SumStep
<1> HIDE DEF n
<1>4. Offset(1) = 0 /\ Offset(n + 1) = Total(parts)
  BY <1>1, <1>2, <1>3
<1>5. ASSUME NEW k \in 1..n PROVE Offset(k + 1) = Offset(k) + KALMIA_HEADER_LENGTH + parts[k].bytes
  <2>1. k \in 1..(n + 1) /\ k + 1 \in 1..(n + 1) /\ (k + 1) - 1 = k
    BY <1>1
  <2>2. Offset(k) = Sum(parts, k - 1) /\ Offset(k + 1) = Sum(parts, k)
    BY <1>2, <2>1
  <2> QED
    BY <1>3, <2>2
<1>6. \A k \in 1..n : parts[k].bytes \in Nat
  BY <1>1, BytesTyped
<1> DEFINE Typed(k) == Offset(k) \in Nat
           After(k) == \A j \in 1..(k - 1) : Offset(j) < Offset(k)
           T == {k \in 1..(n + 1) : ~(Typed(k) /\ After(k))}
<1>7. ASSUME T # {} PROVE FALSE
  <2>1. T \in SUBSET Nat
    BY <1>1
  <2>2. PICK m \in T : \A k \in T : m <= k
    BY <1>7, <2>1, LeastNumber
  <2>3. m # 1
    <3>1. Typed(1) /\ After(1)
      BY <1>4
    <3> QED
      BY <2>2, <3>1
  <2>4. m - 1 \in 1..n /\ m - 1 \in 1..(n + 1) /\ m - 1 \notin T /\ (m - 1) + 1 = m
    BY <1>1, <2>2, <2>3
  <2>5. Typed(m - 1) /\ After(m - 1)
    BY <2>4
  <2>6. Offset(m) = Offset(m - 1) + KALMIA_HEADER_LENGTH + parts[m - 1].bytes
    BY <1>5, <2>4
  <2>7. Offset(m) \in Nat /\ Offset(m - 1) < Offset(m)
    BY <1>6, <2>4, <2>5, <2>6 DEF KALMIA_HEADER_LENGTH
  <2>8. ASSUME NEW j \in 1..(m - 1) PROVE Offset(j) < Offset(m)
    <3>1. CASE j = m - 1
      BY <2>7, <3>1
    <3>2. CASE j # m - 1
      <4>1. j \in 1..((m - 1) - 1)
        BY <2>4, <3>2
      <4>2. j \in 1..(n + 1) /\ ~(m <= j)
        <5>1. n \in Nat /\ m \in 1..(n + 1) /\ j \in 1..(m - 1)
          BY <1>1, <2>2
        <5> HIDE DEF n, T
        <5> QED
          BY <5>1
      <4>3. j \notin T
        BY <2>2, <4>2
      <4>4. Offset(j) < Offset(m - 1) /\ Offset(j) \in Nat
        BY <2>5, <4>1, <4>2, <4>3
      <4> QED
        BY <2>5, <2>7, <4>4
    <3> QED
      BY <3>1, <3>2
  <2> QED
    BY <2>2, <2>7, <2>8
<1>8. \A k \in 1..(n + 1) : Typed(k) /\ After(k)
  BY <1>7
<1>9. ASSUME NEW j \in 1..(n + 1), NEW k \in 1..(n + 1), j < k PROVE Offset(j) < Offset(k)
  BY <1>1, <1>8, <1>9
<1> QED
  BY <1>4, <1>5, <1>8, <1>9 DEF Places, n

-----------------------------------------------------------------------------
(* The frames of a packet of whole frames.                                 *)

\* What the network stack has got is right, and the loop is at the next frame.
Delivered(k) == k \in FramesOf /\ out[k] = [at |-> Offset(k) + KALMIA_HEADER_LENGTH, len |-> parts[k].length]
AtFrame(k) == k \in FramesOf /\ skb = [at |-> Offset(k), len |-> size - Offset(k)]

DeliveryInv ==
  /\ RxInv
  /\ size <= rx_urb_size
  /\ pc = "called" => parts = << >> /\ ret = 0
  /\ Sane => /\ \A k \in DOMAIN out : Delivered(k)
             /\ pc = "loop" => AtFrame(Len(out) + 1)
             /\ pc = "done" /\ ret = 1 => Len(out) = Cardinality(FramesOf)

\* At the place of a part, its header is read.
LEMMA HeaderOfPart ==
  ASSUME parts \in Seq(Parts), size = Total(parts), NEW k \in 1..Len(parts)
  PROVE  HeadersAt(Offset(k)) = {[is |-> parts[k].is, length |-> parts[k].length]}
<1> DEFINE n == Len(parts)
           d == Offset(k)
           here == {j \in DOMAIN parts : Offset(j) = d /\ d + KALMIA_HEADER_LENGTH <= size}
<1>1. n \in Nat /\ DOMAIN parts = 1..n /\ k \in 1..(n + 1) /\ k + 1 \in 1..(n + 1) /\ n + 1 \in 1..(n + 1)
  OBVIOUS
<1>2. Places(parts)
  BY PartsPlaced
<1> HIDE DEF n
<1>3. d + KALMIA_HEADER_LENGTH <= Offset(k + 1)
  <2>1. parts[k].bytes \in Nat
    BY BytesTyped
  <2>2. Offset(k + 1) = d + KALMIA_HEADER_LENGTH + parts[k].bytes /\ d \in Nat
    BY <1>1, <1>2 DEF Places, n
  <2> HIDE DEF d
  <2> QED
    BY <2>1, <2>2 DEF KALMIA_HEADER_LENGTH
<1>4. Offset(k + 1) <= size /\ size \in Nat
  <2>1. Offset(n + 1) = size /\ Offset(n + 1) \in Nat /\ Offset(k + 1) \in Nat
    BY <1>1, <1>2 DEF Places, n
  <2>2. CASE k + 1 < n + 1
    BY <1>1, <1>2, <2>1, <2>2 DEF Places, n
  <2>3. CASE k + 1 = n + 1
    BY <2>1, <2>3
  <2> QED
    BY <1>1, <2>2, <2>3 DEF n
<1>5. d \in Nat /\ d + KALMIA_HEADER_LENGTH <= size
  <2>1. d \in Nat /\ Offset(k + 1) \in Nat
    BY <1>1, <1>2 DEF Places, n
  <2> HIDE DEF d
  <2> QED
    BY <1>3, <1>4, <2>1 DEF KALMIA_HEADER_LENGTH
<1>6. ASSUME NEW j \in 1..n, Offset(j) = d PROVE j = k
  <2>1. j \in 1..(n + 1) /\ Offset(j) \in Nat
    BY <1>1, <1>2 DEF Places, n
  <2>2. ~(j < k) /\ ~(k < j)
    BY <1>1, <1>2, <1>6, <2>1 DEF Places, n
  <2> QED
    BY <1>1, <2>1, <2>2
<1>7. here = {k}
  BY <1>1, <1>5, <1>6 DEF n
<1>8. HeadersAt(d) = {[is |-> parts[j].is, length |-> parts[j].length] : j \in here}
  <2>1. HeadersAt(d) = IF here = {} THEN Header
                       ELSE {[is |-> parts[j].is, length |-> parts[j].length] : j \in here}
    BY Zenon DEF HeadersAt
  <2> HIDE DEF here, d
  <2> QED
    BY <1>7, <2>1
<1> HIDE DEF here, d
<1> QED
  BY <1>7, <1>8 DEF d

LEMMA KindOfPart ==
  ASSUME parts \in Seq(Parts), size = Total(parts), NEW k \in 1..Len(parts)
  PROVE  KindsAt(Offset(k)) = {parts[k].is}
<1> DEFINE h == [is |-> parts[k].is, length |-> parts[k].length]
<1>1. HeadersAt(Offset(k)) = {h}
  BY HeaderOfPart
<1>2. h.is = parts[k].is
  OBVIOUS
<1> HIDE DEF h
<1>3. KindsAt(Offset(k)) = {x.is : x \in {h}}
  BY <1>1 DEF KindsAt
<1> QED
  BY <1>2, <1>3

\* The last frame is the last part, or the part before the end marker.
LEMMA FramesCounted ==
  ASSUME parts \in Seq(Parts), Sane, NEW k \in FramesOf,
         k = Len(parts) \/ (k + 1 \in DOMAIN parts /\ parts[k + 1].is = "end")
  PROVE  Cardinality(FramesOf) = k
<1>1. Len(parts) \in Nat /\ DOMAIN parts = 1..Len(parts) /\ k \in 1..Len(parts)
  BY DEF FramesOf
<1>2. \A j \in DOMAIN parts : parts[j].is = "end" => j = Len(parts)
  BY DEF Sane
<1>3. FramesOf = 1..k
  BY <1>1, <1>2 DEF FramesOf
<1>4. Cardinality(1..k) = k
  <2>1. k \in Int /\ ~(1 > k) /\ k - 1 + 1 = k
    <3>1. \A n \in Nat : \A j \in 1..n : j \in Int /\ ~(1 > j) /\ j - 1 + 1 = j
      OBVIOUS
    <3> QED
      BY <1>1, <3>1
  <2>2. Cardinality(1..k) = IF 1 > k THEN 0 ELSE k - 1 + 1
    BY <2>1, FS_Interval
  <2> QED
    BY <2>1, <2>2
<1> QED
  BY <1>3, <1>4

LEMMA InitDelivery == Init => DeliveryInv
BY InitInv DEF Init, DeliveryInv, Sane, rx_urb_size

LEMMA ReceiveDelivery ==
  ASSUME DeliveryInv, Receive
  PROVE  DeliveryInv'
<1>1. RxInv'
  BY ReceiveInv DEF DeliveryInv
<1>2. PICK n \in Int :
        /\ n <= rx_urb_size /\ size' = n /\ skb' = [at |-> 0, len |-> n]
        /\ pc' = IF n < KALMIA_HEADER_LENGTH THEN "done" ELSE "loop"
  BY DEF Receive
<1>3. out' = << >> /\ ret' = 0 /\ pc' \in {"loop", "done"}
  BY <1>2 DEF Receive, DeliveryInv, RxInv
<1>4. (parts \in Seq(Parts))'
  BY <1>1 DEF RxInv, TypeOK
<1>5. (parts \in Seq(Parts))' => Places(parts)'
  BY PartsPlaced, PTL
<1>6. ASSUME Sane' PROVE AtFrame(1)'
  <2>1. Offset(1)' = 0
    BY <1>4, <1>5 DEF Places
  <2>2. Len(parts') \in Nat \ {0} /\ DOMAIN parts' = 1..Len(parts')
    BY <1>4, <1>6 DEF Sane
  <2>3. 1 \in FramesOf'
    BY <1>6, <2>2 DEF Sane, FramesOf
  <2>4. skb' = [at |-> Offset(1)', len |-> size' - Offset(1)']
    BY <1>2, <2>1
  <2> QED
    BY <2>3, <2>4 DEF AtFrame
<1>7. Len(out') + 1 = 1 /\ DOMAIN out' = {}
  BY <1>3
<1> QED
  BY <1>1, <1>2, <1>3, <1>6, <1>7 DEF DeliveryInv

\* The loop is at frame k: what it reads there, and what usb_packet_length says.
LEMMA FrameRead ==
  ASSUME DeliveryInv, Sane, pc = "loop", NEW k, k = Len(out) + 1
  PROVE  /\ k \in FramesOf /\ k \in 1..Len(parts)
         /\ parts[k].is \in {"data", "expected"} /\ parts[k].length \in Nat /\ parts[k].length > 6
         /\ HeadersAt(skb.at) = {[is |-> parts[k].is, length |-> parts[k].length]}
         /\ skb.at = Offset(k) /\ Offset(k) \in Nat /\ size \in Nat /\ skb.len = size - Offset(k)
         /\ Offset(k + 1) = Offset(k) + 6 + parts[k].length
         /\ IF k = Len(parts)
            THEN Offset(k + 1) = size
            ELSE k + 1 \in 1..Len(parts) /\ Offset(k + 1) + 6 <= size
<1>1. parts \in Seq(Parts) /\ size \in Nat /\ size = Total(parts)
  BY DEF DeliveryInv, RxInv, TypeOK, Sane
<1>2. Len(parts) \in Nat /\ DOMAIN parts = 1..Len(parts)
  BY <1>1
<1>3. AtFrame(k)
  BY DEF DeliveryInv
<1>4. k \in FramesOf /\ k \in 1..Len(parts) /\ skb.at = Offset(k) /\ skb.len = size - Offset(k)
  BY <1>2, <1>3 DEF AtFrame, FramesOf
<1>5. parts[k].is \in {"data", "expected"} /\ parts[k].bytes = parts[k].length /\ parts[k].length > 6
  BY <1>2, <1>4 DEF Sane, FramesOf
<1>6. parts[k].length \in Nat
  BY <1>1, <1>4, BytesTyped
<1>7. HeadersAt(skb.at) = {[is |-> parts[k].is, length |-> parts[k].length]}
  BY <1>1, <1>4, HeaderOfPart
<1>8. Places(parts)
  BY <1>1, PartsPlaced
<1>9. Offset(k) \in Nat /\ Offset(k + 1) = Offset(k) + 6 + parts[k].length
  BY <1>2, <1>4, <1>5, <1>8 DEF Places, KALMIA_HEADER_LENGTH
<1>10. CASE k = Len(parts)
  BY <1>1, <1>4, <1>5, <1>6, <1>7, <1>8, <1>9, <1>10 DEF Places
<1>11. CASE k # Len(parts)
  <2>1. k + 1 \in 1..Len(parts) /\ k + 1 \in 1..(Len(parts) + 1) /\ (k + 1) + 1 \in 1..(Len(parts) + 1)
    <3> DEFINE n == Len(parts)
    <3>1. n \in Nat /\ k \in 1..n /\ k # n
      BY <1>2, <1>4, <1>11
    <3> HIDE DEF n
    <3>2. k + 1 \in 1..n /\ k + 1 \in 1..(n + 1) /\ (k + 1) + 1 \in 1..(n + 1)
      BY <3>1
    <3> QED
      BY <3>2 DEF n
  <2>2. parts[k + 1].bytes \in Nat
    BY <1>1, <2>1, BytesTyped
  <2>3. Offset((k + 1) + 1) = Offset(k + 1) + 6 + parts[k + 1].bytes /\ Offset((k + 1) + 1) \in Nat
    BY <1>8, <2>1 DEF Places, KALMIA_HEADER_LENGTH
  <2>4. Offset((k + 1) + 1) <= size
    <3>1. CASE (k + 1) + 1 = Len(parts) + 1
      BY <1>1, <1>8, <2>3, <3>1 DEF Places
    <3>2. CASE (k + 1) + 1 < Len(parts) + 1
      <4>1. Len(parts) + 1 \in 1..(Len(parts) + 1)
        BY <1>2
      <4>2. Offset((k + 1) + 1) < Offset(Len(parts) + 1) /\ Offset(Len(parts) + 1) = size
        BY <1>1, <1>8, <2>1, <3>2, <4>1 DEF Places
      <4> QED
        BY <1>1, <2>3, <4>2
    <3> QED
      BY <1>2, <2>1, <3>1, <3>2
  <2>5. Offset(k + 1) \in Nat
    BY <1>6, <1>9
  <2>6. Offset(k + 1) + 6 <= size
    BY <1>1, <2>2, <2>3, <2>4, <2>5
  <2> QED
    BY <1>1, <1>4, <1>5, <1>6, <1>7, <1>9, <1>11, <2>1, <2>6
<1> QED
  BY <1>10, <1>11

\* Steps of the loop leave the packet as it is.
LEMMA PacketKept ==
  ASSUME parts' = parts, size' = size
  PROVE  /\ Sane' <=> Sane
         /\ FramesOf' = FramesOf
         /\ \A k \in DOMAIN out : out'[k] = out[k] /\ Delivered(k) => Delivered(k)'
         /\ \A k : k \in FramesOf /\ skb' = [at |-> Offset(k), len |-> size - Offset(k)] => AtFrame(k)'
<1>1. \A k : Offset(k)' = Offset(k)
  BY DEF Offset
<1> QED
  BY <1>1 DEF Sane, FramesOf, Delivered, AtFrame

\* One frame more.
LEMMA DeliveredMore ==
  ASSUME RxInv, parts' = parts, size' = size, \A k \in DOMAIN out : Delivered(k),
         NEW k, k = Len(out) + 1, k \in FramesOf,
         out' = Append(out, [at |-> Offset(k) + 6, len |-> parts[k].length])
  PROVE  Len(out') = k /\ \A j \in DOMAIN out' : Delivered(j)'
<1>1. out \in Seq(Piece) /\ Len(out) \in Nat
  BY DEF RxInv
<1>2. Len(out') = k /\ DOMAIN out' = 1..k /\ DOMAIN out = 1..(k - 1) /\ k \in Nat
  BY <1>1
<1>3. \A j \in DOMAIN out : out'[j] = out[j]
  BY <1>1
<1>4. Delivered(k)'
  <2>1. out'[k] = [at |-> Offset(k) + 6, len |-> parts[k].length]
    BY <1>1
  <2>2. Offset(k)' = Offset(k) /\ FramesOf' = FramesOf
    BY DEF Offset, FramesOf
  <2> QED
    BY <2>1, <2>2 DEF Delivered, KALMIA_HEADER_LENGTH
<1>5. \A j \in DOMAIN out : Delivered(j)'
  BY <1>3, PacketKept
<1>6. \A j \in 1..k : j \in 1..(k - 1) \/ j = k
  BY <1>2
<1> QED
  BY <1>2, <1>4, <1>5, <1>6

LEMMA ToDebugDelivery ==
  ASSUME DeliveryInv, ToDebug
  PROVE  DeliveryInv'
<1>1. RxInv'
  BY ToDebugInv DEF DeliveryInv
<1>2. parts' = parts /\ size' = size /\ pc = "loop" /\ pc' = "done"
  BY DEF ToDebug, Return1, Return0
<1>3. ~Sane
  <2> SUFFICES ASSUME Sane PROVE FALSE
    OBVIOUS
  <2> DEFINE k == Len(out) + 1
  <2>1. /\ parts[k].is \in {"data", "expected"}
        /\ HeadersAt(skb.at) = {[is |-> parts[k].is, length |-> parts[k].length]}
    BY <1>2, FrameRead
  <2>2. KindsAt(skb.at) = {parts[k].is}
    BY <2>1 DEF KindsAt
  <2> QED
    BY <2>1, <2>2 DEF ToDebug
<1> QED
  BY <1>1, <1>2, <1>3, PacketKept DEF DeliveryInv

\* A frame without its header, trimmed to its length.
LEMMA FrameStripped ==
  ASSUME skb \in Piece, NEW l \in Nat, skb.len >= 6 + l
  PROVE  /\ Stripped(skb) = [at |-> skb.at + 6, len |-> skb.len - 6]
         /\ Trimmed(Stripped(skb), l) = [at |-> skb.at + 6, len |-> l]
         /\ skb_pull(Stripped(skb), l) = [at |-> skb.at + 6 + l, len |-> skb.len - 6 - l]
<1>1. skb.at \in Nat /\ skb.len \in Nat
  BY DEF Piece
<1>2. Stripped(skb) = [at |-> skb.at + 6, len |-> skb.len - 6]
  BY <1>1 DEF Stripped, skb_pull, KALMIA_HEADER_LENGTH
<1>3. ~(l > skb.len - 6)
  BY <1>1
<1>4. Trimmed(Stripped(skb), l) = [at |-> skb.at + 6, len |-> l]
  <2>1. Trimmed(Stripped(skb), l) = [Stripped(skb) EXCEPT !.len = l]
    BY <1>2, <1>3 DEF Trimmed, skb_trim
  <2> QED
    BY <1>2, <2>1
<1>5. skb_pull(Stripped(skb), l) = [at |-> (skb.at + 6) + l, len |-> (skb.len - 6) - l]
  BY <1>2, <1>3 DEF skb_pull
<1> QED
  BY <1>1, <1>2, <1>4, <1>5

LEMMA SmallMod == ASSUME NEW x \in Nat, x < 65536 PROVE x % 65536 = x
OBVIOUS

\* The lengths of a frame of l bytes at o, whose next part is at p.
LEMMA LengthsOfFrame ==
  ASSUME NEW l \in Nat, l > 6, NEW o \in Nat, NEW p \in Nat, p = o + 6 + l,
         NEW n \in Nat, n <= 14000, NEW len \in Nat, len = n - o
  PROVE  /\ p = n => (len - 12) % 65536 = l - 6 /\ len >= 6 + l
         /\ p + 6 <= n => /\ (len - 12) % 65536 >= l /\ len >= 6 + l
                         /\ len - 6 - l = n - p /\ len - 6 - l > 0
<1>1. CASE p = n
  <2>1. len - 12 = l - 6 /\ l - 6 \in Nat /\ l - 6 < 65536 /\ len >= 6 + l
    BY <1>1
  <2> QED
    BY <1>1, <2>1, SmallMod
<1>2. CASE p + 6 <= n
  <2>1. len - 12 \in Nat /\ len - 12 < 65536 /\ len - 12 >= l
    BY <1>2
  <2>2. (len - 12) % 65536 = len - 12
    BY <2>1, SmallMod
  <2> QED
    BY <1>2, <2>1, <2>2
<1>3. CASE p # n /\ ~(p + 6 <= n)
  BY <1>3
<1> QED
  BY <1>1, <1>2, <1>3

\* What usb_packet_length is: shorter than the length of a last frame, and otherwise
\* all that is behind it, less the next header.
LEMMA LengthRead ==
  ASSUME DeliveryInv, Sane, pc = "loop", NEW k, k = Len(out) + 1
  PROVE  /\ skb \in Piece /\ skb.len >= 6 + parts[k].length
         /\ k = Len(parts) => usb_packet_length(skb) = parts[k].length - 6
         /\ k # Len(parts) => /\ usb_packet_length(skb) >= parts[k].length
                              /\ skb.len - 6 - parts[k].length = size - Offset(k + 1)
                              /\ skb.len - 6 - parts[k].length > 0
         /\ skb.at + 6 + parts[k].length = Offset(k + 1)
<1> DEFINE l == parts[k].length
           o == Offset(k)
           p == Offset(k + 1)
<1>1. l \in Nat /\ l > 6 /\ o \in Nat /\ p = o + 6 + l
  BY FrameRead
<1>2. /\ skb.at = o /\ skb.len = size - o /\ size \in Nat
      /\ k = Len(parts) => p = size
      /\ k # Len(parts) => p + 6 <= size
  BY FrameRead
<1>3. size <= 14000 /\ skb \in Piece
  BY DEF DeliveryInv, RxInv, rx_urb_size
<1>4. usb_packet_length(skb) = (skb.len - 12) % 65536
  BY DEF usb_packet_length, KALMIA_HEADER_LENGTH
<1>5. skb.len \in Nat
  BY <1>3 DEF Piece
<1> HIDE DEF l, o, p
<1>6. p \in Nat
  BY <1>1
<1>7. /\ p = size => (skb.len - 12) % 65536 = l - 6 /\ skb.len >= 6 + l
      /\ p + 6 <= size => /\ (skb.len - 12) % 65536 >= l /\ skb.len >= 6 + l
                          /\ skb.len - 6 - l = size - p /\ skb.len - 6 - l > 0
  BY <1>1, <1>2, <1>3, <1>5, <1>6, LengthsOfFrame
<1>8. skb.at + 6 + l = p
  BY <1>1, <1>2
<1>9. /\ k = Len(parts) => usb_packet_length(skb) = l - 6 /\ skb.len >= 6 + l
      /\ k # Len(parts) => /\ usb_packet_length(skb) >= l /\ skb.len >= 6 + l
                           /\ skb.len - 6 - l = size - p /\ skb.len - 6 - l > 0
  <2>1. CASE k = Len(parts)
    BY <1>2, <1>4, <1>7, <2>1
  <2>2. CASE k # Len(parts)
    BY <1>2, <1>4, <1>7, <2>2
  <2> QED
    BY <2>1, <2>2
<1>10. skb.len >= 6 + l
  BY <1>9, Zenon
<1>11. /\ k = Len(parts) => usb_packet_length(skb) = l - 6
       /\ k # Len(parts) => /\ usb_packet_length(skb) >= l
                            /\ skb.len - 6 - l = size - p /\ skb.len - 6 - l > 0
  BY <1>9, Zenon
<1> QED
  BY <1>3, <1>8, <1>10, <1>11 DEF l, p

LEMMA LastFrameDelivery ==
  ASSUME DeliveryInv, LastFrame
  PROVE  DeliveryInv'
<1>1. RxInv' /\ RxInv
  BY LastFrameInv DEF DeliveryInv
<1>2. parts' = parts /\ size' = size /\ pc = "loop" /\ pc' = "done"
  BY DEF LastFrame, Return1
<1>3. ASSUME Sane PROVE (\A j \in DOMAIN out' : Delivered(j)') /\ Len(out') = Cardinality(FramesOf)
  <2> DEFINE k == Len(out) + 1
             l == parts[k].length
             got == [at |-> Offset(k) + 6, len |-> l]
  <2>1. PICK h \in HeadersAt(skb.at) :
          \/ /\ usb_packet_length(skb) < h.length
             /\ Return1(Trimmed(Stripped(skb), (usb_packet_length(skb) + KALMIA_HEADER_LENGTH) % 65536), out)
          \/ /\ usb_packet_length(skb) >= h.length
             /\ "end" \in KindsAt(Stripped(skb).at + h.length)
             /\ Return1(Trimmed(Stripped(skb), h.length), out)
    BY DEF LastFrame
  <2>2. /\ k \in FramesOf /\ k \in 1..Len(parts) /\ l \in Nat /\ l > 6
        /\ HeadersAt(skb.at) = {[is |-> parts[k].is, length |-> l]} /\ skb.at = Offset(k)
        /\ k # Len(parts) => k + 1 \in 1..Len(parts)
    BY <1>2, <1>3, FrameRead
  <2>3. h.length = l
    BY <2>1, <2>2
  <2>4. /\ skb \in Piece /\ skb.len >= 6 + l
        /\ k = Len(parts) => usb_packet_length(skb) = l - 6
        /\ k # Len(parts) => usb_packet_length(skb) >= l
        /\ skb.at + 6 + l = Offset(k + 1)
    BY <1>2, <1>3, LengthRead
  <2>5. parts \in Seq(Parts) /\ size = Total(parts) /\ DOMAIN parts = 1..Len(parts)
    BY <1>1, <1>3 DEF RxInv, TypeOK, Sane
  <2>6. \A j \in DOMAIN out : Delivered(j)
    BY <1>3 DEF DeliveryInv
  <2> HIDE DEF k, l
  <2>7. Trimmed(Stripped(skb), l) = got /\ Stripped(skb).at = skb.at + 6
    BY <2>2, <2>4, FrameStripped
  <2>8. Return1(got, out) /\ Cardinality(FramesOf) = k
    <3>1. CASE k = Len(parts)
      <4>1. usb_packet_length(skb) = l - 6 /\ l < 65536
        <5>1. \A p \in Parts : p.length < 65536
          BY LengthsAssumption DEF Parts, Part
        <5> QED
          BY <2>2, <2>4, <2>5, <3>1, <5>1 DEF l
      <4>2. usb_packet_length(skb) < l /\ ~(usb_packet_length(skb) >= l)
        BY <2>2, <4>1
      <4>3. (usb_packet_length(skb) + KALMIA_HEADER_LENGTH) % 65536 = l
        <5>1. usb_packet_length(skb) + KALMIA_HEADER_LENGTH = l
          BY <2>2, <4>1 DEF KALMIA_HEADER_LENGTH
        <5> QED
          BY <2>2, <4>1, <5>1, SmallMod
      <4>4. Return1(got, out)
        BY <2>1, <2>3, <2>7, <4>2, <4>3
      <4> QED
        BY <1>3, <2>2, <2>5, <3>1, <4>4, FramesCounted
    <3>2. CASE k # Len(parts)
      <4>1. ~(usb_packet_length(skb) < l)
        <5>1. usb_packet_length(skb) \in Int
          BY <2>4 DEF usb_packet_length, KALMIA_HEADER_LENGTH, Piece
        <5> QED
          BY <2>2, <2>4, <3>2, <5>1
      <4>2. Return1(got, out) /\ "end" \in KindsAt(Offset(k + 1))
        BY <2>1, <2>3, <2>4, <2>7, <4>1
      <4>3. KindsAt(Offset(k + 1)) = {parts[k + 1].is}
        BY <2>2, <2>5, <3>2, KindOfPart
      <4>4. parts[k + 1].is = "end" /\ k + 1 \in DOMAIN parts
        BY <2>2, <2>5, <3>2, <4>2, <4>3
      <4> QED
        BY <1>3, <2>2, <2>5, <4>2, <4>4, FramesCounted
    <3> QED
      BY <3>1, <3>2
  <2>9. out' = Append(out, got)
    BY <2>2, <2>8 DEF Return1
  <2>10. k = Len(out) + 1
    BY DEF k
  <2> QED
    BY <1>1, <1>2, <2>2, <2>6, <2>8, <2>9, <2>10, DeliveredMore DEF l
<1> QED
  BY <1>1, <1>2, <1>3, PacketKept DEF DeliveryInv

LEMMA NextFrameDelivery ==
  ASSUME DeliveryInv, NextFrame
  PROVE  DeliveryInv'
<1>1. RxInv' /\ RxInv
  BY NextFrameInv DEF DeliveryInv
<1>2. parts' = parts /\ size' = size /\ pc = "loop" /\ pc' \in {"loop", "done"}
  BY DEF NextFrame, Return1, Return0
<1>3. ASSUME Sane
      PROVE  /\ \A j \in DOMAIN out' : Delivered(j)'
             /\ pc' = "loop" => AtFrame(Len(out) + 1)'
             /\ pc' = "done" => ret' = 0
  <2> DEFINE k == Len(out) + 1
             l == parts[k].length
             got == [at |-> Offset(k) + 6, len |-> l]
             rest == [at |-> Offset(k + 1), len |-> size - Offset(k + 1)]
  <2>1. PICK h \in HeadersAt(skb.at) :
          /\ usb_packet_length(skb) >= h.length
          /\ KindsAt(Stripped(skb).at + h.length) # {"end"}
          /\ \/ Return0
             \/ /\ skb_pull(Stripped(skb), h.length).len = 0
                /\ Return1(skb_pull(Stripped(skb), h.length), Append(out, Trimmed(Stripped(skb), h.length)))
             \/ /\ pc' = pc /\ skb' = skb_pull(Stripped(skb), h.length)
                /\ out' = Append(out, Trimmed(Stripped(skb), h.length))
    BY DEF NextFrame
  <2>2. /\ k \in FramesOf /\ k \in 1..Len(parts) /\ l \in Nat /\ l > 6
        /\ HeadersAt(skb.at) = {[is |-> parts[k].is, length |-> l]} /\ skb.at = Offset(k)
        /\ k # Len(parts) => k + 1 \in 1..Len(parts)
    BY <1>2, <1>3, FrameRead
  <2>3. h.length = l
    BY <2>1, <2>2
  <2>4. /\ skb \in Piece /\ skb.len >= 6 + l
        /\ k = Len(parts) => usb_packet_length(skb) = l - 6
        /\ k # Len(parts) => /\ skb.len - 6 - l = size - Offset(k + 1)
                             /\ skb.len - 6 - l > 0
        /\ skb.at + 6 + l = Offset(k + 1)
    BY <1>2, <1>3, LengthRead
  <2>5. parts \in Seq(Parts) /\ size = Total(parts) /\ DOMAIN parts = 1..Len(parts)
    BY <1>1, <1>3 DEF RxInv, TypeOK, Sane
  <2>6. \A j \in DOMAIN out : Delivered(j)
    BY <1>3 DEF DeliveryInv
  <2>7. k = Len(out) + 1
    OBVIOUS
  <2> HIDE DEF k, l
  <2>8. k # Len(parts)
    <3> SUFFICES ASSUME k = Len(parts) PROVE FALSE
      OBVIOUS
    <3>1. usb_packet_length(skb) = l - 6
      BY <2>4
    <3>2. ~(l - 6 >= l)
      BY <2>2
    <3> QED
      BY <2>1, <2>3, <3>1, <3>2
  <2>9. /\ Trimmed(Stripped(skb), l) = got /\ Stripped(skb).at = skb.at + 6
        /\ skb_pull(Stripped(skb), l) = rest /\ rest.len > 0
    BY <2>2, <2>4, <2>8, FrameStripped
  <2>10. k + 1 \in FramesOf
    <3>2. KindsAt(Offset(k + 1)) = {parts[k + 1].is}
      BY <2>2, <2>5, <2>8, KindOfPart
    <3>3. KindsAt(Offset(k + 1)) # {"end"}
      BY <2>1, <2>3, <2>4, <2>9
    <3> QED
      BY <2>2, <2>5, <2>8, <3>2, <3>3 DEF FramesOf
  <2>11. CASE Return0
    <3>1. out' = out /\ pc' = "done" /\ ret' = 0
      BY <2>11 DEF Return0
    <3>2. \A j \in DOMAIN out' : Delivered(j)'
      BY <1>2, <2>6, <3>1, PacketKept
    <3> QED
      BY <3>1, <3>2
  <2>12. CASE pc' = pc /\ skb' = rest /\ out' = Append(out, got)
    <3>1. Len(out') = k /\ \A j \in DOMAIN out' : Delivered(j)'
      BY <1>1, <1>2, <2>2, <2>6, <2>7, <2>12, DeliveredMore DEF l
    <3>2. PICK j : j = k + 1
      OBVIOUS
    <3>3. AtFrame(j)'
      BY <1>2, <2>10, <2>12, <3>2, PacketKept
    <3>4. Len(out') + 1 = j
      BY <3>1, <3>2
    <3>5. AtFrame(Len(out) + 1)'
      BY <3>3, <3>4 DEF AtFrame, Offset
    <3> QED
      BY <1>2, <2>12, <3>1, <3>5
  <2>13. rest.len # 0
    BY <2>9
  <2> QED
    BY <2>1, <2>3, <2>9, <2>11, <2>12, <2>13, Zenon
<1> QED
  BY <1>1, <1>2, <1>3, PacketKept DEF DeliveryInv

LEMMA DeliveryHolds == Spec => []DeliveryInv
<1>1. ASSUME DeliveryInv, [Next]_vars PROVE DeliveryInv'
  <2>1. CASE kalmia_tx_fixup
    <3>1. /\ RxInv' /\ UNCHANGED <<parts, size, out, ret>> /\ pc = "called" /\ pc' = "done"
      BY <1>1, <2>1, TxInv DEF kalmia_tx_fixup, DeliveryInv
    <3>2. ~Sane'
      BY <1>1, <3>1 DEF DeliveryInv, Sane
    <3> QED
      BY <1>1, <3>1, <3>2 DEF DeliveryInv
  <2>2. CASE UNCHANGED vars
    <3>1. RxInv'
      BY <1>1, <2>2, StutterInv DEF DeliveryInv
    <3>2. UNCHANGED <<parts, size, out, ret, pc, skb>>
      BY <2>2 DEF vars
    <3>3. Sane' <=> Sane
      BY <3>2, PacketKept
    <3>4. \A k \in DOMAIN out : Delivered(k) => Delivered(k)'
      BY <3>2, PacketKept
    <3>5. (AtFrame(Len(out) + 1))' <=> AtFrame(Len(out) + 1)
      BY <3>2 DEF AtFrame, Offset, FramesOf
    <3>6. FramesOf' = FramesOf
      BY <3>2, PacketKept
    <3> QED
      BY <1>1, <3>1, <3>2, <3>3, <3>4, <3>5, <3>6 DEF DeliveryInv
  <2> QED
    BY <1>1, <2>1, <2>2, ReceiveDelivery, ToDebugDelivery, LastFrameDelivery, NextFrameDelivery
       DEF Next, kalmia_rx_fixup
<1> QED
  BY <1>1, InitDelivery, PTL DEF Spec

\* The network stack gets the frames of every packet of whole frames, in order
\* and none twice, and all of them if kalmia_rx_fixup returns 1 (kalmia.c:277).
THEOREM FramesDeliveredHolds == Spec => []FramesDelivered
<1>1. DeliveryInv => FramesDelivered
  BY DEF DeliveryInv, FramesDelivered, Delivered
<1> QED
  BY <1>1, DeliveryHolds, PTL
=============================================================================
