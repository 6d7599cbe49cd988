----------------------------- MODULE KalmiaFifo -----------------------------
(***************************************************************************)
(* The debug FIFO of the old kernel driver (kalmia.c).  rx_fixup puts each *)
(* unknown frame into a kfifo as a start word, a length and the data, in   *)
(* three calls and without a lock; the ioctl of /dev/c2xx takes them out   *)
(* in three calls under read_lock.  A call that takes cells out reads how  *)
(* much there is, copies it and then moves the FIFO's out: the receiver    *)
(* may run between.                                                        *)
(*                                                                         *)
(* The FIFO is not reset: INIT_KFIFO, which c2xx_init runs without a lock  *)
(* when the dongle is plugged in again, may fall into such a call, and     *)
(* then out is left ahead of in.                                           *)
(*                                                                         *)
(* A cell is two bytes of the FIFO: cell o of record r is half of the      *)
(* start word (o = 1, 2: both halves of 0x55AA55AA are equal), half of the *)
(* length (o = 3, 4) or data.                                              *)
(***************************************************************************)
EXTENDS Integers, Sequences, FiniteSets, SequencesExt

CONSTANTS
  Readers,     \* threads that call the ioctl (kalmiadump)
  NoReader,    \* the holder of a free read_lock
  Capacity,    \* cells in the FIFO (0x2000 in the driver)
  Lengths,     \* lengths of the records, in cells
  MaxRecords   \* bound: frames the modem sends

ASSUME FifoAssumption ==
  /\ NoReader \notin Readers
  /\ Capacity \in Nat
  /\ Lengths \subseteq Nat \ {0}
  /\ MaxRecords \in Nat

VARIABLES
  fifo,      \* c2xx_fifo
  size,      \* size of each frame the modem has sent
  rx,        \* where rx_fixup is: "idle", "len" or "data" of the latest frame
  lock,      \* the holder of read_lock, or NoReader
  pc,        \* where each reader is in the ioctl: "user", "start", "len", "data"
  call,      \* the kfifo call that the holder of read_lock is in
  len,       \* len of each reader
  fetched    \* what the successful ioctls returned, in order, and where the
             \* receiver was

vars == <<fifo, size, rx, lock, pc, call, len, fetched>>

Cells == [r : 1..MaxRecords, o : 1..(4 + Capacity)]
Huge == 2 * Capacity      \* stands for 0x55AA55AA, more than the FIFO holds

\* A call takes n cells; the receiver was at rx when it looked what there is.
NoCall == [n |-> 0, rx |-> "none"]

TypeOK ==
  /\ fifo \in Seq(Cells) /\ Len(fifo) <= Capacity
  /\ size \in Seq(Lengths) /\ Len(size) <= MaxRecords
  /\ rx \in {"idle", "len", "data"}
  /\ lock \in Readers \cup {NoReader}
  /\ pc \in [Readers -> {"user", "start", "len", "data"}]
  /\ \A r \in Readers : pc[r] # "user" <=> lock = r
  /\ call \in {NoCall} \cup [n : 0..Len(fifo), rx : {"idle", "len", "data"}]
  /\ call # NoCall => lock # NoReader
  /\ len \in [Readers -> Lengths \cup {0, Huge}]
  /\ fetched \in Seq([len : Lengths \cup {Huge}, data : Seq(Cells),
                      during : {"idle", "len", "data"}])

Init ==
  /\ fifo = << >> /\ size = << >> /\ rx = "idle"
  /\ lock = NoReader
  /\ pc = [r \in Readers |-> "user"] /\ call = NoCall
  /\ len = [r \in Readers |-> 0]
  /\ fetched = << >>

-----------------------------------------------------------------------------
(* The producer: kalmia_rx_fixup.                                          *)

Record == Len(size)       \* the latest record
Put(from, to) == [i \in 1..(to - from + 1) |-> [r |-> Record', o |-> from + i - 1]]
Avail == Capacity - Len(fifo)

\* kfifo_in copies what fits; rx_fixup returns when that is not all.
kfifo_in(cells, next) ==
  /\ fifo' = fifo \o SubSeq(cells, 1, IF Len(cells) <= Avail THEN Len(cells) ELSE Avail)
  /\ rx' = IF Len(cells) <= Avail THEN next ELSE "idle"

\* Mutant: the room for the length is forgotten.
RxStart_NoRoomForLen ==
  /\ rx = "idle" /\ Record < MaxRecords
  /\ \E n \in Lengths :
       /\ size' = Append(size, n)
       /\ IF Avail >= 2 + n THEN kfifo_in(Put(1, 2), "len") ELSE UNCHANGED <<fifo, rx>>
  /\ UNCHANGED <<lock, pc, call, len, fetched>>

\* A record that has no room is dropped; the room is checked once.
RxStart ==
  /\ rx = "idle" /\ Record < MaxRecords
  /\ \E n \in Lengths :
       /\ size' = Append(size, n)
       /\ IF Avail >= 4 + n THEN kfifo_in(Put(1, 2), "len") ELSE UNCHANGED <<fifo, rx>>
  /\ UNCHANGED <<lock, pc, call, len, fetched>>

RxLen ==
  /\ rx = "len"
  /\ size' = size
  /\ kfifo_in(Put(3, 4), "data")
  /\ UNCHANGED <<lock, pc, call, len, fetched>>

RxData ==
  /\ rx = "data"
  /\ size' = size
  /\ kfifo_in(Put(5, 4 + size[Record]), "idle")
  /\ UNCHANGED <<lock, pc, call, len, fetched>>

-----------------------------------------------------------------------------
(* The readers: c2xx_ioctl.  The receiver, a softirq, may run on another   *)
(* processor; on the reader's it is idle whenever a reader takes a step.   *)

\* A call takes what there is, up to what is wanted ...
Begin(r) ==
  /\ pc[r] # "user" /\ call = NoCall
  /\ LET wanted == IF pc[r] = "data" THEN len[r] ELSE 2
     IN  call' = [n |-> IF wanted <= Len(fifo) THEN wanted ELSE Len(fifo), rx |-> rx]
  /\ UNCHANGED <<fifo, size, rx, lock, pc, len, fetched>>

\* ... and copies these cells, which nobody overwrites before out is moved over n.
Copied == SubSeq(fifo, 1, call.n)
Rest(n) == SubSeq(fifo, n + 1, Len(fifo))
EndCall(n) ==
  /\ call # NoCall /\ call' = NoCall
  /\ fifo' = Rest(n)

IsStart(cells) == Len(cells) = 2 /\ \A i \in 1..2 : cells[i].o \in {1, 2}

\* A length read where there is none is a start word.
LenOf(cells) == IF cells[1].o = 3 THEN size[cells[1].r] ELSE Huge

\* Mutant: a return without the unlock.
Return_Locked(r) ==
  /\ pc' = [pc EXCEPT ![r] = "user"]
  /\ lock' = lock

Return(r) ==
  /\ pc' = [pc EXCEPT ![r] = "user"]
  /\ lock' = NoReader

Lock(r) ==
  /\ pc[r] = "user" /\ lock = NoReader
  /\ lock' = r
  /\ pc' = [pc EXCEPT ![r] = "start"]
  /\ UNCHANGED <<fifo, size, rx, call, len, fetched>>

\* Mutant: the start word is not compared.
FetchStart_Unchecked(r) ==
  /\ pc[r] = "start" /\ EndCall(call.n)
  /\ IF Len(Copied) = 2
       THEN pc' = [pc EXCEPT ![r] = "len"] /\ UNCHANGED lock
       ELSE Return(r)
  /\ UNCHANGED <<size, rx, len, fetched>>

\* Mutant: the start word is peeked first (as in the line commented out, kalmia.c:436).
FetchStart_Peeks(r) ==
  /\ pc[r] = "start"
  /\ IF IsStart(Copied)
       THEN EndCall(call.n) /\ pc' = [pc EXCEPT ![r] = "len"] /\ UNCHANGED lock
       ELSE EndCall(0) /\ Return(r)
  /\ UNCHANGED <<size, rx, len, fetched>>

\* What is taken out is gone, whether or not it is a start word.
FetchStart(r) ==
  /\ pc[r] = "start" /\ EndCall(call.n)
  /\ IF IsStart(Copied)
       THEN pc' = [pc EXCEPT ![r] = "len"] /\ UNCHANGED lock
       ELSE Return(r)
  /\ UNCHANGED <<size, rx, len, fetched>>

FetchLen(r) ==
  /\ pc[r] = "len" /\ EndCall(call.n)
  /\ IF call.n = 2
       THEN /\ pc' = [pc EXCEPT ![r] = "data"]
            /\ len' = [len EXCEPT ![r] = LenOf(Copied)]
            /\ UNCHANGED lock
       ELSE Return(r) /\ UNCHANGED len
  /\ UNCHANGED <<size, rx, fetched>>

\* kfifo_to_user: how much was copied is not looked at.
FetchData(r) ==
  /\ pc[r] = "data" /\ EndCall(call.n)
  /\ fetched' = Append(fetched, [len |-> len[r], data |-> Copied, during |-> call.rx])
  /\ Return(r)
  /\ UNCHANGED <<size, rx, len>>

\* A page fault in kfifo_to_user or put_user: -EFAULT, some of the data is gone.
FetchFault(r) ==
  /\ pc[r] = "data" /\ \E k \in 0..call.n : EndCall(k)
  /\ Return(r)
  /\ UNCHANGED <<size, rx, len, fetched>>

Reader(r) ==
  Lock(r) \/ Begin(r) \/ FetchStart(r) \/ FetchLen(r) \/ FetchData(r) \/ FetchFault(r)

Next ==
  \/ RxStart \/ RxLen \/ RxData
  \/ \E r \in Readers : Reader(r)

\* kalmiadump calls the ioctl in an endless loop.
Fairness == WF_vars(\E r \in Readers : Reader(r))

Spec == Init /\ [][Next]_vars
FairSpec == Spec /\ Fairness

-----------------------------------------------------------------------------
(* Properties.                                                             *)

\* The cells of record r from cell o on.
From(r, o) == [i \in 1..(4 + size[r] - o + 1) |-> [r |-> r, o |-> o + i - 1]]

\* Wherever the three puts fall between and into the three calls, a fetch returns a
\* length of a record with all of its data, or with none if the receiver had just
\* put the length: so on one processor every fetch is whole (kalmia.c:437-464).
FetchesRecords ==
  \A i \in DOMAIN fetched :
    LET f == fetched[i] IN
    /\ f.len \in Lengths
    /\ IF f.data = << >>
         THEN f.during = "data"
         ELSE /\ f.data = From(f.data[1].r, 5)
              /\ f.len = size[f.data[1].r]

\* A successful fetch says that it fetched an event (nfetch = 1): all the data
\* is there (kalmiadump.c:24).
FetchedWhole ==
  \A i \in DOMAIN fetched : Len(fetched[i].data) = fetched[i].len

\* With page faults and overtaken puts, the readers get to the end of the FIFO again
\* and again: words that make no record never block them (kalmia.c:437-447).
Drained == []<>(fifo = << >>)

\* The records that lie whole in the FIFO, the one a reader has begun included.
Waiting ==
  {r \in DOMAIN size :
     \/ \E i \in 0..Len(fifo) : IsPrefix(From(r, 1), Rest(i))
     \/ IsPrefix(From(r, 3), fifo) /\ \E x \in Readers : pc[x] = "len"
     \/ IsPrefix(From(r, 5), fifo) /\ \E x \in Readers : pc[x] = "data"}

\* The fetches that gave a record.
Gotten == {i \in DOMAIN fetched : fetched[i].data # << >>}

\* The elements of a finite set of numbers, the smallest first.
Rank(S, x) == Cardinality({y \in S : y < x})
InOrder(S) == [k \in 1..Cardinality(S) |-> CHOOSE x \in S : Rank(S, x) = k - 1]

Q == INSTANCE RecordQueue WITH
       Record <- 1..MaxRecords,
       queue <- InOrder(Waiting),
       taken <- [k \in 1..Cardinality(Gotten) |-> fetched[InOrder(Gotten)[k]].data[1].r]

\* Until it is reset the FIFO is a lossy queue of whole records, for readers on any
\* processors and across page faults (kalmia.c:315-337, 431-469).
QueueSpec == Q!Spec
=============================================================================
