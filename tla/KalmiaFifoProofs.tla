-------------------------- MODULE KalmiaFifoProofs --------------------------
(***************************************************************************)
(* What the debug FIFO guarantees for any number of readers, any capacity, *)
(* any lengths and any number of records, wherever their calls overlap.    *)
(***************************************************************************)
EXTENDS KalmiaFifo, SequenceTheorems, FiniteSetTheorems, TLAPS

-----------------------------------------------------------------------------
(* Runs of cells.                                                          *)

Cell == [r : Nat, o : Nat]

\* In q, whose record r is written up to cell w[r], each cell is followed by the
\* rest of its record, as far as it is written, and then by later records.
Runs(q, w) ==
  /\ \A k \in DOMAIN q :
       /\ q[k].r \in DOMAIN w /\ q[k].o <= w[q[k].r]
       /\ k + w[q[k].r] - q[k].o <= Len(q)
       /\ q[k + w[q[k].r] - q[k].o].r = q[k].r
  /\ \A j, k \in DOMAIN q :
       j <= k => /\ q[j].r <= q[k].r
                 /\ q[j].r = q[k].r => q[k].o - q[j].o = k - j

\* Cells a..(a + m - 1) of record x, and s is q with these cells behind it.
CellsOf(x, a, m) == [i \in 1..m |-> [r |-> x, o |-> a + i - 1]]
Extends(s, q, x, a, m) ==
  /\ Len(s) = Len(q) + m
  /\ \A k \in 1..Len(q) : s[k] = q[k]
  /\ \A i \in 1..m : s[Len(q) + i].r = x /\ s[Len(q) + i].o = a + i - 1

IsWritten(w) == DOMAIN w \subseteq Nat /\ w \in [DOMAIN w -> Nat]

LEMMA CellTypes ==
  ASSUME NEW q \in Seq(Cell)
  PROVE  /\ DOMAIN q = 1..Len(q) /\ Len(q) \in Nat
         /\ \A k \in DOMAIN q : q[k] \in Cell
         /\ \A k \in DOMAIN q : q[k].r \in Nat /\ q[k].o \in Nat
<1>1. \A k \in DOMAIN q : q[k] \in Cell
  OBVIOUS
<1>2. \A c \in Cell : c.r \in Nat /\ c.o \in Nat
  BY DEF Cell
<1> QED
  BY <1>1, <1>2

\* The front of a queue of runs can be cut off anywhere.
LEMMA RunsTail ==
  ASSUME NEW D \in SUBSET Nat, NEW w \in [D -> Nat],
         NEW q \in Seq(Cell), NEW p \in Seq(Cell), NEW n \in Nat, Runs(q, w),
         \A k \in DOMAIN p : k + n \in DOMAIN q /\ p[k] = q[k + n],
         p # << >> => Len(p) = Len(q) - n
  PROVE  Runs(p, w)
<1>1. /\ DOMAIN p = 1..Len(p) /\ DOMAIN q = 1..Len(q) /\ Len(p) \in Nat /\ Len(q) \in Nat
      /\ \A k \in DOMAIN q : q[k].r \in Nat /\ q[k].o \in Nat
  BY CellTypes
<1>2. ASSUME NEW k \in DOMAIN p
      PROVE  /\ p[k].r \in DOMAIN w /\ p[k].o <= w[p[k].r]
             /\ k + w[p[k].r] - p[k].o <= Len(p)
             /\ p[k + w[p[k].r] - p[k].o].r = p[k].r
  <2>1. /\ k + n \in DOMAIN q /\ p[k] = q[k + n] /\ Len(p) = Len(q) - n /\ k \in Nat /\ 1 <= k
    BY <1>1
  <2>2. PICK c : c = q[k + n]
    OBVIOUS
  <2>3. c.r \in Nat /\ c.o \in Nat /\ c.r \in D
    BY <1>1, <2>1, <2>2 DEF Runs
  <2>4. PICK e \in Int : e = w[c.r] - c.o
    BY <2>3
  <2>5. e >= 0 /\ (k + n) + e <= Len(q) /\ q[(k + n) + e].r = c.r
    <3>1. /\ c.o <= w[c.r] /\ (k + n) + w[c.r] - c.o <= Len(q)
          /\ q[(k + n) + w[c.r] - c.o].r = c.r
      BY <2>1, <2>2 DEF Runs
    <3>2. (k + n) + w[c.r] - c.o = (k + n) + e /\ w[c.r] \in Nat
      BY <2>1, <2>3, <2>4
    <3> QED
      BY <3>1, <3>2, <2>3, <2>4
  <2>6. k + e \in DOMAIN p /\ k + e <= Len(p) /\ (k + e) + n = (k + n) + e
    BY <1>1, <2>1, <2>5
  <2>7. p[k + e] = q[(k + n) + e]
    BY <2>6
  <2>8. k + w[c.r] - c.o = k + e /\ w[c.r] \in Nat /\ c.o <= w[c.r]
    BY <2>1, <2>3, <2>4, <2>5
  <2> QED
    BY <2>1, <2>2, <2>3, <2>5, <2>6, <2>7, <2>8
<1>3. ASSUME NEW j \in DOMAIN p, NEW k \in DOMAIN p, j <= k
      PROVE  /\ p[j].r <= p[k].r
             /\ p[j].r = p[k].r => p[k].o - p[j].o = k - j
  <2>1. /\ j + n \in DOMAIN q /\ k + n \in DOMAIN q /\ j + n <= k + n
        /\ p[j] = q[j + n] /\ p[k] = q[k + n] /\ (k + n) - (j + n) = k - j
    BY <1>1, <1>3
  <2>2. /\ q[j + n].r <= q[k + n].r
        /\ q[j + n].r = q[k + n].r => q[k + n].o - q[j + n].o = (k + n) - (j + n)
    BY <2>1 DEF Runs
  <2> QED
    BY <2>1, <2>2
<1> QED
  BY <1>2, <1>3 DEF Runs

\* From the cell at k on, the record of the cell follows to its written end.
LEMMA RunFollows ==
  ASSUME NEW D \in SUBSET Nat, NEW w \in [D -> Nat],
         NEW q \in Seq(Cell), Runs(q, w),
         NEW k \in DOMAIN q, NEW d \in Nat, q[k].o + d <= w[q[k].r]
  PROVE  /\ k + d \in DOMAIN q /\ q[k + d] = [r |-> q[k].r, o |-> q[k].o + d]
<1>1. /\ DOMAIN q = 1..Len(q) /\ Len(q) \in Nat /\ k \in Nat /\ k >= 1
      /\ \A i \in DOMAIN q : q[i] \in Cell
      /\ \A i \in DOMAIN q : q[i].r \in Nat /\ q[i].o \in Nat
  BY CellTypes
<1>2. PICK c : c = q[k]
  OBVIOUS
<1>3. c.r \in Nat /\ c.o \in Nat /\ c.r \in D /\ w[c.r] \in Nat
  BY <1>1, <1>2 DEF Runs
<1>4. PICK e \in Int : e = k + w[c.r] - c.o
  BY <1>1, <1>3
<1>5. e <= Len(q) /\ q[e].r = c.r /\ k + d <= e
  BY <1>1, <1>2, <1>3, <1>4 DEF Runs
<1>6. e \in DOMAIN q /\ k + d \in DOMAIN q /\ k <= k + d /\ (k + d) - k = d
  BY <1>1, <1>5
<1>7. c.r <= q[k + d].r /\ q[k + d].r <= c.r
  BY <1>2, <1>5, <1>6 DEF Runs
<1>8. q[k + d].r = c.r
  BY <1>1, <1>3, <1>6, <1>7
<1>9. q[k + d].o - c.o = d
  BY <1>2, <1>6, <1>8 DEF Runs
<1>10. q[k + d] \in Cell /\ q[k + d].o = c.o + d
  <2>1. q[k + d] \in Cell /\ q[k + d].o \in Nat
    BY <1>1, <1>6
  <2>2. PICK o \in Nat : o = q[k + d].o
    BY <2>1
  <2>3. o - c.o = d
    BY <1>9, <2>2
  <2>4. o = c.o + d
    BY <1>3, <2>3
  <2> QED
    BY <2>1, <2>2, <2>4
<1> QED
  BY <1>2, <1>6, <1>8, <1>10 DEF Cell

\* The latest record ends where the queue does.
LEMMA RunEnds ==
  ASSUME NEW D \in SUBSET Nat, NEW w \in [D -> Nat],
         NEW q \in Seq(Cell), Runs(q, w),
         NEW R \in D, \A x \in D : x <= R,
         NEW k \in DOMAIN q, q[k].r = R
  PROVE  k + w[R] - q[k].o = Len(q)
<1>1. /\ DOMAIN q = 1..Len(q) /\ Len(q) \in Nat /\ k \in Nat /\ k >= 1
      /\ \A i \in DOMAIN q : q[i].r \in Nat /\ q[i].o \in Nat
  BY CellTypes
<1>2. R \in Nat /\ w[R] \in Nat /\ q[k].o \in Nat /\ q[k].o <= w[R] /\ k + w[R] - q[k].o <= Len(q)
  BY <1>1 DEF Runs
<1>3. Len(q) \in DOMAIN q /\ k <= Len(q)
  BY <1>1
<1>4. q[Len(q)].r = R
  <2>1. q[Len(q)].r <= R /\ R <= q[Len(q)].r
    BY <1>3 DEF Runs
  <2> QED
    BY <1>1, <1>2, <1>3, <2>1
<1>5. q[Len(q)].o <= w[R] /\ q[Len(q)].o - q[k].o = Len(q) - k
  BY <1>3, <1>4 DEF Runs
<1>6. q[Len(q)].o \in Nat
  BY <1>1, <1>3
<1> QED
  BY <1>1, <1>2, <1>5, <1>6

\* The latest record is continued, or the next one begun.
LEMMA RunsPut ==
  ASSUME NEW w, IsWritten(w), NEW v, IsWritten(v),
         NEW q \in Seq(Cell), Runs(q, w),
         NEW R \in Nat, NEW a \in Nat, NEW m \in Nat, m >= 1,
         \A x \in DOMAIN w : x <= R /\ (x # R => v[x] = w[x]),
         R \in DOMAIN w => w[R] = a - 1,
         DOMAIN v = DOMAIN w \cup {R}, v[R] = a + m - 1,
         NEW s \in Seq(Cell), Extends(s, q, R, a, m)
  PROVE  Runs(s, v)
<1> DEFINE D == DOMAIN w
<1>a. /\ D \in SUBSET Nat /\ w \in [D -> Nat] /\ v \in [D \cup {R} -> Nat]
      /\ \A x \in D : x <= R
      /\ R \in D => w[R] = a - 1
      /\ \A x \in D : x # R => v[x] = w[x]
  BY DEF IsWritten
<1> HIDE DEF D
<1>0. /\ Len(s) = Len(q) + m
      /\ \A k \in 1..Len(q) : s[k] = q[k]
      /\ \A i \in 1..m : s[Len(q) + i].r = R /\ s[Len(q) + i].o = a + i - 1
  BY DEF Extends
<1>1. /\ DOMAIN q = 1..Len(q) /\ Len(q) \in Nat /\ DOMAIN s = 1..Len(s) /\ Len(s) \in Nat
      /\ \A i \in DOMAIN q : q[i].r \in Nat /\ q[i].o \in Nat
      /\ Len(s) = Len(q) + m
  BY <1>0, CellTypes
<1>2. ASSUME NEW k \in DOMAIN s, k > Len(q)
      PROVE  s[k].r = R /\ s[k].o = a + (k - Len(q)) - 1
  <2>1. k - Len(q) \in 1..m /\ Len(q) + (k - Len(q)) = k
    BY <1>1, <1>2
  <2> QED
    BY <1>0, <2>1
<1>3. ASSUME NEW k \in DOMAIN q
      PROVE  /\ k \in DOMAIN s /\ s[k] = q[k] /\ q[k].r \in D
             /\ q[k].r = R => R \in D /\ q[k].o = k + (a - 1) - Len(q)
  <2>1. k \in DOMAIN s /\ s[k] = q[k] /\ q[k].r \in D
    BY <1>0, <1>1, <1>a DEF Runs
  <2>2. ASSUME q[k].r = R
        PROVE  q[k].o = k + (a - 1) - Len(q)
    <3>1. R \in D /\ w[R] = a - 1 /\ q[k].o \in Nat
      BY <1>a, <1>1, <2>1, <2>2
    <3>2. k + w[R] - q[k].o = Len(q)
      BY <1>a, <2>2, <3>1, RunEnds
    <3>3. PICK o \in Int : o = k + (a - 1) - Len(q)
      BY <1>1
    <3>4. k + (a - 1) - q[k].o = Len(q) /\ k \in Nat /\ Len(q) \in Nat
      BY <1>1, <3>1, <3>2
    <3>5. q[k].o = o
      BY <3>1, <3>3, <3>4, SMTT(60)
    <3> QED
      BY <3>3, <3>5
  <2> QED
    BY <2>1, <2>2
<1>4. ASSUME NEW k \in DOMAIN s
      PROVE  /\ s[k].r \in DOMAIN v /\ s[k].o <= v[s[k].r]
             /\ k + v[s[k].r] - s[k].o <= Len(s)
             /\ s[k + v[s[k].r] - s[k].o].r = s[k].r
  <2>1. s[Len(s)].r = R
    <3>1. Len(s) \in DOMAIN s /\ Len(s) > Len(q)
      BY <1>1
    <3> QED
      BY <1>2, <3>1
  <2>2. CASE k > Len(q)
    <3>1. s[k].r = R /\ s[k].o = a + (k - Len(q)) - 1
      BY <1>2, <2>2
    <3>2. k + v[R] - s[k].o = Len(s) /\ s[k].o <= v[R]
      BY <1>a, <1>1, <3>1
    <3> QED
      BY <1>a, <1>1, <2>1, <3>1, <3>2
  <2>3. CASE k \in DOMAIN q /\ q[k].r = R
    <3>1. s[k].r = R /\ s[k].o = k + (a - 1) - Len(q)
      BY <1>3, <2>3
    <3>2. k + v[R] - s[k].o = Len(s) /\ s[k].o <= v[R]
      BY <1>a, <1>1, <3>1
    <3> QED
      BY <1>a, <1>1, <2>1, <3>1, <3>2
  <2>4. CASE k \in DOMAIN q /\ q[k].r # R
    <3>1. s[k] = q[k] /\ q[k].r \in D /\ v[q[k].r] = w[q[k].r]
      BY <1>a, <1>3, <2>4
    <3>2. /\ q[k].o <= w[q[k].r] /\ k + w[q[k].r] - q[k].o <= Len(q)
          /\ q[k + w[q[k].r] - q[k].o].r = q[k].r
      BY <2>4, <1>a DEF Runs
    <3>3. w[q[k].r] \in Nat /\ q[k].o \in Nat /\ k \in Nat /\ k >= 1
      BY <1>a, <1>1, <2>4, <3>1
    <3>4. k + w[q[k].r] - q[k].o \in DOMAIN q
      BY <1>1, <3>2, <3>3, SMTT(60)
    <3>5. s[k + w[q[k].r] - q[k].o] = q[k + w[q[k].r] - q[k].o]
      BY <1>3, <3>4
    <3>6. k + w[q[k].r] - q[k].o <= Len(s)
      <4>1. \A e \in Int : e <= Len(q) => e <= Len(s)
        BY <1>1
      <4>2. k + w[q[k].r] - q[k].o \in Int
        BY <3>3
      <4> QED
        BY <3>2, <4>1, <4>2
    <3> QED
      BY <1>a, <3>1, <3>2, <3>5, <3>6
  <2> QED
    BY <1>1, <2>2, <2>3, <2>4
<1>5. ASSUME NEW j \in DOMAIN s, NEW k \in DOMAIN s, j <= k
      PROVE  /\ s[j].r <= s[k].r
             /\ s[j].r = s[k].r => s[k].o - s[j].o = k - j
  <2>1. CASE k \in DOMAIN q
    <3>1. j \in DOMAIN q /\ s[j] = q[j] /\ s[k] = q[k]
      BY <1>1, <1>3, <1>5, <2>1
    <3> QED
      BY <1>5, <2>1, <3>1 DEF Runs
  <2>2. CASE j > Len(q)
    <3>1. /\ s[j].r = R /\ s[j].o = a + (j - Len(q)) - 1
          /\ s[k].r = R /\ s[k].o = a + (k - Len(q)) - 1
      BY <1>1, <1>2, <1>5, <2>2
    <3> QED
      BY <1>a, <1>1, <3>1
  <2>3. CASE j \in DOMAIN q /\ k > Len(q)
    <3>1. s[k].r = R /\ s[k].o = a + (k - Len(q)) - 1
      BY <1>2, <2>3
    <3>2. s[j].r <= R /\ (s[j].r = R => s[j].o = j + (a - 1) - Len(q))
      BY <1>a, <1>3, <2>3
    <3> QED
      BY <1>1, <3>1, <3>2
  <2> QED
    BY <1>1, <2>1, <2>2, <2>3
<1> QED
  BY <1>4, <1>5 DEF Runs

\* Records that are not there yet have no cells.
LEMMA RunsMore ==
  ASSUME NEW D \in SUBSET Nat, NEW w \in [D -> Nat], NEW q, Runs(q, w),
         NEW E, NEW v \in [E -> Nat], D \subseteq E, \A x \in D : v[x] = w[x]
  PROVE  Runs(q, v)
<1>1. ASSUME NEW k \in DOMAIN q
      PROVE  /\ q[k].r \in DOMAIN v /\ q[k].o <= v[q[k].r]
             /\ k + v[q[k].r] - q[k].o <= Len(q)
             /\ q[k + v[q[k].r] - q[k].o].r = q[k].r
  <2>1. q[k].r \in DOMAIN v /\ v[q[k].r] = w[q[k].r]
    BY DEF Runs
  <2> QED
    BY <2>1, Zenon DEF Runs
<1> QED
  BY <1>1, Zenon DEF Runs

-----------------------------------------------------------------------------
(* The inductive invariant.                                                *)

\* How many cells of a record the receiver has put, if it had room for it.
written ==
  [r \in DOMAIN size |->
     IF r = Record /\ rx = "len" THEN 2
     ELSE IF r = Record /\ rx = "data" THEN 4
     ELSE 4 + size[r]]

\* The FIFO holds runs, and the room that rx_fixup checked is still there.
DataInv ==
  /\ fifo \in Seq(Cells) /\ Len(fifo) <= Capacity
  /\ size \in Seq(Lengths) /\ Len(size) <= MaxRecords
  /\ rx \in {"idle", "len", "data"}
  /\ Runs(fifo, written)
  /\ rx # "idle" => /\ size # << >>
                    /\ Len(fifo) + 4 + size[Record] <= Capacity + written[Record]

LockInv ==
  /\ lock \in Readers \cup {NoReader}
  /\ pc \in [Readers -> {"user", "start", "len", "data"}]
  /\ \A x \in Readers : pc[x] # "user" <=> lock = x
  /\ len \in [Readers -> Lengths \cup {0, Huge}]
  /\ \A x \in Readers : pc[x] = "data" => len[x] \in Lengths \cup {Huge}

\* A reader between its first and its last call is at the right cell, or it has
\* overtaken the receiver.
PlaceInv ==
  \A x \in Readers :
    /\ pc[x] = "len" => IF fifo = << >> THEN rx = "len" ELSE fifo[1].o = 3
    /\ pc[x] = "data" => IF fifo = << >> THEN rx = "data" /\ len[x] = size[Record]
                         ELSE fifo[1].o = 5 /\ len[x] = size[fifo[1].r]

\* A call takes no more than there is; the last takes what was wanted, or nothing if
\* the receiver was about to put it.
CallInv ==
  /\ call \in {NoCall} \cup [n : 0..Len(fifo), rx : {"idle", "len", "data"}]
  /\ call # NoCall => lock # NoReader
  /\ \A x \in Readers :
       pc[x] = "data" /\ call # NoCall => call.n = len[x] \/ (call.n = 0 /\ call.rx = "data")

\* A fetch gives cells of records the modem sent, and a whole record only when
\* the receiver has finished it.
GoodFetch(f) ==
  /\ \A j \in DOMAIN f.data : f.data[j].r \in DOMAIN size
  /\ f.len \in Lengths
  /\ f.data = << >> => f.during = "data"
  /\ f.data # << >> => /\ f.data = From(f.data[1].r, 5)
                       /\ f.len = size[f.data[1].r]
                       /\ rx = "idle" \/ f.data[1].r # Record

Fetch == [len : Lengths \cup {Huge}, data : Seq(Cells), during : {"idle", "len", "data"}]

FetchedInv ==
  /\ fetched \in Seq(Fetch)
  /\ \A i \in DOMAIN fetched : GoodFetch(fetched[i])

FifoInv == DataInv /\ LockInv /\ PlaceInv /\ CallInv /\ FetchedInv

LEMMA DataTypes ==
  ASSUME DataInv
  PROVE  /\ fifo \in Seq(Cells) /\ fifo \in Seq(Cell) /\ Len(fifo) \in Nat /\ DOMAIN fifo = 1..Len(fifo)
         /\ \A k \in DOMAIN fifo : fifo[k] \in Cells
         /\ \A k \in DOMAIN fifo : fifo[k].r \in Nat /\ fifo[k].o \in Nat
         /\ \A k \in DOMAIN fifo : fifo[k].r \in DOMAIN size /\ fifo[k].o <= written[fifo[k].r]
         /\ Record \in Nat /\ DOMAIN size = 1..Record
         /\ \A r \in DOMAIN size : size[r] \in Nat /\ size[r] >= 1 /\ size[r] \in Lengths
         /\ DOMAIN size \in SUBSET Nat /\ written \in [DOMAIN size -> Nat]
         /\ Capacity \in Nat /\ Huge \in Nat
<1>1. fifo \in Seq(Cells) /\ size \in Seq(Lengths)
  BY DEF DataInv
<1>2. Cells \subseteq Cell
  BY FifoAssumption DEF Cells, Cell
<1>3. \A k \in DOMAIN fifo : fifo[k] \in Cells
  BY <1>1
<1>4. fifo \in Seq(Cell)
  BY <1>1, <1>2
<1>5. /\ Len(fifo) \in Nat /\ DOMAIN fifo = 1..Len(fifo)
      /\ \A k \in DOMAIN fifo : fifo[k].r \in Nat /\ fifo[k].o \in Nat
  BY <1>4, CellTypes
<1>6. Record \in Nat /\ DOMAIN size = 1..Record
  BY <1>1 DEF Record
<1>7. \A r \in DOMAIN size : size[r] \in Lengths
  BY <1>1
<1>8. \A l \in Lengths : l \in Nat /\ l >= 1
  BY FifoAssumption
<1>9. written \in [DOMAIN size -> Nat]
  BY <1>7, <1>8 DEF written
<1>10. \A k \in DOMAIN fifo : fifo[k].r \in DOMAIN size /\ fifo[k].o <= written[fifo[k].r]
  BY <1>9 DEF DataInv, Runs
<1>11. Capacity \in Nat /\ Huge \in Nat
  BY FifoAssumption DEF Huge
<1> QED
  BY <1>1, <1>3, <1>4, <1>5, <1>6, <1>7, <1>8, <1>9, <1>10, <1>11

-----------------------------------------------------------------------------
(* Taking cells out.                                                       *)

LEMMA RestIs ==
  ASSUME DataInv, NEW n \in Nat
  PROVE  /\ Rest(n) \in Seq(Cells)
         /\ Len(Rest(n)) = IF n <= Len(fifo) THEN Len(fifo) - n ELSE 0
         /\ \A k \in DOMAIN Rest(n) : k + n \in DOMAIN fifo /\ Rest(n)[k] = fifo[k + n]
<1>1. Len(fifo) \in Int /\ n + 1 \in Int /\ \A k \in (n + 1)..Len(fifo) : fifo[k] \in Cells
  BY DataTypes
<1>2. PICK l \in Int : l = Len(fifo)
  BY <1>1
<1>3. /\ SubSeq(fifo, n + 1, l) \in Seq(Cells)
      /\ Len(SubSeq(fifo, n + 1, l)) = IF n + 1 <= l THEN l - (n + 1) + 1 ELSE 0
      /\ \A k \in 1..(l - (n + 1) + 1) : SubSeq(fifo, n + 1, l)[k] = fifo[(n + 1) + k - 1]
  BY <1>1, <1>2, SubSeqProperties
<1>4. PICK p : p = SubSeq(fifo, n + 1, l)
  OBVIOUS
<1>5. /\ p \in Seq(Cells) /\ Len(p) = IF n <= l THEN l - n ELSE 0
      /\ \A k \in 1..(l - n) : p[k] = fifo[k + n]
  <2>1. /\ l - (n + 1) + 1 = l - n /\ (n + 1 <= l => n <= l)
        /\ (n <= l /\ ~(n + 1 <= l) => l - n = 0)
        /\ \A k \in Nat : (n + 1) + k - 1 = k + n
    BY <1>2
  <2>2. \A k \in 1..(l - n) : k \in Nat
    OBVIOUS
  <2> QED
    BY <1>3, <1>4, <2>1, <2>2
<1>6. \A k \in DOMAIN p : k \in 1..(l - n) /\ k + n \in DOMAIN fifo
  <2>1. DOMAIN p = 1..Len(p) /\ DOMAIN fifo = 1..l /\ l \in Nat
    BY <1>2, <1>5, DataTypes
  <2> QED
    BY <1>5, <2>1
<1>7. p = Rest(n)
  BY <1>2, <1>4 DEF Rest
<1> QED
  BY <1>2, <1>5, <1>6, <1>7

\* The first n cells, if there are as many.
Out(n) == SubSeq(fifo, 1, IF n <= Len(fifo) THEN n ELSE Len(fifo))

LEMMA OutIs ==
  ASSUME DataInv, NEW n \in Nat
  PROVE  /\ Out(n) \in Seq(Cells)
         /\ Len(Out(n)) = IF n <= Len(fifo) THEN n ELSE Len(fifo)
         /\ \A k \in DOMAIN Out(n) : k \in DOMAIN fifo /\ Out(n)[k] = fifo[k]
<1>1. PICK m \in Nat : m = (IF n <= Len(fifo) THEN n ELSE Len(fifo))
  BY DataTypes
<1>2. m <= Len(fifo) /\ m \in Int /\ \A k \in 1..m : k \in DOMAIN fifo /\ fifo[k] \in Cells
  <2>1. Len(fifo) \in Nat /\ DOMAIN fifo = 1..Len(fifo) /\ \A k \in DOMAIN fifo : fifo[k] \in Cells
    BY DataTypes
  <2>2. m <= Len(fifo)
    <3>1. CASE n <= Len(fifo)
      BY <1>1, <3>1
    <3>2. CASE ~(n <= Len(fifo))
      <4>1. m = Len(fifo)
        BY <1>1, <3>2
      <4> QED
        BY <2>1, <4>1
    <3> QED
      BY <3>1, <3>2
  <2> QED
    BY <2>1, <2>2
<1>3. /\ SubSeq(fifo, 1, m) \in Seq(Cells)
      /\ Len(SubSeq(fifo, 1, m)) = IF 1 <= m THEN m - 1 + 1 ELSE 0
      /\ \A k \in 1..(m - 1 + 1) : SubSeq(fifo, 1, m)[k] = fifo[1 + k - 1]
  BY <1>2, SubSeqProperties
<1>4. PICK p : p = SubSeq(fifo, 1, m)
  OBVIOUS
<1>5. p \in Seq(Cells) /\ Len(p) = m /\ \A k \in 1..m : p[k] = fifo[k]
  <2>1. m - 1 + 1 = m /\ (~(1 <= m) => m = 0) /\ \A k \in 1..m : 1 + k - 1 = k
    OBVIOUS
  <2> QED
    BY <1>3, <1>4, <2>1
<1>6. p = Out(n)
  BY <1>1, <1>4, Zenon DEF Out
<1>7. DOMAIN p = 1..m
  BY <1>5
<1> QED
  BY <1>1, <1>2, <1>5, <1>6, <1>7

\* What a call copies are the cells it will take.
LEMMA CopiedIs ==
  ASSUME DataInv, CallInv, call # NoCall
  PROVE  /\ call.n \in Nat /\ call.n <= Len(fifo) /\ call.rx \in {"idle", "len", "data"}
         /\ Copied = Out(call.n) /\ Copied \in Seq(Cells) /\ Len(Copied) = call.n
<1>1. call \in [n : 0..Len(fifo), rx : {"idle", "len", "data"}]
  BY DEF CallInv
<1>2. call.n \in 0..Len(fifo) /\ call.rx \in {"idle", "len", "data"} /\ Len(fifo) \in Nat
  BY <1>1, DataTypes
<1>3. call.n \in Nat /\ call.n <= Len(fifo)
  BY <1>2
<1>4. Copied = Out(call.n)
  BY <1>3 DEF Copied, Out
<1>5. Out(call.n) \in Seq(Cells) /\ Len(Out(call.n)) = call.n
  BY <1>3, OutIs
<1> QED
  BY <1>2, <1>3, <1>4, <1>5

\* Readers leave runs behind.
LEMMA RestKeepsData ==
  ASSUME DataInv, NEW n \in Nat, fifo' = Rest(n), UNCHANGED <<size, rx>>
  PROVE  DataInv'
<1>1. written' = written
  BY DEF written, Record
<1>2. /\ fifo' \in Seq(Cells) /\ Len(fifo') \in Nat /\ Len(fifo) \in Nat
      /\ \A k \in DOMAIN fifo' : k + n \in DOMAIN fifo /\ fifo'[k] = fifo[k + n]
      /\ Len(fifo') <= Len(fifo)
      /\ n <= Len(fifo) => Len(fifo') = Len(fifo) - n
      /\ ~(n <= Len(fifo)) => Len(fifo') = 0
  <2>1. /\ fifo' \in Seq(Cells)
        /\ Len(fifo') = IF n <= Len(fifo) THEN Len(fifo) - n ELSE 0
        /\ \A k \in DOMAIN fifo' : k + n \in DOMAIN fifo /\ fifo'[k] = fifo[k + n]
    BY RestIs, Zenon
  <2>2. Len(fifo) \in Nat
    BY DataTypes
  <2>3. CASE n <= Len(fifo)
    BY <2>1, <2>2, <2>3
  <2>4. CASE ~(n <= Len(fifo))
    BY <2>1, <2>2, <2>4
  <2> QED
    BY <2>3, <2>4
<1>3. fifo' \in Seq(Cell) /\ fifo \in Seq(Cell)
  <2>1. Cells \subseteq Cell
    BY FifoAssumption DEF Cells, Cell
  <2>2. \A q \in Seq(Cells) : q \in Seq(Cell)
    BY <2>1
  <2> QED
    BY <1>2, <2>2, DataTypes
<1>4. fifo' # << >> => Len(fifo') = Len(fifo) - n
  BY <1>2
<1>5. Runs(fifo', written)
  <2>1. DOMAIN size \in SUBSET Nat /\ written \in [DOMAIN size -> Nat] /\ Runs(fifo, written)
    BY DataTypes DEF DataInv
  <2> QED
    BY <1>2, <1>3, <1>4, <2>1, RunsTail
<1>6. Runs(fifo, written)' /\ size' = size /\ rx' = rx /\ Record' = Record
  BY <1>1, <1>5 DEF Record
<1>7. Len(fifo') <= Capacity
  BY <1>2, FifoAssumption DEF DataInv
<1>8. ASSUME rx' # "idle"
      PROVE  size' # << >> /\ Len(fifo') + 4 + size'[Record'] <= Capacity + written'[Record']
  <2>1. size # << >> /\ Len(fifo) + 4 + size[Record] <= Capacity + written[Record]
    BY <1>6, <1>8 DEF DataInv
  <2>2. Record \in DOMAIN size
    BY <2>1 DEF DataInv, Record
  <2>3. size[Record] \in Nat /\ written[Record] \in Nat
    BY <2>2, DataTypes
  <2>4. Len(fifo') + 4 + size[Record] <= Capacity + written[Record]
    BY <1>2, <2>1, <2>3, FifoAssumption
  <2> QED
    BY <1>1, <1>6, <2>1, <2>4
<1>9. size \in Seq(Lengths) /\ Len(size) <= MaxRecords /\ rx \in {"idle", "len", "data"}
  BY DEF DataInv
<1> QED
  BY <1>1, <1>2, <1>6, <1>7, <1>8, <1>9 DEF DataInv

-----------------------------------------------------------------------------
(* Putting cells in.                                                       *)

\* What fits is put.
LEMMA PutIs ==
  ASSUME DataInv, NEW x \in 1..MaxRecords, NEW a \in Nat, NEW m \in Nat,
         1 <= a, a + m - 1 <= 4 + Capacity, Len(fifo) + m <= Capacity,
         NEW p, p = CellsOf(x, a, m), NEW next, kfifo_in(p, next)
  PROVE  /\ rx' = next
         /\ fifo' \in Seq(Cells) /\ Extends(fifo', fifo, x, a, m)
<1>1. /\ DOMAIN p = 1..m /\ \A i \in 1..m : p[i] = [r |-> x, o |-> a + i - 1]
      /\ p = [i \in 1..m |-> p[i]]
  BY DEF CellsOf
<1>2. \A i \in 1..m : p[i] \in Cells /\ p[i].r = x /\ p[i].o = a + i - 1
  <2>1. \A i \in 1..m : a + i - 1 \in 1..(4 + Capacity)
    BY FifoAssumption
  <2>2. \A i \in 1..m : [r |-> x, o |-> a + i - 1] \in Cells
    BY <2>1 DEF Cells
  <2>3. \A c : c \in Cells => c.r \in Nat
    BY FifoAssumption DEF Cells
  <2>4. ASSUME NEW i \in 1..m
        PROVE  p[i] \in Cells /\ p[i].r = x /\ p[i].o = a + i - 1
    <3>1. PICK n \in Int : n = a + i - 1
      OBVIOUS
    <3>2. p[i] = [r |-> x, o |-> n] /\ [r |-> x, o |-> n] \in Cells
      BY <1>1, <2>2, <3>1
    <3> QED
      BY <3>1, <3>2
  <2> QED
    BY <2>4
<1>3. p \in Seq(Cells) /\ Len(p) = m
  <2>1. p \in [1..m -> Cells]
    BY <1>1, <1>2
  <2> QED
    BY <2>1
<1>4. Len(fifo) \in Nat /\ fifo \in Seq(Cells) /\ Capacity \in Nat
  BY DataTypes
<1>5. Len(p) <= Avail
  BY <1>3, <1>4 DEF Avail
<1>6. rx' = next /\ fifo' = fifo \o SubSeq(p, 1, Len(p))
  BY <1>5 DEF kfifo_in
<1>7. fifo' = fifo \o p
  BY <1>3, <1>6, SubSeqFull
<1>8. /\ fifo' \in Seq(Cells) /\ Len(fifo') = Len(fifo) + m
      /\ \A k \in 1..(Len(fifo) + m) : fifo'[k] = IF k <= Len(fifo) THEN fifo[k] ELSE p[k - Len(fifo)]
  BY <1>3, <1>4, <1>7, ConcatProperties
<1>9. \A k \in 1..Len(fifo) : fifo'[k] = fifo[k]
  BY <1>4, <1>8
<1>10. ASSUME NEW i \in 1..m
       PROVE  fifo'[Len(fifo) + i] = p[i]
  <2>1. /\ Len(fifo) + i \in 1..(Len(fifo) + m) /\ ~(Len(fifo) + i <= Len(fifo))
        /\ (Len(fifo) + i) - Len(fifo) = i
    BY <1>4
  <2> QED
    BY <1>8, <2>1
<1> QED
  BY <1>2, <1>6, <1>8, <1>9, <1>10 DEF Extends

\* Up to where a record is written when the receiver is at rx.
Upto(at, n) == IF at = "len" THEN 2 ELSE IF at = "data" THEN 4 ELSE 4 + n

\* What is put continues the latest record, or begins the next one.
LEMMA PutKeepsData ==
  ASSUME DataInv, NEW x \in 1..MaxRecords, x = Record',
         NEW a \in Nat, NEW m \in Nat, 1 <= a, 1 <= m,
         NEW next \in {"idle", "len", "data"}, a + m - 1 = Upto(next, size'[x]),
         a + m - 1 <= 4 + Capacity, Len(fifo) + m <= Capacity,
         NEW p, p = CellsOf(x, a, m), kfifo_in(p, next),
         size' \in Seq(Lengths), DOMAIN size' = DOMAIN size \cup {x},
         \A y \in DOMAIN size : y <= x /\ size'[y] = size[y],
         x \in DOMAIN size => written[x] = a - 1,
         \A y \in DOMAIN size : y # x => written[y] = 4 + size[y],
         next # "idle" => Len(fifo) + m + 4 + size'[x] <= Capacity + (a + m - 1)
  PROVE  DataInv' /\ rx' = next /\ Extends(fifo', fifo, x, a, m)
<1>1. rx' = next /\ fifo' \in Seq(Cells) /\ Extends(fifo', fifo, x, a, m)
  BY PutIs
<1>2. fifo' \in Seq(Cell)
  <2>1. Cells \subseteq Cell
    BY FifoAssumption DEF Cells, Cell
  <2> QED
    BY <1>1, <2>1
<1>3. /\ DOMAIN size \in SUBSET Nat /\ written \in [DOMAIN size -> Nat]
      /\ Runs(fifo, written) /\ x \in Nat /\ fifo \in Seq(Cell)
  BY DataTypes DEF DataInv
<1>4. written'[x] = a + m - 1
  BY <1>1 DEF written, Upto
<1>5. \A y \in DOMAIN size : y # x => written'[y] = written[y]
  BY DEF written
<1>6. written' \in [DOMAIN size \cup {x} -> Nat]
  <2>1. \A y \in DOMAIN size' : written'[y] \in Nat
    <3>1. a + m - 1 \in Nat
      OBVIOUS
    <3> QED
      BY <1>3, <1>4, <1>5, <3>1
  <2>2. DOMAIN written' = DOMAIN size' /\ written' = [y \in DOMAIN size' |-> written'[y]]
    BY DEF written
  <2> QED
    BY <2>1, <2>2
<1>7. Runs(fifo', written')
  <2>1. PICK w, v, q, s : w = written /\ v = written' /\ q = fifo /\ s = fifo'
    OBVIOUS
  <2>2. DOMAIN w = DOMAIN size
    BY <2>1 DEF written
  <2>3. DOMAIN v = DOMAIN w \cup {x}
    BY <2>1, <2>2 DEF written
  <2>4. IsWritten(w) /\ IsWritten(v)
    BY <1>3, <1>6, <2>1, <2>2, <2>3 DEF IsWritten
  <2>5. /\ q \in Seq(Cell) /\ Runs(q, w) /\ s \in Seq(Cell) /\ Extends(s, q, x, a, m)
        /\ v[x] = a + m - 1 /\ m >= 1
    BY <1>1, <1>2, <1>3, <1>4, <2>1
  <2>6. /\ \A y \in DOMAIN w : y <= x /\ (y # x => v[y] = w[y])
        /\ x \in DOMAIN w => w[x] = a - 1
    BY <1>5, <2>1, <2>2
  <2>7. Runs(s, v)
    BY <1>3, <2>3, <2>4, <2>5, <2>6, RunsPut
  <2> QED
    BY <2>1, <2>7
<1>8. Len(fifo') <= Capacity /\ Len(fifo') = Len(fifo) + m
  BY <1>1 DEF Extends
<1>9. Len(size') <= MaxRecords /\ size' # << >>
  BY FifoAssumption DEF Record
<1>10. rx' # "idle" => Len(fifo') + 4 + size'[Record'] <= Capacity + written'[Record']
  BY <1>1, <1>4, <1>8
<1> QED
  BY <1>1, <1>7, <1>8, <1>9, <1>10 DEF DataInv

\* The size of the next record is noted, and of the others kept.
LEMMA NextRecord ==
  ASSUME DataInv, Record < MaxRecords, NEW n \in Lengths, size' = Append(size, n)
  PROVE  /\ size' \in Seq(Lengths) /\ Record' = Record + 1 /\ Len(size') = Record + 1
         /\ Record' \in 1..MaxRecords
         /\ DOMAIN size' = DOMAIN size \cup {Record'} /\ \A x \in DOMAIN size : x < Record'
         /\ size'[Record'] = n /\ n \in Nat /\ n >= 1 /\ size' # << >>
         /\ \A x \in DOMAIN size : size'[x] = size[x]
<1>1. size \in Seq(Lengths) /\ Record \in Nat /\ DOMAIN size = 1..Record /\ Record = Len(size)
  BY DataTypes DEF DataInv, Record
<1>2. /\ size' \in Seq(Lengths) /\ Len(size') = Len(size) + 1
      /\ \A x \in 1..Len(size) : size'[x] = size[x]
      /\ size'[Len(size) + 1] = n /\ DOMAIN size' = 1..(Len(size) + 1)
  BY <1>1
<1>3. n \in Nat /\ n >= 1
  BY FifoAssumption
<1>4. Record' = Record + 1 /\ Record' \in 1..MaxRecords
  BY <1>1, <1>2, FifoAssumption DEF Record
<1> QED
  BY <1>1, <1>2, <1>3, <1>4

\* A start word is put, or the record is dropped.
LEMMA RxStartData ==
  ASSUME DataInv, RxStart
  PROVE  /\ DataInv' /\ rx = "idle"
         /\ \/ fifo' = fifo /\ rx' = rx
            \/ rx' = "len" /\ Extends(fifo', fifo, Record', 1, 2)
<1>1. PICK n \in Lengths :
        /\ size' = Append(size, n)
        /\ IF Avail >= 4 + n THEN kfifo_in(Put(1, 2), "len") ELSE UNCHANGED <<fifo, rx>>
  BY DEF RxStart
<1>2. rx = "idle" /\ Record < MaxRecords
  BY DEF RxStart
<1>3. /\ size' \in Seq(Lengths) /\ Record' = Record + 1 /\ Len(size') = Record + 1
      /\ Record' \in 1..MaxRecords
      /\ DOMAIN size' = DOMAIN size \cup {Record'} /\ \A y \in DOMAIN size : y < Record'
      /\ size'[Record'] = n /\ n \in Nat /\ n >= 1 /\ size' # << >>
      /\ \A y \in DOMAIN size : size'[y] = size[y]
  BY <1>1, <1>2, NextRecord
<1>4. \A y \in DOMAIN size : y # Record' /\ y \in Nat /\ size[y] \in Nat
  BY <1>3, DataTypes
<1>5. \A y \in DOMAIN size : written'[y] = 4 + size[y] /\ written[y] = 4 + size[y]
  BY <1>2, <1>3, <1>4 DEF written
<1>6. CASE Avail >= 4 + n
  <2>1. kfifo_in(Put(1, 2), "len")
    BY <1>1, <1>6
  <2>2. Len(fifo) + 4 + n <= Capacity /\ Capacity \in Nat /\ Len(fifo) \in Nat
    BY <1>3, <1>6, DataTypes DEF Avail
  <2>3. PICK x \in 1..MaxRecords : x = Record'
    BY <1>3
  <2>4. PICK p : p = CellsOf(x, 1, 2)
    OBVIOUS
  <2>5. kfifo_in(p, "len")
    <3>1. p = Put(1, 2)
      BY <2>3, <2>4 DEF Put, CellsOf
    <3> QED
      BY <2>1, <3>1 DEF kfifo_in
  <2>6. /\ 1 + 2 - 1 = Upto("len", size'[x]) /\ 1 + 2 - 1 <= 4 + Capacity
        /\ Len(fifo) + 2 <= Capacity
        /\ Len(fifo) + 2 + 4 + size'[x] <= Capacity + (1 + 2 - 1)
    BY <1>3, <2>2, <2>3 DEF Upto
  <2>7. /\ DOMAIN size' = DOMAIN size \cup {x} /\ x \notin DOMAIN size
        /\ \A y \in DOMAIN size : y <= x /\ size'[y] = size[y]
        /\ \A y \in DOMAIN size : y # x => written[y] = 4 + size[y]
    BY <1>3, <1>4, <1>5, <2>3
  <2>8. size' \in Seq(Lengths) /\ (x \in DOMAIN size => written[x] = 1 - 1)
    BY <1>3, <2>7
  <2>9. DataInv' /\ rx' = "len" /\ Extends(fifo', fifo, x, 1, 2)
    BY <2>3, <2>4, <2>5, <2>6, <2>7, <2>8, PutKeepsData
  <2> QED
    BY <1>2, <2>3, <2>9
<1>7. CASE ~(Avail >= 4 + n)
  <2>1. fifo' = fifo /\ rx' = rx
    BY <1>1, <1>7
  <2>2. written'[Record'] = 4 + n
    BY <1>2, <1>3, <2>1 DEF written
  <2>3. written' \in [DOMAIN size' -> Nat]
    <3>1. \A y \in DOMAIN size' : written'[y] \in Nat
      BY <1>3, <1>4, <1>5, <2>2
    <3>2. DOMAIN written' = DOMAIN size' /\ written' = [y \in DOMAIN size' |-> written'[y]]
      BY DEF written
    <3> QED
      BY <3>1, <3>2
  <2>4. Runs(fifo', written')
    <3>1. /\ DOMAIN size \in SUBSET Nat /\ written \in [DOMAIN size -> Nat]
          /\ Runs(fifo, written) /\ DOMAIN size \subseteq DOMAIN size'
      BY <1>3, DataTypes DEF DataInv
    <3> QED
      BY <1>5, <2>1, <2>3, <3>1, RunsMore
  <2>5. Len(size') <= MaxRecords
    BY <1>2, <1>3, DataTypes, FifoAssumption
  <2> QED
    BY <1>2, <1>3, <2>1, <2>4, <2>5 DEF DataInv
<1> QED
  BY <1>6, <1>7

\* The facts of the record under way.
LEMMA Underway ==
  ASSUME DataInv, rx # "idle"
  PROVE  /\ Record \in DOMAIN size /\ Record \in 1..MaxRecords /\ size[Record] \in Nat
         /\ size[Record] >= 1
         /\ written[Record] = Upto(rx, size[Record])
         /\ Len(fifo) + 4 + size[Record] <= Capacity + Upto(rx, size[Record])
         /\ Len(fifo) \in Nat /\ Capacity \in Nat
         /\ \A y \in DOMAIN size : y <= Record
         /\ \A y \in DOMAIN size : y # Record => written[y] = 4 + size[y]
<1>1. size # << >> /\ size \in Seq(Lengths) /\ Len(size) <= MaxRecords /\ MaxRecords \in Nat
  BY FifoAssumption DEF DataInv
<1>2. Record \in DOMAIN size /\ Record \in 1..MaxRecords /\ \A y \in DOMAIN size : y <= Record
  BY <1>1 DEF Record
<1>3. /\ written[Record] = Upto(rx, size[Record])
      /\ \A y \in DOMAIN size : y # Record => written[y] = 4 + size[y]
  BY <1>2 DEF written, Upto
<1>4. Len(fifo) + 4 + size[Record] <= Capacity + Upto(rx, size[Record])
  BY <1>3 DEF DataInv
<1> QED
  BY <1>2, <1>3, <1>4, DataTypes

LEMMA RxLenData ==
  ASSUME DataInv, RxLen
  PROVE  DataInv' /\ rx = "len" /\ rx' = "data" /\ Extends(fifo', fifo, Record, 3, 2)
<1>1. rx = "len" /\ size' = size /\ kfifo_in(Put(3, 4), "data") /\ Record' = Record
  BY DEF RxLen, Record
<1>2. PICK x \in 1..MaxRecords : x = Record
  BY <1>1, Underway
<1>3. PICK p : p = CellsOf(x, 3, 2)
  OBVIOUS
<1>4. kfifo_in(p, "data")
  <2>1. p = Put(3, 4)
    BY <1>1, <1>2, <1>3 DEF Put, CellsOf
  <2> QED
    BY <1>1, <2>1 DEF kfifo_in
<1>5. /\ x \in DOMAIN size /\ size[x] \in Nat /\ written[x] = 2
      /\ Len(fifo) + 4 + size[x] <= Capacity + 2 /\ Len(fifo) \in Nat /\ Capacity \in Nat
      /\ \A y \in DOMAIN size : y <= x
      /\ \A y \in DOMAIN size : y # x => written[y] = 4 + size[y]
  BY <1>1, <1>2, Underway DEF Upto
<1>6. /\ 3 + 2 - 1 = Upto("data", size'[x]) /\ 3 + 2 - 1 <= 4 + Capacity
      /\ Len(fifo) + 2 <= Capacity
      /\ Len(fifo) + 2 + 4 + size'[x] <= Capacity + (3 + 2 - 1)
      /\ written[x] = 3 - 1
  BY <1>1, <1>5 DEF Upto
<1>7. /\ DOMAIN size' = DOMAIN size \cup {x} /\ size' \in Seq(Lengths)
      /\ \A y \in DOMAIN size : y <= x /\ size'[y] = size[y]
  BY <1>1, <1>5 DEF DataInv
<1>8. DataInv' /\ rx' = "data" /\ Extends(fifo', fifo, x, 3, 2)
  BY <1>1, <1>2, <1>3, <1>4, <1>5, <1>6, <1>7, PutKeepsData
<1> QED
  BY <1>1, <1>2, <1>8

LEMMA RxDataData ==
  ASSUME DataInv, RxData
  PROVE  /\ DataInv' /\ rx = "data" /\ rx' = "idle"
         /\ Extends(fifo', fifo, Record, 5, size[Record])
<1>1. /\ rx = "data" /\ size' = size /\ kfifo_in(Put(5, 4 + size[Record]), "idle")
      /\ Record' = Record
  BY DEF RxData, Record
<1>2. PICK x \in 1..MaxRecords : x = Record
  BY <1>1, Underway
<1>3. /\ x \in DOMAIN size /\ size[x] \in Nat /\ size[x] >= 1 /\ written[x] = 4
      /\ Len(fifo) + 4 + size[x] <= Capacity + 4 /\ Len(fifo) \in Nat /\ Capacity \in Nat
      /\ \A y \in DOMAIN size : y <= x
      /\ \A y \in DOMAIN size : y # x => written[y] = 4 + size[y]
  BY <1>1, <1>2, Underway DEF Upto
<1>4. PICK m \in Nat : m = size[x]
  BY <1>3
<1>5. PICK p : p = CellsOf(x, 5, m)
  OBVIOUS
<1>6. kfifo_in(p, "idle")
  <2>1. 4 + m - 5 + 1 = m
    OBVIOUS
  <2>2. p = Put(5, 4 + size[Record])
    BY <1>1, <1>2, <1>4, <1>5, <2>1 DEF Put, CellsOf
  <2> QED
    BY <1>1, <2>2 DEF kfifo_in
<1>7. /\ 5 + m - 1 = Upto("idle", size'[x]) /\ 5 + m - 1 <= 4 + Capacity
      /\ Len(fifo) + m <= Capacity /\ 1 <= m
      /\ written[x] = 5 - 1
  BY <1>1, <1>3, <1>4 DEF Upto
<1>8. /\ DOMAIN size' = DOMAIN size \cup {x} /\ size' \in Seq(Lengths)
      /\ \A y \in DOMAIN size : y <= x /\ size'[y] = size[y]
  BY <1>1, <1>3 DEF DataInv
<1>9. DataInv' /\ rx' = "idle" /\ Extends(fifo', fifo, x, 5, m)
  BY <1>1, <1>2, <1>3, <1>5, <1>6, <1>7, <1>8, PutKeepsData
<1> QED
  BY <1>1, <1>2, <1>4, <1>9

-----------------------------------------------------------------------------
(* The front of the FIFO.                                                  *)

LEMMA WrittenCases ==
  ASSUME DataInv, NEW x \in DOMAIN size
  PROVE  \/ written[x] = 2 /\ x = Record /\ rx = "len"
         \/ written[x] = 4 /\ x = Record /\ rx = "data"
         \/ written[x] = 4 + size[x] /\ (rx = "idle" \/ x # Record)
BY DEF written, DataInv

LEMMA FrontRun ==
  ASSUME DataInv, fifo # << >>
  PROVE  /\ 1 \in DOMAIN fifo /\ Len(fifo) >= 1
         /\ fifo[1].r \in DOMAIN size /\ fifo[1].o <= written[fifo[1].r]
         /\ \A d \in Nat : fifo[1].o + d <= written[fifo[1].r] =>
              1 + d \in DOMAIN fifo /\ fifo[1 + d] = [r |-> fifo[1].r, o |-> fifo[1].o + d]
         /\ fifo[1].r = Record => written[fifo[1].r] - fifo[1].o + 1 = Len(fifo)
<1>1. 1 \in DOMAIN fifo /\ Len(fifo) >= 1
  BY DataTypes
<1>2. fifo[1].r \in DOMAIN size /\ fifo[1].o <= written[fifo[1].r]
  BY <1>1, DataTypes
<1>3. /\ DOMAIN size \in SUBSET Nat /\ written \in [DOMAIN size -> Nat]
      /\ Runs(fifo, written) /\ fifo \in Seq(Cell)
  BY DataTypes DEF DataInv
<1>4. ASSUME NEW d \in Nat, fifo[1].o + d <= written[fifo[1].r]
      PROVE  1 + d \in DOMAIN fifo /\ fifo[1 + d] = [r |-> fifo[1].r, o |-> fifo[1].o + d]
  BY <1>1, <1>3, <1>4, RunFollows
<1>5. ASSUME fifo[1].r = Record
      PROVE  written[fifo[1].r] - fifo[1].o + 1 = Len(fifo)
  <2>1. Record \in DOMAIN size /\ \A y \in DOMAIN size : y <= Record
    BY <1>2, <1>5, DataTypes
  <2>2. 1 + written[Record] - fifo[1].o = Len(fifo)
    BY <1>1, <1>3, <1>5, <2>1, RunEnds
  <2>3. written[Record] \in Nat /\ fifo[1].o \in Nat
    BY <1>1, <1>3, <2>1, DataTypes
  <2> QED
    BY <1>5, <2>2, <2>3
<1> QED
  BY <1>1, <1>2, <1>4, <1>5

\* Two halves of a start word are the start of a record, never its second half and
\* a later one.
LEMMA StartTaken ==
  ASSUME DataInv, IsStart(Out(2))
  PROVE  /\ fifo # << >> /\ fifo[1].o = 1
         /\ IF Rest(2) = << >> THEN rx = "len" /\ fifo[1].r = Record
            ELSE Rest(2)[1] = [r |-> fifo[1].r, o |-> 3]
<1>1. /\ Len(Out(2)) = IF 2 <= Len(fifo) THEN 2 ELSE Len(fifo)
      /\ \A k \in DOMAIN Out(2) : Out(2)[k] = fifo[k]
      /\ Out(2) \in Seq(Cells)
  BY OutIs
<1>2. Len(Out(2)) = 2 /\ Out(2)[1].o \in {1, 2} /\ Out(2)[2].o \in {1, 2}
  BY DEF IsStart
<1>3. Len(fifo) >= 2 /\ fifo # << >> /\ fifo[1].o \in {1, 2} /\ fifo[2].o \in {1, 2}
  BY <1>1, <1>2, DataTypes
<1>4. PICK x \in DOMAIN size, w \in Nat : x = fifo[1].r /\ w = written[x]
  BY <1>3, FrontRun, DataTypes
<1>5. /\ fifo[1].o <= w
      /\ \A d \in Nat : fifo[1].o + d <= w =>
           1 + d \in DOMAIN fifo /\ fifo[1 + d] = [r |-> x, o |-> fifo[1].o + d]
      /\ x = Record => w - fifo[1].o + 1 = Len(fifo)
  BY <1>3, <1>4, FrontRun
<1>6. \/ w = 2 /\ x = Record /\ rx = "len"
      \/ w >= 4
  <2>1. size[x] \in Nat
    BY DataTypes
  <2> QED
    BY <1>4, <2>1, WrittenCases
<1>7. fifo[1].o = 1
  <2>1. ASSUME fifo[1].o = 2
        PROVE  FALSE
    <3>1. CASE w = 2 /\ x = Record /\ rx = "len"
      <4>1. w - fifo[1].o + 1 = Len(fifo)
        BY <1>5, <3>1
      <4>2. Len(fifo) = 1
        BY <2>1, <3>1, <4>1
      <4> QED
        BY <1>3, <4>2
    <3>2. CASE w >= 4
      <4>1. 1 \in Nat /\ 2 + 1 <= w
        BY <3>2
      <4>2. fifo[1 + 1] = [r |-> x, o |-> 2 + 1]
        BY <1>5, <2>1, <4>1
      <4>3. fifo[2] = [r |-> x, o |-> 3]
        BY <4>2
      <4> QED
        BY <1>3, <4>3
    <3> QED
      BY <1>6, <3>1, <3>2
  <2> QED
    BY <1>3, <2>1
<1>8. /\ Len(Rest(2)) = Len(fifo) - 2 /\ Rest(2) \in Seq(Cells)
      /\ \A k \in DOMAIN Rest(2) : Rest(2)[k] = fifo[k + 2]
  BY <1>3, RestIs
<1>9. CASE w = 2 /\ x = Record /\ rx = "len"
  <2>1. Len(fifo) = 2
    BY <1>5, <1>7, <1>9
  <2>2. Rest(2) = << >>
    BY <1>8, <2>1
  <2> QED
    BY <1>3, <1>4, <1>7, <1>9, <2>2
<1>10. CASE w >= 4
  <2>1. 1 + 2 \in DOMAIN fifo /\ fifo[1 + 2] = [r |-> x, o |-> 1 + 2]
    BY <1>5, <1>7, <1>10
  <2>2. Rest(2) # << >> /\ 1 \in DOMAIN Rest(2)
    BY <1>8, <2>1, DataTypes
  <2> QED
    BY <1>3, <1>4, <1>7, <1>8, <2>1, <2>2
<1> QED
  BY <1>6, <1>9, <1>10

\* Behind a start word there is a whole length, if any.
LEMMA LenTaken ==
  ASSUME DataInv, fifo # << >>, fifo[1].o = 3
  PROVE  /\ Len(Out(2)) = 2 /\ LenOf(Out(2)) = size[fifo[1].r] /\ fifo[1].r \in DOMAIN size
         /\ IF Rest(2) = << >> THEN rx = "data" /\ fifo[1].r = Record
            ELSE Rest(2)[1] = [r |-> fifo[1].r, o |-> 5]
<1>1. PICK x \in DOMAIN size, w \in Nat : x = fifo[1].r /\ w = written[x]
  BY FrontRun, DataTypes
<1>2. /\ 3 <= w /\ 1 \in DOMAIN fifo /\ Len(fifo) \in Nat /\ DOMAIN fifo = 1..Len(fifo)
      /\ \A d \in Nat : 3 + d <= w => 1 + d \in DOMAIN fifo /\ fifo[1 + d] = [r |-> x, o |-> 3 + d]
      /\ x = Record => w - 3 + 1 = Len(fifo)
  BY <1>1, FrontRun, DataTypes
<1>3. \/ w = 4 /\ x = Record /\ rx = "data"
      \/ w >= 5
  <2>1. size[x] \in Nat /\ size[x] >= 1
    BY DataTypes
  <2> QED
    BY <1>1, <1>2, <2>1, WrittenCases
<1>4. 2 \in DOMAIN fifo /\ 2 <= Len(fifo)
  <2>1. 3 + 1 <= w /\ 1 \in Nat
    BY <1>3
  <2>2. 1 + 1 \in DOMAIN fifo
    BY <1>2, <2>1
  <2> QED
    BY <1>2, <2>2
<1>5. /\ Len(Out(2)) = 2 /\ Out(2) \in Seq(Cells)
      /\ \A k \in DOMAIN Out(2) : Out(2)[k] = fifo[k]
  BY <1>2, <1>4, OutIs
<1>6. LenOf(Out(2)) = size[x]
  <2>1. Out(2)[1] = fifo[1]
    BY <1>5
  <2> QED
    BY <1>1, <2>1 DEF LenOf
<1>7. /\ Len(Rest(2)) = Len(fifo) - 2 /\ Rest(2) \in Seq(Cells)
      /\ \A k \in DOMAIN Rest(2) : Rest(2)[k] = fifo[k + 2]
  BY <1>2, <1>4, RestIs
<1>8. CASE w = 4 /\ x = Record /\ rx = "data"
  <2>1. Rest(2) = << >>
    BY <1>2, <1>7, <1>8
  <2> QED
    BY <1>1, <1>5, <1>6, <1>8, <2>1
<1>9. CASE w >= 5
  <2>1. 1 + 2 \in DOMAIN fifo /\ fifo[1 + 2] = [r |-> x, o |-> 3 + 2]
    BY <1>2, <1>9
  <2>2. Rest(2) # << >> /\ 1 \in DOMAIN Rest(2)
    BY <1>2, <1>7, <2>1
  <2>3. Rest(2)[1] = [r |-> x, o |-> 5]
    BY <1>7, <2>1, <2>2
  <2> QED
    BY <1>1, <1>5, <1>6, <2>2, <2>3
<1> QED
  BY <1>3, <1>8, <1>9

\* Behind a length there is all of the data, if any.
LEMMA DataTaken ==
  ASSUME DataInv, fifo # << >>, fifo[1].o = 5
  PROVE  LET x == fifo[1].r
         IN  /\ x \in DOMAIN size /\ (rx = "idle" \/ x # Record) /\ size[x] <= Len(fifo)
             /\ Out(size[x]) = From(x, 5) /\ Out(size[x]) # << >>
             /\ Out(size[x])[1].r = x
<1>1. PICK x \in DOMAIN size, w \in Nat : x = fifo[1].r /\ w = written[x]
  BY FrontRun, DataTypes
<1>2. /\ 5 <= w /\ 1 \in DOMAIN fifo /\ Len(fifo) \in Nat /\ DOMAIN fifo = 1..Len(fifo)
      /\ \A d \in Nat : 5 + d <= w => 1 + d \in DOMAIN fifo /\ fifo[1 + d] = [r |-> x, o |-> 5 + d]
  BY <1>1, FrontRun, DataTypes
<1>3. w = 4 + size[x] /\ (rx = "idle" \/ x # Record)
  BY <1>1, <1>2, WrittenCases
<1>4. PICK n \in Nat : n = size[x] /\ n >= 1
  BY DataTypes
<1>5. n <= Len(fifo)
  <2>1. n - 1 \in Nat /\ 5 + (n - 1) <= w
    BY <1>3, <1>4
  <2>2. 1 + (n - 1) \in DOMAIN fifo
    BY <1>2, <2>1
  <2> QED
    BY <1>2, <2>2
<1>6. Out(n) \in Seq(Cells) /\ Len(Out(n)) = n /\ \A k \in DOMAIN Out(n) : Out(n)[k] = fifo[k]
  BY <1>5, OutIs
<1>7. \A k \in 1..n : Out(n)[k] = [r |-> x, o |-> 5 + k - 1]
  <2>1. ASSUME NEW k \in 1..n
        PROVE  fifo[k] = [r |-> x, o |-> 5 + k - 1]
    <3>1. k - 1 \in Nat /\ 5 + (k - 1) <= w /\ 1 + (k - 1) = k /\ 5 + (k - 1) = 5 + k - 1
      BY <1>3, <1>4
    <3>2. fifo[1 + (k - 1)] = [r |-> x, o |-> 5 + (k - 1)]
      BY <1>2, <3>1
    <3> QED
      BY <3>1, <3>2
  <2>2. \A k \in 1..n : k \in DOMAIN Out(n)
    BY <1>6
  <2> QED
    BY <1>6, <2>1, <2>2
<1>8. Out(n) = From(x, 5)
  <2>1. From(x, 5) = [k \in 1..n |-> [r |-> x, o |-> 5 + k - 1]]
    <3>1. 4 + n - 5 + 1 = n
      OBVIOUS
    <3> QED
      BY <1>4, <3>1 DEF From
  <2>2. Out(n) = [k \in 1..n |-> Out(n)[k]]
    BY <1>6
  <2> QED
    BY <1>7, <2>1, <2>2
<1>9. Out(n) # << >> /\ Out(n)[1].r = x
  BY <1>4, <1>6, <1>7
<1> QED
  BY <1>1, <1>3, <1>4, <1>5, <1>8, <1>9

-----------------------------------------------------------------------------
(* Every step keeps the invariant: the lock.                               *)

LEMMA ReturnKeepsLock ==
  ASSUME LockInv, NEW r \in Readers, pc[r] # "user", Return(r), UNCHANGED len
  PROVE  LockInv'
<1>1. lock = r /\ \A x \in Readers : x # r => pc[x] = "user"
  BY DEF LockInv
<1>2. /\ pc' = [pc EXCEPT ![r] = "user"] /\ lock' = NoReader /\ len' = len
  BY DEF Return
<1>3. \A x \in Readers : pc'[x] = "user" /\ (x # r => pc'[x] = pc[x])
  BY <1>1, <1>2 DEF LockInv
<1>4. \A x \in Readers : lock' # x
  BY <1>2, FifoAssumption
<1>5. pc' \in [Readers -> {"user", "start", "len", "data"}]
  BY <1>2 DEF LockInv
<1> QED
  BY <1>2, <1>3, <1>4, <1>5 DEF LockInv

\* A reader that goes on keeps the lock.
LEMMA GoesOnKeepsLock ==
  ASSUME LockInv, NEW r \in Readers, NEW at \in {"start", "len", "data"},
         pc' = [pc EXCEPT ![r] = at], lock' = r, lock \in {r, NoReader},
         len' \in [Readers -> Lengths \cup {0, Huge}],
         at = "data" => len'[r] \in Lengths \cup {Huge}
  PROVE  LockInv'
<1>1. \A x \in Readers : x # r => pc[x] = "user"
  BY FifoAssumption DEF LockInv
<1>2. pc' \in [Readers -> {"user", "start", "len", "data"}]
  BY DEF LockInv
<1>3. pc'[r] = at /\ \A x \in Readers : x # r => pc'[x] = "user"
  BY <1>1 DEF LockInv
<1>4. \A x \in Readers : pc'[x] # "user" <=> lock' = x
  BY <1>3
<1>5. \A x \in Readers : pc'[x] = "data" => len'[x] \in Lengths \cup {Huge}
  <2>1. ASSUME NEW x \in Readers, pc'[x] = "data"
        PROVE  len'[x] \in Lengths \cup {Huge}
    <3>1. x = r /\ at = "data"
      BY <1>3, <2>1
    <3> QED
      BY <3>1
  <2> QED
    BY <2>1
<1> QED
  BY <1>2, <1>4, <1>5 DEF LockInv

LEMMA LockHolds ==
  ASSUME DataInv, LockInv, CallInv, [Next]_vars
  PROVE  LockInv'
<1>1. CASE UNCHANGED <<lock, pc, len>>
  BY <1>1 DEF LockInv
<1>2. ASSUME NEW r \in Readers, Begin(r)
      PROVE  LockInv'
  BY <1>1, <1>2 DEF Begin
<1>3. ASSUME NEW r \in Readers, Lock(r)
      PROVE  LockInv'
  <2>1. /\ pc[r] = "user" /\ lock = NoReader /\ lock' = r /\ pc' = [pc EXCEPT ![r] = "start"]
        /\ len' = len
    BY <1>3 DEF Lock
  <2>2. len' \in [Readers -> Lengths \cup {0, Huge}]
    BY <2>1 DEF LockInv
  <2> QED
    BY <2>1, <2>2, GoesOnKeepsLock
<1>4. ASSUME NEW r \in Readers, FetchStart(r)
      PROVE  LockInv'
  <2>1. pc[r] = "start" /\ len' = len /\ len' \in [Readers -> Lengths \cup {0, Huge}]
    BY <1>4 DEF FetchStart, LockInv
  <2>2. CASE Return(r)
    BY <2>1, <2>2, ReturnKeepsLock
  <2>3. CASE pc' = [pc EXCEPT ![r] = "len"] /\ UNCHANGED lock
    <3>1. lock = r /\ lock' = r
      BY <2>1, <2>3 DEF LockInv
    <3> QED
      BY <2>1, <2>3, <3>1, GoesOnKeepsLock
  <2> QED
    BY <1>4, <2>2, <2>3 DEF FetchStart
<1>5. ASSUME NEW r \in Readers, FetchLen(r)
      PROVE  LockInv'
  <2>1. pc[r] = "len" /\ call # NoCall
    BY <1>5 DEF FetchLen, EndCall
  <2>2. CASE Return(r) /\ UNCHANGED len
    BY <2>1, <2>2, ReturnKeepsLock
  <2>3. CASE /\ call.n = 2
             /\ pc' = [pc EXCEPT ![r] = "data"]
             /\ len' = [len EXCEPT ![r] = LenOf(Copied)]
             /\ UNCHANGED lock
    <3>1. lock = r /\ lock' = r /\ len \in [Readers -> Lengths \cup {0, Huge}]
      BY <2>1, <2>3 DEF LockInv
    <3>2. LenOf(Out(2)) \in Lengths \cup {Huge}
      <4>1. 1 \in DOMAIN Out(2) /\ 1 \in DOMAIN fifo /\ Out(2)[1] = fifo[1]
        <5>1. Out(2) \in Seq(Cells) /\ \A k \in DOMAIN Out(2) : k \in DOMAIN fifo /\ Out(2)[k] = fifo[k]
          BY OutIs
        <5>2. DOMAIN Out(2) = 1..2
          BY <2>1, <2>3, <5>1, CopiedIs
        <5> QED
          BY <5>1, <5>2
      <4>2. fifo[1].r \in DOMAIN size
        BY <4>1, DataTypes
      <4>3. size[fifo[1].r] \in Lengths
        BY <4>2, DataTypes
      <4> QED
        BY <4>1, <4>3 DEF LenOf
    <3>3. Copied = Out(2)
      BY <2>1, <2>3, CopiedIs
    <3>4. len' \in [Readers -> Lengths \cup {0, Huge}] /\ len'[r] \in Lengths \cup {Huge}
      BY <2>3, <3>1, <3>2, <3>3
    <3> QED
      BY <2>3, <3>1, <3>4, GoesOnKeepsLock
  <2> QED
    BY <1>5, <2>2, <2>3 DEF FetchLen
<1>6. ASSUME NEW r \in Readers, FetchData(r) \/ FetchFault(r)
      PROVE  LockInv'
  <2>1. pc[r] = "data" /\ Return(r) /\ UNCHANGED len
    BY <1>6 DEF FetchData, FetchFault
  <2> QED
    BY <2>1, ReturnKeepsLock
<1>7. ASSUME RxStart \/ RxLen \/ RxData
      PROVE  LockInv'
  BY <1>1, <1>7 DEF RxStart, RxLen, RxData
<1> QED
  BY <1>1, <1>2, <1>3, <1>4, <1>5, <1>6, <1>7 DEF Next, Reader, vars

-----------------------------------------------------------------------------
(* Every step keeps the invariant: the data.                               *)

\* A reader that takes the data takes a number of cells.
LEMMA LenIsNat ==
  ASSUME LockInv, NEW r \in Readers
  PROVE  len[r] \in Nat
<1>1. len[r] \in Lengths \cup {0, Huge}
  BY DEF LockInv
<1>2. Huge \in Nat /\ 0 \in Nat /\ \A n \in Lengths : n \in Nat
  BY FifoAssumption DEF Huge
<1> QED
  BY <1>1, <1>2, Zenon

LEMMA TakesOut ==
  ASSUME DataInv, CallInv,
         NEW r \in Readers, FetchStart(r) \/ FetchLen(r) \/ FetchData(r) \/ FetchFault(r)
  PROVE  /\ UNCHANGED <<size, rx>> /\ (\E n \in Nat : fifo' = Rest(n))
         /\ call # NoCall /\ call' = NoCall
<1>1. CASE FetchStart(r) \/ FetchLen(r) \/ FetchData(r)
  <2>1. call # NoCall /\ call' = NoCall /\ fifo' = Rest(call.n) /\ UNCHANGED <<size, rx>>
    BY <1>1 DEF FetchStart, FetchLen, FetchData, EndCall
  <2> QED
    BY <2>1, CopiedIs
<1>2. CASE FetchFault(r)
  <2>1. PICK k \in 0..call.n : EndCall(k)
    BY <1>2 DEF FetchFault
  <2>2. k \in Nat
    BY <2>1
  <2> QED
    BY <1>2, <2>1, <2>2 DEF FetchFault, EndCall
<1> QED
  BY <1>1, <1>2

LEMMA DataHolds ==
  ASSUME DataInv, CallInv, [Next]_vars
  PROVE  DataInv'
<1>1. CASE UNCHANGED <<fifo, size, rx>>
  <2>1. written' = written
    BY <1>1 DEF written, Record
  <2>2. Record' = Record
    BY <1>1 DEF Record
  <2> QED
    BY <1>1, <2>1, <2>2 DEF DataInv
<1>2. CASE RxStart
  BY <1>2, RxStartData
<1>3. CASE RxLen
  BY <1>3, RxLenData
<1>4. CASE RxData
  BY <1>4, RxDataData
<1>5. ASSUME NEW r \in Readers, Reader(r)
      PROVE  DataInv'
  <2>1. CASE Lock(r) \/ Begin(r)
    BY <1>1, <2>1 DEF Lock, Begin
  <2>2. CASE FetchStart(r) \/ FetchLen(r) \/ FetchData(r) \/ FetchFault(r)
    <3>1. UNCHANGED <<size, rx>> /\ \E n \in Nat : fifo' = Rest(n)
      BY <2>2, TakesOut
    <3>2. PICK n \in Nat : fifo' = Rest(n)
      BY <3>1
    <3> QED
      BY <3>1, <3>2, RestKeepsData
  <2> QED
    BY <1>5, <2>1, <2>2 DEF Reader
<1> QED
  BY <1>1, <1>2, <1>3, <1>4, <1>5 DEF Next, vars

-----------------------------------------------------------------------------
(* Every step keeps the invariant: the places of the readers.              *)

\* The front of the FIFO is where it was.
LEMMA FrontKeepsPlace ==
  ASSUME DataInv, PlaceInv, UNCHANGED <<pc, len>>,
         fifo # << >>, fifo' # << >>, fifo'[1] = fifo[1],
         \A y \in DOMAIN size : size'[y] = size[y]
  PROVE  PlaceInv'
<1>1. fifo[1].r \in DOMAIN size
  BY FrontRun
<1>2. size'[fifo[1].r] = size[fifo[1].r]
  BY <1>1
<1> QED
  BY <1>2 DEF PlaceInv

LEMMA ExtendsFront ==
  ASSUME NEW q \in Seq(Cells), NEW s \in Seq(Cells), NEW x, NEW a \in Nat, NEW m \in Nat, m >= 1,
         Extends(s, q, x, a, m)
  PROVE  /\ s # << >>
         /\ q # << >> => s[1] = q[1]
         /\ q = << >> => s[1].r = x /\ s[1].o = a
<1>1. /\ Len(q) \in Nat /\ Len(s) = Len(q) + m /\ \A k \in 1..Len(q) : s[k] = q[k]
      /\ \A i \in 1..m : s[Len(q) + i].r = x /\ s[Len(q) + i].o = a + i - 1
  BY DEF Extends
<1>2. s # << >>
  BY <1>1
<1>3. ASSUME q # << >>
      PROVE  s[1] = q[1]
  <2>1. 1 \in 1..Len(q)
    BY <1>1, <1>3
  <2> QED
    BY <1>1, <2>1
<1>4. ASSUME q = << >>
      PROVE  s[1].r = x /\ s[1].o = a
  <2>1. Len(q) = 0 /\ 1 \in 1..m
    BY <1>4
  <2>2. s[0 + 1].r = x /\ s[0 + 1].o = a + 1 - 1
    BY <1>1, <2>1
  <2> QED
    BY <2>2
<1> QED
  BY <1>2, <1>3, <1>4

\* The receiver.
LEMMA RxKeepsPlace ==
  ASSUME DataInv, PlaceInv, RxStart \/ RxLen \/ RxData
  PROVE  PlaceInv'
<1>1. UNCHANGED <<pc, len>>
  BY DEF RxStart, RxLen, RxData
<1>2. fifo \in Seq(Cells) /\ DataInv'
  BY RxStartData, RxLenData, RxDataData DEF DataInv
<1>3. fifo' \in Seq(Cells)
  BY <1>2 DEF DataInv
<1>4. \A y \in DOMAIN size : size'[y] = size[y]
  <2>1. CASE RxStart
    <3>1. PICK n \in Lengths : size' = Append(size, n)
      BY <2>1 DEF RxStart
    <3>2. Record < MaxRecords
      BY <2>1 DEF RxStart
    <3> QED
      BY <3>1, <3>2, NextRecord
  <2>2. CASE RxLen \/ RxData
    BY <2>2 DEF RxLen, RxData
  <2> QED
    BY <2>1, <2>2
<1>5. CASE RxStart
  <2>1. CASE fifo = << >>
    <3>1. \A x \in Readers : pc[x] # "len" /\ pc[x] # "data"
      BY <1>5, <2>1, RxStartData DEF PlaceInv
    <3> QED
      BY <1>1, <3>1 DEF PlaceInv
  <2>2. CASE fifo # << >> /\ fifo' = fifo
    BY <1>1, <1>4, <2>2, FrontKeepsPlace
  <2>3. CASE fifo # << >> /\ Extends(fifo', fifo, Record', 1, 2)
    <3>1. fifo' # << >> /\ fifo'[1] = fifo[1]
      <4>1. PICK x : x = Record'
        OBVIOUS
      <4> QED
        BY <1>2, <1>3, <2>3, <4>1, ExtendsFront
    <3> QED
      BY <1>1, <1>4, <2>3, <3>1, FrontKeepsPlace
  <2> QED
    BY <1>5, <2>1, <2>2, <2>3, RxStartData
<1>6. CASE RxLen
  <2>1. rx = "len" /\ Extends(fifo', fifo, Record, 3, 2)
    BY <1>6, RxLenData
  <2>2. /\ fifo' # << >> /\ (fifo # << >> => fifo'[1] = fifo[1])
        /\ fifo = << >> => fifo'[1].o = 3
    BY <1>2, <1>3, <2>1, ExtendsFront
  <2>3. CASE fifo # << >>
    BY <1>1, <1>4, <2>2, <2>3, FrontKeepsPlace
  <2>4. CASE fifo = << >>
    <3>1. \A x \in Readers : pc[x] # "data"
      BY <2>1, <2>4 DEF PlaceInv
    <3> QED
      BY <1>1, <2>2, <2>4, <3>1 DEF PlaceInv
  <2> QED
    BY <2>3, <2>4
<1>7. CASE RxData
  <2>1. rx = "data" /\ Extends(fifo', fifo, Record, 5, size[Record])
    BY <1>7, RxDataData
  <2>2. Record \in DOMAIN size /\ size[Record] \in Nat /\ size[Record] >= 1
    BY <2>1, Underway
  <2>3. /\ fifo' # << >> /\ (fifo # << >> => fifo'[1] = fifo[1])
        /\ fifo = << >> => fifo'[1].o = 5 /\ fifo'[1].r = Record
    BY <1>2, <1>3, <2>1, <2>2, ExtendsFront
  <2>4. CASE fifo # << >>
    BY <1>1, <1>4, <2>3, <2>4, FrontKeepsPlace
  <2>5. CASE fifo = << >>
    <3>1. \A x \in Readers : pc[x] # "len" /\ (pc[x] = "data" => len[x] = size[Record])
      BY <2>1, <2>5 DEF PlaceInv
    <3>2. size'[fifo'[1].r] = size[Record]
      BY <1>4, <2>2, <2>3, <2>5
    <3> QED
      BY <1>1, <2>3, <2>5, <3>1, <3>2 DEF PlaceInv
  <2> QED
    BY <2>4, <2>5
<1> QED
  BY <1>5, <1>6, <1>7

\* A reader that returns leaves nobody between two calls.
LEMMA ReturnKeepsPlace ==
  ASSUME LockInv, NEW r \in Readers, pc[r] # "user", Return(r)
  PROVE  PlaceInv'
<1>1. \A x \in Readers : x # r => pc[x] = "user"
  BY DEF LockInv
<1>2. pc' = [pc EXCEPT ![r] = "user"]
  BY DEF Return
<1>3. \A x \in Readers : pc'[x] = "user"
  BY <1>1, <1>2 DEF LockInv
<1> QED
  BY <1>3 DEF PlaceInv

\* A reader that goes on is at the right cell, or has overtaken the receiver.
LEMMA ReaderKeepsPlace ==
  ASSUME DataInv, LockInv, PlaceInv, CallInv, NEW r \in Readers, Reader(r), ~Begin(r)
  PROVE  PlaceInv'
<1>1. \A x \in Readers : x # r => pc[x] = "user"
  BY FifoAssumption DEF LockInv, Reader, Lock, FetchStart, FetchLen, FetchData, FetchFault
<1>2. ASSUME NEW at \in {"start", "len", "data"}, pc' = [pc EXCEPT ![r] = at]
      PROVE  pc'[r] = at /\ \A x \in Readers : x # r => pc'[x] = "user"
  BY <1>1, <1>2 DEF LockInv
<1>3. CASE Lock(r)
  <2>1. pc' = [pc EXCEPT ![r] = "start"]
    BY <1>3 DEF Lock
  <2>2. \A x \in Readers : pc'[x] \in {"user", "start"}
    BY <1>2, <2>1
  <2> QED
    BY <2>2 DEF PlaceInv
<1>4. CASE FetchStart(r)
  <2>1. pc[r] = "start" /\ UNCHANGED <<size, rx, len>> /\ fifo' = Rest(call.n) /\ call # NoCall
    BY <1>4 DEF FetchStart, EndCall
  <2>2. CASE Return(r)
    BY <2>1, <2>2, ReturnKeepsPlace
  <2>3. CASE IsStart(Copied) /\ pc' = [pc EXCEPT ![r] = "len"]
    <3>0. call.n = 2 /\ Copied = Out(2)
      BY <2>1, <2>3, CopiedIs DEF IsStart
    <3>1. IF fifo' = << >> THEN rx' = "len" ELSE fifo'[1].o = 3
      <4>1. IF Rest(2) = << >> THEN rx = "len" /\ fifo[1].r = Record
            ELSE Rest(2)[1] = [r |-> fifo[1].r, o |-> 3]
        BY <2>3, <3>0, StartTaken
      <4> QED
        BY <2>1, <3>0, <4>1
    <3>2. pc'[r] = "len" /\ \A x \in Readers : x # r => pc'[x] = "user"
      BY <1>2, <2>3
    <3> QED
      BY <3>1, <3>2 DEF PlaceInv
  <2> QED
    BY <1>4, <2>2, <2>3 DEF FetchStart
<1>5. CASE FetchLen(r)
  <2>1. /\ pc[r] = "len" /\ UNCHANGED <<size, rx>> /\ fifo' = Rest(call.n) /\ Record' = Record
        /\ call # NoCall
    BY <1>5 DEF FetchLen, EndCall, Record
  <2>2. CASE Return(r)
    BY <2>1, <2>2, ReturnKeepsPlace
  <2>3. CASE /\ call.n = 2
             /\ pc' = [pc EXCEPT ![r] = "data"]
             /\ len' = [len EXCEPT ![r] = LenOf(Copied)]
    <3>1. pc'[r] = "data" /\ \A x \in Readers : x # r => pc'[x] = "user"
      BY <1>2, <2>3
    <3>2. Copied = Out(2) /\ Len(fifo) >= 2
      BY <2>1, <2>3, CopiedIs
    <3>3. fifo # << >>
      BY <3>2
    <3>4. fifo[1].o = 3
      BY <2>1, <3>3 DEF PlaceInv
    <3>5. /\ LenOf(Out(2)) = size[fifo[1].r]
          /\ IF Rest(2) = << >> THEN rx = "data" /\ fifo[1].r = Record
             ELSE Rest(2)[1] = [r |-> fifo[1].r, o |-> 5]
      BY <3>3, <3>4, LenTaken
    <3>6. len'[r] = size[fifo[1].r]
      BY <2>3, <3>2, <3>5 DEF LockInv
    <3>7. IF fifo' = << >> THEN rx' = "data" /\ len'[r] = size'[Record']
          ELSE fifo'[1].o = 5 /\ len'[r] = size'[fifo'[1].r]
      BY <2>1, <2>3, <3>5, <3>6
    <3> QED
      BY <3>1, <3>7 DEF PlaceInv
  <2> QED
    BY <1>5, <2>2, <2>3 DEF FetchLen
<1>6. CASE FetchData(r) \/ FetchFault(r)
  <2>1. pc[r] = "data" /\ Return(r)
    BY <1>6 DEF FetchData, FetchFault
  <2> QED
    BY <2>1, ReturnKeepsPlace
<1> QED
  BY <1>3, <1>4, <1>5, <1>6 DEF Reader

LEMMA PlaceHolds ==
  ASSUME DataInv, LockInv, PlaceInv, CallInv, [Next]_vars
  PROVE  PlaceInv'
<1>1. CASE UNCHANGED <<fifo, size, rx, pc, len>>
  <2>1. Record' = Record
    BY <1>1 DEF Record
  <2> QED
    BY <1>1, <2>1 DEF PlaceInv
<1>2. CASE RxStart \/ RxLen \/ RxData
  BY <1>2, RxKeepsPlace
<1>3. ASSUME NEW r \in Readers, Reader(r)
      PROVE  PlaceInv'
  <2>1. CASE Begin(r)
    BY <1>1, <2>1 DEF Begin
  <2>2. CASE ~Begin(r)
    BY <1>3, <2>2, ReaderKeepsPlace
  <2> QED
    BY <2>1, <2>2
<1> QED
  BY <1>1, <1>2, <1>3 DEF Next, vars

-----------------------------------------------------------------------------
(* Every step keeps the invariant: the calls.                              *)

\* What the receiver puts is behind what a call takes.
LEMMA RxKeepsCall ==
  ASSUME DataInv, CallInv, RxStart \/ RxLen \/ RxData
  PROVE  CallInv'
<1>1. UNCHANGED <<lock, pc, call, len>>
  BY DEF RxStart, RxLen, RxData
<1>2. Len(fifo) \in Nat /\ Len(fifo') \in Nat /\ Len(fifo') >= Len(fifo)
  <2>1. CASE RxStart
    BY <2>1, RxStartData, DataTypes DEF Extends
  <2>2. CASE RxLen
    BY <2>2, RxLenData, DataTypes DEF Extends
  <2>3. CASE RxData
    <3>1. size[Record] \in Nat
      BY <2>3, RxDataData, Underway
    <3> QED
      BY <2>3, <3>1, RxDataData, DataTypes DEF Extends
  <2> QED
    BY <2>1, <2>2, <2>3
<1>3. 0..Len(fifo) \subseteq 0..Len(fifo')
  BY <1>2
<1>4. call' \in {NoCall} \cup [n : 0..Len(fifo'), rx : {"idle", "len", "data"}]
  BY <1>1, <1>3 DEF CallInv
<1> QED
  BY <1>1, <1>4 DEF CallInv

\* A call that begins at the data finds all of it, or nothing.
LEMMA BeginKeepsCall ==
  ASSUME DataInv, LockInv, PlaceInv, CallInv, NEW r \in Readers, Begin(r)
  PROVE  CallInv'
<1>1. PICK w : w = IF pc[r] = "data" THEN len[r] ELSE 2
  OBVIOUS
<1>2. w \in Nat
  BY <1>1, LenIsNat
<1>3. PICK n \in 0..Len(fifo) : n = IF w <= Len(fifo) THEN w ELSE Len(fifo)
  <2>1. PICK l \in Nat : l = Len(fifo)
    BY DataTypes
  <2>2. (IF w <= l THEN w ELSE l) \in 0..l
    BY <1>2
  <2> QED
    BY <2>1, <2>2
<1>4. /\ pc[r] # "user" /\ UNCHANGED <<fifo, size, rx, lock, pc, len>>
      /\ call' = [n |-> n, rx |-> rx]
  BY <1>1, <1>3 DEF Begin
<1>5. rx \in {"idle", "len", "data"}
  BY DEF DataInv
<1>6. call' \in [n : 0..Len(fifo'), rx : {"idle", "len", "data"}]
  BY <1>4, <1>5
<1>7. lock' # NoReader
  BY <1>4, FifoAssumption DEF LockInv
<1>8. ASSUME NEW x \in Readers, pc'[x] = "data"
      PROVE  call'.n = len'[x] \/ (call'.n = 0 /\ call'.rx = "data")
  <2>1. x = r /\ w = len[r] /\ pc[r] = "data"
    BY <1>1, <1>4, <1>8 DEF LockInv
  <2>2. CASE fifo = << >>
    <3>1. rx = "data" /\ Len(fifo) = 0
      BY <2>1, <2>2 DEF PlaceInv
    <3>2. n = 0
      BY <3>1
    <3> QED
      BY <1>4, <3>1, <3>2
  <2>3. CASE fifo # << >>
    <3>1. fifo[1].o = 5 /\ w = size[fifo[1].r]
      BY <2>1, <2>3 DEF PlaceInv
    <3>2. w <= Len(fifo)
      BY <2>3, <3>1, DataTaken
    <3> QED
      BY <1>3, <1>4, <2>1, <3>2
  <2> QED
    BY <2>2, <2>3
<1> QED
  BY <1>6, <1>7, <1>8 DEF CallInv

LEMMA CallHolds ==
  ASSUME DataInv, LockInv, PlaceInv, CallInv, [Next]_vars
  PROVE  CallInv'
<1>1. CASE UNCHANGED vars
  BY <1>1 DEF vars, CallInv
<1>2. CASE RxStart \/ RxLen \/ RxData
  BY <1>2, RxKeepsCall
<1>3. ASSUME NEW r \in Readers, Reader(r)
      PROVE  CallInv'
  <2>1. CASE Begin(r)
    BY <2>1, BeginKeepsCall
  <2>2. CASE Lock(r)
    <3>1. call' = NoCall
      BY <2>2 DEF Lock, CallInv
    <3> QED
      BY <3>1 DEF CallInv
  <2>3. CASE FetchStart(r) \/ FetchLen(r) \/ FetchData(r) \/ FetchFault(r)
    <3>1. call' = NoCall
      BY <2>3, TakesOut
    <3> QED
      BY <3>1 DEF CallInv
  <2> QED
    BY <1>3, <2>1, <2>2, <2>3 DEF Reader
<1> QED
  BY <1>1, <1>2, <1>3 DEF Next

-----------------------------------------------------------------------------
(* Every step keeps the invariant: the fetches.                            *)

\* A fetch stays what it was while the modem goes on.
LEMMA GoodFetchKept ==
  ASSUME DataInv, NEW f \in Fetch, GoodFetch(f),
         \A y \in DOMAIN size : y \in DOMAIN size' /\ size'[y] = size[y],
         \A y \in DOMAIN size :
           (rx = "idle" \/ y # Record) => (rx' = "idle" \/ y # Record')
  PROVE  GoodFetch(f)'
<1>1. \A j \in DOMAIN f.data : f.data[j].r \in DOMAIN size'
  BY DEF GoodFetch
<1>2. f.data # << >> => f.data[1].r \in DOMAIN size
  <2>1. f.data \in Seq(Cells)
    BY DEF Fetch
  <2>2. f.data # << >> => 1 \in DOMAIN f.data
    BY <2>1
  <2> QED
    BY <2>2 DEF GoodFetch
<1>3. \A y \in DOMAIN size : From(y, 5)' = From(y, 5)
  BY DEF From
<1>4. ASSUME f.data # << >>
      PROVE  /\ f.data = From(f.data[1].r, 5)' /\ f.len = size'[f.data[1].r]
             /\ rx' = "idle" \/ f.data[1].r # Record'
  <2>1. PICK y \in DOMAIN size : y = f.data[1].r
    BY <1>2, <1>4
  <2>2. f.data = From(y, 5) /\ f.len = size[y] /\ (rx = "idle" \/ y # Record)
    BY <1>4, <2>1 DEF GoodFetch
  <2>3. f.data = From(y, 5)' /\ f.len = size'[y] /\ (rx' = "idle" \/ y # Record')
    BY <1>3, <2>2
  <2> QED
    BY <2>1, <2>3
<1>5. f.len \in Lengths /\ (f.data = << >> => f.during = "data")
  BY DEF GoodFetch
<1> QED
  BY <1>1, <1>4, <1>5 DEF GoodFetch

\* The receiver finishes records and begins new ones.
LEMMA RxKeepsFetched ==
  ASSUME DataInv, FetchedInv, RxStart \/ RxLen \/ RxData
  PROVE  FetchedInv'
<1>1. fetched' = fetched
  BY DEF RxStart, RxLen, RxData
<1>2. /\ \A y \in DOMAIN size : y \in DOMAIN size' /\ size'[y] = size[y]
      /\ \A y \in DOMAIN size : (rx = "idle" \/ y # Record) => (rx' = "idle" \/ y # Record')
  <2>1. CASE RxStart
    <3>1. PICK n \in Lengths : size' = Append(size, n)
      BY <2>1 DEF RxStart
    <3>2. Record < MaxRecords
      BY <2>1 DEF RxStart
    <3>3. /\ DOMAIN size' = DOMAIN size \cup {Record'} /\ \A y \in DOMAIN size : y < Record'
          /\ \A y \in DOMAIN size : size'[y] = size[y]
          /\ Record' = Record + 1
      BY <3>1, <3>2, NextRecord
    <3>4. \A y \in DOMAIN size : y # Record'
      BY <3>3, DataTypes
    <3> QED
      BY <3>3, <3>4
  <2>2. CASE RxLen
    BY <2>2, RxLenData DEF RxLen, Record
  <2>3. CASE RxData
    BY <2>3, RxDataData DEF RxData
  <2> QED
    BY <2>1, <2>2, <2>3
<1>3. \A f \in Fetch : GoodFetch(f) => GoodFetch(f)'
  BY <1>2, GoodFetchKept
<1>4. \A i \in DOMAIN fetched : fetched[i] \in Fetch
  BY DEF FetchedInv
<1> QED
  BY <1>1, <1>3, <1>4 DEF FetchedInv

\* What a reader fetches is good: it took it from the right place.
LEMMA FetchIsGood ==
  ASSUME DataInv, LockInv, PlaceInv, CallInv, NEW r \in Readers, pc[r] = "data", call # NoCall,
         NEW f, f = [len |-> len[r], data |-> Copied, during |-> call.rx]
  PROVE  f \in Fetch /\ GoodFetch(f)
<1>1. PICK n \in Nat, c \in Nat : n = len[r] /\ c = call.n
  BY LenIsNat, CopiedIs
<1>2. /\ c <= Len(fifo) /\ call.rx \in {"idle", "len", "data"} /\ Copied = Out(c)
      /\ c = n \/ (c = 0 /\ call.rx = "data")
  BY <1>1, CopiedIs DEF CallInv
<1>3. /\ Out(c) \in Seq(Cells) /\ Len(Out(c)) = c
      /\ \A k \in DOMAIN Out(c) : k \in DOMAIN fifo /\ Out(c)[k] = fifo[k]
  BY <1>2, OutIs
<1>4. f.len = n /\ f.data = Out(c) /\ f.during = call.rx
  BY <1>1, <1>2
<1>5. f \in Fetch
  <2>1. len[r] \in Lengths \cup {Huge}
    BY DEF LockInv
  <2> QED
    BY <1>2, <1>3, <2>1 DEF Fetch
<1>6. \A j \in DOMAIN f.data : f.data[j].r \in DOMAIN size
  BY <1>3, <1>4, DataTypes
<1>7. n \in Lengths /\ n >= 1
  <2>1. CASE fifo = << >>
    <3>1. rx = "data" /\ n = size[Record]
      BY <1>1, <2>1 DEF PlaceInv
    <3> QED
      BY <3>1, Underway, DataTypes
  <2>2. CASE fifo # << >>
    <3>1. n = size[fifo[1].r] /\ fifo[1].r \in DOMAIN size
      BY <1>1, <2>2, FrontRun DEF PlaceInv
    <3> QED
      BY <3>1, DataTypes
  <2> QED
    BY <2>1, <2>2
<1>8. ASSUME f.data = << >>
      PROVE  f.during = "data"
  <2>1. c = 0
    BY <1>3, <1>4, <1>8
  <2> QED
    BY <1>2, <1>4, <1>7, <2>1
<1>9. ASSUME f.data # << >>
      PROVE  /\ f.data = From(f.data[1].r, 5)
             /\ f.len = size[f.data[1].r]
             /\ rx = "idle" \/ f.data[1].r # Record
  <2>1. c = n /\ fifo # << >>
    <3>1. c # 0
      BY <1>3, <1>4, <1>9
    <3>2. Len(fifo) # 0
      BY <1>2, <3>1, DataTypes
    <3> QED
      BY <1>2, <3>1, <3>2
  <2>2. fifo[1].o = 5 /\ n = size[fifo[1].r]
    BY <1>1, <2>1 DEF PlaceInv
  <2>3. PICK x : x = fifo[1].r
    OBVIOUS
  <2>4. /\ x \in DOMAIN size /\ (rx = "idle" \/ x # Record)
        /\ Out(n) = From(x, 5) /\ Out(n)[1].r = x
    BY <2>1, <2>2, <2>3, DataTaken
  <2> QED
    BY <1>4, <2>1, <2>2, <2>3, <2>4
<1> QED
  BY <1>4, <1>5, <1>6, <1>7, <1>8, <1>9 DEF GoodFetch

LEMMA FetchedHolds ==
  ASSUME DataInv, LockInv, PlaceInv, CallInv, FetchedInv, [Next]_vars
  PROVE  FetchedInv'
<1>1. CASE UNCHANGED <<size, rx, fetched>>
  <2>1. Record' = Record
    BY <1>1 DEF Record
  <2> QED
    BY <1>1, <2>1 DEF FetchedInv, GoodFetch, From
<1>2. CASE RxStart \/ RxLen \/ RxData
  BY <1>2, RxKeepsFetched
<1>3. ASSUME NEW r \in Readers, FetchData(r)
      PROVE  FetchedInv'
  <2>1. PICK f : f = [len |-> len[r], data |-> Copied, during |-> call.rx]
    OBVIOUS
  <2>2. /\ pc[r] = "data" /\ call # NoCall /\ fetched' = Append(fetched, f) /\ size' = size /\ rx' = rx
        /\ Record' = Record
    BY <1>3, <2>1 DEF FetchData, EndCall, Record
  <2>3. f \in Fetch /\ GoodFetch(f)
    BY <2>1, <2>2, FetchIsGood
  <2>4. fetched' \in Seq(Fetch)
    BY <2>2, <2>3 DEF FetchedInv
  <2>5. \A i \in DOMAIN fetched' : GoodFetch(fetched'[i])
    BY <2>2, <2>3 DEF FetchedInv
  <2>6. \A g : GoodFetch(g) => GoodFetch(g)'
    BY <2>2 DEF GoodFetch, From
  <2> QED
    BY <2>4, <2>5, <2>6 DEF FetchedInv
<1> QED
  BY <1>1, <1>2, <1>3 DEF Next, Reader, Lock, Begin, FetchStart, FetchLen, FetchFault, vars

-----------------------------------------------------------------------------
(* The theorems.                                                           *)

LEMMA InitInv ==
  ASSUME Init
  PROVE  FifoInv
<1>1. DataInv
  <2>1. fifo \in Seq(Cells) /\ Len(fifo) <= Capacity /\ size \in Seq(Lengths) /\ Len(size) <= MaxRecords
    BY FifoAssumption DEF Init
  <2>2. Runs(fifo, written)
    BY DEF Init, Runs
  <2> QED
    BY <2>1, <2>2 DEF Init, DataInv
<1>2. LockInv
  BY FifoAssumption DEF Init, LockInv
<1>3. PlaceInv
  BY DEF Init, PlaceInv
<1>4. FetchedInv
  BY DEF Init, FetchedInv
<1>5. CallInv
  BY DEF Init, CallInv
<1> QED
  BY <1>1, <1>2, <1>3, <1>4, <1>5 DEF FifoInv

LEMMA NextInv ==
  ASSUME FifoInv, [Next]_vars
  PROVE  FifoInv'
BY DataHolds, LockHolds, PlaceHolds, CallHolds, FetchedHolds DEF FifoInv

LEMMA InvHolds == Spec => []FifoInv
BY InitInv, NextInv, PTL DEF Spec

\* The state of the FIFO, of the receiver and of the readers is well formed: nothing
\* is ever put beyond the capacity, and whoever is in the ioctl holds read_lock.
THEOREM FifoTypeCorrect == Spec => []TypeOK
<1>1. ASSUME FifoInv
      PROVE  TypeOK
  <2>1. FifoInv
    BY <1>1
  <2> QED
    BY <2>1 DEF FifoInv, DataInv, LockInv, CallInv, FetchedInv, Fetch, TypeOK
<1> QED
  BY <1>1, InvHolds, PTL

\* Wherever the three puts fall between and into the three calls, a fetch returns a length
\* of a record with all of its data, or with none if the receiver had just put the length.
THEOREM FetchesRecordsHolds == Spec => []FetchesRecords
<1>1. ASSUME FifoInv
      PROVE  FetchesRecords
  <2>1. FifoInv
    BY <1>1
  <2>2. \A i \in DOMAIN fetched : GoodFetch(fetched[i])
    BY <2>1 DEF FifoInv, FetchedInv
  <2> QED
    BY <2>2 DEF GoodFetch, FetchesRecords
<1> QED
  BY <1>1, InvHolds, PTL
=============================================================================
