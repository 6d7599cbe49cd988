------------------------ MODULE KalmiaFifoQueueProofs ------------------------
(***************************************************************************)
(* The debug FIFO is a lossy queue of whole records: every step of the six *)
(* calls is a step of RecordQueue, or none.                                *)
(***************************************************************************)
EXTENDS KalmiaFifoProofs, FunctionTheorems

-----------------------------------------------------------------------------
(* The elements of a set in order.                                         *)

LEMMA RankTypes ==
  ASSUME NEW S \in SUBSET Nat, IsFiniteSet(S), NEW x
  PROVE  /\ Rank(S, x) \in Nat /\ Cardinality(S) \in Nat
         /\ x \in S => Rank(S, x) < Cardinality(S)
<1>1. {y \in S : y < x} \in SUBSET S
  OBVIOUS
<1>2. IsFiniteSet({y \in S : y < x})
  BY <1>1, FS_Subset
<1>3. Rank(S, x) \in Nat /\ Cardinality(S) \in Nat
  BY <1>2, FS_CardinalityType DEF Rank
<1>4. ASSUME x \in S
      PROVE  Rank(S, x) < Cardinality(S)
  <2>1. /\ Cardinality({y \in S : y < x}) <= Cardinality(S)
        /\ Cardinality(S) = Cardinality({y \in S : y < x}) => S = {y \in S : y < x}
    BY <1>1, FS_Subset
  <2>2. S # {y \in S : y < x}
    BY <1>4
  <2> QED
    BY <1>3, <2>1, <2>2 DEF Rank
<1> QED
  BY <1>3, <1>4

LEMMA RankGrows ==
  ASSUME NEW S \in SUBSET Nat, IsFiniteSet(S), NEW x \in S, NEW z \in S, x < z
  PROVE  Rank(S, x) < Rank(S, z)
<1>1. {y \in S : y < x} \in SUBSET {y \in S : y < z}
  <2>1. \A y \in S : y \in Nat /\ x \in Nat /\ z \in Nat
    OBVIOUS
  <2>2. \A y \in S : y < x => y < z
    BY <2>1
  <2> QED
    BY <2>2
<1>2. IsFiniteSet({y \in S : y < z})
  BY FS_Subset
<1>3. {y \in S : y < z} # {y \in S : y < x}
  BY x \in {y \in S : y < z}, x \notin {y \in S : y < x}
<1>4. Cardinality({y \in S : y < x}) <= Cardinality({y \in S : y < z})
  BY <1>1, <1>2, FS_Subset
<1>5. Cardinality({y \in S : y < z}) # Cardinality({y \in S : y < x})
  BY <1>1, <1>2, <1>3, FS_Subset
<1> QED
  BY <1>4, <1>5, RankTypes DEF Rank

LEMMA RankInjective ==
  ASSUME NEW S \in SUBSET Nat, IsFiniteSet(S), NEW x \in S, NEW z \in S, Rank(S, x) = Rank(S, z)
  PROVE  x = z
<1>1. Rank(S, x) \in Nat
  BY RankTypes
<1>2. ~(x < z) /\ ~(z < x)
  BY <1>1, RankGrows
<1> QED
  BY <1>2

\* Each place up to the size of the set is that of one element.
LEMMA RankOnto ==
  ASSUME NEW S \in SUBSET Nat, IsFiniteSet(S), NEW k \in 1..Cardinality(S)
  PROVE  \E x \in S : Rank(S, x) = k - 1
<1> DEFINE f == [x \in S |-> Rank(S, x) + 1]
           T == 1..Cardinality(S)
<1>1. Cardinality(S) \in Nat /\ \A x \in S : Rank(S, x) \in Nat /\ Rank(S, x) < Cardinality(S)
  BY RankTypes
<1>2. f \in [S -> T]
  BY <1>1
<1>3. \A x, z \in S : f[x] = f[z] => x = z
  BY <1>1, RankInjective
<1>4. f \in Injection(S, T)
  BY <1>2, <1>3, Fun_IsInj
<1>5. IsFiniteSet(T) /\ Cardinality(T) = Cardinality(S)
  BY <1>1, FS_Interval
<1>6. f \in Surjection(S, T)
  BY <1>4, <1>5, FS_Injection
<1>7. PICK x \in S : f[x] = k
  <2>1. \A t \in T : \E s \in S : f[s] = t
    BY <1>6 DEF Surjection
  <2> QED
    BY <2>1
<1>8. Rank(S, x) = k - 1
  BY <1>1, <1>7
<1> QED
  BY <1>8

\* What InOrder is: its k-th element is the one with k - 1 below it.
LEMMA InOrderIs ==
  ASSUME NEW S \in SUBSET Nat, IsFiniteSet(S)
  PROVE  /\ Cardinality(S) \in Nat
         /\ DOMAIN InOrder(S) = 1..Cardinality(S)
         /\ InOrder(S) \in Seq(S) /\ Len(InOrder(S)) = Cardinality(S)
         /\ \A k \in 1..Cardinality(S) :
              InOrder(S)[k] \in S /\ Rank(S, InOrder(S)[k]) = k - 1
<1>1. Cardinality(S) \in Nat
  BY FS_CardinalityType
<1>2. ASSUME NEW k \in 1..Cardinality(S)
      PROVE  InOrder(S)[k] \in S /\ Rank(S, InOrder(S)[k]) = k - 1
  <2>1. InOrder(S)[k] = CHOOSE x \in S : Rank(S, x) = k - 1
    BY DEF InOrder
  <2>2. \E x \in S : Rank(S, x) = k - 1
    BY RankOnto
  <2> QED
    BY <2>1, <2>2
<1>3. InOrder(S) \in [1..Cardinality(S) -> S]
  BY <1>2 DEF InOrder
<1> QED
  BY <1>1, <1>2, <1>3

LEMMA InOrderAt ==
  ASSUME NEW S \in SUBSET Nat, IsFiniteSet(S), NEW k \in 1..Cardinality(S),
         NEW x \in S, Rank(S, x) = k - 1
  PROVE  InOrder(S)[k] = x
<1>1. InOrder(S)[k] \in S /\ Rank(S, InOrder(S)[k]) = k - 1
  BY InOrderIs
<1>2. PICK z \in S : z = InOrder(S)[k]
  BY <1>1
<1>3. Rank(S, z) = Rank(S, x)
  BY <1>1, <1>2
<1> QED
  BY <1>2, <1>3, RankInjective

\* A new greatest element comes last.
LEMMA InOrderAppend ==
  ASSUME NEW S \in SUBSET Nat, IsFiniteSet(S), NEW r \in Nat, \A x \in S : x < r
  PROVE  InOrder(S \cup {r}) = Append(InOrder(S), r)
<1> DEFINE T == S \cup {r}
           n == Cardinality(S)
<1>1. r \notin S /\ ~(r < r)
  <2>1. ~(r < r)
    OBVIOUS
  <2> QED
    BY <2>1, Zenon
<1>2. T \in SUBSET Nat /\ IsFiniteSet(T) /\ Cardinality(T) = n + 1 /\ n \in Nat
  BY <1>1, FS_AddElement, FS_CardinalityType
<1>3. ASSUME NEW x \in S
      PROVE  Rank(T, x) = Rank(S, x)
  <2>1. {y \in T : y < x} = {y \in S : y < x}
    <3>1. ~(r < x)
      BY x < r
    <3> QED
      BY <3>1
  <2> QED
    BY <2>1 DEF Rank
<1>4. Rank(T, r) = n
  <2>1. {y \in T : y < r} = S
    BY <1>1, Zenon
  <2> QED
    BY <2>1 DEF Rank
<1> HIDE DEF T, n
<1>5. /\ InOrder(S) \in Seq(S) /\ Len(InOrder(S)) = n /\ DOMAIN InOrder(S) = 1..n
      /\ \A k \in 1..n : InOrder(S)[k] \in S /\ Rank(S, InOrder(S)[k]) = k - 1
  BY InOrderIs DEF n
<1>6. /\ InOrder(T) \in Seq(T) /\ Len(InOrder(T)) = n + 1 /\ DOMAIN InOrder(T) = 1..(n + 1)
  BY <1>2, InOrderIs
<1>7. ASSUME NEW k \in 1..n
      PROVE  InOrder(T)[k] = InOrder(S)[k]
  <2>1. PICK x \in S : x = InOrder(S)[k]
    BY <1>5
  <2>2. x \in T /\ Rank(T, x) = k - 1 /\ k \in 1..Cardinality(T)
    <3>1. Rank(S, x) = k - 1 /\ Rank(T, x) = Rank(S, x)
      BY <1>3, <1>5, <2>1
    <3>2. k \in 1..(n + 1)
      BY <1>2
    <3> QED
      BY <1>2, <3>1, <3>2 DEF T
  <2> QED
    BY <1>2, <2>1, <2>2, InOrderAt
<1>8. InOrder(T)[n + 1] = r
  <2>1. r \in T /\ Rank(T, r) = (n + 1) - 1 /\ n + 1 \in 1..Cardinality(T)
    BY <1>2, <1>4 DEF T
  <2> QED
    BY <1>2, <2>1, InOrderAt
<1>9. InOrder(S) \in Seq(Nat) /\ InOrder(T) \in Seq(Nat)
  BY <1>2, <1>5, <1>6, SeqMonotonic
<1>10. PICK s \in Seq(Nat), t \in Seq(Nat) : s = InOrder(S) /\ t = InOrder(T)
  BY <1>9
<1>11. /\ Append(s, r) \in Seq(Nat) /\ Len(Append(s, r)) = n + 1
       /\ \A k \in 1..n : Append(s, r)[k] = s[k]
       /\ Append(s, r)[n + 1] = r
  BY <1>5, <1>10
<1>12. t = Append(s, r)
  <2>1. Len(t) = n + 1 /\ t[n + 1] = r /\ \A k \in 1..n : t[k] = s[k]
    BY <1>6, <1>7, <1>8, <1>10
  <2>2. \A k \in 1..(n + 1) : t[k] = Append(s, r)[k]
    <3>1. \A k \in 1..(n + 1) : k \in 1..n \/ k = n + 1
      BY <1>2
    <3> QED
      BY <1>11, <2>1, <3>1
  <2> QED
    BY <1>11, <2>1, <2>2, SeqEqual
<1> QED
  BY <1>10, <1>12 DEF T

\* The greater elements alone are the end of the sequence.
LEMMA InOrderUpper ==
  ASSUME NEW S \in SUBSET Nat, IsFiniteSet(S), NEW T \in SUBSET S,
         \A x \in T, y \in S : x < y => y \in T
  PROVE  LET d == Cardinality(S) - Cardinality(T)
         IN  /\ d \in 0..Cardinality(S) /\ (d = 0 => T = S)
             /\ InOrder(T) = SubSeq(InOrder(S), d + 1, Cardinality(S))
<1>1. /\ T \in SUBSET Nat /\ IsFiniteSet(T) /\ Cardinality(T) <= Cardinality(S)
      /\ Cardinality(S) \in Nat /\ Cardinality(T) \in Nat
      /\ Cardinality(S) = Cardinality(T) => S = T
  BY FS_Subset, FS_CardinalityType
<1>2. PICK n \in Nat, m \in Nat : n = Cardinality(S) /\ m = Cardinality(T)
  BY <1>1
<1>3. PICK d \in Nat : d = n - m
  BY <1>1, <1>2
<1>4. ASSUME NEW x \in T
      PROVE  Rank(S, x) = d + Rank(T, x)
  <2> DEFINE L == S \ T
             B == {y \in T : y < x}
  <2>1. L \cap B = {}
    OBVIOUS
  <2>2. {y \in S : y < x} = L \cup B
    <3>1. ASSUME NEW y \in L
          PROVE  y < x
      <4>1. y \in Nat /\ x \in Nat /\ y # x /\ ~(x < y)
        OBVIOUS
      <4> QED
        BY <4>1
    <3> QED
      BY <3>1
  <2>3. IsFiniteSet(L) /\ Cardinality(L) = Cardinality(S) - Cardinality(S \cap T)
    BY FS_Difference
  <2>4. S \cap T = T
    OBVIOUS
  <2>5. IsFiniteSet(B) /\ Cardinality(B) \in Nat
    BY <1>1, FS_Subset, FS_CardinalityType
  <2> HIDE DEF L, B
  <2>6. Cardinality(L \cup B) = Cardinality(L) + Cardinality(B) - Cardinality(L \cap B)
    BY <2>3, <2>5, FS_Union
  <2>7. Cardinality(L \cup B) = d + Cardinality(B)
    <3>1. Cardinality(L) = d
      BY <1>2, <1>3, <2>3, <2>4
    <3>2. Cardinality(L \cap B) = 0
      BY <2>1, FS_EmptySet
    <3> QED
      BY <2>5, <2>6, <3>1, <3>2
  <2>8. Rank(S, x) = Cardinality(L \cup B)
    BY <2>2 DEF Rank
  <2>9. Rank(T, x) = Cardinality(B)
    BY DEF B, Rank
  <2> QED
    BY <2>7, <2>8, <2>9
<1>5. /\ InOrder(T) \in Seq(T) /\ Len(InOrder(T)) = m
      /\ \A k \in 1..m : InOrder(T)[k] \in T /\ Rank(T, InOrder(T)[k]) = k - 1
  BY <1>1, <1>2, InOrderIs
<1>6. InOrder(S) \in Seq(S) /\ Len(InOrder(S)) = n
  BY <1>2, InOrderIs
<1>7. ASSUME NEW k \in 1..m
      PROVE  InOrder(S)[d + k] = InOrder(T)[k]
  <2>1. PICK x \in T : x = InOrder(T)[k]
    BY <1>5
  <2>2. PICK j \in 1..n : j = d + k
    BY <1>3
  <2>3. Rank(T, x) = k - 1
    BY <1>5, <2>1
  <2>4. Rank(S, x) = j - 1
    BY <1>4, <2>2, <2>3
  <2>5. InOrder(S)[j] = x
    BY <1>2, <2>4, InOrderAt
  <2> QED
    BY <2>1, <2>2, <2>5
<1>8. InOrder(S) \in Seq(Nat) /\ InOrder(T) \in Seq(Nat)
  BY <1>1, <1>5, <1>6, SeqMonotonic
<1>9. PICK s \in Seq(Nat), t \in Seq(Nat) : s = InOrder(S) /\ t = InOrder(T)
  BY <1>8
<1>10. /\ SubSeq(s, d + 1, n) \in Seq(Nat)
       /\ Len(SubSeq(s, d + 1, n)) = IF d + 1 <= n THEN n - (d + 1) + 1 ELSE 0
       /\ \A k \in 1..(n - (d + 1) + 1) : SubSeq(s, d + 1, n)[k] = s[(d + 1) + k - 1]
  <2>1. \A k \in (d + 1)..n : s[k] \in Nat
    BY <1>6, <1>9
  <2> QED
    BY <2>1, SubSeqProperties
<1>11. Len(SubSeq(s, d + 1, n)) = m /\ n - (d + 1) + 1 = m
  BY <1>3, <1>10
<1>12. \A k \in 1..m : SubSeq(s, d + 1, n)[k] = t[k]
  <2>1. \A k \in 1..m : (d + 1) + k - 1 = d + k
    OBVIOUS
  <2> QED
    BY <1>7, <1>9, <1>10, <1>11, <2>1
<1>13. t = SubSeq(s, d + 1, n)
  BY <1>5, <1>9, <1>10, <1>11, <1>12, SeqEqual
<1>14. d \in 0..n /\ (d = 0 => T = S)
  BY <1>1, <1>2, <1>3
<1> QED
  BY <1>2, <1>3, <1>9, <1>13, <1>14, Zenon

\* T holds the greater elements of S.
Upper(T, S) == T \in SUBSET S /\ \A x \in T, y \in S : x < y => y \in T

\* p is q without a stretch of it.
Loses(q, p) ==
  \E j, k \in 1..Len(q) :
    j <= k /\ p = SubSeq(q, 1, j - 1) \o SubSeq(q, k + 1, Len(q))

\* Without smaller elements the sequence has lost a stretch, if any.
LEMMA InOrderLose ==
  ASSUME NEW S \in SUBSET Nat, IsFiniteSet(S), NEW T, Upper(T, S),
         NEW q, q = InOrder(S), NEW p, p = InOrder(T), p # q
  PROVE  Loses(q, p)
<1>1. PICK d : d = Cardinality(S) - Cardinality(T)
  OBVIOUS
<1>2. d \in 0..Cardinality(S) /\ (d = 0 => T = S) /\ p = SubSeq(q, d + 1, Cardinality(S))
  BY <1>1, InOrderUpper, Zenon DEF Upper
<1>3. q \in Seq(S) /\ Len(q) = Cardinality(S) /\ Cardinality(S) \in Nat
  BY InOrderIs
<1>4. PICK n \in Nat : n = Len(q)
  BY <1>3
<1>5. d # 0
  BY <1>2, Zenon
<1>6. d \in 1..n
  BY <1>2, <1>3, <1>4, <1>5
<1>7. SubSeq(q, d + 1, n) \in Seq(S)
  <2>1. \A i \in (d + 1)..n : q[i] \in S
    BY <1>3, <1>4, <1>6
  <2> QED
    BY <1>6, <2>1, SubSeqProperties
<1>8. SubSeq(q, 1, 1 - 1) = << >>
  BY SubSeqEmpty
<1>9. << >> \o SubSeq(q, d + 1, n) = SubSeq(q, d + 1, n)
  BY <1>7, ConcatEmptySeq
<1>10. p = SubSeq(q, 1, 1 - 1) \o SubSeq(q, d + 1, Len(q))
  BY <1>2, <1>3, <1>4, <1>8, <1>9
<1>11. 1 \in 1..Len(q) /\ d \in 1..Len(q) /\ 1 <= d
  BY <1>4, <1>6
<1> QED
  BY <1>10, <1>11 DEF Loses

\* The least element is the head.
LEMMA InOrderTake ==
  ASSUME NEW S \in SUBSET Nat, IsFiniteSet(S), NEW m \in S, \A x \in S : m <= x,
         NEW q, q = InOrder(S), NEW p, p = InOrder(S \ {m})
  PROVE  q # << >> /\ Head(q) = m /\ p = Tail(q)
<1> DEFINE T == S \ {m}
<1>1. Cardinality(T) = Cardinality(S) - 1 /\ Cardinality(S) \in Nat
  BY FS_RemoveElement, FS_CardinalityType
<1>2. T \in SUBSET S /\ \A x \in T, y \in S : x < y => y \in T
  <2>1. ASSUME NEW x \in T, NEW y \in S, x < y
        PROVE  y # m
    <3>1. m <= x /\ m \in Nat /\ x \in Nat
      OBVIOUS
    <3> QED
      BY <2>1, <3>1
  <2> QED
    BY <2>1
<1> HIDE DEF T
<1>3. PICK d : d = Cardinality(S) - Cardinality(T)
  OBVIOUS
<1>4. d \in 0..Cardinality(S) /\ InOrder(T) = SubSeq(InOrder(S), d + 1, Cardinality(S))
  BY <1>2, <1>3, InOrderUpper, Zenon
<1>5. d = 1
  BY <1>1, <1>3
<1>6. q \in Seq(S) /\ Len(q) = Cardinality(S)
  BY InOrderIs
<1>7. 1 \in 1..Cardinality(S)
  BY <1>1, <1>4, <1>5
<1>8. q # << >>
  BY <1>6, <1>7
<1>9. Tail(q) = SubSeq(q, 2, Len(q))
  BY <1>6, <1>8, TailIsSubSeq
<1>10. p = Tail(q)
  <2>1. d + 1 = 2
    BY <1>5
  <2>2. InOrder(T) = SubSeq(InOrder(S), 2, Cardinality(S))
    BY <1>4, <2>1, Zenon
  <2> QED
    BY <1>6, <1>9, <2>2, Zenon DEF T
<1>11. Rank(S, m) = 0
  <2>1. ASSUME NEW y \in S
        PROVE  ~(y < m)
    <3>1. m <= y /\ m \in Nat /\ y \in Nat
      OBVIOUS
    <3> QED
      BY <3>1
  <2>2. {y \in S : y < m} = {}
    BY <2>1
  <2> QED
    BY <2>2, FS_EmptySet DEF Rank
<1>12. q[1] = m
  BY <1>7, <1>11, InOrderAt
<1>13. Head(q) = q[1]
  BY <1>6, <1>8
<1> QED
  BY <1>8, <1>10, <1>12, <1>13, Zenon

-----------------------------------------------------------------------------
(* The records that wait, told from their first cells.                     *)

Complete(r) == rx = "idle" \/ r # Record
Reading == \E x \in Readers : pc[x] \in {"len", "data"}

\* The receiver has finished the record, and its start is in the FIFO or a reader
\* has taken that.
Started(r) == \E k \in DOMAIN fifo : fifo[k].r = r /\ fifo[k].o = 1
Begun(r) == Reading /\ fifo # << >> /\ fifo[1].r = r
Here(r) == Complete(r) /\ (Started(r) \/ Begun(r))

LEMMA FromIs ==
  ASSUME DataInv, NEW r \in DOMAIN size, NEW a \in 1..5
  PROVE  \E l \in Nat :
           /\ l = 4 + size[r] - a + 1 /\ l >= 1
           /\ From(r, a) \in Seq(Cell) /\ Len(From(r, a)) = l
           /\ \A i \in 1..l : From(r, a)[i] = [r |-> r, o |-> a + i - 1]
<1>1. size[r] \in Nat /\ size[r] >= 1 /\ r \in Nat
  BY DataTypes
<1>2. PICK l \in Nat : l = 4 + size[r] - a + 1 /\ l >= 1
  BY <1>1
<1>3. From(r, a) = [i \in 1..l |-> [r |-> r, o |-> a + i - 1]]
  BY <1>2 DEF From
<1>4. \A i \in 1..l : [r |-> r, o |-> a + i - 1] \in Cell
  <2>1. \A i \in 1..l : a + i - 1 \in Nat
    OBVIOUS
  <2> QED
    BY <1>1, <2>1 DEF Cell
<1>5. From(r, a) \in [1..l -> Cell]
  BY <1>3, <1>4
<1>6. From(r, a) \in Seq(Cell) /\ Len(From(r, a)) = l
  BY <1>5
<1>7. \A i \in 1..l : From(r, a)[i] = [r |-> r, o |-> a + i - 1]
  BY <1>3
<1> QED
  BY <1>2, <1>6, <1>7

LEMMA CompleteIs ==
  ASSUME DataInv, NEW r \in DOMAIN size
  PROVE  /\ written[r] >= 5 <=> Complete(r)
         /\ Complete(r) => written[r] = 4 + size[r]
<1>1. size[r] \in Nat /\ size[r] >= 1
  BY DataTypes
<1>2. CASE Complete(r)
  <2>1. written[r] = 4 + size[r]
    BY <1>2 DEF Complete, written
  <2> QED
    BY <1>1, <1>2, <2>1
<1>3. CASE ~Complete(r)
  <2>1. written[r] = 2 \/ written[r] = 4
    BY <1>3, WrittenCases DEF Complete
  <2> QED
    BY <1>3, <2>1
<1> QED
  BY <1>2, <1>3

\* A record lies whole in the FIFO where its first cell is.
LEMMA PrefixIs ==
  ASSUME DataInv, NEW r \in DOMAIN size, NEW a \in 1..5, NEW n \in 0..Len(fifo),
         NEW q, q = Rest(n)
  PROVE  IsPrefix(From(r, a), q)
           <=> Complete(r) /\ n + 1 \in DOMAIN fifo /\ fifo[n + 1].r = r /\ fifo[n + 1].o = a
<1>0. n \in Nat /\ n <= Len(fifo) /\ Len(fifo) \in Nat /\ DOMAIN fifo = 1..Len(fifo)
  BY DataTypes
<1>1. PICK l \in Nat :
        /\ l = 4 + size[r] - a + 1 /\ l >= 1
        /\ From(r, a) \in Seq(Cell) /\ Len(From(r, a)) = l
        /\ \A i \in 1..l : From(r, a)[i] = [r |-> r, o |-> a + i - 1]
  BY FromIs
<1>2. PICK f \in Seq(Cell) : f = From(r, a)
  BY <1>1
<1>3. Len(f) = l /\ \A i \in 1..l : f[i] = [r |-> r, o |-> a + i - 1]
  BY <1>1, <1>2
<1>4. /\ q \in Seq(Cells) /\ Len(q) = Len(fifo) - n
      /\ \A k \in DOMAIN q : k + n \in DOMAIN fifo /\ q[k] = fifo[k + n]
  BY <1>0, RestIs
<1>5. q \in Seq(Cell) /\ DOMAIN q = 1..Len(q) /\ Len(q) \in Nat
  <2>1. Cells \subseteq Cell
    BY FifoAssumption DEF Cells, Cell
  <2> QED
    BY <1>4, <2>1
<1>6. SubSeq(f, 1, Len(f)) = f
  BY SubSeqFull
<1>7. IsPrefix(f, q) <=> l <= Len(q) /\ f = SubSeq(q, 1, l)
  BY <1>3, <1>6 DEF IsPrefix
<1>8. ASSUME l <= Len(q)
      PROVE  SubSeq(q, 1, l) \in Seq(Cell) /\ Len(SubSeq(q, 1, l)) = l /\ \A i \in 1..l : SubSeq(q, 1, l)[i] = q[i]
  <2>1. \A i \in 1..l : q[i] \in Cell
    BY <1>5, <1>8
  <2>2. /\ SubSeq(q, 1, l) \in Seq(Cell)
        /\ Len(SubSeq(q, 1, l)) = IF 1 <= l THEN l - 1 + 1 ELSE 0
        /\ \A i \in 1..(l - 1 + 1) : SubSeq(q, 1, l)[i] = q[1 + i - 1]
    BY <2>1, SubSeqProperties
  <2>3. l - 1 + 1 = l /\ 1 <= l /\ \A i \in 1..l : 1 + i - 1 = i
    BY <1>1
  <2> QED
    BY <2>2, <2>3
<1>9. ASSUME IsPrefix(f, q)
      PROVE  Complete(r) /\ n + 1 \in DOMAIN fifo /\ fifo[n + 1].r = r /\ fifo[n + 1].o = a
  <2>1. l <= Len(q) /\ f = SubSeq(q, 1, l)
    BY <1>7, <1>9
  <2>2. \A i \in 1..l : q[i] = [r |-> r, o |-> a + i - 1]
    BY <1>3, <1>8, <2>1
  <2>3. q[1] = [r |-> r, o |-> a + 1 - 1] /\ q[l] = [r |-> r, o |-> a + l - 1] /\ a + 1 - 1 = a
    BY <1>1, <2>2
  <2>4. 1 \in DOMAIN q /\ l \in DOMAIN q /\ 1 + n = n + 1
    BY <1>1, <1>0, <1>5, <2>1
  <2>5. n + 1 \in DOMAIN fifo /\ fifo[n + 1] = q[1]
    BY <1>4, <2>4
  <2>6. l + n \in DOMAIN fifo /\ fifo[l + n] = q[l]
    BY <1>4, <2>4
  <2>7. fifo[l + n].r = r /\ fifo[l + n].o = a + l - 1
    BY <2>3, <2>6
  <2>8. a + l - 1 <= written[r]
    BY <2>6, <2>7, DataTypes
  <2>9. size[r] \in Nat /\ size[r] >= 1 /\ written[r] \in Nat
    BY DataTypes
  <2>10. written[r] >= 5
    BY <1>1, <2>8, <2>9
  <2>11. Complete(r)
    BY <2>10, CompleteIs
  <2> QED
    BY <2>3, <2>5, <2>11
<1>10. ASSUME Complete(r), n + 1 \in DOMAIN fifo, fifo[n + 1].r = r, fifo[n + 1].o = a
       PROVE  IsPrefix(f, q)
  <2>1. written[r] = 4 + size[r] /\ size[r] \in Nat
    BY <1>10, CompleteIs, DataTypes
  <2>2. ASSUME NEW i \in 1..l
        PROVE  n + i \in DOMAIN fifo /\ fifo[n + i] = [r |-> r, o |-> a + i - 1]
    <3>1. PICK d \in Nat : d = i - 1
      OBVIOUS
    <3>2. a + d <= written[r]
      BY <1>1, <2>1, <3>1
    <3>3. /\ DOMAIN size \in SUBSET Nat /\ written \in [DOMAIN size -> Nat]
          /\ Runs(fifo, written) /\ fifo \in Seq(Cell)
      BY DataTypes DEF DataInv
    <3>4. PICK k \in DOMAIN fifo : k = n + 1
      BY <1>10
    <3>5. fifo[k].r = r /\ fifo[k].o = a /\ fifo[k].o + d <= written[fifo[k].r]
      BY <1>10, <3>2, <3>4
    <3>6. k + d \in DOMAIN fifo /\ fifo[k + d] = [r |-> r, o |-> a + d]
      BY <3>3, <3>5, RunFollows
    <3>7. k + d = n + i /\ a + d = a + i - 1
      BY <3>1, <3>4
    <3> QED
      BY <3>6, <3>7
  <2>3. l <= Len(q)
    <3>1. n + l \in DOMAIN fifo
      BY <1>1, <2>2
    <3> QED
      BY <1>0, <1>4, <3>1
  <2>4. \A i \in 1..l : q[i] = f[i]
    <3>1. ASSUME NEW i \in 1..l
          PROVE  q[i] = f[i]
      <4>1. i \in DOMAIN q /\ i + n = n + i
        BY <1>0, <1>5, <2>3
      <4> QED
        BY <1>3, <1>4, <2>2, <4>1
    <3> QED
      BY <3>1
  <2>5. f = SubSeq(q, 1, l)
    BY <1>3, <1>8, <2>3, <2>4, SeqEqual
  <2> QED
    BY <1>7, <2>3, <2>5
<1> QED
  BY <1>2, <1>9, <1>10

LEMMA WaitingIs ==
  ASSUME DataInv, PlaceInv
  PROVE  Waiting = {r \in DOMAIN size : Here(r)}
<1>1. Len(fifo) \in Nat /\ DOMAIN fifo = 1..Len(fifo) /\ fifo \in Seq(Cells)
  BY DataTypes
<1>2. fifo = Rest(0) /\ 0 \in 0..Len(fifo) /\ 0 + 1 = 1
  <2>1. fifo = SubSeq(fifo, 1, Len(fifo))
    BY <1>1, SubSeqFull
  <2>2. 0 + 1 = 1
    OBVIOUS
  <2>3. fifo = Rest(0)
    BY <2>1, <2>2, Zenon DEF Rest
  <2> QED
    BY <1>1, <2>2, <2>3
<1>3. fifo # << >> <=> 1 \in DOMAIN fifo
  BY <1>1
<1> DEFINE At(r, a, k) == k \in DOMAIN fifo /\ fifo[k].r = r /\ fifo[k].o = a
<1>4. ASSUME NEW r \in DOMAIN size
      PROVE  (\E i \in 0..Len(fifo) : IsPrefix(From(r, 1), Rest(i)))
               <=> Complete(r) /\ \E k \in DOMAIN fifo : fifo[k].r = r /\ fifo[k].o = 1
  <2>1. ASSUME NEW i \in 0..Len(fifo)
        PROVE  IsPrefix(From(r, 1), Rest(i)) <=> Complete(r) /\ At(r, 1, i + 1)
    <3>1. PICK q : q = Rest(i)
      OBVIOUS
    <3>2. 1 \in 1..5
      OBVIOUS
    <3> QED
      BY <3>1, <3>2, PrefixIs
  <2>2. \A k \in DOMAIN fifo : k - 1 \in 0..Len(fifo) /\ (k - 1) + 1 = k
    BY <1>1
  <2>3. ASSUME NEW k \in DOMAIN fifo, fifo[k].r = r, fifo[k].o = 1, Complete(r)
        PROVE  \E i \in 0..Len(fifo) : IsPrefix(From(r, 1), Rest(i))
    <3>1. PICK i \in 0..Len(fifo) : i + 1 = k
      BY <2>2
    <3>2. At(r, 1, i + 1)
      BY <2>3, <3>1
    <3> QED
      BY <2>1, <2>3, <3>2
  <2>4. ASSUME NEW i \in 0..Len(fifo), IsPrefix(From(r, 1), Rest(i))
        PROVE  Complete(r) /\ \E k \in DOMAIN fifo : fifo[k].r = r /\ fifo[k].o = 1
    BY <2>1, <2>4
  <2> QED
    BY <2>3, <2>4
<1>5. ASSUME NEW r \in DOMAIN size, NEW a \in {3, 5}
      PROVE  IsPrefix(From(r, a), fifo) <=> Complete(r) /\ At(r, a, 1)
  <2>1. a \in 1..5
    OBVIOUS
  <2>2. PICK n \in 0..Len(fifo) : n = 0
    BY <1>2
  <2>3. PICK q : q = Rest(n)
    OBVIOUS
  <2>4. n + 1 = 1 /\ q = fifo
    BY <1>2, <2>2, <2>3
  <2>5. IsPrefix(From(r, a), q) <=> Complete(r) /\ At(r, a, n + 1)
    BY <2>1, <2>3, PrefixIs
  <2> QED
    BY <2>4, <2>5
<1>6. ASSUME NEW x \in Readers, 1 \in DOMAIN fifo
      PROVE  (pc[x] = "len" => fifo[1].o = 3) /\ (pc[x] = "data" => fifo[1].o = 5)
  BY <1>3, <1>6 DEF PlaceInv
<1>7. ASSUME NEW r \in DOMAIN size
      PROVE  \/ IsPrefix(From(r, 3), fifo) /\ \E x \in Readers : pc[x] = "len"
             \/ IsPrefix(From(r, 5), fifo) /\ \E x \in Readers : pc[x] = "data"
             <=> Complete(r) /\ Reading /\ fifo # << >> /\ fifo[1].r = r
  <2>1. /\ IsPrefix(From(r, 3), fifo) <=> Complete(r) /\ At(r, 3, 1)
        /\ IsPrefix(From(r, 5), fifo) <=> Complete(r) /\ At(r, 5, 1)
    BY <1>5
  <2>2. ASSUME Complete(r), Reading, fifo # << >>, fifo[1].r = r
        PROVE  \/ IsPrefix(From(r, 3), fifo) /\ \E x \in Readers : pc[x] = "len"
               \/ IsPrefix(From(r, 5), fifo) /\ \E x \in Readers : pc[x] = "data"
    <3>1. PICK x \in Readers : pc[x] = "len" \/ pc[x] = "data"
      BY <2>2 DEF Reading
    <3>2. 1 \in DOMAIN fifo
      BY <1>3, <2>2
    <3> QED
      BY <1>6, <2>1, <2>2, <3>1, <3>2
  <2> QED
    BY <1>3, <2>1, <2>2 DEF Reading
<1>8. ASSUME NEW r \in DOMAIN size
      PROVE  (\/ \E i \in 0..Len(fifo) : IsPrefix(From(r, 1), Rest(i))
              \/ IsPrefix(From(r, 3), fifo) /\ \E x \in Readers : pc[x] = "len"
              \/ IsPrefix(From(r, 5), fifo) /\ \E x \in Readers : pc[x] = "data") <=> Here(r)
  BY <1>4, <1>7, Zenon DEF Here, Started, Begun
<1> QED
  BY <1>8, Zenon DEF Waiting

WaitingHere == Waiting = {r \in DOMAIN size : Here(r)}

LEMMA WaitingHolds == DataInv /\ PlaceInv => WaitingHere
BY WaitingIs DEF WaitingHere

LEMMA WaitingNext ==
  ASSUME DataInv', PlaceInv'
  PROVE  Waiting' = {r \in DOMAIN size' : Here(r)'}
<1>1. (DataInv /\ PlaceInv => WaitingHere)'
  BY WaitingHolds, PTL
<1> QED
  BY <1>1 DEF WaitingHere

LEMMA WaitingTypes ==
  ASSUME DataInv, PlaceInv
  PROVE  /\ Waiting \in SUBSET Nat /\ IsFiniteSet(Waiting)
         /\ \A r \in Waiting : r \in DOMAIN size /\ r \in 1..MaxRecords /\ r <= Record
<1>1. Waiting \in SUBSET (DOMAIN size)
  BY WaitingIs
<1>2. Record \in Nat /\ DOMAIN size = 1..Record /\ Record <= MaxRecords
  BY DataTypes DEF DataInv, Record
<1>3. IsFiniteSet(1..Record)
  BY <1>2, FS_Interval
<1>4. IsFiniteSet(Waiting)
  BY <1>1, <1>2, <1>3, FS_Subset
<1> QED
  BY <1>1, <1>2, <1>4, FifoAssumption

-----------------------------------------------------------------------------
(* The receiver puts at most one record, behind all others.                *)

\* What the other records have in the FIFO does not change.
LEMMA PutHere ==
  ASSUME DataInv, DataInv', UNCHANGED pc,
         NEW x, NEW a \in Nat, NEW m \in Nat, m >= 1, Extends(fifo', fifo, x, a, m),
         NEW r, r # x
  PROVE  (Started(r)' <=> Started(r)) /\ (Begun(r)' <=> Begun(r))
<1>1. /\ fifo \in Seq(Cells) /\ Len(fifo) \in Nat /\ DOMAIN fifo = 1..Len(fifo)
      /\ fifo' \in Seq(Cells)
  BY DataTypes DEF DataInv
<1>2. /\ Len(fifo') = Len(fifo) + m /\ DOMAIN fifo' = 1..(Len(fifo) + m)
      /\ \A k \in 1..Len(fifo) : fifo'[k] = fifo[k]
      /\ \A i \in 1..m : fifo'[Len(fifo) + i].r = x
  <2>1. /\ Len(fifo') = Len(fifo) + m
        /\ \A k \in 1..Len(fifo) : fifo'[k] = fifo[k]
        /\ \A i \in 1..m : fifo'[Len(fifo) + i].r = x
    BY Zenon DEF Extends
  <2>2. DOMAIN fifo' = 1..Len(fifo')
    BY <1>1
  <2> QED
    BY <2>1, <2>2, Zenon
<1>3. \A k \in DOMAIN fifo' : k \in DOMAIN fifo \/ fifo'[k].r = x
  <2>1. ASSUME NEW k \in DOMAIN fifo', k \notin DOMAIN fifo
        PROVE  fifo'[k].r = x
    <3>1. PICK i \in 1..m : Len(fifo) + i = k
      <4>1. k - Len(fifo) \in 1..m /\ Len(fifo) + (k - Len(fifo)) = k
        BY <1>1, <1>2, <2>1
      <4> QED
        BY <4>1
    <3> QED
      BY <1>2, <3>1
  <2> QED
    BY <2>1
<1>4. Started(r)' <=> Started(r)
  <2>1. \A k \in DOMAIN fifo : k \in DOMAIN fifo' /\ fifo'[k] = fifo[k]
    BY <1>1, <1>2
  <2> QED
    BY <1>3, <2>1, Zenon DEF Started
<1>5. Reading' <=> Reading
  BY DEF Reading
<1>6. Begun(r)' <=> Begun(r)
  <2>1. /\ fifo' # << >> /\ (fifo # << >> => fifo'[1] = fifo[1])
        /\ fifo = << >> => fifo'[1].r = x
    BY <1>1, ExtendsFront
  <2> QED
    BY <1>5, <2>1, Zenon DEF Begun
<1> QED
  BY <1>4, <1>6

LEMMA RxStartWaiting ==
  ASSUME DataInv, PlaceInv, DataInv', PlaceInv', RxStart
  PROVE  Waiting' = Waiting
<1>1. /\ DOMAIN size' = DOMAIN size \cup {Record'} /\ \A y \in DOMAIN size : y # Record'
  <2>1. PICK n \in Lengths : size' = Append(size, n)
    BY DEF RxStart
  <2>2. Record < MaxRecords
    BY DEF RxStart
  <2>3. /\ DOMAIN size' = DOMAIN size \cup {Record'} /\ \A y \in DOMAIN size : y < Record'
        /\ Record' = Record + 1
    BY <2>1, <2>2, NextRecord
  <2> QED
    BY <2>3, DataTypes
<1>2. UNCHANGED pc /\ rx = "idle"
  BY DEF RxStart
<1>3. \A y \in DOMAIN size : Complete(y) /\ Complete(y)'
  BY <1>1, <1>2 DEF Complete
<1>4. CASE fifo' = fifo /\ rx' = rx
  <2>1. \A y : (Started(y)' <=> Started(y)) /\ (Begun(y)' <=> Begun(y))
    BY <1>2, <1>4 DEF Started, Begun, Reading
  <2>2. PICK x : x = Record'
    OBVIOUS
  <2>3. ~Started(x)' /\ ~Begun(x)'
    <3>2. \A k \in DOMAIN fifo : fifo[k].r # x
      BY <1>1, <2>2, DataTypes
    <3>3. ~Started(x) /\ ~Begun(x)
      <4>1. fifo # << >> => 1 \in DOMAIN fifo
        BY DataTypes
      <4> QED
        BY <3>2, <4>1 DEF Started, Begun
    <3> QED
      BY <2>1, <3>3
  <2>4. \A y \in DOMAIN size : Here(y)' <=> Here(y)
    BY <1>3, <2>1 DEF Here
  <2>5. \A y \in DOMAIN size' : Here(y)' => y \in DOMAIN size
    <3>1. ASSUME NEW y \in DOMAIN size', y \notin DOMAIN size
          PROVE  ~Here(y)'
      <4>1. y = x
        BY <1>1, <2>2, <3>1
      <4> QED
        BY <2>3, <4>1 DEF Here
    <3> QED
      BY <3>1
  <2> QED
    BY <1>1, <2>4, <2>5, WaitingIs, WaitingNext
<1>5. CASE rx' = "len" /\ Extends(fifo', fifo, Record', 1, 2)
  <2>1. PICK x : x = Record'
    OBVIOUS
  <2>2. \A y \in DOMAIN size : (Started(y)' <=> Started(y)) /\ (Begun(y)' <=> Begun(y))
    BY <1>1, <1>2, <1>5, <2>1, PutHere
  <2>3. \A y \in DOMAIN size : Here(y)' <=> Here(y)
    BY <1>3, <2>2 DEF Here
  <2>4. \A y \in DOMAIN size' : Here(y)' => y \in DOMAIN size
    BY <1>1, <1>5 DEF Here, Complete
  <2> QED
    BY <1>1, <2>3, <2>4, WaitingIs, WaitingNext
<1> QED
  BY <1>4, <1>5, RxStartData

LEMMA RxLenWaiting ==
  ASSUME DataInv, PlaceInv, DataInv', PlaceInv', RxLen
  PROVE  Waiting' = Waiting
<1>1. /\ UNCHANGED <<size, pc>> /\ rx = "len" /\ rx' = "data" /\ Record' = Record
      /\ Extends(fifo', fifo, Record, 3, 2)
  BY RxLenData DEF RxLen, Record
<1>2. PICK x : x = Record
  OBVIOUS
<1>3. \A y \in DOMAIN size : y # x => (Started(y)' <=> Started(y)) /\ (Begun(y)' <=> Begun(y))
  BY <1>1, <1>2, PutHere
<1>4. \A y : Complete(y) <=> y # x
  BY <1>1, <1>2 DEF Complete
<1>5. \A y : Complete(y)' <=> y # x
  BY <1>1, <1>2 DEF Complete
<1>6. \A y \in DOMAIN size : Here(y)' <=> Here(y)
  BY <1>3, <1>4, <1>5 DEF Here
<1> QED
  BY <1>1, <1>6, WaitingIs, WaitingNext

\* With its data the latest record begins to wait, if its header is still there.
LEMMA RxDataWaiting ==
  ASSUME DataInv, PlaceInv, DataInv', PlaceInv', RxData
  PROVE  /\ Waiting' = Waiting \/ Waiting' = Waiting \cup {Record}
         /\ \A y \in Waiting : y < Record
         /\ Record \in 1..MaxRecords
<1>1. /\ UNCHANGED <<size, pc>> /\ rx = "data" /\ rx' = "idle" /\ Record' = Record
      /\ Extends(fifo', fifo, Record, 5, size[Record])
  BY RxDataData DEF RxData, Record
<1>2. /\ Record \in DOMAIN size /\ Record \in 1..MaxRecords /\ size[Record] \in Nat /\ size[Record] >= 1
      /\ \A y \in DOMAIN size : y <= Record
  BY <1>1, Underway
<1>3. PICK x, m \in Nat : x = Record /\ m = size[x] /\ m >= 1
  BY <1>2
<1>4. \A y \in DOMAIN size : y # x => (Started(y)' <=> Started(y)) /\ (Begun(y)' <=> Begun(y))
  BY <1>1, <1>3, PutHere
<1>5. /\ \A y : Complete(y) <=> y # x
      /\ \A y : Complete(y)'
  BY <1>1, <1>3 DEF Complete
<1>6. \A y \in DOMAIN size : y # x => (Here(y)' <=> Here(y))
  BY <1>4, <1>5 DEF Here
<1>7. ~Here(x) /\ x \in DOMAIN size
  BY <1>2, <1>3, <1>5 DEF Here
<1>8. Waiting = {r \in DOMAIN size : Here(r)} /\ Waiting' = {r \in DOMAIN size : Here(r)'}
  BY <1>1, WaitingIs, WaitingNext
<1>9. Waiting' = Waiting \/ Waiting' = Waiting \cup {x}
  <2>1. CASE Here(x)'
    BY <1>6, <1>7, <1>8, <2>1
  <2>2. CASE ~Here(x)'
    BY <1>6, <1>7, <1>8, <2>2
  <2> QED
    BY <2>1, <2>2
<1>10. \A y \in Waiting : y < Record
  <2>1. \A y \in Waiting : y \in DOMAIN size /\ y # x
    BY <1>7, <1>8
  <2>2. \A y \in DOMAIN size : y \in Nat
    BY DataTypes
  <2> QED
    BY <1>2, <1>3, <2>1, <2>2
<1> QED
  BY <1>2, <1>3, <1>9, <1>10

-----------------------------------------------------------------------------
(* The readers take the front away.                                        *)

LEMMA RunsOrder ==
  ASSUME DataInv, NEW j \in DOMAIN fifo, NEW k \in DOMAIN fifo, j <= k
  PROVE  /\ fifo[j].r <= fifo[k].r
         /\ fifo[j].r = fifo[k].r => fifo[k].o - fifo[j].o = k - j
BY DEF DataInv, Runs

\* What stays are the cells behind those taken.
LEMMA RestCells ==
  ASSUME DataInv, NEW n \in Nat, fifo' = Rest(n)
  PROVE  /\ DOMAIN fifo \subseteq Nat \ {0} /\ DOMAIN fifo' \subseteq Nat \ {0}
         /\ fifo' # << >> => 1 \in DOMAIN fifo'
         /\ \A k \in DOMAIN fifo' : k + n \in DOMAIN fifo /\ fifo'[k] = fifo[k + n]
         /\ \A j \in DOMAIN fifo : j > n => j - n \in DOMAIN fifo' /\ fifo'[j - n] = fifo[j]
<1>1. /\ fifo' \in Seq(Cells)
      /\ Len(fifo') = IF n <= Len(fifo) THEN Len(fifo) - n ELSE 0
      /\ \A k \in DOMAIN fifo' : k + n \in DOMAIN fifo /\ fifo'[k] = fifo[k + n]
  BY RestIs, Zenon
<1>2. PICK p \in Seq(Cells), l \in Nat : p = fifo' /\ l = Len(fifo)
  BY <1>1, DataTypes
<1>3. DOMAIN fifo = 1..l
  BY <1>2, DataTypes
<1>4. /\ DOMAIN p = 1..Len(p) /\ Len(p) \in Nat
      /\ Len(p) = IF n <= l THEN l - n ELSE 0
      /\ p # << >> => 1 \in DOMAIN p
  BY <1>1, <1>2
<1>5. ASSUME NEW j \in DOMAIN fifo, j > n
      PROVE  j - n \in DOMAIN p /\ p[j - n] = fifo[j]
  <2>1. j - n \in 1..Len(p) /\ (j - n) + n = j
    BY <1>3, <1>4, <1>5
  <2>2. p[j - n] = fifo[(j - n) + n]
    BY <1>1, <1>2, <1>4, <2>1
  <2> QED
    BY <1>4, <2>1, <2>2
<1>6. DOMAIN fifo \subseteq Nat \ {0} /\ DOMAIN p \subseteq Nat \ {0}
  BY <1>3, <1>4
<1> QED
  BY <1>1, <1>2, <1>4, <1>5, <1>6, Zenon

\* A reader that returns has lost the front.
LEMMA RestLoses ==
  ASSUME DataInv, PlaceInv, DataInv', PlaceInv', UNCHANGED <<size, rx>>, ~Reading',
         NEW n \in Nat, fifo' = Rest(n)
  PROVE  Upper(Waiting', Waiting)
<1>1. /\ \A k \in DOMAIN fifo' : k + n \in DOMAIN fifo /\ fifo'[k] = fifo[k + n]
      /\ \A j \in DOMAIN fifo : j > n => j - n \in DOMAIN fifo' /\ fifo'[j - n] = fifo[j]
      /\ DOMAIN fifo \subseteq Nat \ {0} /\ DOMAIN fifo' \subseteq Nat \ {0}
  BY RestCells
<1>2. \A y : Complete(y)' <=> Complete(y)
  BY DEF Complete, Record
<1>3. Waiting = {r \in DOMAIN size : Here(r)} /\ Waiting' = {r \in DOMAIN size : Here(r)'}
  BY WaitingIs, WaitingNext
<1>4. ASSUME NEW x \in Waiting'
      PROVE  x \in DOMAIN size /\ Complete(x) /\ Started(x)'
  BY <1>2, <1>3 DEF Here, Begun
<1>5. ASSUME NEW x \in Waiting'
      PROVE  x \in Waiting
  <2>1. Started(x)
    BY <1>1, <1>4 DEF Started
  <2> QED
    BY <1>3, <1>4, <2>1 DEF Here
<1>6. ASSUME NEW x \in Waiting', NEW y \in Waiting, x < y
      PROVE  y \in Waiting'
  <2>1. PICK k \in DOMAIN fifo' : fifo'[k].r = x /\ fifo'[k].o = 1
    BY <1>4 DEF Started
  <2>2. k + n \in DOMAIN fifo /\ fifo[k + n].r = x /\ k \in Nat /\ k >= 1
    BY <1>1, <2>1
  <2>3. y \in DOMAIN size /\ Complete(y) /\ (Started(y) \/ Begun(y)) /\ x \in Nat /\ y \in Nat
    BY <1>3, <1>4, DataTypes DEF Here
  <2>4. ~Begun(y)
    <3>1. ASSUME Begun(y)
          PROVE  FALSE
      <4>1. 1 \in DOMAIN fifo /\ fifo[1].r = y
        BY <3>1, FrontRun DEF Begun
      <4>2. y <= x
        BY <2>2, <4>1, RunsOrder
      <4> QED
        BY <1>6, <2>3, <4>2
    <3> QED
      BY <3>1
  <2>5. PICK j \in DOMAIN fifo : fifo[j].r = y /\ fifo[j].o = 1
    BY <2>3, <2>4 DEF Started
  <2>6. j > n
    <3>1. ~(j <= k + n)
      <4>1. j <= k + n => y <= x
        BY <2>2, <2>5, RunsOrder
      <4> QED
        BY <1>6, <2>3, <4>1
    <3> QED
      BY <1>1, <2>2, <3>1
  <2>7. Started(y)'
    BY <1>1, <2>5, <2>6 DEF Started
  <2> QED
    BY <1>2, <1>3, <2>3, <2>7 DEF Here
<1> QED
  BY <1>5, <1>6 DEF Upper

\* A reader that goes on has still begun the record at the front.
LEMMA RestKeeps ==
  ASSUME DataInv, PlaceInv, DataInv', PlaceInv', UNCHANGED <<size, rx>>, Reading',
         NEW n \in Nat, fifo' = Rest(n), fifo # << >>, NEW x, x = fifo[1].r,
         fifo[1].o = 1 \/ Reading,
         fifo' = << >> => ~Complete(x),
         fifo' # << >> => fifo'[1].r = x
  PROVE  Waiting' = Waiting
<1>1. /\ \A k \in DOMAIN fifo' : k + n \in DOMAIN fifo /\ fifo'[k] = fifo[k + n]
      /\ \A j \in DOMAIN fifo : j > n => j - n \in DOMAIN fifo' /\ fifo'[j - n] = fifo[j]
      /\ DOMAIN fifo \subseteq Nat \ {0} /\ DOMAIN fifo' \subseteq Nat \ {0}
      /\ fifo' # << >> => 1 \in DOMAIN fifo'
  BY RestCells
<1>2. \A y : Complete(y)' <=> Complete(y)
  BY DEF Complete, Record
<1>3. Waiting = {r \in DOMAIN size : Here(r)} /\ Waiting' = {r \in DOMAIN size : Here(r)'}
  BY WaitingIs, WaitingNext
<1>4. 1 \in DOMAIN fifo /\ x \in DOMAIN size
  BY FrontRun
<1>5. ASSUME NEW r \in Waiting'
      PROVE  r \in Waiting
  <2>1. r \in DOMAIN size /\ Complete(r) /\ (Started(r)' \/ Begun(r)')
    BY <1>2, <1>3 DEF Here
  <2>2. ASSUME Started(r)'
        PROVE  Started(r)
    BY <1>1, <2>2 DEF Started
  <2>3. ASSUME Begun(r)'
        PROVE  Started(r) \/ Begun(r)
    <3>1. r = x
      BY <2>3 DEF Begun
    <3> QED
      BY <1>4, <3>1 DEF Started, Begun
  <2> QED
    BY <1>3, <2>1, <2>2, <2>3 DEF Here
<1>6. ASSUME NEW r \in Waiting
      PROVE  r \in Waiting'
  <2>1. r \in DOMAIN size /\ Complete(r) /\ (Started(r) \/ Begun(r))
    BY <1>3 DEF Here
  <2>2. CASE r = x
    <3>1. fifo' # << >> /\ fifo'[1].r = r
      BY <2>1, <2>2
    <3>2. Begun(r)'
      BY <3>1 DEF Begun
    <3> QED
      BY <1>2, <1>3, <2>1, <3>2 DEF Here
  <2>3. CASE r # x
    <3>1. Started(r)
      BY <2>1, <2>3 DEF Begun
    <3>2. PICK j \in DOMAIN fifo : fifo[j].r = r /\ fifo[j].o = 1
      BY <3>1 DEF Started
    <3>3. x \in Nat /\ r \in Nat /\ r <= Record /\ Record \in Nat
      BY <1>4, <2>1, DataTypes
    <3>4. x <= r
      <4>1. 1 <= j
        BY <1>1
      <4> QED
        BY <1>4, <3>2, <4>1, RunsOrder
    <3>5. fifo' # << >>
      <4>1. ASSUME fifo' = << >>
            PROVE  FALSE
        <5>1. x = Record
          BY <4>1 DEF Complete
        <5> QED
          BY <2>3, <3>3, <3>4, <5>1
      <4> QED
        BY <4>1
    <3>6. 1 + n \in DOMAIN fifo /\ fifo[1 + n].r = x
      BY <1>1, <3>5
    <3>7. ~(j <= 1 + n)
      <4>1. j <= 1 + n => r <= x
        BY <3>2, <3>6, RunsOrder
      <4> QED
        BY <2>3, <3>3, <3>4, <4>1
    <3>8. j > n
      BY <1>1, <3>7
    <3>9. Started(r)'
      BY <1>1, <3>2, <3>8 DEF Started
    <3> QED
      BY <1>2, <1>3, <2>1, <3>9 DEF Here
  <2> QED
    BY <2>2, <2>3
<1> QED
  BY <1>5, <1>6

\* A reader that takes all the data has taken the first record that waited.
LEMMA RestTakes ==
  ASSUME DataInv, PlaceInv, DataInv', PlaceInv', UNCHANGED <<size, rx>>, Reading, ~Reading',
         fifo # << >>, NEW x, x = fifo[1].r, fifo[1].o = 5,
         NEW n \in Nat, n = size[x], fifo' = Rest(n)
  PROVE  /\ x \in Waiting /\ (\A y \in Waiting : x <= y)
         /\ Waiting' = Waiting \ {x}
<1>1. /\ \A k \in DOMAIN fifo' : k + n \in DOMAIN fifo /\ fifo'[k] = fifo[k + n]
      /\ \A j \in DOMAIN fifo : j > n => j - n \in DOMAIN fifo' /\ fifo'[j - n] = fifo[j]
      /\ DOMAIN fifo \subseteq Nat \ {0} /\ DOMAIN fifo' \subseteq Nat \ {0}
  BY RestCells
<1>2. \A y : Complete(y)' <=> Complete(y)
  BY DEF Complete, Record
<1>3. Waiting = {r \in DOMAIN size : Here(r)} /\ Waiting' = {r \in DOMAIN size : Here(r)'}
  BY WaitingIs, WaitingNext
<1>4. 1 \in DOMAIN fifo /\ x \in DOMAIN size /\ 5 <= written[x]
  BY FrontRun
<1>5. Complete(x) /\ written[x] = 4 + n
  <2>1. written[x] \in Nat
    BY <1>4, DataTypes
  <2>2. Complete(x)
    BY <1>4, <2>1, CompleteIs
  <2> QED
    BY <1>4, <2>2, CompleteIs
<1>6. x \in Waiting
  BY <1>3, <1>4, <1>5 DEF Here, Begun
<1>7. ASSUME NEW y \in Waiting
      PROVE  x <= y /\ (y # x => y \in Waiting')
  <2>1. y \in DOMAIN size /\ Complete(y) /\ (Started(y) \/ Begun(y)) /\ y \in Nat /\ x \in Nat
    BY <1>3, <1>4, DataTypes DEF Here
  <2>2. CASE y = x
    BY <2>1, <2>2
  <2>3. CASE y # x
    <3>1. PICK j \in DOMAIN fifo : fifo[j].r = y /\ fifo[j].o = 1
      BY <2>1, <2>3 DEF Begun, Started
    <3>2. 1 <= j /\ j \in Nat
      BY <1>1
    <3>3. x <= y
      BY <1>4, <3>1, <3>2, RunsOrder
    <3>4. j > n
      <4>1. ASSUME j <= n
            PROVE  FALSE
        <5>1. PICK d \in Nat : 1 + d = j
          <6>1. j - 1 \in Nat /\ 1 + (j - 1) = j
            BY <3>2
          <6> QED
            BY <6>1
        <5>2. 5 + d <= written[x]
          BY <1>5, <4>1, <5>1
        <5>3. fifo[1 + d] = [r |-> x, o |-> 5 + d]
          BY <5>2, FrontRun
        <5> QED
          BY <2>3, <3>1, <5>1, <5>3
      <4> QED
        BY <3>2, <4>1
    <3>5. Started(y)'
      BY <1>1, <3>1, <3>4 DEF Started
    <3> QED
      BY <1>2, <1>3, <2>1, <3>3, <3>5 DEF Here
  <2> QED
    BY <2>2, <2>3
<1>8. ASSUME NEW r \in Waiting'
      PROVE  r \in Waiting /\ r # x
  <2>1. r \in DOMAIN size /\ Complete(r) /\ Started(r)'
    BY <1>2, <1>3 DEF Here, Begun
  <2>2. PICK k \in DOMAIN fifo' : fifo'[k].r = r /\ fifo'[k].o = 1
    BY <2>1 DEF Started
  <2>3. PICK j \in DOMAIN fifo : j = k + n /\ fifo[j].r = r /\ fifo[j].o = 1
    BY <1>1, <2>2
  <2>4. Started(r)
    BY <2>3 DEF Started
  <2>5. r # x
    <3>1. ASSUME r = x
          PROVE  FALSE
      <4>1. 1 <= j /\ j \in Nat
        BY <1>1
      <4>2. fifo[j].o - fifo[1].o = j - 1
        BY <1>4, <2>3, <3>1, <4>1, RunsOrder
      <4> QED
        BY <2>3, <4>1, <4>2
    <3> QED
      BY <3>1
  <2> QED
    BY <1>3, <2>1, <2>4, <2>5 DEF Here
<1> QED
  BY <1>6, <1>7, <1>8

-----------------------------------------------------------------------------
(* What the readers took.                                                  *)

Queued == InOrder(Waiting)
Took == [k \in 1..Cardinality(Gotten) |-> fetched[InOrder(Gotten)[k]].data[1].r]

LEMMA GottenTypes ==
  ASSUME FetchedInv
  PROVE  /\ Gotten \in SUBSET Nat /\ IsFiniteSet(Gotten)
         /\ Len(fetched) \in Nat /\ DOMAIN fetched = 1..Len(fetched)
         /\ Gotten \in SUBSET (1..Len(fetched))
<1>1. Len(fetched) \in Nat /\ DOMAIN fetched = 1..Len(fetched)
  BY DEF FetchedInv
<1>2. Gotten \in SUBSET (1..Len(fetched))
  BY <1>1 DEF Gotten
<1>3. IsFiniteSet(1..Len(fetched))
  BY <1>1, FS_Interval
<1>4. IsFiniteSet(Gotten)
  BY <1>2, <1>3, FS_Subset
<1>5. Gotten \in SUBSET Nat
  BY <1>1, <1>2
<1> QED
  BY <1>1, <1>2, <1>4, <1>5

\* All of it is whole records that the receiver has finished.
LEMMA TookIs ==
  ASSUME FetchedInv
  PROVE  /\ Took \in Seq(DOMAIN size) /\ Len(Took) = Cardinality(Gotten)
         /\ \A k \in DOMAIN Took : Took[k] \in DOMAIN size /\ (rx = "idle" \/ Took[k] # Record)
<1>1. /\ Cardinality(Gotten) \in Nat
      /\ \A k \in 1..Cardinality(Gotten) : InOrder(Gotten)[k] \in Gotten
  BY GottenTypes, InOrderIs
<1>2. ASSUME NEW i \in Gotten
      PROVE  /\ fetched[i].data[1].r \in DOMAIN size
             /\ rx = "idle" \/ fetched[i].data[1].r # Record
  <2>1. i \in DOMAIN fetched /\ fetched[i].data # << >>
    BY DEF Gotten
  <2>2. GoodFetch(fetched[i]) /\ fetched[i] \in Fetch
    BY <2>1 DEF FetchedInv
  <2>3. fetched[i].data \in Seq(Cells)
    BY <2>2 DEF Fetch
  <2>4. 1 \in DOMAIN fetched[i].data
    BY <2>1, <2>3
  <2> QED
    BY <2>1, <2>2, <2>4 DEF GoodFetch
<1>3. \A k \in 1..Cardinality(Gotten) : Took[k] \in DOMAIN size /\ (rx = "idle" \/ Took[k] # Record)
  BY <1>1, <1>2 DEF Took
<1>4. Took \in [1..Cardinality(Gotten) -> DOMAIN size]
  BY <1>3 DEF Took
<1> QED
  BY <1>1, <1>3, <1>4

LEMMA TookKept ==
  ASSUME UNCHANGED fetched
  PROVE  Took' = Took
BY DEF Took, Gotten

\* A fetch that gave nothing takes no record.
LEMMA TookNone ==
  ASSUME FetchedInv, NEW f, fetched' = Append(fetched, f), f.data = << >>
  PROVE  Took' = Took
<1>1. /\ Len(fetched) \in Nat /\ DOMAIN fetched = 1..Len(fetched)
      /\ DOMAIN fetched' = 1..(Len(fetched) + 1)
      /\ \A i \in DOMAIN fetched : fetched'[i] = fetched[i]
      /\ fetched'[Len(fetched) + 1] = f
  BY DEF FetchedInv
<1>2. Gotten' = Gotten
  <2>1. \A i \in DOMAIN fetched' : i \in DOMAIN fetched \/ fetched'[i] = f
    BY <1>1
  <2>2. \A i \in DOMAIN fetched : i \in DOMAIN fetched'
    BY <1>1
  <2> QED
    BY <1>1, <2>1, <2>2, Zenon DEF Gotten
<1>3. \A k \in 1..Cardinality(Gotten) : InOrder(Gotten)[k] \in DOMAIN fetched
  <2>1. \A k \in 1..Cardinality(Gotten) : InOrder(Gotten)[k] \in Gotten
    BY GottenTypes, InOrderIs
  <2> QED
    BY <2>1 DEF Gotten
<1>4. PICK G : G = Gotten
  OBVIOUS
<1>5. \A k \in 1..Cardinality(G) : fetched'[InOrder(G)[k]] = fetched[InOrder(G)[k]]
  BY <1>1, <1>3, <1>4
<1>6. /\ Took = [k \in 1..Cardinality(G) |-> fetched[InOrder(G)[k]].data[1].r]
      /\ Took' = [k \in 1..Cardinality(G) |-> fetched'[InOrder(G)[k]].data[1].r]
  BY <1>2, <1>4, Zenon DEF Took
<1> QED
  BY <1>5, <1>6

\* Any other takes its record behind those taken before.
LEMMA TookOne ==
  ASSUME FetchedInv, NEW f, fetched' = Append(fetched, f), f.data # << >>
  PROVE  Took' = Append(Took, f.data[1].r)
<1>1. PICK n \in Nat : n = Len(fetched)
  BY GottenTypes
<1>2. /\ DOMAIN fetched = 1..n /\ DOMAIN fetched' = 1..(n + 1)
      /\ \A i \in DOMAIN fetched : fetched'[i] = fetched[i]
      /\ fetched'[n + 1] = f
  BY <1>1 DEF FetchedInv
<1>3. PICK G : G = Gotten
  OBVIOUS
<1>4. G \in SUBSET Nat /\ IsFiniteSet(G) /\ G \in SUBSET (1..n)
  BY <1>1, <1>3, GottenTypes
<1>5. PICK m : m = n + 1
  OBVIOUS
<1>6. m \in Nat /\ \A x \in G : x < m
  BY <1>4, <1>5
<1>7. Gotten' = G \cup {m}
  <2>1. \A i : i \in DOMAIN fetched' <=> i \in DOMAIN fetched \/ i = m
    BY <1>2, <1>5
  <2>2. m \notin DOMAIN fetched /\ fetched'[m] = f
    BY <1>2, <1>5
  <2> QED
    BY <1>2, <1>3, <2>1, <2>2, Zenon DEF Gotten
<1>8. PICK H : H = G \cup {m}
  OBVIOUS
<1>9. InOrder(H) = Append(InOrder(G), m)
  BY <1>4, <1>6, <1>8, InOrderAppend
<1>10. PICK c \in Nat : c = Cardinality(G)
  BY <1>4, FS_CardinalityType
<1>11. Cardinality(H) = c + 1
  <2>1. m \notin G
    BY <1>5, <1>4
  <2> QED
    BY <1>4, <1>8, <1>10, <2>1, FS_AddElement
<1>12. InOrder(G) \in Seq(G) /\ Len(InOrder(G)) = c /\ \A k \in 1..c : InOrder(G)[k] \in G
  BY <1>4, <1>10, InOrderIs
<1>13. InOrder(H)[c + 1] = m /\ \A k \in 1..c : InOrder(H)[k] = InOrder(G)[k]
  BY <1>9, <1>12
<1>14. /\ Took = [k \in 1..c |-> fetched[InOrder(G)[k]].data[1].r]
       /\ Took' = [k \in 1..(c + 1) |-> fetched'[InOrder(H)[k]].data[1].r]
  <2>1. Gotten' = H /\ Cardinality(H) = c + 1 /\ Gotten = G /\ Cardinality(G) = c
    BY <1>3, <1>7, <1>8, <1>10, <1>11
  <2> QED
    BY <2>1, Zenon DEF Took
<1>15. PICK s, t, r : s = Took /\ t = Took' /\ r = f.data[1].r
  OBVIOUS
<1>16. \A k \in 1..c : t[k] = s[k]
  <2>1. ASSUME NEW k \in 1..c
        PROVE  k \in 1..(c + 1) /\ InOrder(G)[k] \in DOMAIN fetched
    <3>1. InOrder(G)[k] \in 1..n
      BY <1>4, <1>12
    <3> QED
      BY <1>2, <3>1
  <2> QED
    BY <1>2, <1>13, <1>14, <1>15, <2>1
<1>17. t[c + 1] = r
  <2>1. c + 1 \in 1..(c + 1)
    OBVIOUS
  <2> QED
    BY <1>2, <1>5, <1>13, <1>14, <1>15, <2>1
<1>18. s \in Seq(DOMAIN size) /\ Len(s) = c
  BY <1>3, <1>10, <1>15, TookIs
<1>19. PICK V : V = DOMAIN size \cup {r}
  OBVIOUS
<1>20. s \in Seq(V) /\ r \in V /\ \A k \in 1..c : s[k] \in V
  BY <1>18, <1>19
<1>21. t \in Seq(V) /\ Len(t) = c + 1
  <2>1. \A k \in 1..(c + 1) : k \in 1..c \/ k = c + 1
    OBVIOUS
  <2>2. \A k \in 1..(c + 1) : t[k] \in V
    BY <1>16, <1>17, <1>20, <2>1
  <2>3. t = [k \in 1..(c + 1) |-> t[k]]
    BY <1>14, <1>15
  <2>4. t \in [1..(c + 1) -> V]
    BY <2>2, <2>3
  <2> QED
    BY <2>4
<1>22. t = Append(s, r)
  <2>1. /\ Append(s, r) \in Seq(V) /\ Len(Append(s, r)) = c + 1
        /\ \A k \in 1..c : Append(s, r)[k] = s[k]
        /\ Append(s, r)[c + 1] = r
    BY <1>18, <1>20
  <2>2. \A k \in 1..(c + 1) : k \in 1..c \/ k = c + 1
    OBVIOUS
  <2>3. \A k \in 1..(c + 1) : t[k] = Append(s, r)[k]
    BY <1>16, <1>17, <2>1, <2>2
  <2> QED
    BY <1>21, <2>1, <2>3, SeqEqual
<1> QED
  BY <1>15, <1>22

-----------------------------------------------------------------------------
(* Every step is a step of the queue, or none.                             *)

QueueStep == Q!Next \/ UNCHANGED Q!vars

LEMMA StepPuts ==
  ASSUME NEW S \in SUBSET Nat, IsFiniteSet(S), Waiting = S,
         NEW r \in 1..MaxRecords, \A y \in S : y < r, Waiting' = S \cup {r},
         \A i \in DOMAIN Took : Took[i] < r, Took' = Took
  PROVE  QueueStep
<1>1. Queued' = Append(Queued, r)
  <2>1. InOrder(S \cup {r}) = Append(InOrder(S), r)
    BY FifoAssumption, InOrderAppend
  <2> QED
    BY <2>1 DEF Queued
<1>2. \A i \in DOMAIN Queued : Queued[i] < r
  BY InOrderIs DEF Queued
<1>3. Q!Put(r)
  BY <1>1, <1>2, Zenon DEF Q!Put, Queued, Took
<1> QED
  BY <1>3 DEF QueueStep, Q!Next

LEMMA StepTakes ==
  ASSUME NEW S \in SUBSET Nat, IsFiniteSet(S), Waiting = S,
         NEW x \in S, \A y \in S : x <= y, Waiting' = S \ {x}, Took' = Append(Took, x)
  PROVE  QueueStep
<1>1. PICK q, p : q = InOrder(S) /\ p = InOrder(S \ {x})
  OBVIOUS
<1>2. q # << >> /\ Head(q) = x /\ p = Tail(q)
  BY <1>1, InOrderTake
<1>3. q = Queued /\ p = Queued'
  BY <1>1 DEF Queued
<1>4. Q!Take
  BY <1>2, <1>3, Zenon DEF Q!Take, Queued, Took
<1> QED
  BY <1>4 DEF QueueStep, Q!Next

LEMMA StepLoses ==
  ASSUME NEW S \in SUBSET Nat, IsFiniteSet(S), Waiting = S, Upper(Waiting', S), Took' = Took
  PROVE  QueueStep
<1>1. PICK T : T = Waiting'
  OBVIOUS
<1>2. Upper(T, S)
  BY <1>1
<1>3. PICK q, p : q = InOrder(S) /\ p = InOrder(T)
  OBVIOUS
<1>4. q = Queued /\ p = Queued'
  BY <1>1, <1>3 DEF Queued
<1>5. CASE p = q
  BY <1>4, <1>5, Zenon DEF QueueStep, Q!vars, Queued, Took
<1>6. CASE p # q
  <2>1. Loses(q, p)
    BY <1>2, <1>3, <1>6, InOrderLose
  <2>2. Q!Lose
    BY <1>4, <2>1, Zenon DEF Loses, Q!Lose, Queued, Took
  <2> QED
    BY <2>2 DEF QueueStep, Q!Next
<1> QED
  BY <1>5, <1>6

LEMMA StepStutters ==
  ASSUME Waiting' = Waiting, Took' = Took
  PROVE  QueueStep
<1>1. Queued' = Queued
  BY DEF Queued
<1> QED
  BY <1>1, Zenon DEF QueueStep, Q!vars, Queued, Took

\* Only the holder of the lock is between two calls.
LEMMA ReadingIs ==
  ASSUME LockInv, NEW r \in Readers, pc[r] # "user"
  PROVE  /\ Reading <=> pc[r] \in {"len", "data"}
         /\ Return(r) => ~Reading'
         /\ \A at \in {"len", "data"} : pc' = [pc EXCEPT ![r] = at] => Reading'
<1>1. \A x \in Readers : x # r => pc[x] = "user"
  BY DEF LockInv
<1>2. Reading <=> pc[r] \in {"len", "data"}
  BY <1>1 DEF Reading
<1>3. ASSUME Return(r)
      PROVE  ~Reading'
  <2>1. \A x \in Readers : pc'[x] = "user"
    BY <1>1, <1>3 DEF Return, LockInv
  <2> QED
    BY <2>1 DEF Reading
<1>4. ASSUME NEW at \in {"len", "data"}, pc' = [pc EXCEPT ![r] = at]
      PROVE  Reading'
  <2>1. pc'[r] = at /\ \A x \in Readers : x # r => pc'[x] = "user"
    BY <1>1, <1>4 DEF LockInv
  <2> QED
    BY <1>4, <2>1 DEF Reading
<1> QED
  BY <1>2, <1>3, <1>4

\* A reader that returns takes whatever it takes away.
LEMMA ReaderLoses ==
  ASSUME FifoInv, FifoInv', UNCHANGED <<size, rx>>, ~Reading', Took' = Took,
         NEW n \in Nat, fifo' = Rest(n)
  PROVE  QueueStep
<1>1. DataInv /\ PlaceInv /\ DataInv' /\ PlaceInv'
  BY DEF FifoInv
<1>2. PICK S : S = Waiting
  OBVIOUS
<1>3. S \in SUBSET Nat /\ IsFiniteSet(S)
  BY <1>1, <1>2, WaitingTypes
<1>4. Upper(Waiting', S)
  BY <1>1, <1>2, RestLoses
<1> QED
  BY <1>2, <1>3, <1>4, StepLoses

LEMMA FetchStartStep ==
  ASSUME FifoInv, FifoInv', NEW r \in Readers, FetchStart(r)
  PROVE  QueueStep
<1>1. /\ pc[r] = "start" /\ fifo' = Rest(call.n) /\ UNCHANGED <<size, rx>>
      /\ Took' = Took /\ call # NoCall
  BY TookKept DEF FetchStart, EndCall
<1>2. DataInv /\ PlaceInv /\ LockInv /\ CallInv /\ DataInv' /\ PlaceInv'
  BY DEF FifoInv
<1>3. CASE Return(r)
  <2>1. ~Reading'
    BY <1>1, <1>2, <1>3, ReadingIs
  <2> QED
    BY <1>1, <1>2, <2>1, CopiedIs, ReaderLoses
<1>4. CASE IsStart(Copied) /\ pc' = [pc EXCEPT ![r] = "len"] /\ UNCHANGED lock
  <2>1. Copied = Out(2) /\ fifo' = Rest(2) /\ 2 \in Nat
    <3>1. call.n = 2
      BY <1>1, <1>2, <1>4, CopiedIs DEF IsStart
    <3> QED
      BY <1>1, <1>2, <3>1, CopiedIs
  <2>2. /\ fifo # << >> /\ fifo[1].o = 1
        /\ IF Rest(2) = << >> THEN rx = "len" /\ fifo[1].r = Record
           ELSE Rest(2)[1] = [r |-> fifo[1].r, o |-> 3]
    BY <1>2, <1>4, <2>1, StartTaken
  <2>3. Reading'
    BY <1>1, <1>2, <1>4, ReadingIs
  <2>4. PICK x : x = fifo[1].r
    OBVIOUS
  <2>5. (fifo' = << >> => ~Complete(x)) /\ (fifo' # << >> => fifo'[1].r = x)
    BY <1>1, <2>1, <2>2, <2>4 DEF Complete
  <2>6. Waiting' = Waiting
    BY <1>1, <1>2, <2>1, <2>2, <2>3, <2>4, <2>5, RestKeeps
  <2> QED
    BY <1>1, <2>6, StepStutters
<1> QED
  BY <1>3, <1>4 DEF FetchStart

LEMMA FetchLenStep ==
  ASSUME FifoInv, FifoInv', NEW r \in Readers, FetchLen(r)
  PROVE  QueueStep
<1>1. /\ pc[r] = "len" /\ fifo' = Rest(call.n) /\ UNCHANGED <<size, rx>>
      /\ Took' = Took /\ call # NoCall
  BY TookKept DEF FetchLen, EndCall
<1>2. DataInv /\ PlaceInv /\ LockInv /\ CallInv /\ DataInv' /\ PlaceInv'
  BY DEF FifoInv
<1>3. CASE Return(r)
  <2>1. ~Reading'
    BY <1>1, <1>2, <1>3, ReadingIs
  <2> QED
    BY <1>1, <1>2, <2>1, CopiedIs, ReaderLoses
<1>4. CASE call.n = 2 /\ pc' = [pc EXCEPT ![r] = "data"] /\ UNCHANGED lock
  <2>1. Reading /\ Reading'
    BY <1>1, <1>2, <1>4, ReadingIs
  <2>2. fifo' = Rest(2) /\ fifo # << >> /\ 2 \in Nat
    <3>1. Len(fifo) >= 2
      BY <1>1, <1>2, <1>4, CopiedIs
    <3> QED
      BY <1>1, <1>4, <3>1
  <2>3. fifo[1].o = 3
    BY <1>1, <1>2, <2>2 DEF PlaceInv
  <2>4. IF Rest(2) = << >> THEN rx = "data" /\ fifo[1].r = Record
        ELSE Rest(2)[1] = [r |-> fifo[1].r, o |-> 5]
    BY <1>2, <2>2, <2>3, LenTaken
  <2>5. PICK x : x = fifo[1].r
    OBVIOUS
  <2>6. (fifo' = << >> => ~Complete(x)) /\ (fifo' # << >> => fifo'[1].r = x)
    BY <1>1, <2>2, <2>4, <2>5 DEF Complete
  <2>7. Waiting' = Waiting
    BY <1>1, <1>2, <2>1, <2>2, <2>5, <2>6, RestKeeps
  <2> QED
    BY <1>1, <2>7, StepStutters
<1> QED
  BY <1>3, <1>4 DEF FetchLen

LEMMA FetchDataStep ==
  ASSUME FifoInv, FifoInv', NEW r \in Readers, FetchData(r)
  PROVE  QueueStep
<1>1. PICK f : f = [len |-> len[r], data |-> Copied, during |-> call.rx]
  OBVIOUS
<1>2. /\ pc[r] = "data" /\ Return(r) /\ UNCHANGED <<size, rx>>
      /\ fifo' = Rest(call.n) /\ fetched' = Append(fetched, f) /\ call # NoCall
  BY <1>1 DEF FetchData, EndCall
<1>3. DataInv /\ PlaceInv /\ LockInv /\ CallInv /\ FetchedInv /\ DataInv' /\ PlaceInv'
  BY DEF FifoInv
<1>4. PICK n \in Nat : n = call.n /\ n <= Len(fifo) /\ (n = len[r] \/ n = 0)
  BY <1>2, <1>3, CopiedIs DEF CallInv
<1>5. ~Reading' /\ Reading /\ fifo' = Rest(n)
  BY <1>2, <1>3, <1>4, ReadingIs
<1>6. f.data = Out(n) /\ Len(Out(n)) = n
  BY <1>1, <1>2, <1>3, <1>4, CopiedIs
<1>7. CASE f.data = << >>
  <2>1. Took' = Took
    BY <1>2, <1>3, <1>7, TookNone
  <2> QED
    BY <1>2, <1>5, <2>1, ReaderLoses
<1>8. CASE f.data # << >>
  <2>1. n = len[r]
    <3>1. ASSUME n = 0
          PROVE  FALSE
      <4>1. Out(n) \in Seq(Cells)
        BY <1>3, OutIs
      <4> QED
        BY <1>6, <1>8, <3>1, <4>1
    <3> QED
      BY <1>4, <3>1
  <2>2. fifo # << >>
    <3>1. Out(n) \in Seq(Cells) /\ \A k \in DOMAIN Out(n) : k \in DOMAIN fifo
      BY <1>3, OutIs
    <3>2. 1 \in DOMAIN Out(n)
      BY <1>6, <1>8, <3>1
    <3> QED
      BY <3>1, <3>2
  <2>3. fifo[1].o = 5 /\ n = size[fifo[1].r]
    BY <1>2, <1>3, <2>1, <2>2 DEF PlaceInv
  <2>4. PICK x : x = fifo[1].r
    OBVIOUS
  <2>5. Out(n)[1].r = x
    BY <1>3, <2>2, <2>3, <2>4, DataTaken
  <2>6. x \in Waiting /\ (\A y \in Waiting : x <= y) /\ Waiting' = Waiting \ {x}
    BY <1>2, <1>3, <1>5, <2>2, <2>3, <2>4, RestTakes
  <2>7. Took' = Append(Took, x)
    <3>1. Took' = Append(Took, f.data[1].r)
      BY <1>2, <1>3, <1>8, TookOne
    <3> QED
      BY <1>6, <2>5, <3>1
  <2>8. PICK S : S = Waiting
    OBVIOUS
  <2>9. S \in SUBSET Nat /\ IsFiniteSet(S)
    BY <1>3, <2>8, WaitingTypes
  <2> QED
    BY <2>6, <2>7, <2>8, <2>9, StepTakes
<1> QED
  BY <1>7, <1>8

LEMMA FetchFaultStep ==
  ASSUME FifoInv, FifoInv', NEW r \in Readers, FetchFault(r)
  PROVE  QueueStep
<1>1. pc[r] = "data" /\ Return(r) /\ UNCHANGED <<size, rx>> /\ Took' = Took
  BY TookKept DEF FetchFault
<1>2. ~Reading'
  BY <1>1, ReadingIs DEF FifoInv
<1>3. PICK k \in 0..call.n : fifo' = Rest(k)
  BY DEF FetchFault, EndCall
<1>4. k \in Nat
  BY <1>3
<1> QED
  BY <1>1, <1>2, <1>3, <1>4, ReaderLoses

LEMMA RxStep ==
  ASSUME FifoInv, FifoInv', RxStart \/ RxLen \/ RxData
  PROVE  QueueStep
<1>1. DataInv /\ PlaceInv /\ FetchedInv /\ DataInv' /\ PlaceInv'
  BY DEF FifoInv
<1>2. Took' = Took
  BY TookKept DEF RxStart, RxLen, RxData
<1>3. CASE RxStart \/ RxLen
  <2>1. Waiting' = Waiting
    BY <1>1, <1>3, RxStartWaiting, RxLenWaiting
  <2> QED
    BY <1>2, <2>1, StepStutters
<1>4. CASE RxData
  <2>1. /\ Waiting' = Waiting \/ Waiting' = Waiting \cup {Record}
        /\ \A y \in Waiting : y < Record
        /\ Record \in 1..MaxRecords
    BY <1>1, <1>4, RxDataWaiting
  <2>2. PICK S \in {Waiting}, r \in 1..MaxRecords : S = Waiting /\ r = Record
    BY <2>1
  <2>3. S \in SUBSET Nat /\ IsFiniteSet(S)
    BY <1>1, <2>2, WaitingTypes
  <2>4. \A i \in DOMAIN Took : Took[i] < r
    <3>1. rx = "data"
      BY <1>4 DEF RxData
    <3>2. \A i \in DOMAIN Took : Took[i] \in DOMAIN size /\ Took[i] # Record
      BY <1>1, <3>1, TookIs
    <3>3. \A y \in DOMAIN size : y \in Nat /\ y <= Record
      BY <1>1, <3>1, Underway, DataTypes
    <3>4. \A y \in DOMAIN size : y # r => y < r
      BY <2>2, <3>3
    <3> QED
      BY <2>2, <3>2, <3>4, Zenon
  <2>5. CASE Waiting' = Waiting
    BY <1>2, <2>5, StepStutters
  <2>6. CASE Waiting' = Waiting \cup {Record}
    BY <1>2, <2>1, <2>2, <2>3, <2>4, <2>6, StepPuts
  <2> QED
    BY <2>1, <2>5, <2>6
<1> QED
  BY <1>3, <1>4

LEMMA NextSteps ==
  ASSUME FifoInv, FifoInv', [Next]_vars
  PROVE  QueueStep
<1>1. CASE UNCHANGED vars
  <2>1. Waiting' = Waiting /\ Took' = Took
    BY <1>1, TookKept DEF vars, Waiting, From, Rest
  <2> QED
    BY <2>1, StepStutters
<1>2. CASE RxStart \/ RxLen \/ RxData
  BY <1>2, RxStep
<1>3. ASSUME NEW r \in Readers, Lock(r) \/ Begin(r)
      PROVE  QueueStep
  <2>1. /\ UNCHANGED <<fifo, size, rx>> /\ Took' = Took
        /\ pc' = pc \/ (pc' = [pc EXCEPT ![r] = "start"] /\ pc[r] = "user")
    BY <1>3, TookKept DEF Lock, Begin
  <2>2. pc \in [Readers -> {"user", "start", "len", "data"}]
    BY DEF FifoInv, LockInv
  <2>3. \A x \in Readers : \A at \in {"len", "data"} : pc'[x] = at <=> pc[x] = at
    BY <2>1, <2>2
  <2>4. Waiting' = Waiting
    BY <2>1, <2>3 DEF Waiting, From, Rest
  <2> QED
    BY <2>1, <2>4, StepStutters
<1>4. ASSUME NEW r \in Readers, FetchStart(r) \/ FetchLen(r) \/ FetchData(r) \/ FetchFault(r)
      PROVE  QueueStep
  BY <1>4, FetchStartStep, FetchLenStep, FetchDataStep, FetchFaultStep
<1> QED
  BY <1>1, <1>2, <1>3, <1>4 DEF Next, Reader

LEMMA QueueInit ==
  ASSUME Init
  PROVE  Q!Init
<1>1. Waiting = {} /\ Gotten = {}
  BY DEF Init, Waiting, Gotten
<1>2. Cardinality({}) = 0
  BY FS_EmptySet
<1>3. 1..0 = {}
  OBVIOUS
<1>4. InOrder({}) = << >>
  BY <1>2, <1>3 DEF InOrder
<1>5. Took = << >>
  BY <1>1, <1>2, <1>3 DEF Took
<1> QED
  BY <1>1, <1>4, <1>5, Zenon DEF Q!Init, Took

\* Wherever the puts fall between and into the calls, and across page faults, the FIFO
\* is a lossy queue until it is reset: the readers get whole records, in the order they
\* were put, none twice.
THEOREM QueueHolds == Spec => QueueSpec
<1>1. Init => Q!Init
  BY QueueInit
<1>2. FifoInv /\ FifoInv' /\ [Next]_vars => [Q!Next]_Q!vars
  BY NextSteps DEF QueueStep
<1> QED
  BY <1>1, <1>2, InvHolds, PTL DEF Spec, QueueSpec, Q!Spec
=============================================================================
