--------------------------- MODULE CtrlLinkProofs ---------------------------
(***************************************************************************)
(* What CtrlLink guarantees for every buffer, every number of frames and   *)
(* every set of disturbances.                                              *)
(***************************************************************************)
EXTENDS CtrlLink, FiniteSetTheorems, WellFoundedInduction, TLAPS

-----------------------------------------------------------------------------
(* The frames.                                                             *)

LEMMA ShapeTable ==
  /\ DOMAIN Shape = {"data", "conf", "mac", "info", "end", "odd"}
  /\ Shape["data"] = [type |-> "D", field |-> 1, size |-> 4]
  /\ Shape["conf"] = [type |-> "C", field |-> 0, size |-> 3]
  /\ Shape["mac"] = [type |-> "P", field |-> 2, size |-> 5]
  /\ Shape["info"] = [type |-> "P", field |-> 0, size |-> 3]
  /\ Shape["end"] = [type |-> "Z", field |-> 0, size |-> 3]
  /\ Shape["odd"] = [type |-> "?", field |-> 1, size |-> 3]
BY DEF Shape

LEMMA ShapeTyped ==
  ASSUME NEW k \in DOMAIN Shape
  PROVE  /\ Shape[k].field \in {0, 1, 2} /\ Shape[k].size \in 3..5
         /\ Shape[k].type \in {"D", "C", "P", "Z", "?"}
<1>1. \/ Shape[k] = [type |-> "D", field |-> 1, size |-> 4]
      \/ Shape[k] = [type |-> "C", field |-> 0, size |-> 3]
      \/ Shape[k] = [type |-> "P", field |-> 2, size |-> 5]
      \/ Shape[k] = [type |-> "P", field |-> 0, size |-> 3]
      \/ Shape[k] = [type |-> "Z", field |-> 0, size |-> 3]
      \/ Shape[k] = [type |-> "?", field |-> 1, size |-> 3]
  BY ShapeTable
<1> QED
  BY <1>1

-----------------------------------------------------------------------------
(* What is in memory: every word has its frame, or came in no transfer.    *)

WordOK(w) == IF w.f = 0 THEN w.o \in {0, 2} ELSE w.f \in DOMAIN frames
MemOK(m) == m \in [0..(BufSize + 4) -> Words] /\ \A j \in 0..(BufSize + 4) : WordOK(m[j])

FramesOK == frames \in Seq(DOMAIN Shape) /\ Len(frames) <= MaxFrames

LEMMA FrameShape ==
  ASSUME FramesOK, NEW f \in DOMAIN frames
  PROVE  /\ frames[f] \in DOMAIN Shape
         /\ Shape[frames[f]].field \in {0, 1, 2} /\ Shape[frames[f]].size \in 3..5
         /\ Shape[frames[f]].type \in {"D", "C", "P", "Z", "?"}
<1>1. frames[f] \in DOMAIN Shape
  BY DEF FramesOK
<1> QED
  BY <1>1, ShapeTyped

LEMMA FieldTyped ==
  ASSUME FramesOK, NEW w \in Words, WordOK(w)
  PROVE  FieldOf(w) \in {0, 1, 2}
<1>1. CASE w.f = 0
  BY <1>1 DEF FieldOf, WordOK
<1>2. CASE w.f # 0
  <2>1. Shape[frames[w.f]].field \in {0, 1, 2}
    BY <1>2, FrameShape DEF WordOK
  <2>2. CASE w.o = 1
    BY <1>2, <2>1, <2>2 DEF FieldOf
  <2>3. CASE w.o # 1
    BY <1>2, <2>3 DEF FieldOf
  <2> QED
    BY <2>2, <2>3
<1> QED
  BY <1>1, <1>2

\* check_len takes at least the header, and at most three words more.
LEMMA CheckLenTyped ==
  ASSUME FramesOK, NEW m, MemOK(m), NEW p \in Nat, p < BufSize, BufSize \in Nat
  PROVE  /\ CheckLen(m, p) \in 2..5
         /\ TypeOf(m[p]) \in {"C", "D", "P"} => CheckLen(m, p) \in 3..5
<1>1. p + 1 \in 0..(BufSize + 4)
  OBVIOUS
<1>2. m[p + 1] \in Words /\ WordOK(m[p + 1])
  BY <1>1 DEF MemOK
<1>3. FieldOf(m[p + 1]) \in {0, 1, 2}
  BY <1>2, FieldTyped
<1>4. CheckLen(m, p) = 2 + FieldOf(m[p + 1]) + (IF TypeOf(m[p]) \in {"C", "D", "P"} THEN 1 ELSE 0)
  BY DEF CheckLen
<1> QED
  BY <1>3, <1>4

-----------------------------------------------------------------------------
(* The loop of process_response.  Walk and Outputs are recursive functions *)
(* over the buffer and over the frames found; that they exist, and what    *)
(* they compute, is proved from the least number for which it is not so.   *)

LEMMA LeastNumber ==
  ASSUME NEW T \in SUBSET Nat, T # {}
  PROVE  \E m \in T : \A n \in T : m <= n
<1>1. PICK m \in T : \A n \in T : ~(<<n, m>> \in OpToRel(<, Nat))
  BY WFMin, NatLessThanWellFounded
<1>2. \A n \in T : ~(n < m)
  <2> SUFFICES ASSUME NEW n \in T, n < m PROVE FALSE
    OBVIOUS
  <2>1. n \in Nat /\ m \in Nat
    OBVIOUS
  <2>2. <<n, m>> \in Nat \X Nat /\ <<n, m>>[1] < <<n, m>>[2]
    BY <2>1
  <2>3. <<n, m>> \in {ss \in Nat \X Nat : ss[1] < ss[2]}
    BY <2>2
  <2>4. <<n, m>> \in OpToRel(<, Nat)
    BY <2>3, Zenon DEF OpToRel
  <2> QED
    BY <1>1, <2>4, Zenon
<1> QED
  BY <1>2

\* The frames from place p on, if f gives those behind it.
Found(m, n, f, p) == IF p < n /\ Starts(m[p]) THEN <<p>> \o f[p + CheckLen(m, p)] ELSE << >>
IsFrom(m, n, f) == f = [p \in Nat |-> Found(m, n, f, p)]
From(m, n) == CHOOSE f : IsFrom(m, n, f)

LEMMA WalkIsFrom == ASSUME NEW m, NEW n PROVE Walk(m, n) = IF n < 2 THEN << >> ELSE From(m, n)[0]
BY DEF Walk, From, IsFrom, Found

\* The frames read so far give themselves from place b on.
FromPlace(m, n, f, b) == f = [p \in Nat |-> f[p]] /\ \A p \in Nat : p >= b => f[p] = Found(m, n, f, p)

LEMMA FromGoesOn ==
  ASSUME NEW m, NEW n, NEW f, NEW b \in Nat, FromPlace(m, n, f, b + 1),
         b < n /\ Starts(m[b]) => CheckLen(m, b) \in 2..5,
         \A p \in Nat : p < n /\ Starts(m[p]) => CheckLen(m, p) \in 2..5
  PROVE  \E g : FromPlace(m, n, g, b)
<1> DEFINE g == [p \in Nat |-> IF p = b THEN Found(m, n, f, p) ELSE f[p]]
<1>1. ASSUME NEW p \in Nat, p >= b PROVE g[p] = Found(m, n, g, p)
  <2>1. Found(m, n, g, p) = Found(m, n, f, p)
    <3>1. CASE p < n /\ Starts(m[p])
      <4>1. CheckLen(m, p) \in 2..5
        BY <3>1
      <4>2. p + CheckLen(m, p) \in Nat /\ p + CheckLen(m, p) # b
        BY <1>1, <4>1
      <4>3. g[p + CheckLen(m, p)] = f[p + CheckLen(m, p)]
        BY <4>2
      <4> HIDE DEF g
      <4> QED
        BY <3>1, <4>3 DEF Found
    <3>2. CASE ~(p < n /\ Starts(m[p]))
      BY <3>2 DEF Found
    <3> QED
      BY <3>1, <3>2
  <2>2. CASE p = b
    BY <2>1, <2>2
  <2>3. CASE p # b
    <3>1. p >= b + 1
      BY <1>1, <2>3
    <3>2. g[p] = f[p]
      BY <2>3
    <3> HIDE DEF g
    <3> QED
      BY <2>1, <3>1, <3>2 DEF FromPlace
  <2> QED
    BY <2>2, <2>3
<1>2. g = [p \in Nat |-> g[p]]
  OBVIOUS
<1> HIDE DEF g
<1>3. FromPlace(m, n, g, b)
  BY <1>1, <1>2 DEF FromPlace
<1> QED
  BY <1>3

LEMMA FromExists ==
  ASSUME NEW m, NEW n \in Nat,
         \A p \in Nat : p < n /\ Starts(m[p]) => CheckLen(m, p) \in 2..5
  PROVE  \E f : IsFrom(m, n, f)
<1> DEFINE T == {k \in Nat : \E b \in Nat : b + k = n /\ ~\E f : FromPlace(m, n, f, b)}
<1>1. ASSUME T # {} PROVE FALSE
  <2>1. PICK k \in T : \A j \in T : k <= j
    BY <1>1, LeastNumber
  <2>2. PICK b \in Nat : b + k = n /\ ~\E f : FromPlace(m, n, f, b)
    BY <2>1
  <2>3. CASE k = 0
    <3> DEFINE f == [p \in Nat |-> << >>]
    <3>1. b = n
      BY <2>2, <2>3
    <3>2. ASSUME NEW p \in Nat, p >= b PROVE f[p] = Found(m, n, f, p)
      <4>1. ~(p < n)
        BY <3>1, <3>2
      <4> QED
        BY <4>1 DEF Found
    <3>3. f = [p \in Nat |-> f[p]]
      OBVIOUS
    <3> HIDE DEF f
    <3>4. FromPlace(m, n, f, b)
      BY <3>2, <3>3 DEF FromPlace
    <3> QED
      BY <2>2, <3>4
  <2>4. CASE k # 0
    <3>1. k - 1 \in Nat /\ (b + 1) + (k - 1) = n /\ ~(k <= k - 1)
      BY <2>2, <2>4
    <3>2. k - 1 \notin T
      BY <2>1, <3>1
    <3>3. PICK f : FromPlace(m, n, f, b + 1)
      BY <3>1, <3>2
    <3>4. \E g : FromPlace(m, n, g, b)
      BY <3>3, FromGoesOn
    <3> QED
      BY <2>2, <3>4
  <2> QED
    BY <2>3, <2>4
<1>2. n \notin T
  BY <1>1
<1>3. PICK f : FromPlace(m, n, f, 0)
  BY <1>2
<1>4. \A p \in Nat : f[p] = Found(m, n, f, p)
  BY <1>3 DEF FromPlace
<1>5. f = [p \in Nat |-> f[p]]
  BY <1>3 DEF FromPlace
<1>6. [p \in Nat |-> f[p]] = [p \in Nat |-> Found(m, n, f, p)]
  BY <1>4
<1>7. IsFrom(m, n, f)
  BY <1>5, <1>6, Zenon DEF IsFrom
<1> QED
  BY <1>7

\* The places of frames from p on: one begins at each, they go on, and end where
\* no frame begins.
IsWalk(m, n, s, p) ==
  /\ s \in Seq(Nat)
  /\ \A j \in 1..Len(s) : s[j] >= p /\ s[j] < n /\ Starts(m[s[j]])
  /\ \A j, l \in 1..Len(s) : j < l => s[j] < s[l]
  /\ s # << >> => s[1] = p
  /\ s = << >> => ~(p < n /\ Starts(m[p]))
  /\ \A j \in 1..Len(s) :
       LET next == s[j] + CheckLen(m, s[j]) IN
       IF j < Len(s) THEN s[j + 1] = next ELSE ~(next < n /\ Starts(m[next]))

LEMMA WalkGoesOn ==
  ASSUME NEW m, NEW n \in Nat, NEW p \in Nat, p < n, Starts(m[p]),
         NEW c \in 2..5, c = CheckLen(m, p), NEW s, IsWalk(m, n, s, p + c)
  PROVE  IsWalk(m, n, <<p>> \o s, p)
<1> DEFINE t == <<p>> \o s
<1>1. s \in Seq(Nat) /\ Len(s) \in Nat
  BY DEF IsWalk
<1>2. t \in Seq(Nat) /\ Len(t) = Len(s) + 1 /\ t[1] = p /\ \A j \in 1..Len(s) : t[j + 1] = s[j]
  BY <1>1
<1> HIDE DEF t
<1>3. t # << >>
  BY <1>1, <1>2
<1>4. ASSUME NEW j \in 1..Len(t) PROVE j = 1 \/ (\E k \in 1..Len(s) : j = k + 1)
  <2>1. CASE j # 1
    <3>1. j - 1 \in 1..Len(s) /\ j = (j - 1) + 1
      BY <1>1, <1>2, <2>1
    <3> QED
      BY <3>1
  <2> QED
    BY <2>1
<1>5. ASSUME NEW j \in 1..Len(t) PROVE t[j] >= p /\ t[j] < n /\ Starts(m[t[j]])
  <2>1. CASE j = 1
    BY <1>2, <2>1
  <2>2. ASSUME NEW k \in 1..Len(s), j = k + 1 PROVE t[j] >= p /\ t[j] < n /\ Starts(m[t[j]])
    <3>1. t[j] = s[k] /\ s[k] \in Nat
      <4>1. t[k + 1] = s[k]
        BY <1>2
      <4>2. s[k] \in Nat
        BY <1>1
      <4> QED
        BY <2>2, <4>1, <4>2
    <3>2. s[k] >= p + c /\ s[k] < n /\ Starts(m[s[k]])
      BY DEF IsWalk
    <3>3. s[k] >= p
      BY <3>1, <3>2
    <3> QED
      BY <3>1, <3>2, <3>3
  <2> QED
    BY <1>4, <2>1, <2>2
<1>6. ASSUME NEW j \in 1..Len(t)
      PROVE  LET next == t[j] + CheckLen(m, t[j]) IN
             IF j < Len(t) THEN t[j + 1] = next ELSE ~(next < n /\ Starts(m[next]))
  <2>1. CASE j = 1
    <3>1. t[j] + CheckLen(m, t[j]) = p + c
      BY <1>2, <2>1
    <3>2. CASE s = << >>
      <4>1. Len(t) = 1 /\ ~(p + c < n /\ Starts(m[p + c]))
        BY <1>2, <3>2 DEF IsWalk
      <4> QED
        BY <2>1, <3>1, <4>1
    <3>3. CASE s # << >>
      <4>1. 1 \in 1..Len(s)
        BY <1>1, <3>3
      <4>2. t[2] = p + c /\ 1 < Len(t)
        BY <1>1, <1>2, <3>3, <4>1, SMTT(60) DEF IsWalk
      <4> QED
        BY <2>1, <3>1, <4>2
    <3> QED
      BY <3>2, <3>3
  <2>2. ASSUME NEW k \in 1..Len(s), j = k + 1
        PROVE  LET next == t[j] + CheckLen(m, t[j]) IN
               IF j < Len(t) THEN t[j + 1] = next ELSE ~(next < n /\ Starts(m[next]))
    <3>1. t[j] = s[k] /\ (j < Len(t) <=> k < Len(s))
      BY <1>1, <1>2, <2>2, SMTT(60)
    <3>2. LET next == s[k] + CheckLen(m, s[k]) IN
          IF k < Len(s) THEN s[k + 1] = next ELSE ~(next < n /\ Starts(m[next]))
      BY DEF IsWalk
    <3>3. CASE k < Len(s)
      <4>1. k + 1 \in 1..Len(s) /\ j + 1 = (k + 1) + 1
        BY <1>1, <2>2, <3>3
      <4>2. t[j + 1] = s[k + 1]
        BY <1>2, <4>1
      <4> QED
        BY <3>1, <3>2, <3>3, <4>2
    <3>4. CASE ~(k < Len(s))
      BY <3>1, <3>2, <3>4
    <3> QED
      BY <3>3, <3>4
  <2> QED
    BY <1>4, <2>1, <2>2
<1>7. ASSUME NEW j \in 1..Len(t), NEW l \in 1..Len(t), j < l PROVE t[j] < t[l]
  <2>1. l # 1
    BY <1>1, <1>2, <1>7
  <2>2. PICK x \in 1..Len(s) : l = x + 1
    BY <1>4, <2>1
  <2>3. t[l] = s[x] /\ s[x] \in Nat /\ s[x] >= p + c
    <3>1. t[x + 1] = s[x]
      BY <1>2
    <3>2. s[x] \in Nat
      BY <1>1
    <3>3. s[x] >= p + c
      BY DEF IsWalk
    <3> QED
      BY <2>2, <3>1, <3>2, <3>3
  <2>4. CASE j = 1
    <3>1. t[j] = p /\ t[l] \in Nat /\ t[l] >= p + c
      BY <1>2, <2>3, <2>4
    <3> QED
      BY <3>1
  <2>5. ASSUME NEW k \in 1..Len(s), j = k + 1 PROVE t[j] < t[l]
    <3>1. t[j] = s[k]
      BY <1>2, <2>5
    <3>2. k < x
      BY <1>1, <1>7, <2>2, <2>5
    <3>3. s[k] < s[x]
      BY <3>2 DEF IsWalk
    <3> QED
      BY <2>3, <3>1, <3>3
  <2> QED
    BY <1>4, <2>4, <2>5
<1> QED
  BY <1>2, <1>3, <1>5, <1>6, <1>7 DEF IsWalk, t

LEMMA WalkFinds ==
  ASSUME NEW m, NEW n \in Nat, n >= 2,
         \A p \in Nat : p < n /\ Starts(m[p]) => CheckLen(m, p) \in 2..5
  PROVE  IsWalk(m, n, Walk(m, n), 0)
<1> DEFINE f == From(m, n)
<1>1. IsFrom(m, n, f)
  BY FromExists, Zenon DEF From
<1>2. Walk(m, n) = f[0]
  BY WalkIsFrom
<1> HIDE DEF f
<1>3. ASSUME NEW p \in Nat PROVE f[p] = Found(m, n, f, p)
  BY <1>1, Zenon DEF IsFrom
<1> DEFINE T == {k \in Nat : \E p \in Nat : p + k = n /\ ~IsWalk(m, n, f[p], p)}
<1>4. ASSUME NEW p \in Nat, ~(p < n /\ Starts(m[p])) PROVE IsWalk(m, n, f[p], p)
  <2>1. f[p] = << >>
    BY <1>3, <1>4 DEF Found
  <2> QED
    BY <1>4, <2>1 DEF IsWalk
<1>5. ASSUME T # {} PROVE FALSE
  <2>1. PICK k \in T : \A j \in T : k <= j
    BY <1>5, LeastNumber
  <2>2. PICK p \in Nat : p + k = n /\ ~IsWalk(m, n, f[p], p)
    BY <2>1
  <2>3. p < n /\ Starts(m[p])
    BY <1>4, <2>2
  <2>4. PICK c \in 2..5 : c = CheckLen(m, p)
    BY <2>3
  <2>5. f[p] = <<p>> \o f[p + c]
    BY <1>3, <2>3, <2>4 DEF Found
  <2>6. IsWalk(m, n, f[p + c], p + c)
    <3>1. CASE p + c < n
      <4>1. k - c \in Nat /\ (p + c) + (k - c) = n /\ ~(k <= k - c) /\ p + c \in Nat
        BY <2>2, <3>1
      <4>2. k - c \notin T
        BY <2>1, <4>1
      <4> QED
        BY <4>1, <4>2
    <3>2. CASE ~(p + c < n)
      BY <1>4, <3>2
    <3> QED
      BY <3>1, <3>2
  <2> QED
    BY <2>2, <2>3, <2>4, <2>5, <2>6, WalkGoesOn
<1>6. n \notin T
  BY <1>5
<1>7. IsWalk(m, n, f[0], 0)
  BY <1>6
<1> QED
  BY <1>2, <1>7

-----------------------------------------------------------------------------
(* The outputs of a transfer, frame by frame.                              *)

Before == [tap |-> tap, written |-> written, gsm |-> gsm]

\* The largest index, as Max has it.
Largest(s) == CHOOSE x \in s : \A y \in s : x >= y

\* f is the fold on the subsets of S.
IsFold(m, w, hwOK, upOK, S, f) ==
  f = [s \in SUBSET S |-> IF s = {} THEN Before
                          ELSE Handle(m, f[s \ {Largest(s)}], w[Largest(s)], hwOK, upOK)]
FoldOf(m, w, hwOK, upOK) == CHOOSE f : IsFold(m, w, hwOK, upOK, DOMAIN w, f)

LEMMA OutputsIsFold ==
  ASSUME NEW m, NEW n, NEW hwOK, NEW upOK
  PROVE  Outputs(m, n, hwOK, upOK) = FoldOf(m, Walk(m, n), hwOK, upOK)[DOMAIN Walk(m, n)]
BY DEF Outputs, FoldLeft, MapThenFoldSet, FoldOf, IsFold, Before, Max, Largest

LEMMA LargestOf ==
  ASSUME NEW n \in Nat, NEW s \in SUBSET (1..(n + 1)), n + 1 \in s
  PROVE  Largest(s) = n + 1
<1>1. \A y \in s : n + 1 >= y
  OBVIOUS
<1>2. Largest(s) \in s /\ \A y \in s : Largest(s) >= y
  BY <1>1 DEF Largest
<1>3. ASSUME NEW x \in 1..(n + 1), n + 1 >= x, x >= n + 1 PROVE x = n + 1
  BY <1>3
<1>4. Largest(s) \in 1..(n + 1)
  BY <1>2
<1>5. n + 1 >= Largest(s) /\ Largest(s) >= n + 1
  BY <1>1, <1>2
<1> QED
  BY <1>3, <1>4, <1>5

LEMMA FoldGoesOn ==
  ASSUME NEW m, NEW w, NEW hwOK, NEW upOK, NEW n \in Nat, NEW f, IsFold(m, w, hwOK, upOK, 1..n, f)
  PROVE  \E g : IsFold(m, w, hwOK, upOK, 1..(n + 1), g)
<1> DEFINE S == SUBSET (1..(n + 1))
           g == [s \in S |-> IF n + 1 \in s
                             THEN Handle(m, f[s \ {n + 1}], w[n + 1], hwOK, upOK) ELSE f[s]]
           body(s) == IF s = {} THEN Before
                      ELSE Handle(m, g[s \ {Largest(s)}], w[Largest(s)], hwOK, upOK)
<1>1. ASSUME NEW s \in S PROVE g[s] = body(s)
  <2>1. CASE n + 1 \in s
    <3>1. s # {} /\ Largest(s) = n + 1
      BY <2>1, LargestOf
    <3>2. s \ {n + 1} \in S /\ n + 1 \notin s \ {n + 1}
      OBVIOUS
    <3>3. g[s \ {n + 1}] = f[s \ {n + 1}]
      BY <3>2
    <3>4. g[s] = Handle(m, f[s \ {n + 1}], w[n + 1], hwOK, upOK)
      BY <2>1
    <3> QED
      BY <3>1, <3>3, <3>4
  <2>2. CASE n + 1 \notin s
    <3>1. s \in SUBSET (1..n)
      BY <2>2
    <3>2. f[s] = IF s = {} THEN Before
                 ELSE Handle(m, f[s \ {Largest(s)}], w[Largest(s)], hwOK, upOK)
      BY <3>1, Zenon DEF IsFold
    <3>3. g[s \ {Largest(s)}] = f[s \ {Largest(s)}]
      BY <2>2
    <3>4. g[s] = f[s]
      BY <2>2
    <3> QED
      BY <3>2, <3>3, <3>4
  <2> QED
    BY <2>1, <2>2
<1>2. g = [s \in S |-> body(s)]
  <2>1. g = [s \in S |-> g[s]]
    OBVIOUS
  <2> HIDE DEF g
  <2>2. [s \in S |-> g[s]] = [s \in S |-> body(s)]
    BY <1>1
  <2> QED
    BY <2>1, <2>2
<1> HIDE DEF g
<1> QED
  BY <1>2, Zenon DEF IsFold

LEMMA FoldExists ==
  ASSUME NEW m, NEW w, NEW hwOK, NEW upOK, NEW n \in Nat
  PROVE  \E f : IsFold(m, w, hwOK, upOK, 1..n, f)
<1> DEFINE T == {k \in Nat : ~\E f : IsFold(m, w, hwOK, upOK, 1..k, f)}
<1>1. ASSUME T # {} PROVE FALSE
  <2>1. PICK k \in T : \A j \in T : k <= j
    BY <1>1, LeastNumber
  <2>2. CASE k = 0
    <3> DEFINE f == [s \in SUBSET (1..0) |-> Before]
    <3>1. SUBSET (1..0) = {{}}
      BY SMT
    <3>2. f = [s \in SUBSET (1..0) |-> IF s = {} THEN Before
                ELSE Handle(m, f[s \ {Largest(s)}], w[Largest(s)], hwOK, upOK)]
      BY <3>1, Zenon
    <3>3. IsFold(m, w, hwOK, upOK, 1..0, f)
      BY <3>2, Zenon DEF IsFold
    <3> QED
      BY <2>2, <3>3
  <2>3. CASE k # 0
    <3>1. k - 1 \in Nat /\ k - 1 \notin T /\ (k - 1) + 1 = k
      BY <2>1, <2>3
    <3> DEFINE j == k - 1
    <3>2. PICK f : IsFold(m, w, hwOK, upOK, 1..j, f)
      BY <3>1
    <3>3. j \in Nat /\ j + 1 = k
      BY <3>1
    <3> HIDE DEF j
    <3>4. \E g : IsFold(m, w, hwOK, upOK, 1..(j + 1), g)
      BY <3>2, <3>3, FoldGoesOn
    <3> QED
      BY <3>3, <3>4
  <2> QED
    BY <2>2, <2>3
<1> QED
  BY <1>1

\* st holds the outputs after each of the frames w.
Outcome(m, w, hwOK, upOK, st) ==
  /\ st[0] = Before
  /\ \A k \in 1..Len(w) : st[k] = Handle(m, st[k - 1], w[k], hwOK, upOK)

LEMMA OutputsStepwise ==
  ASSUME NEW m, NEW n, NEW hwOK, NEW upOK, NEW w \in Seq(Nat), w = Walk(m, n)
  PROVE  \E st : Outcome(m, w, hwOK, upOK, st) /\ Outputs(m, n, hwOK, upOK) = st[Len(w)]
<1> DEFINE f == FoldOf(m, w, hwOK, upOK)
           st == [k \in 0..Len(w) |-> f[1..k]]
<1>1. Len(w) \in Nat /\ DOMAIN w = 1..Len(w)
  OBVIOUS
<1>2. IsFold(m, w, hwOK, upOK, 1..Len(w), f)
  BY <1>1, FoldExists DEF FoldOf
<1>3. Outputs(m, n, hwOK, upOK) = f[1..Len(w)]
  BY <1>1, OutputsIsFold
<1> HIDE DEF f
<1>4. f[{}] = Before
  BY <1>2, Zenon DEF IsFold
<1>5. 1..0 = {}
  OBVIOUS
<1>6. ASSUME NEW k \in 1..Len(w) PROVE st[k] = Handle(m, st[k - 1], w[k], hwOK, upOK)
  <2>1. 1..k \in SUBSET (1..Len(w)) /\ 1..k # {}
    <3>1. \A l \in Nat : \A j \in 1..l : 1..j \subseteq 1..l /\ 1 \in 1..j
      OBVIOUS
    <3>2. 1..k \subseteq 1..Len(w) /\ 1 \in 1..k
      BY <1>1, <3>1
    <3> QED
      BY <3>2
  <2>2. PICK j \in Nat : j = k - 1 /\ j + 1 = k
    <3>1. k - 1 \in Nat /\ (k - 1) + 1 = k
      BY <1>1
    <3> QED
      BY <3>1
  <2>3. Largest(1..(j + 1)) = j + 1
    BY LargestOf
  <2>4. (1..(j + 1)) \ {j + 1} = 1..j
    OBVIOUS
  <2>5. f[1..k] = Handle(m, f[(1..k) \ {Largest(1..k)}], w[Largest(1..k)], hwOK, upOK)
    BY <1>2, <2>1, Zenon DEF IsFold
  <2>6. f[1..k] = Handle(m, f[1..j], w[k], hwOK, upOK)
    BY <2>2, <2>3, <2>4, <2>5
  <2>7. k \in 0..Len(w) /\ j \in 0..Len(w)
    BY <1>1, <2>2
  <2>8. st[k] = f[1..k] /\ st[k - 1] = f[1..j]
    BY <2>2, <2>7
  <2> QED
    BY <2>6, <2>8
<1>7. st[0] = Before /\ st[Len(w)] = f[1..Len(w)]
  BY <1>1, <1>4, <1>5
<1> HIDE DEF st
<1>8. Outcome(m, w, hwOK, upOK, st)
  BY <1>6, <1>7 DEF Outcome
<1> QED
  BY <1>3, <1>7, <1>8

-----------------------------------------------------------------------------
(* What one frame does to the outputs.                                     *)

Tap == [started : BOOLEAN, up : BOOLEAN, hwaddr : Seq(Words)]
OutState == [tap : Tap, written : Seq(Seq(Words)), gsm : Seq(Seq(Words))]

LEMMA SliceTyped ==
  ASSUME NEW m, MemOK(m), BufSize \in Nat, NEW a \in Nat, NEW b \in Nat, a <= b, b <= BufSize + 5
  PROVE  Slice(m, a, b) \in Seq(Words) /\ Len(Slice(m, a, b)) = b - a
<1>1. b - a \in Nat
  OBVIOUS
<1>2. ASSUME NEW j \in 1..(b - a) PROVE m[a + j - 1] \in Words
  <2>1. a + j - 1 \in 0..(BufSize + 4)
    OBVIOUS
  <2> QED
    BY <2>1 DEF MemOK
<1>3. Slice(m, a, b) \in [1..(b - a) -> Words]
  BY <1>2 DEF Slice
<1> DEFINE d == b - a
<1>4. d \in Nat /\ Slice(m, a, b) \in [1..d -> Words]
  BY <1>1, <1>3
<1> HIDE DEF d
<1>5. Slice(m, a, b) \in Seq(Words) /\ Len(Slice(m, a, b)) = d
  BY <1>4
<1> QED
  BY <1>5 DEF d

\* The outputs of a frame, by its type.
LEMMA HandleCases ==
  ASSUME NEW m, NEW s, NEW p, NEW hwOK, NEW upOK
  PROVE  LET end == p + CheckLen(m, p)
             h   == Handle(m, s, p, hwOK, upOK)
         IN  \/ TypeOf(m[p]) = "C" /\ h = [s EXCEPT !.gsm = Append(s.gsm, Slice(m, p, end))]
             \/ TypeOf(m[p]) = "D" /\ s.tap.up /\ h = [s EXCEPT !.written = Append(s.written, Slice(m, p + 3, end))]
             \/ /\ TypeOf(m[p]) = "P" /\ FieldOf(m[p + 1]) = 2
                /\ h = [s EXCEPT !.tap = tap_set_macaddr(s.tap, Slice(m, p + 4, p + 5), hwOK, upOK)]
             \/ ~(TypeOf(m[p]) = "D" /\ s.tap.up) /\ h = s
<1>1. CASE TypeOf(m[p]) = "C" /\ Debug
  BY <1>1 DEF Handle
<1>2. CASE TypeOf(m[p]) = "D" /\ s.tap.up
  BY <1>2 DEF Handle
<1>3. CASE TypeOf(m[p]) = "P" /\ FieldOf(m[p + 1]) = 2
  BY <1>3 DEF Handle
<1>4. CASE ~(TypeOf(m[p]) = "C" /\ Debug) /\ ~(TypeOf(m[p]) = "D" /\ s.tap.up)
           /\ ~(TypeOf(m[p]) = "P" /\ FieldOf(m[p + 1]) = 2)
  BY <1>4 DEF Handle
<1> QED
  BY <1>1, <1>2, <1>3, <1>4

LEMMA TapSet ==
  ASSUME NEW t \in Tap, NEW addr \in Seq(Words), NEW hwOK \in BOOLEAN, NEW upOK \in BOOLEAN
  PROVE  LET u == tap_set_macaddr(t, addr, hwOK, upOK) IN
         /\ u \in Tap
         /\ t.up => u.up /\ u.hwaddr = t.hwaddr
         /\ u.hwaddr = t.hwaddr \/ (u.hwaddr = addr /\ ~t.up)
         /\ (hwOK /\ u.up /\ ~t.up) => u.hwaddr = addr
<1>1. t.up \in BOOLEAN /\ t.started \in BOOLEAN /\ t.hwaddr \in Seq(Words)
  BY DEF Tap
<1> DEFINE a == IF t.started /\ ~t.up /\ hwOK THEN addr ELSE t.hwaddr
           v == t.up \/ (t.started /\ upOK)
           u == tap_set_macaddr(t, addr, hwOK, upOK)
<1>2. u = [[t EXCEPT !.hwaddr = a] EXCEPT !.up = v]
  BY DEF tap_set_macaddr
<1>3. a \in Seq(Words) /\ v \in BOOLEAN
  BY <1>1, Zenon
<1>4. (a = t.hwaddr \/ (a = addr /\ ~t.up)) /\ (t.up => a = t.hwaddr)
  BY <1>1, Zenon
<1>5. (t.up => v) /\ ((hwOK /\ v /\ ~t.up) => a = addr)
  BY <1>1, Zenon
<1> HIDE DEF a, v
<1>6. u.hwaddr = a /\ u.up = v /\ u \in Tap
  BY <1>2, <1>3 DEF Tap
<1> HIDE DEF u
<1> QED
  BY <1>4, <1>5, <1>6 DEF u

LEMMA HandleTyped ==
  ASSUME FramesOK, BufSize \in Nat, NEW m, MemOK(m), NEW s \in OutState,
         NEW p \in Nat, p < BufSize, NEW hwOK \in BOOLEAN, NEW upOK \in BOOLEAN
  PROVE  Handle(m, s, p, hwOK, upOK) \in OutState
<1> DEFINE c == CheckLen(m, p)
           h == Handle(m, s, p, hwOK, upOK)
<1>1. s.tap \in Tap /\ s.written \in Seq(Seq(Words)) /\ s.gsm \in Seq(Seq(Words))
  BY DEF OutState
<1>2. c \in 2..5 /\ (TypeOf(m[p]) \in {"C", "D", "P"} => c \in 3..5)
  BY CheckLenTyped
<1> HIDE DEF c
<1>3. p + c \in Nat /\ p <= p + c /\ p + c <= BufSize + 5
      /\ p + 4 \in Nat /\ p + 5 \in Nat /\ p + 4 <= p + 5 /\ p + 5 <= BufSize + 5
  BY <1>2
<1>4. CASE h = [s EXCEPT !.gsm = Append(s.gsm, Slice(m, p, p + c))]
  <2>1. Slice(m, p, p + c) \in Seq(Words)
    BY <1>3, SliceTyped
  <2>2. Append(s.gsm, Slice(m, p, p + c)) \in Seq(Seq(Words))
    BY <1>1, <2>1
  <2> QED
    BY <1>1, <1>4, <2>2 DEF OutState
<1>5. CASE TypeOf(m[p]) = "D" /\ h = [s EXCEPT !.written = Append(s.written, Slice(m, p + 3, p + c))]
  <2>1. p + 3 \in Nat /\ p + 3 <= p + c
    BY <1>2, <1>5
  <2>2. Slice(m, p + 3, p + c) \in Seq(Words)
    BY <1>3, <2>1, SliceTyped
  <2>3. Append(s.written, Slice(m, p + 3, p + c)) \in Seq(Seq(Words))
    BY <1>1, <2>2
  <2> QED
    BY <1>1, <1>5, <2>3 DEF OutState
<1>6. CASE h = [s EXCEPT !.tap = tap_set_macaddr(s.tap, Slice(m, p + 4, p + 5), hwOK, upOK)]
  <2>1. Slice(m, p + 4, p + 5) \in Seq(Words)
    BY <1>3, SliceTyped
  <2>2. tap_set_macaddr(s.tap, Slice(m, p + 4, p + 5), hwOK, upOK) \in Tap
    BY <1>1, <2>1, TapSet
  <2> QED
    BY <1>1, <1>6, <2>2 DEF OutState
<1> QED
  BY <1>4, <1>5, <1>6, HandleCases DEF c

-----------------------------------------------------------------------------
(* A frame that is in the buffer as the modem sent it.                     *)

Size(f) == Shape[frames[f]].size

WholeFrame(m, p, f) ==
  /\ f \in DOMAIN frames /\ m[p] = [f |-> f, o |-> 0]
  /\ \A q \in 1..4 : q < Size(f) => m[p + q] = [f |-> f, o |-> q]

LEMMA WholeRead ==
  ASSUME FramesOK, NEW m, NEW p \in Nat, NEW f, WholeFrame(m, p, f)
  PROVE  /\ frames[f] \in DOMAIN Shape /\ Starts(m[p])
         /\ TypeOf(m[p]) = Shape[frames[f]].type /\ FieldOf(m[p + 1]) = Shape[frames[f]].field
         /\ CheckLen(m, p) = IF frames[f] = "end" THEN 2 ELSE Size(f)
<1>1. f \in Nat \ {0} /\ frames[f] \in DOMAIN Shape
  BY DEF WholeFrame, FramesOK
<1>2. Size(f) \in 3..5
  BY FrameShape DEF WholeFrame, Size
<1>3. m[p] = [f |-> f, o |-> 0] /\ m[p + 1] = [f |-> f, o |-> 1]
  BY <1>2 DEF WholeFrame
<1>4. m[p].f = f /\ m[p].o = 0 /\ m[p + 1].f = f /\ m[p + 1].o = 1
  BY <1>3
<1>5. TypeOf(m[p]) = Shape[frames[f]].type
  BY <1>4 DEF TypeOf
<1>6. FieldOf(m[p + 1]) = Shape[frames[f]].field
  BY <1>1, <1>4 DEF FieldOf
<1>7. Starts(m[p])
  BY <1>1, <1>4 DEF Starts
<1>8. CheckLen(m, p) = 2 + Shape[frames[f]].field
                         + (IF Shape[frames[f]].type \in {"C", "D", "P"} THEN 1 ELSE 0)
  BY <1>5, <1>6 DEF CheckLen
<1>9. frames[f] \in {"data", "conf", "mac", "info", "end", "odd"}
  BY <1>1, ShapeTable
<1>10. CheckLen(m, p) = IF frames[f] = "end" THEN 2 ELSE Size(f)
  <2>1. CASE frames[f] = "data"
    BY <1>8, <2>1, ShapeTable DEF Size
  <2>2. CASE frames[f] = "conf"
    BY <1>8, <2>2, ShapeTable DEF Size
  <2>3. CASE frames[f] = "mac"
    BY <1>8, <2>3, ShapeTable DEF Size
  <2>4. CASE frames[f] = "info"
    BY <1>8, <2>4, ShapeTable DEF Size
  <2>5. CASE frames[f] = "end"
    BY <1>8, <2>5, ShapeTable DEF Size
  <2>6. CASE frames[f] = "odd"
    BY <1>8, <2>6, ShapeTable DEF Size
  <2> QED
    BY <1>9, <2>1, <2>2, <2>3, <2>4, <2>5, <2>6
<1> QED
  BY <1>1, <1>5, <1>6, <1>7, <1>10

\* The kinds by what the parser looks at.
LEMMA KindRead ==
  ASSUME NEW k \in DOMAIN Shape
  PROVE  /\ Shape[k].type = "D" <=> k = "data"
         /\ Shape[k].type = "C" <=> k = "conf"
         /\ (Shape[k].type = "P" /\ Shape[k].field = 2) <=> k = "mac"
<1>1. k \in {"data", "conf", "mac", "info", "end", "odd"}
  BY ShapeTable
<1>2. CASE k = "data" BY <1>2, ShapeTable
<1>3. CASE k = "conf" BY <1>3, ShapeTable
<1>4. CASE k = "mac" BY <1>4, ShapeTable
<1>5. CASE k = "info" BY <1>5, ShapeTable
<1>6. CASE k = "end" BY <1>6, ShapeTable
<1>7. CASE k = "odd" BY <1>7, ShapeTable
<1> QED
  BY <1>1, <1>2, <1>3, <1>4, <1>5, <1>6, <1>7

\* What is passed on of a whole frame.
LEMMA SliceOfPacket ==
  ASSUME FramesOK, NEW m, NEW p \in Nat, NEW f, WholeFrame(m, p, f), frames[f] = "data"
  PROVE  /\ Slice(m, p + 3, p + CheckLen(m, p)) = Packet(f)
         /\ Source(Packet(f)) = f
<1>1. Size(f) = 4 /\ CheckLen(m, p) = 4
  BY WholeRead, ShapeTable DEF Size
<1>2. m[p + 3] = [f |-> f, o |-> 3]
  BY <1>1 DEF WholeFrame
<1>3. Packet(f) = [j \in 1..1 |-> [f |-> f, o |-> 3 + j - 1]]
  BY <1>1 DEF Packet, Piece, Size
<1>4. Slice(m, p + 3, p + 4) = [j \in 1..1 |-> m[(p + 3) + j - 1]]
  <2>1. (p + 4) - (p + 3) = 1
    OBVIOUS
  <2> QED
    BY <2>1 DEF Slice
<1>5. \A j \in 1..1 : m[(p + 3) + j - 1] = [f |-> f, o |-> 3 + j - 1]
  BY <1>2
<1>6. Packet(f)[1] = [f |-> f, o |-> 3] /\ Len(Packet(f)) = 1
  BY <1>3
<1> QED
  BY <1>1, <1>3, <1>4, <1>5, <1>6 DEF Source

LEMMA SliceOfMessage ==
  ASSUME FramesOK, NEW m, NEW p \in Nat, NEW f, WholeFrame(m, p, f), frames[f] = "conf"
  PROVE  /\ Slice(m, p, p + CheckLen(m, p)) = Piece(f, 0, Size(f))
         /\ Source(Piece(f, 0, Size(f))) = f
<1>1. Size(f) = 3 /\ CheckLen(m, p) = 3
  BY WholeRead, ShapeTable DEF Size
<1>2. m[p] = [f |-> f, o |-> 0] /\ m[p + 1] = [f |-> f, o |-> 1] /\ m[p + 2] = [f |-> f, o |-> 2]
  BY <1>1 DEF WholeFrame
<1>3. Piece(f, 0, 3) = [j \in 1..3 |-> [f |-> f, o |-> 0 + j - 1]]
  BY DEF Piece
<1>4. Slice(m, p, p + 3) = [j \in 1..3 |-> m[p + j - 1]]
  <2>1. (p + 3) - p = 3
    OBVIOUS
  <2> QED
    BY <2>1 DEF Slice
<1>5. \A j \in 1..3 : m[p + j - 1] = [f |-> f, o |-> 0 + j - 1]
  <2>1. p + 1 - 1 = p /\ p + 2 - 1 = p + 1 /\ p + 3 - 1 = p + 2
    OBVIOUS
  <2>2. \A j \in 1..3 : j = 1 \/ j = 2 \/ j = 3
    OBVIOUS
  <2> QED
    BY <1>2, <2>1, <2>2
<1>6. Piece(f, 0, 3)[1] = [f |-> f, o |-> 0]
  BY <1>3
<1> QED
  BY <1>1, <1>3, <1>4, <1>5, <1>6 DEF Source

LEMMA SliceOfAddress ==
  ASSUME FramesOK, NEW m, NEW p \in Nat, NEW f, WholeFrame(m, p, f), frames[f] = "mac"
  PROVE  Slice(m, p + 4, p + 5) = Address(f)
<1>1. Size(f) = 5
  BY ShapeTable DEF Size
<1>2. m[p + 4] = [f |-> f, o |-> 4]
  BY <1>1 DEF WholeFrame
<1>3. Address(f) = [j \in 1..1 |-> [f |-> f, o |-> 4 + j - 1]]
  BY DEF Address, Piece
<1>4. Slice(m, p + 4, p + 5) = [j \in 1..1 |-> m[(p + 4) + j - 1]]
  <2>1. (p + 5) - (p + 4) = 1
    OBVIOUS
  <2> QED
    BY <2>1 DEF Slice
<1>5. \A j \in 1..1 : m[(p + 4) + j - 1] = [f |-> f, o |-> 4 + j - 1]
  BY <1>2
<1> QED
  BY <1>3, <1>4, <1>5

-----------------------------------------------------------------------------
(* Outputs that come from whole frames, in order.  All of them are of      *)
(* frames before those in B, which are still to come.                      *)

Packets(w) == \A j \in DOMAIN w : LET f == Source(w[j]) IN
                f \in DOMAIN frames /\ frames[f] = "data" /\ w[j] = Packet(f)
Messages(g) == \A j \in DOMAIN g : LET f == Source(g[j]) IN
                f \in DOMAIN frames /\ frames[f] = "conf" /\ g[j] = Piece(f, 0, Size(f))
Ordered(w) == \A j, l \in DOMAIN w : j < l => Source(w[j]) < Source(w[l])
Below(w, B) == \A j \in DOMAIN w : \A b \in B : Source(w[j]) < b
Above(w, f) == \A j \in DOMAIN w : f < Source(w[j])

Addressed(s, B) ==
  s.tap.hwaddr # << >> => \E f \in DOMAIN frames :
    /\ frames[f] = "mac" /\ s.tap.hwaddr = Address(f)
    /\ Above(s.written, f) /\ \A b \in B : f < b

GoodOut(s, B) ==
  /\ Packets(s.written) /\ Ordered(s.written) /\ Below(s.written, B)
  /\ Messages(s.gsm) /\ Ordered(s.gsm) /\ Below(s.gsm, B)
  /\ Addressed(s, B)

\* A TAP that is down has got nothing.
Quiet(s) == ~s.tap.up => s.written = << >>

LEMMA OrderedMore ==
  ASSUME NEW S, NEW w \in Seq(S), NEW v \in S, NEW f, Source(v) = f, NEW B,
         Ordered(w), Below(w, {f} \cup B), \A b \in B : f < b
  PROVE  /\ Ordered(Append(w, v)) /\ Below(Append(w, v), B)
         /\ \A e : Above(w, e) /\ e < f => Above(Append(w, v), e)
<1> DEFINE u == Append(w, v)
<1>1. /\ Len(w) \in Nat /\ DOMAIN u = 1..(Len(w) + 1) /\ u[Len(w) + 1] = v
      /\ \A j \in DOMAIN w : u[j] = w[j]
      /\ DOMAIN w = 1..Len(w)
  OBVIOUS
<1>2. \A j \in DOMAIN u : j \in DOMAIN w \/ j = Len(w) + 1
  BY <1>1
<1>3. \A j \in DOMAIN w : Source(u[j]) = Source(w[j])
  BY <1>1
<1>4. Source(u[Len(w) + 1]) = f
  BY <1>1
<1> HIDE DEF u
<1>5. ASSUME NEW j \in DOMAIN u, NEW l \in DOMAIN u, j < l PROVE Source(u[j]) < Source(u[l])
  <2>1. j \in DOMAIN w
    BY <1>1, <1>5
  <2>2. CASE l \in DOMAIN w
    BY <1>3, <1>5, <2>1, <2>2 DEF Ordered
  <2>3. CASE l = Len(w) + 1
    BY <1>3, <1>4, <2>1, <2>3 DEF Below
  <2> QED
    BY <1>2, <2>2, <2>3
<1>6. ASSUME NEW j \in DOMAIN u, NEW b \in B PROVE Source(u[j]) < b
  BY <1>2, <1>3, <1>4 DEF Below
<1>7. ASSUME NEW e, Above(w, e), e < f, NEW j \in DOMAIN u PROVE e < Source(u[j])
  BY <1>2, <1>3, <1>4, <1>7 DEF Above
<1> QED
  BY <1>5, <1>6, <1>7 DEF Ordered, Below, Above, u

\* The outputs stay so over a whole frame.
LEMMA HandleWhole ==
  ASSUME FramesOK, NEW m, NEW s \in OutState, NEW p \in Nat, NEW f, WholeFrame(m, p, f),
         NEW hwOK \in BOOLEAN, NEW upOK \in BOOLEAN,
         NEW B, \A b \in B : f < b, GoodOut(s, {f} \cup B), Quiet(s),
         Handle(m, s, p, hwOK, upOK) \in OutState
  PROVE  GoodOut(Handle(m, s, p, hwOK, upOK), B)
<1> DEFINE h == Handle(m, s, p, hwOK, upOK)
           end == p + CheckLen(m, p)
<1>1. s.tap \in Tap /\ s.written \in Seq(Seq(Words)) /\ s.gsm \in Seq(Seq(Words))
  BY DEF OutState
<1>2. h.tap \in Tap /\ h.written \in Seq(Seq(Words)) /\ h.gsm \in Seq(Seq(Words))
  BY DEF OutState
<1>3. /\ Packets(s.written) /\ Ordered(s.written) /\ Below(s.written, {f} \cup B)
      /\ Messages(s.gsm) /\ Ordered(s.gsm) /\ Below(s.gsm, {f} \cup B)
      /\ Addressed(s, {f} \cup B)
  BY DEF GoodOut
<1>4. Below(s.written, B) /\ Below(s.gsm, B) /\ Addressed(s, B)
  <2>1. Below(s.written, B) /\ Below(s.gsm, B)
    BY <1>3 DEF Below
  <2>2. Addressed(s, B)
    BY <1>3 DEF Addressed
  <2> QED
    BY <2>1, <2>2
<1>5. /\ f \in DOMAIN frames /\ frames[f] \in DOMAIN Shape
      /\ TypeOf(m[p]) = "D" <=> frames[f] = "data"
      /\ TypeOf(m[p]) = "C" <=> frames[f] = "conf"
      /\ (TypeOf(m[p]) = "P" /\ FieldOf(m[p + 1]) = 2) <=> frames[f] = "mac"
  <2> DEFINE k == frames[f]
  <2>1. /\ f \in DOMAIN frames /\ k \in DOMAIN Shape
        /\ TypeOf(m[p]) = Shape[k].type /\ FieldOf(m[p + 1]) = Shape[k].field
    BY WholeRead DEF WholeFrame
  <2> HIDE DEF k
  <2>2. /\ Shape[k].type = "D" <=> k = "data"
        /\ Shape[k].type = "C" <=> k = "conf"
        /\ (Shape[k].type = "P" /\ Shape[k].field = 2) <=> k = "mac"
    BY <2>1, KindRead
  <2>3. /\ TypeOf(m[p]) = "D" <=> k = "data"
        /\ TypeOf(m[p]) = "C" <=> k = "conf"
        /\ (TypeOf(m[p]) = "P" /\ FieldOf(m[p + 1]) = 2) <=> k = "mac"
    BY <2>1, <2>2
  <2> QED
    BY <2>1, <2>3 DEF k
<1> HIDE DEF h, end
<1>6. ASSUME TypeOf(m[p]) = "C", h = [s EXCEPT !.gsm = Append(s.gsm, Slice(m, p, end))]
      PROVE  GoodOut(h, B)
  <2> DEFINE v == Piece(f, 0, Size(f))
  <2>1. Slice(m, p, end) = v /\ Source(v) = f
    BY <1>5, <1>6, SliceOfMessage DEF end
  <2> HIDE DEF v
  <2>2. h.written = s.written /\ h.tap = s.tap /\ h.gsm = Append(s.gsm, v)
    BY <1>6, <2>1 DEF OutState
  <2>3. v \in Seq(Words)
    <3>1. DOMAIN h.gsm = 1..(Len(s.gsm) + 1) /\ h.gsm[Len(s.gsm) + 1] = v /\ Len(s.gsm) + 1 \in DOMAIN h.gsm
      BY <1>1, <2>2
    <3> QED
      BY <1>2, <3>1
  <2>4. Ordered(h.gsm) /\ Below(h.gsm, B)
    BY <1>1, <1>3, <2>1, <2>2, <2>3, OrderedMore, ZenonT(60)
  <2>5. Messages(h.gsm)
    <3>1. ASSUME NEW j \in DOMAIN h.gsm
          PROVE  LET e == Source(h.gsm[j]) IN
                 e \in DOMAIN frames /\ frames[e] = "conf" /\ h.gsm[j] = Piece(e, 0, Size(e))
      <4>1. CASE j \in DOMAIN s.gsm
        <5>1. h.gsm[j] = s.gsm[j]
          BY <1>1, <2>2, <4>1
        <5> QED
          BY <1>3, <4>1, <5>1 DEF Messages
      <4>2. CASE j \notin DOMAIN s.gsm
        <5>1. h.gsm[j] = v
          BY <1>1, <2>2, <4>2
        <5> QED
          BY <1>5, <1>6, <2>1, <5>1 DEF v
      <4> QED
        BY <4>1, <4>2
    <3> QED
      BY <3>1 DEF Messages
  <2> QED
    BY <1>3, <1>4, <2>2, <2>4, <2>5 DEF GoodOut, Addressed
<1>7. ASSUME TypeOf(m[p]) = "D", h = [s EXCEPT !.written = Append(s.written, Slice(m, p + 3, end))]
      PROVE  GoodOut(h, B)
  <2> DEFINE v == Packet(f)
  <2>1. Slice(m, p + 3, end) = v /\ Source(v) = f
    BY <1>5, <1>7, SliceOfPacket DEF end
  <2> HIDE DEF v
  <2>2. h.gsm = s.gsm /\ h.tap = s.tap /\ h.written = Append(s.written, v)
    BY <1>7, <2>1 DEF OutState
  <2>3. v \in Seq(Words)
    <3>1. /\ DOMAIN h.written = 1..(Len(s.written) + 1) /\ h.written[Len(s.written) + 1] = v
          /\ Len(s.written) + 1 \in DOMAIN h.written
      BY <1>1, <2>2
    <3> QED
      BY <1>2, <3>1
  <2>4. /\ Ordered(h.written) /\ Below(h.written, B)
        /\ \A e : Above(s.written, e) /\ e < f => Above(h.written, e)
    BY <1>1, <1>3, <2>1, <2>2, <2>3, OrderedMore, ZenonT(60)
  <2>5. Packets(h.written)
    <3>1. ASSUME NEW j \in DOMAIN h.written
          PROVE  LET e == Source(h.written[j]) IN
                 e \in DOMAIN frames /\ frames[e] = "data" /\ h.written[j] = Packet(e)
      <4>1. CASE j \in DOMAIN s.written
        <5>1. h.written[j] = s.written[j]
          BY <1>1, <2>2, <4>1
        <5> QED
          BY <1>3, <4>1, <5>1 DEF Packets
      <4>2. CASE j \notin DOMAIN s.written
        <5>1. h.written[j] = v
          BY <1>1, <2>2, <4>2
        <5> QED
          BY <1>5, <1>7, <2>1, <5>1 DEF v
      <4> QED
        BY <4>1, <4>2
    <3> QED
      BY <3>1 DEF Packets
  <2>6. Addressed(h, B)
    BY <1>3, <2>2, <2>4 DEF Addressed
  <2> QED
    BY <1>3, <1>4, <2>2, <2>4, <2>5, <2>6 DEF GoodOut
<1>8. ASSUME TypeOf(m[p]) = "P", FieldOf(m[p + 1]) = 2,
             h = [s EXCEPT !.tap = tap_set_macaddr(s.tap, Slice(m, p + 4, p + 5), hwOK, upOK)]
      PROVE  GoodOut(h, B)
  <2> DEFINE a == Address(f)
  <2>1. frames[f] = "mac" /\ Slice(m, p + 4, p + 5) = a
    BY <1>5, <1>8, SliceOfAddress
  <2>2. a \in Seq(Words) \/ h.tap.hwaddr = s.tap.hwaddr
    <3>1. h.tap = tap_set_macaddr(s.tap, a, hwOK, upOK)
      BY <1>8, <2>1 DEF OutState
    <3> DEFINE cond == s.tap.started /\ ~s.tap.up /\ hwOK
    <3>2. h.tap.hwaddr = IF cond THEN a ELSE s.tap.hwaddr
      BY <1>1, <3>1 DEF tap_set_macaddr, Tap
    <3> HIDE DEF cond, a
    <3>3. h.tap.hwaddr \in Seq(Words)
      BY <1>2 DEF Tap
    <3> QED
      BY <3>2, <3>3
  <2>3. h.gsm = s.gsm /\ h.written = s.written /\ h.tap = tap_set_macaddr(s.tap, a, hwOK, upOK)
    BY <1>8, <2>1 DEF OutState
  <2> HIDE DEF a
  <2>4. h.tap.hwaddr = s.tap.hwaddr \/ (h.tap.hwaddr = a /\ ~s.tap.up)
    BY <1>1, <2>2, <2>3, TapSet
  <2>5. Addressed(h, B)
    <3>1. CASE h.tap.hwaddr = s.tap.hwaddr
      BY <1>4, <2>3, <3>1 DEF Addressed
    <3>2. CASE h.tap.hwaddr = a /\ ~s.tap.up
      <4>1. s.written = << >>
        BY <3>2 DEF Quiet
      <4>2. Above(h.written, f)
        BY <2>3, <4>1 DEF Above
      <4> QED
        BY <1>5, <2>1, <3>2, <4>2 DEF Addressed, a
    <3> QED
      BY <2>4, <3>1, <3>2
  <2> QED
    BY <1>3, <1>4, <2>3, <2>5 DEF GoodOut
<1>9. ASSUME h = s PROVE GoodOut(h, B)
  <2>1. GoodOut(s, B)
    BY <1>3, <1>4 DEF GoodOut
  <2> QED
    BY <1>9, <2>1
<1>10. \/ TypeOf(m[p]) = "C" /\ h = [s EXCEPT !.gsm = Append(s.gsm, Slice(m, p, end))]
       \/ TypeOf(m[p]) = "D" /\ s.tap.up /\ h = [s EXCEPT !.written = Append(s.written, Slice(m, p + 3, end))]
       \/ /\ TypeOf(m[p]) = "P" /\ FieldOf(m[p + 1]) = 2
          /\ h = [s EXCEPT !.tap = tap_set_macaddr(s.tap, Slice(m, p + 4, p + 5), hwOK, upOK)]
       \/ h = s
  BY HandleCases DEF h, end
<1>11. GoodOut(h, B)
  BY <1>6, <1>7, <1>8, <1>9, <1>10
<1> QED
  BY <1>11 DEF h

-----------------------------------------------------------------------------
(* The outputs of a whole transfer.                                        *)

\* Where Walk finds frames, with or without any.
LEMMA WalkSound ==
  ASSUME FramesOK, BufSize \in Nat, NEW m, MemOK(m), NEW n \in Nat, n <= BufSize
  PROVE  LET w == Walk(m, n) IN
         /\ w \in Seq(Nat)
         /\ \A j \in 1..Len(w) : w[j] < n /\ Starts(m[w[j]])
         /\ \A j, l \in 1..Len(w) : j < l => w[j] < w[l]
         /\ n >= 2 => IsWalk(m, n, w, 0)
<1>1. CASE n < 2
  <2>1. Walk(m, n) = << >>
    BY <1>1, WalkIsFrom
  <2> QED
    BY <1>1, <2>1
<1>2. CASE n >= 2
  <2>1. \A p \in Nat : p < n => CheckLen(m, p) \in 2..5
    BY CheckLenTyped
  <2>2. IsWalk(m, n, Walk(m, n), 0)
    BY <1>2, <2>1, WalkFinds
  <2> QED
    BY <2>2 DEF IsWalk
<1> QED
  BY <1>1, <1>2

LEMMA NotEmpty == ASSUME NEW s, Len(s) = 1 PROVE s # << >>
<1>1. Len(<< >>) = 0
  OBVIOUS
<1> QED
  BY <1>1

\* Two things that every frame keeps, whole or not.
LEMMA HandleQuiet ==
  ASSUME FramesOK, BufSize \in Nat, NEW m, MemOK(m), NEW s \in OutState,
         NEW p \in Nat, p < BufSize, NEW hwOK \in BOOLEAN, NEW upOK \in BOOLEAN
  PROVE  LET h == Handle(m, s, p, hwOK, upOK) IN
         /\ Quiet(s) => Quiet(h)
         /\ s.tap.up => h.tap.up
         /\ hwOK /\ (s.tap.up => s.tap.hwaddr # << >>) => (h.tap.up => h.tap.hwaddr # << >>)
<1> DEFINE h == Handle(m, s, p, hwOK, upOK)
           a == Slice(m, p + 4, p + 5)
<1>1. s.tap \in Tap
  BY DEF OutState
<1>2. \/ h.tap = s.tap /\ (s.written = << >> /\ ~s.tap.up => h.written = << >>)
      \/ h.tap = tap_set_macaddr(s.tap, a, hwOK, upOK) /\ h.written = s.written
  <2>1. \/ h = [s EXCEPT !.gsm = Append(s.gsm, Slice(m, p, p + CheckLen(m, p)))]
        \/ s.tap.up /\ h = [s EXCEPT !.written = Append(s.written, Slice(m, p + 3, p + CheckLen(m, p)))]
        \/ h = [s EXCEPT !.tap = tap_set_macaddr(s.tap, a, hwOK, upOK)]
        \/ h = s
    BY HandleCases
  <2> HIDE DEF h, a
  <2> QED
    BY <2>1 DEF OutState
<1>3. a \in Seq(Words) /\ Len(a) = 1
  <2>1. p + 4 \in Nat /\ p + 5 \in Nat /\ p + 4 <= p + 5 /\ p + 5 <= BufSize + 5 /\ (p + 5) - (p + 4) = 1
    OBVIOUS
  <2> QED
    BY <2>1, SliceTyped
<1> HIDE DEF h, a
<1>4. a # << >>
  BY <1>3, NotEmpty
<1>5. CASE h.tap = s.tap /\ (s.written = << >> /\ ~s.tap.up => h.written = << >>)
  BY <1>5 DEF Quiet, h
<1>6. CASE h.tap = tap_set_macaddr(s.tap, a, hwOK, upOK) /\ h.written = s.written
  <2> DEFINE u == tap_set_macaddr(s.tap, a, hwOK, upOK)
  <2>1. /\ u \in Tap
        /\ s.tap.up => u.up /\ u.hwaddr = s.tap.hwaddr
        /\ (hwOK /\ u.up /\ ~s.tap.up) => u.hwaddr = a
    BY <1>1, <1>3, TapSet
  <2>2. h.tap = u
    BY <1>6
  <2> HIDE DEF u
  <2> QED
    BY <1>4, <1>6, <2>1, <2>2 DEF Quiet, h
<1> QED
  BY <1>2, <1>5, <1>6

LEMMA OutputsTyped ==
  ASSUME FramesOK, BufSize \in Nat, NEW m, MemOK(m), NEW n \in Nat, n <= BufSize,
         NEW hwOK \in BOOLEAN, NEW upOK \in BOOLEAN, Before \in OutState, Quiet(Before),
         NEW w, w = Walk(m, n), NEW st, Outcome(m, w, hwOK, upOK, st)
  PROVE  \A k \in 0..Len(w) :
           /\ st[k] \in OutState /\ Quiet(st[k])
           /\ tap.up => st[k].tap.up
           /\ hwOK /\ (tap.up => tap.hwaddr # << >>) => (st[k].tap.up => st[k].tap.hwaddr # << >>)
<1>1. w \in Seq(Nat) /\ Len(w) \in Nat /\ \A j \in 1..Len(w) : w[j] \in Nat /\ w[j] < BufSize
  <2>1. w \in Seq(Nat) /\ \A j \in 1..Len(w) : w[j] < n
    BY WalkSound
  <2>2. \A j \in 1..Len(w) : w[j] \in Nat
    BY <2>1
  <2>3. Len(w) \in Nat
    BY <2>1
  <2> QED
    BY <2>1, <2>2, <2>3
<1> DEFINE Right(s) ==
             /\ s \in OutState /\ Quiet(s)
             /\ tap.up => s.tap.up
             /\ hwOK /\ (tap.up => tap.hwaddr # << >>) => (s.tap.up => s.tap.hwaddr # << >>)
           T == {k \in 0..Len(w) : ~Right(st[k])}
<1>2. Right(st[0])
  <2>1. st[0] = Before
    BY DEF Outcome
  <2>2. Before.tap = tap
    BY DEF Before
  <2> QED
    BY <2>1, <2>2
<1>3. ASSUME NEW s, Right(s), NEW j \in 1..Len(w) PROVE Right(Handle(m, s, w[j], hwOK, upOK))
  <2>1. w[j] \in Nat /\ w[j] < BufSize
    BY <1>1
  <2> DEFINE h == Handle(m, s, w[j], hwOK, upOK)
  <2>2. h \in OutState
    BY <1>3, <2>1, HandleTyped
  <2>3. /\ Quiet(s) => Quiet(h)
        /\ s.tap.up => h.tap.up
        /\ hwOK /\ (s.tap.up => s.tap.hwaddr # << >>) => (h.tap.up => h.tap.hwaddr # << >>)
    BY <1>3, <2>1, HandleQuiet
  <2> HIDE DEF h
  <2>4. Right(h)
    BY <1>3, <2>2, <2>3, Zenon
  <2> QED
    BY <2>4 DEF h
<1> HIDE DEF Right
<1>4. ASSUME T # {} PROVE FALSE
  <2>1. T \in SUBSET Nat
    BY <1>1
  <2>2. PICK k \in T : \A j \in T : k <= j
    BY <1>4, <2>1, LeastNumber
  <2>3. k \in 0..Len(w) /\ k # 0 /\ ~Right(st[k])
    BY <1>2, <2>2
  <2>4. k - 1 \in 0..Len(w) /\ k \in 1..Len(w) /\ ~(k <= k - 1)
    BY <1>1, <2>3
  <2>5. Right(st[k - 1])
    BY <2>2, <2>4
  <2>6. st[k] = Handle(m, st[k - 1], w[k], hwOK, upOK)
    BY <2>4 DEF Outcome
  <2> QED
    BY <1>3, <2>3, <2>4, <2>5, <2>6
<1>5. \A k \in 0..Len(w) : Right(st[k])
  BY <1>4
<1> QED
  BY <1>5 DEF Right

-----------------------------------------------------------------------------
(* The words in the endpoint.                                              *)

\* Every word is followed by the rest of its frame, a frame by the next one, and the
\* frames are in the order they were sent in.
WireWords == \A j \in DOMAIN wire : wire[j].f \in DOMAIN frames /\ wire[j].o < Size(wire[j].f)

Runs == \A j \in DOMAIN wire : \A q \in 1..4 :
          wire[j].o + q < Size(wire[j].f) =>
            j + q \in DOMAIN wire /\ wire[j + q] = [f |-> wire[j].f, o |-> wire[j].o + q]

Succ == \A j \in DOMAIN wire : \A q \in 1..5 :
          wire[j].o + q = Size(wire[j].f) /\ j + q \in DOMAIN wire => wire[j + q].o = 0

InOrder == \A j, l \in DOMAIN wire : j < l =>
             /\ wire[j].f <= wire[l].f
             /\ wire[l].o = 0 => wire[j].f < wire[l].f

WireInv == WireWords /\ Runs /\ Succ /\ InOrder

\* The frames from place j on.
Coming(j) == {wire[l].f : l \in {x \in DOMAIN wire : x >= j}}

LinkInv ==
  /\ TypeOK /\ WireInv
  /\ \A j \in 0..(BufSize - 1) : WordOK(buf[j])
  /\ Quiet(Before)
  /\ ("ioctl" \notin past /\ tap.up) => tap.hwaddr # << >>
  /\ "cut" \notin past => /\ wire # << >> => wire[1].o = 0
                          /\ GoodOut(Before, Coming(1))

LEMMA TypesOfState ==
  ASSUME TypeOK
  PROVE  /\ FramesOK /\ BufSize \in Nat /\ MaxFrames \in Nat
         /\ wire \in Seq(Words) /\ Len(wire) \in Nat /\ DOMAIN wire = 1..Len(wire)
         /\ \A j \in DOMAIN wire : wire[j] \in Words /\ wire[j].f \in Nat /\ wire[j].o \in 0..4
         /\ Before \in OutState
<1>1. frames \in Seq(DOMAIN Shape) /\ Len(frames) <= MaxFrames /\ BufSize \in Nat /\ MaxFrames \in Nat
  <2>1. \A j \in 1..Len(frames) : frames[j] \in DOMAIN Shape
    BY LinkAssumption DEF TypeOK
  <2> QED
    BY <2>1, LinkAssumption DEF TypeOK
<1>2. wire \in Seq(Words)
  BY DEF TypeOK
<1>3. \A j \in DOMAIN wire : wire[j] \in Words
  BY <1>2
<1>4. \A x \in Words : x.f \in Nat /\ x.o \in 0..4
  BY <1>1 DEF Words
<1>5. Before \in OutState
  BY DEF TypeOK, Before, OutState, Tap
<1> QED
  BY <1>1, <1>2, <1>3, <1>4, <1>5 DEF FramesOK

\* What the modem receives with n words: every frame that begins in them is whole.
LEMMA FramesWhole ==
  ASSUME TypeOK, WireInv, NEW n \in DOMAIN wire, Whole(n), NEW m,
         \A q \in 0..(n - 1) : m[q] = wire[q + 1],
         NEW p \in Nat, p < n, Starts(m[p])
  PROVE  WholeFrame(m, p, wire[p + 1].f)
<1> DEFINE f == wire[p + 1].f
           z == Size(f)
<1>1. n \in Nat /\ p + 1 \in DOMAIN wire /\ m[p] = wire[p + 1] /\ Len(wire) \in Nat /\ DOMAIN wire = 1..Len(wire)
  <2>1. DOMAIN wire = 1..Len(wire) /\ Len(wire) \in Nat
    BY TypesOfState
  <2>2. p \in 0..(n - 1) /\ p + 1 \in 1..Len(wire) /\ n \in Nat
    BY <2>1
  <2> QED
    BY <2>1, <2>2
<1>2. wire[p + 1] \in Words /\ wire[p + 1].o = 0 /\ f \in DOMAIN frames
  BY <1>1, TypesOfState DEF Starts, WireInv, WireWords
<1>3. m[p] = [f |-> f, o |-> 0]
  BY <1>1, <1>2 DEF Words
<1>4. z \in 3..5
  BY <1>2, TypesOfState, FrameShape DEF Size
<1> HIDE DEF z
<1>5. ASSUME NEW q \in 1..4, q < z PROVE m[p + q] = [f |-> f, o |-> q]
  <2>1. \A r \in 1..4 : r < z => (p + 1) + r \in DOMAIN wire /\ wire[(p + 1) + r] = [f |-> f, o |-> r]
    <3>1. ASSUME NEW r \in 1..4, r < z
          PROVE  (p + 1) + r \in DOMAIN wire /\ wire[(p + 1) + r] = [f |-> f, o |-> r]
      <4>1. wire[p + 1].o + r = r
        BY <1>2
      <4>2. wire[p + 1].o + r < Size(wire[p + 1].f)
        BY <3>1, <4>1 DEF z
      <4> QED
        BY <1>1, <4>1, <4>2, ZenonT(60) DEF WireInv, Runs
    <3> QED
      BY <3>1
  <2>2. CASE p + q < n
    <3>1. p + q \in 0..(n - 1) /\ (p + q) + 1 = (p + 1) + q
      BY <1>1, <2>2
    <3>2. m[p + q] = wire[(p + q) + 1]
      BY <3>1
    <3> QED
      BY <1>5, <2>1, <3>1, <3>2
  <2>3. CASE ~(p + q < n)
    <3>1. PICK r \in 1..4 : (p + 1) + r = n + 1 /\ r <= q
      <4>1. n - p \in 1..4 /\ (p + 1) + (n - p) = n + 1 /\ n - p <= q
        BY <1>1, <2>3
      <4> QED
        BY <4>1
    <3>2. r < z
      BY <1>4, <1>5, <3>1
    <3>3. n + 1 \in DOMAIN wire /\ wire[n + 1] = [f |-> f, o |-> r]
      BY <2>1, <3>1, <3>2
    <3>4. n < Len(wire) /\ wire[n + 1].o = r
      BY <1>1, <3>3
    <3> QED
      BY <3>4 DEF Whole
  <2> QED
    BY <2>2, <2>3
<1> QED
  BY <1>2, <1>3, <1>5 DEF WholeFrame, z

\* The bounds of frame k of a transfer: the frames found behind it, and those behind
\* the transfer.
Behind(w, k, n) == {wire[l].f : l \in {x \in DOMAIN wire : x >= n + 1 \/ (\E j \in 1..Len(w) : j > k /\ x = w[j] + 1)}}

\* A transfer that ends with a whole frame hands over whole frames, in order.
LEMMA OutputsWhole ==
  ASSUME TypeOK, WireInv, NEW n \in DOMAIN wire, n <= BufSize, Whole(n), NEW m, MemOK(m),
         \A q \in 0..(n - 1) : m[q] = wire[q + 1],
         NEW hwOK \in BOOLEAN, NEW upOK \in BOOLEAN,
         GoodOut(Before, Coming(1)), Quiet(Before),
         NEW w, w = Walk(m, n), NEW st, Outcome(m, w, hwOK, upOK, st)
  PROVE  GoodOut(st[Len(w)], Coming(n + 1))
<1>1. /\ FramesOK /\ BufSize \in Nat /\ Before \in OutState
      /\ Len(wire) \in Nat /\ DOMAIN wire = 1..Len(wire) /\ n \in Nat
  BY TypesOfState
<1>2. /\ w \in Seq(Nat)
      /\ \A j \in 1..Len(w) : w[j] < n /\ Starts(m[w[j]])
      /\ \A j, l \in 1..Len(w) : j < l => w[j] < w[l]
  BY <1>1, WalkSound
<1>3. Len(w) \in Nat /\ \A j \in 1..Len(w) : w[j] \in Nat
  BY <1>2
<1>4. \A k \in 0..Len(w) : st[k] \in OutState /\ Quiet(st[k])
  BY <1>1, OutputsTyped
<1>5. \A S, B, s : B \subseteq S /\ GoodOut(s, S) => GoodOut(s, B)
  BY DEF GoodOut, Below, Addressed
<1> DEFINE T == {k \in 0..Len(w) : ~GoodOut(st[k], Behind(w, k, n))}
<1>6. GoodOut(st[0], Behind(w, 0, n))
  <2>1. \A x \in DOMAIN wire : x >= 1
    BY <1>1
  <2>2. Behind(w, 0, n) \subseteq Coming(1)
    BY <2>1 DEF Behind, Coming
  <2>3. st[0] = Before
    BY DEF Outcome
  <2> QED
    BY <1>5, <2>2, <2>3
<1>7. ASSUME NEW k \in 1..Len(w), GoodOut(st[k - 1], Behind(w, k - 1, n))
      PROVE  GoodOut(st[k], Behind(w, k, n))
  <2> DEFINE p == w[k]
             f == wire[p + 1].f
             B == Behind(w, k, n)
  <2>1. p \in Nat /\ p < n /\ Starts(m[p])
    BY <1>2, <1>3
  <2>2. WholeFrame(m, p, f)
    BY <1>1, <2>1, FramesWhole
  <2>3. p + 1 \in DOMAIN wire
    BY <1>1, <2>1
  <2>4. f \in Behind(w, k - 1, n)
    <3>1. k > k - 1
      BY <1>3
    <3>2. p + 1 \in {x \in DOMAIN wire : x >= n + 1 \/ (\E j \in 1..Len(w) : j > k - 1 /\ x = w[j] + 1)}
      BY <2>3, <3>1
    <3> QED
      BY <3>2 DEF Behind
  <2>5. B \subseteq Behind(w, k - 1, n)
    <3>1. \A j \in 1..Len(w) : j > k => j > k - 1
      BY <1>3
    <3> QED
      BY <3>1 DEF Behind
  <2>6. \A b \in B : f < b
    <3>1. ASSUME NEW x \in DOMAIN wire,
                 x >= n + 1 \/ (\E j \in 1..Len(w) : j > k /\ x = w[j] + 1)
          PROVE  f < wire[x].f
      <4>1. CASE x >= n + 1
        <5>1. n + 1 \in DOMAIN wire /\ n < Len(wire) /\ p + 1 < n + 1
          BY <1>1, <2>1, <4>1
        <5>2. wire[n + 1].o = 0
          BY <5>1 DEF Whole
        <5>3. f < wire[n + 1].f
          BY <2>3, <5>1, <5>2 DEF WireInv, InOrder
        <5>4. wire[n + 1].f <= wire[x].f
          <6>1. CASE x = n + 1
            BY <5>1, <6>1, TypesOfState
          <6>2. CASE x # n + 1
            <7>1. n + 1 < x
              BY <1>1, <4>1, <6>2
            <7> QED
              BY <5>1, <7>1 DEF WireInv, InOrder
          <6> QED
            BY <6>1, <6>2
        <5>5. f \in Nat /\ wire[n + 1].f \in Nat /\ wire[x].f \in Nat
          BY <2>3, <5>1, TypesOfState
        <5> HIDE DEF f
        <5> QED
          BY <5>3, <5>4, <5>5
      <4>2. ASSUME NEW j \in 1..Len(w), j > k, x = w[j] + 1 PROVE f < wire[x].f
        <5>1. p < w[j]
          BY <1>2, <1>3, <4>2
        <5>2. p + 1 < x
          BY <1>3, <2>1, <4>2, <5>1
        <5>3. wire[x].o = 0
          <6>1. w[j] \in 0..(n - 1) /\ Starts(m[w[j]])
            BY <1>1, <1>2, <1>3
          <6>2. m[w[j]] = wire[x]
            BY <4>2, <6>1
          <6> QED
            BY <6>1, <6>2 DEF Starts
        <5> QED
          BY <2>3, <5>2, <5>3 DEF WireInv, InOrder
      <4> QED
        BY <3>1, <4>1, <4>2
    <3> QED
      BY <3>1 DEF Behind
  <2>7. st[k] = Handle(m, st[k - 1], p, hwOK, upOK)
    BY DEF Outcome
  <2>8. k - 1 \in 0..Len(w) /\ k \in 0..Len(w)
    BY <1>3
  <2>9. st[k - 1] \in OutState /\ Quiet(st[k - 1]) /\ st[k] \in OutState
    BY <1>4, <2>8
  <2>10. GoodOut(st[k - 1], {f} \cup B)
    BY <1>5, <1>7, <2>4, <2>5
  <2> HIDE DEF p, f, B
  <2>11. GoodOut(Handle(m, st[k - 1], p, hwOK, upOK), B)
    BY <1>1, <2>1, <2>2, <2>6, <2>7, <2>9, <2>10, HandleWhole
  <2> QED
    BY <2>7, <2>11 DEF B
<1>8. ASSUME T # {} PROVE FALSE
  <2>1. T \in SUBSET Nat
    BY <1>3
  <2>2. PICK k \in T : \A j \in T : k <= j
    BY <1>8, <2>1, LeastNumber
  <2>3. k \in 0..Len(w) /\ k # 0
    BY <1>6, <2>2
  <2>4. k - 1 \in 0..Len(w) /\ k \in 1..Len(w) /\ ~(k <= k - 1)
    BY <1>3, <2>3
  <2>5. GoodOut(st[k - 1], Behind(w, k - 1, n))
    BY <2>2, <2>4
  <2> QED
    BY <1>7, <2>2, <2>4, <2>5
<1>9. GoodOut(st[Len(w)], Behind(w, Len(w), n))
  <2>1. Len(w) \in 0..Len(w)
    BY <1>3
  <2> QED
    BY <1>8, <2>1
<1>10. Coming(n + 1) \subseteq Behind(w, Len(w), n)
  BY DEF Coming, Behind
<1> QED
  BY <1>5, <1>9, <1>10

-----------------------------------------------------------------------------
(* The steps.                                                              *)

LEMMA InitLink == Init => LinkInv
<1> SUFFICES ASSUME Init PROVE LinkInv
  OBVIOUS
<1>1. wire = << >> /\ frames = << >> /\ DOMAIN wire = {}
  BY DEF Init
<1>2. tap.started \in BOOLEAN /\ tap.up = FALSE /\ tap.hwaddr = << >> /\ tap \in Tap
  <2>1. tap \in [started : Outcomes("notap"), up : {FALSE}, hwaddr : {<< >>}]
    BY DEF Init
  <2>2. Outcomes("notap") \subseteq BOOLEAN
    BY DEF Outcomes
  <2>3. tap.started \in Outcomes("notap") /\ tap.up \in {FALSE} /\ tap.hwaddr \in {<< >>}
    BY <2>1
  <2>4. tap = [started |-> tap.started, up |-> tap.up, hwaddr |-> tap.hwaddr]
    BY <2>1
  <2>5. << >> \in Seq(Words)
    OBVIOUS
  <2>6. tap.started \in BOOLEAN /\ tap.up = FALSE /\ tap.hwaddr = << >>
    BY <2>2, <2>3, Zenon
  <2>7. tap.up \in BOOLEAN /\ tap.hwaddr \in Seq(Words)
    BY <2>5, <2>6, Zenon
  <2>8. tap \in Tap
    BY <2>4, <2>6, <2>7 DEF Tap
  <2> QED
    BY <2>6, <2>8
<1>3. TypeOK
  <2>1. buf \in [0..(BufSize - 1) -> Words]
    <3>1. [f |-> 0, o |-> 0] \in Words
      BY LinkAssumption DEF Words
    <3> QED
      BY <3>1 DEF Init
  <2>2. frames \in Seq(Kinds) /\ Len(frames) <= MaxFrames
    BY LinkAssumption DEF Init
  <2> QED
    BY <1>2, <2>1, <2>2 DEF Init, TypeOK, Tap
<1>4. WireInv
  BY <1>1 DEF WireInv, WireWords, Runs, Succ, InOrder
<1>5. \A j \in 0..(BufSize - 1) : WordOK(buf[j])
  BY DEF Init, WordOK
<1>6. Before.tap = tap /\ Before.written = << >> /\ Before.gsm = << >>
  BY DEF Init, Before
<1>7. Quiet(Before)
  BY <1>6 DEF Quiet
<1>8. GoodOut(Before, Coming(1))
  BY <1>2, <1>6 DEF GoodOut, Packets, Messages, Ordered, Below, Addressed
<1> QED
  BY <1>1, <1>2, <1>3, <1>4, <1>5, <1>7, <1>8 DEF LinkInv

\* The frames of before stay what they are when the modem sends one more.
LEMMA FramesMore ==
  ASSUME FramesOK, NEW k \in Kinds, frames' = Append(frames, k)
  PROVE  /\ Len(frames') = Len(frames) + 1 /\ Len(frames) \in Nat
         /\ DOMAIN frames = 1..Len(frames) /\ DOMAIN frames' = 1..(Len(frames) + 1)
         /\ frames'[Len(frames) + 1] = k
         /\ \A f \in DOMAIN frames : f \in DOMAIN frames' /\ frames'[f] = frames[f] /\ Size(f)' = Size(f)
<1>1. frames \in Seq(DOMAIN Shape)
  BY DEF FramesOK
<1>2. \A f \in DOMAIN frames : f \in DOMAIN frames' /\ frames'[f] = frames[f]
  BY <1>1
<1>3. \A f \in DOMAIN frames : Size(f)' = Size(f)
  BY <1>2 DEF Size
<1> QED
  BY <1>1, <1>2, <1>3

\* Good outputs stay good, also with the new frame still to come.
LEMMA GoodOutMore ==
  ASSUME FramesOK, NEW k \in Kinds, frames' = Append(frames, k),
         NEW s \in OutState, NEW B, NEW C, GoodOut(s, B), C \subseteq B \cup {Len(frames) + 1}
  PROVE  GoodOut(s, C)'
<1>1. /\ Len(frames) \in Nat /\ DOMAIN frames = 1..Len(frames)
      /\ \A f \in DOMAIN frames : f \in DOMAIN frames' /\ frames'[f] = frames[f] /\ Size(f)' = Size(f)
  BY FramesMore
<1>2. \A f \in DOMAIN frames : f < Len(frames) + 1
  BY <1>1
<1>3. \A f \in DOMAIN frames : Packet(f)' = Packet(f)
  BY <1>1 DEF Packet
<1>4. \A f \in DOMAIN frames : Piece(f, 0, Size(f))' = Piece(f, 0, Size(f))
  BY <1>1
<1>5. Packets(s.written)' /\ Below(s.written, C)'
  <2>1. Packets(s.written) /\ Below(s.written, B)
    BY DEF GoodOut
  <2> QED
    BY <1>1, <1>2, <1>3, <2>1 DEF Packets, Below
<1>6. Messages(s.gsm)' /\ Below(s.gsm, C)'
  <2>1. Messages(s.gsm) /\ Below(s.gsm, B)
    BY DEF GoodOut
  <2> QED
    BY <1>1, <1>2, <1>4, <2>1 DEF Messages, Below
<1>7. Addressed(s, C)'
  <2>1. Addressed(s, B)
    BY DEF GoodOut
  <2> QED
    BY <1>1, <1>2, <2>1 DEF Addressed
<1> QED
  BY <1>5, <1>6, <1>7 DEF GoodOut, Ordered

LEMMA WordsMore ==
  ASSUME FramesOK, NEW k \in Kinds, frames' = Append(frames, k), NEW w, WordOK(w)
  PROVE  WordOK(w)'
BY FramesMore DEF WordOK

LEMMA Concatenated ==
  ASSUME NEW S, NEW a \in Seq(S), NEW b \in Seq(S)
  PROVE  /\ a \o b \in Seq(S) /\ Len(a \o b) = Len(a) + Len(b) /\ DOMAIN (a \o b) = 1..(Len(a) + Len(b))
         /\ \A j \in 1..Len(a) : (a \o b)[j] = a[j]
         /\ \A j \in 1..Len(b) : (a \o b)[Len(a) + j] = b[j]
OBVIOUS

\* The words of a frame go behind those in the endpoint.
LEMMA WireMore ==
  ASSUME TypeOK, WireInv, NEW k \in Kinds, ModemSends(k)
  PROVE  /\ wire' \in Seq(Words) /\ WireInv'
         /\ Coming(1)' \subseteq Coming(1) \cup {Len(frames) + 1}
         /\ (wire # << >> => wire[1].o = 0) => (wire' # << >> => wire'[1].o = 0)
<1> DEFINE L == Len(wire)
           z == Shape[k].size
           g == Len(frames) + 1
           new == [j \in 1..z |-> [f |-> Len(frames) + 1, o |-> j - 1]]
<1>1. /\ FramesOK /\ L \in Nat /\ DOMAIN wire = 1..L /\ wire \in Seq(Words)
      /\ \A j \in DOMAIN wire : wire[j] \in Words /\ wire[j].f \in Nat /\ wire[j].o \in 0..4
  BY TypesOfState
<1>2. k \in DOMAIN Shape /\ z \in 3..5
  BY LinkAssumption, ShapeTyped
<1>3. Len(frames) < MaxFrames /\ frames' = Append(frames, k) /\ wire' = wire \o new
  BY DEF ModemSends
<1>4. /\ Len(frames) \in Nat /\ DOMAIN frames = 1..Len(frames) /\ DOMAIN frames' = 1..g
      /\ frames'[g] = k
      /\ \A f \in DOMAIN frames : f \in DOMAIN frames' /\ frames'[f] = frames[f] /\ Size(f)' = Size(f)
  BY <1>1, <1>3, FramesMore
<1>5. g \in DOMAIN frames' /\ g \in 0..MaxFrames /\ g \in Nat
  BY <1>3, <1>4, TypesOfState
<1> HIDE DEF z
<1>6. new \in Seq(Words) /\ Len(new) = z
  <2>1. \A j \in 1..z : [f |-> g, o |-> j - 1] \in Words
    BY <1>2, <1>5 DEF Words
  <2>2. new \in [1..z -> Words] /\ z \in Nat
    BY <1>2, <2>1
  <2> HIDE DEF new
  <2> QED
    BY <2>2
<1>7. \A j \in 1..z : new[j] = [f |-> g, o |-> j - 1]
  OBVIOUS
<1> HIDE DEF new, g
<1>8. /\ wire' \in Seq(Words) /\ Len(wire') = L + z /\ DOMAIN wire' = 1..(L + z)
      /\ \A j \in 1..L : wire'[j] = wire[j]
      /\ \A j \in 1..z : wire'[L + j] = new[j]
  <2>1. wire' = wire \o new /\ wire \in Seq(Words) /\ Len(wire) = L /\ new \in Seq(Words) /\ Len(new) = z
    BY <1>1, <1>3, <1>6
  <2> HIDE DEF L
  <2>2. PICK a, b : a = wire /\ b = new
    OBVIOUS
  <2>3. a \in Seq(Words) /\ b \in Seq(Words)
    BY <2>1, <2>2
  <2>4. /\ a \o b \in Seq(Words) /\ Len(a \o b) = Len(a) + Len(b) /\ DOMAIN (a \o b) = 1..(Len(a) + Len(b))
        /\ \A j \in 1..Len(a) : (a \o b)[j] = a[j]
        /\ \A j \in 1..Len(b) : (a \o b)[Len(a) + j] = b[j]
    BY <2>3, Concatenated
  <2>5. a \o b = wire' /\ Len(a) = L /\ Len(b) = z
    BY <2>1, <2>2
  <2> QED
    BY <2>2, <2>4, <2>5, Zenon
<1> HIDE DEF L
<1>9. ASSUME NEW j \in (L + 1)..(L + z)
      PROVE  wire'[j] = [f |-> g, o |-> j - L - 1] /\ wire'[j].f = g /\ wire'[j].o = j - L - 1
  <2>1. PICK i \in 1..z : j = L + i
    <3>1. j - L \in 1..z /\ j = L + (j - L)
      BY <1>1, <1>2
    <3> QED
      BY <3>1
  <2>2. wire'[j] = [f |-> g, o |-> i - 1] /\ j - L - 1 = i - 1
    BY <1>1, <1>7, <1>8, <2>1
  <2> QED
    BY <2>2
<1>10. \A j \in DOMAIN wire' : j \in 1..L \/ j \in (L + 1)..(L + z)
  BY <1>1, <1>2, <1>8
<1>11. \A j \in 1..L : wire'[j] = wire[j] /\ wire[j].f \in DOMAIN frames /\ Size(wire[j].f)' = Size(wire[j].f)
                       /\ wire[j].o < Size(wire[j].f)
  BY <1>1, <1>4, <1>8 DEF WireInv, WireWords
<1>12. Shape[frames'[g]].size = z
  BY <1>4 DEF z
<1> DEFINE size(f) == Shape[frames'[f]].size
<1>13. \A j \in 1..L : size(wire[j].f) = Size(wire[j].f)
  BY <1>4, <1>11 DEF Size
<1>14. \A j \in (L + 1)..(L + z) : size(wire'[j].f) = z
  BY <1>9, <1>12
<1> HIDE DEF size
<1>15. \A j \in DOMAIN wire' : wire'[j].f \in DOMAIN frames' /\ wire'[j].o < size(wire'[j].f)
  <2>1. ASSUME NEW j \in (L + 1)..(L + z) PROVE wire'[j].f \in DOMAIN frames' /\ wire'[j].o < size(wire'[j].f)
    <3>1. wire'[j].f = g /\ wire'[j].o = j - L - 1 /\ size(wire'[j].f) = z
      BY <1>9, <1>14
    <3>2. j - L - 1 < z
      BY <1>1, <1>2
    <3> QED
      BY <1>5, <3>1, <3>2
  <2> QED
    BY <1>4, <1>10, <1>11, <1>13, <2>1
<1>16. ASSUME NEW j \in DOMAIN wire', NEW q \in 1..4, wire'[j].o + q < size(wire'[j].f)
       PROVE  j + q \in DOMAIN wire' /\ wire'[j + q] = [f |-> wire'[j].f, o |-> wire'[j].o + q]
  <2>1. CASE j \in 1..L
    <3>1. wire'[j] = wire[j] /\ wire[j].o + q < Size(wire[j].f)
      BY <1>11, <1>13, <1>16, <2>1
    <3>2. j + q \in DOMAIN wire /\ wire[j + q] = [f |-> wire[j].f, o |-> wire[j].o + q]
      BY <1>1, <2>1, <3>1 DEF WireInv, Runs
    <3>3. j + q \in 1..L /\ j + q \in 1..(L + z)
      BY <1>1, <1>2, <3>2
    <3> QED
      BY <1>8, <3>1, <3>2, <3>3
  <2>2. CASE j \in (L + 1)..(L + z)
    <3>1. wire'[j].f = g /\ wire'[j].o = j - L - 1 /\ (j - L - 1) + q < z
      BY <1>9, <1>14, <1>16, <2>2
    <3>2. j + q \in (L + 1)..(L + z) /\ j + q \in 1..(L + z) /\ (j + q) - L - 1 = (j - L - 1) + q
      BY <1>1, <1>2, <2>2, <3>1
    <3>3. wire'[j + q] = [f |-> g, o |-> (j + q) - L - 1]
      BY <1>9, <3>2
    <3> QED
      BY <1>8, <3>1, <3>2, <3>3
  <2> QED
    BY <1>10, <2>1, <2>2
<1>17. ASSUME NEW j \in DOMAIN wire', NEW q \in 1..5,
              wire'[j].o + q = size(wire'[j].f), j + q \in DOMAIN wire'
       PROVE  wire'[j + q].o = 0
  <2>1. CASE j \in 1..L
    <3>1. wire'[j] = wire[j] /\ wire[j].o + q = Size(wire[j].f) /\ wire[j].o \in 0..4
      BY <1>1, <1>11, <1>13, <1>17, <2>1
    <3>2. CASE j + q \in 1..L
      BY <1>1, <1>8, <2>1, <3>1, <3>2 DEF WireInv, Succ
    <3>3. CASE j + q \notin 1..L
      <4>1. j + q = L + 1
        <5>1. CASE q = 1
          BY <1>1, <2>1, <3>3, <5>1
        <5>2. CASE q # 1
          <6>1. PICK r \in 1..4 : q = r + 1
            <7>1. q - 1 \in 1..4 /\ q = (q - 1) + 1
              BY <5>2
            <7> QED
              BY <7>1
          <6>2. wire[j].o + r < Size(wire[j].f)
            BY <3>1, <6>1
          <6>3. j + r \in 1..L
            BY <1>1, <2>1, <6>2 DEF WireInv, Runs
          <6> QED
            BY <1>1, <2>1, <3>3, <6>1, <6>3
        <5> QED
          BY <5>1, <5>2
      <4>2. L + 1 \in (L + 1)..(L + z) /\ (L + 1) - L - 1 = 0
        BY <1>1, <1>2
      <4> QED
        BY <1>9, <4>1, <4>2
    <3> QED
      BY <3>2, <3>3
  <2>2. CASE j \in (L + 1)..(L + z)
    <3>1. wire'[j].o = j - L - 1 /\ (j - L - 1) + q = z
      BY <1>9, <1>14, <1>17, <2>2
    <3>2. j + q \in 1..(L + z)
      BY <1>8, <1>17
    <3> QED
      BY <1>1, <1>2, <2>2, <3>1, <3>2, SMTT(60)
  <2> QED
    BY <1>10, <2>1, <2>2
<1>18. ASSUME NEW j \in DOMAIN wire', NEW l \in DOMAIN wire', j < l
       PROVE  /\ wire'[j].f <= wire'[l].f
              /\ wire'[l].o = 0 => wire'[j].f < wire'[l].f
  <2>1. CASE l \in 1..L
    <3>1. j \in 1..L
      <4>1. j \in 1..(L + z)
        BY <1>8
      <4> QED
        BY <1>1, <1>2, <1>18, <2>1, <4>1
    <3> QED
      BY <1>1, <1>8, <1>18, <2>1, <3>1 DEF WireInv, InOrder
  <2>2. CASE l \in (L + 1)..(L + z) /\ j \in 1..L
    <3>1. wire'[l].f = g /\ wire'[j] = wire[j] /\ wire[j].f \in 1..Len(frames)
      BY <1>4, <1>9, <1>11, <2>2
    <3>2. wire[j].f < g
      BY <1>4, <3>1 DEF g
    <3> QED
      BY <1>5, <3>1, <3>2
  <2>3. CASE l \in (L + 1)..(L + z) /\ j \in (L + 1)..(L + z)
    <3>1. wire'[l].f = g /\ wire'[j].f = g /\ wire'[l].o = l - L - 1
      BY <1>9, <2>3
    <3>2. l - L - 1 # 0
      BY <1>1, <1>2, <1>18, <2>3
    <3> QED
      BY <1>5, <3>1, <3>2
  <2> QED
    BY <1>10, <2>1, <2>2, <2>3
<1>19. WireInv'
  BY <1>15, <1>16, <1>17, <1>18 DEF WireInv, WireWords, Runs, Succ, InOrder, Size, size
<1>20. Coming(1)' \subseteq Coming(1) \cup {Len(frames) + 1}
  <2>1. ASSUME NEW l \in DOMAIN wire', l >= 1 PROVE wire'[l].f \in Coming(1) \cup {g}
    <3>1. CASE l \in 1..L
      BY <1>1, <1>11, <3>1 DEF Coming
    <3>2. CASE l \in (L + 1)..(L + z)
      BY <1>9, <3>2
    <3> QED
      BY <1>10, <3>1, <3>2
  <2>2. Coming(1)' = {wire'[l].f : l \in {x \in DOMAIN wire' : x >= 1}}
    BY DEF Coming
  <2> QED
    BY <2>1, <2>2 DEF g
<1>21. ASSUME wire # << >> => wire[1].o = 0 PROVE wire'[1].o = 0
  <2>1. CASE wire = << >>
    <3>1. L = 0
      BY <2>1 DEF L
    <3>2. 1 \in (L + 1)..(L + z) /\ 1 - L - 1 = 0
      BY <1>2, <3>1
    <3> QED
      BY <1>9, <3>2
  <2>2. CASE wire # << >>
    <3>1. 1 \in 1..L
      BY <1>1, <2>2 DEF L
    <3> QED
      BY <1>8, <1>21, <2>2, <3>1
  <2> QED
    BY <2>1, <2>2
<1> QED
  BY <1>8, <1>19, <1>20, <1>21

\* Good outputs that become the state.
LEMMA GoodOutNow ==
  ASSUME NEW s, NEW B, NEW C, GoodOut(s, B)', C \subseteq B,
         s.tap = tap', s.written = written', s.gsm = gsm', C = Coming(1)'
  PROVE  GoodOut(Before, Coming(1))'
<1>1. Before' = [tap |-> tap', written |-> written', gsm |-> gsm']
  BY DEF Before
<1>2. Before'.tap = s.tap /\ Before'.written = s.written /\ Before'.gsm = s.gsm
  BY <1>1
<1>3. /\ Packets(s.written)' /\ Ordered(s.written)' /\ Below(s.written, B)'
      /\ Messages(s.gsm)' /\ Ordered(s.gsm)' /\ Below(s.gsm, B)' /\ Addressed(s, B)'
  BY DEF GoodOut
<1>4. Packets(Before.written)' /\ Messages(Before.gsm)'
  BY <1>2, <1>3 DEF Packets, Messages
<1>5. Ordered(Before.written)' /\ Ordered(Before.gsm)'
  BY <1>2, <1>3 DEF Ordered
<1>6. Below(Before.written, Coming(1))' /\ Below(Before.gsm, Coming(1))'
  BY <1>2, <1>3 DEF Below
<1>7. Addressed(Before, Coming(1))'
  BY <1>2, <1>3 DEF Addressed, Above
<1> QED
  BY <1>4, <1>5, <1>6, <1>7 DEF GoodOut

LEMMA ModemSendsLink ==
  ASSUME LinkInv, NEW k \in Kinds, ModemSends(k)
  PROVE  LinkInv'
<1>1. TypeOK /\ WireInv /\ FramesOK /\ Before \in OutState
  BY TypesOfState DEF LinkInv
<1>2. frames' = Append(frames, k) /\ Len(frames) < MaxFrames /\ UNCHANGED <<buf, posted, tap, written, gsm, past>>
  BY DEF ModemSends
<1>3. /\ wire' \in Seq(Words) /\ WireInv'
      /\ Coming(1)' \subseteq Coming(1) \cup {Len(frames) + 1}
      /\ (wire # << >> => wire[1].o = 0) => (wire' # << >> => wire'[1].o = 0)
  BY <1>1, WireMore
<1>4. TypeOK'
  <2>1. frames' \in Seq(Kinds) /\ Len(frames') <= MaxFrames
    <3>1. frames \in Seq(Kinds) /\ Len(frames) \in Nat /\ MaxFrames \in Nat
      BY <1>1, TypesOfState DEF TypeOK
    <3>2. Len(frames') = Len(frames) + 1 /\ frames' \in Seq(Kinds)
      BY <1>2, <3>1
    <3> QED
      BY <1>2, <3>1, <3>2
  <2> QED
    BY <1>1, <1>2, <1>3, <2>1 DEF TypeOK
<1>5. \A j \in 0..(BufSize - 1) : WordOK(buf[j])'
  <2>1. ASSUME NEW j \in 0..(BufSize - 1) PROVE WordOK(buf[j])'
    <3>1. PICK w : w = buf[j]
      OBVIOUS
    <3>2. WordOK(w)
      BY <3>1 DEF LinkInv
    <3>3. WordOK(w)'
      BY <1>1, <1>2, <3>2, WordsMore
    <3>4. buf'[j] = w
      BY <1>2, <3>1
    <3> QED
      BY <3>3, <3>4 DEF WordOK
  <2> QED
    BY <2>1
<1>6. Before' = Before /\ (Quiet(Before) => Quiet(Before)')
  BY <1>2 DEF Before, Quiet
<1>7. ASSUME "cut" \notin past' PROVE (wire' # << >> => wire'[1].o = 0) /\ GoodOut(Before, Coming(1))'
  <2>1. GoodOut(Before, Coming(1)) /\ (wire # << >> => wire[1].o = 0)
    BY <1>2, <1>7 DEF LinkInv
  <2>2. PICK s : s = Before
    OBVIOUS
  <2>3. PICK B : B = Coming(1)
    OBVIOUS
  <2>4. PICK C : C = Coming(1)'
    OBVIOUS
  <2>5. GoodOut(s, C)'
    BY <1>1, <1>2, <1>3, <2>1, <2>2, <2>3, <2>4, GoodOutMore
  <2>6. s.tap = tap' /\ s.written = written' /\ s.gsm = gsm'
    BY <1>2, <2>2 DEF Before
  <2>7. GoodOut(Before, Coming(1))'
    BY <2>4, <2>5, <2>6, GoodOutNow
  <2> QED
    BY <1>3, <2>1, <2>7
<1>8. ("ioctl" \notin past' /\ tap'.up) => tap'.hwaddr # << >>
  BY <1>2 DEF LinkInv
<1> QED
  BY <1>3, <1>4, <1>5, <1>6, <1>7, <1>8 DEF LinkInv

\* Steps that leave the frames alone leave alone what is read from them.
LEMMA FramesKept ==
  ASSUME frames' = frames
  PROVE  /\ \A w : WordOK(w) => WordOK(w)'
         /\ \A s, B : GoodOut(s, B) => GoodOut(s, B)'
<1>1. \A w : WordOK(w) => WordOK(w)'
  BY DEF WordOK
<1>2. \A f : Size(f)' = Size(f) /\ Packet(f)' = Packet(f)
  BY DEF Size, Packet
<1>3. \A w : (Packets(w) => Packets(w)') /\ (Messages(w) => Messages(w)')
  BY <1>2 DEF Packets, Messages
<1>4. \A s, B : Addressed(s, B) => Addressed(s, B)'
  BY DEF Addressed
<1> QED
  BY <1>1, <1>3, <1>4 DEF GoodOut, Ordered, Below

\* An index counted from the first word that is left.
LEMMA ShiftedIndex ==
  ASSUME NEW n \in Nat, NEW j \in Nat \ {0}, NEW q \in 1..4, NEW L \in Nat, (n + j) + q \in 1..L
  PROVE  j + q \in 1..(L - n) /\ n + (j + q) = (n + j) + q
OBVIOUS

\* The words that are left keep their order.
LEMMA WireLess ==
  ASSUME TypeOK, WireInv, NEW n \in DOMAIN wire, frames' = frames,
         wire' = SubSeq(wire, n + 1, Len(wire))
  PROVE  /\ wire' \in Seq(Words) /\ WireInv'
         /\ Coming(1)' \subseteq Coming(n + 1)
         /\ Whole(n) => (wire' # << >> => wire'[1].o = 0)
<1> DEFINE L == Len(wire)
<1>1. /\ L \in Nat /\ DOMAIN wire = 1..L /\ wire \in Seq(Words) /\ n \in 1..L
  BY TypesOfState
<1>2. /\ wire' \in Seq(Words) /\ Len(wire') = L - n /\ DOMAIN wire' = 1..(L - n)
      /\ \A j \in 1..(L - n) : wire'[j] = wire[n + j]
  BY <1>1
<1> HIDE DEF L
<1>3. \A j \in 1..(L - n) : n + j \in DOMAIN wire
  BY <1>1
<1>4. \A f : Size(f)' = Size(f)
  BY DEF Size
<1>5. WireWords'
  <2>1. ASSUME NEW j \in DOMAIN wire' PROVE wire'[j].f \in DOMAIN frames /\ wire'[j].o < Shape[frames[wire'[j].f]].size
    <3>1. n + j \in DOMAIN wire /\ wire'[j] = wire[n + j]
      BY <1>2, <1>3
    <3>2. wire[n + j].f \in DOMAIN frames /\ wire[n + j].o < Size(wire[n + j].f)
      BY <3>1 DEF WireInv, WireWords
    <3> QED
      BY <3>1, <3>2 DEF Size
  <2> QED
    BY <2>1 DEF WireWords, Size
<1>6. Runs'
  <2>1. ASSUME NEW j \in DOMAIN wire', NEW q \in 1..4, wire'[j].o + q < Shape[frames[wire'[j].f]].size
        PROVE  j + q \in DOMAIN wire' /\ wire'[j + q] = [f |-> wire'[j].f, o |-> wire'[j].o + q]
    <3>1. n + j \in DOMAIN wire /\ wire'[j] = wire[n + j] /\ j \in 1..(L - n)
      BY <1>2, <1>3
    <3>2. wire[n + j].o + q < Size(wire[n + j].f)
      BY <2>1, <3>1 DEF Size
    <3>3. (n + j) + q \in DOMAIN wire /\ wire[(n + j) + q] = [f |-> wire[n + j].f, o |-> wire[n + j].o + q]
      BY <3>1, <3>2 DEF WireInv, Runs
    <3>4. j + q \in 1..(L - n) /\ n + (j + q) = (n + j) + q
      <4>1. (n + j) + q \in 1..L /\ n \in Nat /\ j \in Nat \ {0} /\ L \in Nat /\ q \in 1..4
        BY <1>1, <2>1, <3>1, <3>3, SMTT(60)
      <4> QED
        BY <4>1, ShiftedIndex
    <3> QED
      BY <1>2, <3>1, <3>3, <3>4
  <2> QED
    BY <2>1 DEF Runs, Size
<1>7. Succ'
  <2>1. ASSUME NEW j \in DOMAIN wire', NEW q \in 1..5, wire'[j].o + q = Shape[frames[wire'[j].f]].size,
               j + q \in DOMAIN wire'
        PROVE  wire'[j + q].o = 0
    <3>1. n + j \in DOMAIN wire /\ wire'[j] = wire[n + j] /\ j \in 1..(L - n)
      BY <1>2, <1>3
    <3>2. wire[n + j].o + q = Size(wire[n + j].f)
      BY <2>1, <3>1 DEF Size
    <3>3. n + (j + q) = (n + j) + q /\ n + (j + q) \in DOMAIN wire /\ wire'[j + q] = wire[n + (j + q)]
      <4>1. j + q \in 1..(L - n)
        BY <1>2, <2>1
      <4>2. n + (j + q) = (n + j) + q
        BY <1>1, <3>1
      <4> QED
        BY <1>2, <1>3, <4>1, <4>2
    <3> QED
      BY <3>1, <3>2, <3>3 DEF WireInv, Succ
  <2> QED
    BY <2>1 DEF Succ, Size
<1>8. InOrder'
  <2>1. ASSUME NEW j \in DOMAIN wire', NEW l \in DOMAIN wire', j < l
        PROVE  /\ wire'[j].f <= wire'[l].f
               /\ wire'[l].o = 0 => wire'[j].f < wire'[l].f
    <3>1. /\ n + j \in DOMAIN wire /\ wire'[j] = wire[n + j] /\ n + l \in DOMAIN wire /\ wire'[l] = wire[n + l]
          /\ n + j < n + l
      BY <1>1, <1>2, <1>3, <2>1, SMTT(60)
    <3> QED
      BY <3>1 DEF WireInv, InOrder
  <2> QED
    BY <2>1 DEF InOrder
<1>9. Coming(1)' \subseteq Coming(n + 1)
  <2>1. ASSUME NEW l \in DOMAIN wire' PROVE wire'[l].f \in Coming(n + 1)
    <3>1. n + l \in DOMAIN wire /\ wire'[l] = wire[n + l] /\ n + l >= n + 1
      BY <1>1, <1>2, <1>3
    <3> QED
      BY <3>1 DEF Coming
  <2>2. Coming(1)' = {wire'[l].f : l \in {x \in DOMAIN wire' : x >= 1}}
    BY DEF Coming
  <2> QED
    BY <2>1, <2>2
<1>10. ASSUME Whole(n), wire' # << >> PROVE wire'[1].o = 0
  <2>1. L - n # 0
    BY <1>2, <1>10
  <2>2. n < L /\ 1 \in 1..(L - n)
    BY <1>1, <2>1
  <2>3. wire'[1] = wire[n + 1]
    BY <1>2, <2>2
  <2> QED
    BY <1>10, <2>2, <2>3 DEF Whole, L
<1> QED
  BY <1>2, <1>5, <1>6, <1>7, <1>8, <1>9, <1>10 DEF WireInv

\* What process_response finds in memory.
LEMMA MemoryTyped ==
  ASSUME LinkInv, NEW n \in DOMAIN wire, n <= BufSize, NEW stray \in {0, 2},
         NEW m, m = Beyond(Filled(n), stray)
  PROVE  /\ MemOK(m) /\ \A q \in 0..(n - 1) : m[q] = wire[q + 1]
         /\ Filled(n) \in [0..(BufSize - 1) -> Words]
         /\ \A j \in 0..(BufSize - 1) : WordOK(Filled(n)[j])
<1>1. /\ TypeOK /\ BufSize \in Nat /\ MaxFrames \in Nat
      /\ wire \in Seq(Words) /\ DOMAIN wire = 1..Len(wire) /\ Len(wire) \in Nat /\ n \in Nat
      /\ buf \in [0..(BufSize - 1) -> Words]
  BY TypesOfState DEF LinkInv, TypeOK
<1>2. \A j \in DOMAIN wire : wire[j] \in Words /\ WordOK(wire[j])
  <2>1. ASSUME NEW j \in DOMAIN wire PROVE wire[j] \in Words /\ WordOK(wire[j])
    <3>1. wire[j] \in Words
      BY <1>1
    <3>2. wire[j].f \in DOMAIN frames
      BY DEF LinkInv, WireInv, WireWords
    <3>3. wire[j].f # 0
      BY <1>1, <3>2 DEF TypeOK
    <3> QED
      BY <3>1, <3>2, <3>3 DEF WordOK
  <2> QED
    BY <2>1
<1> DEFINE F == Filled(n)
<1>3. F = [j \in 0..(BufSize - 1) |-> IF j < n THEN wire[j + 1] ELSE buf[j]]
  BY <1>1 DEF Filled
<1> HIDE DEF F
<1>4. ASSUME NEW j \in 0..(BufSize - 1) PROVE F[j] \in Words /\ WordOK(F[j]) /\ (j < n => F[j] = wire[j + 1])
  <2>1. CASE j < n
    <3>1. j + 1 \in DOMAIN wire /\ F[j] = wire[j + 1]
      BY <1>1, <1>3, <2>1
    <3> QED
      BY <1>2, <3>1
  <2>2. CASE ~(j < n)
    <3>1. F[j] = buf[j]
      BY <1>3, <2>2
    <3> QED
      BY <1>1, <2>2, <3>1 DEF LinkInv
  <2> QED
    BY <2>1, <2>2
<1>5. F \in [0..(BufSize - 1) -> Words] /\ DOMAIN F = 0..(BufSize - 1)
  BY <1>3, <1>4
<1>6. m = [j \in 0..(BufSize + 4) |-> IF j \in DOMAIN F THEN F[j] ELSE [f |-> 0, o |-> stray]]
  BY DEF Beyond, F
<1>7. [f |-> 0, o |-> stray] \in Words /\ WordOK([f |-> 0, o |-> stray])
  BY <1>1 DEF Words, WordOK
<1>8. ASSUME NEW j \in 0..(BufSize + 4)
      PROVE  m[j] \in Words /\ WordOK(m[j]) /\ (j \in 0..(BufSize - 1) => m[j] = F[j])
  BY <1>4, <1>5, <1>6, <1>7, <1>8
<1>9. MemOK(m)
  BY <1>6, <1>8 DEF MemOK
<1>10. ASSUME NEW q \in 0..(n - 1) PROVE m[q] = wire[q + 1]
  <2>1. q \in 0..(BufSize - 1) /\ q \in 0..(BufSize + 4) /\ q < n
    BY <1>1
  <2> QED
    BY <1>4, <1>8, <2>1
<1> QED
  BY <1>4, <1>5, <1>9, <1>10 DEF F

LEMMA ReceiveLink ==
  ASSUME LinkInv, Receive
  PROVE  LinkInv'
<1>1. /\ TypeOK /\ WireInv /\ FramesOK /\ BufSize \in Nat /\ Before \in OutState
      /\ DOMAIN wire = 1..Len(wire)
  BY TypesOfState DEF LinkInv
<1>2. PICK n \in DOMAIN wire, stray \in {0, 2} :
        /\ n <= BufSize /\ wire' = SubSeq(wire, n + 1, Len(wire)) /\ buf' = Filled(n)
        /\ process_response(Beyond(Filled(n), stray), n)
  BY <1>1 DEF Receive
<1>3. PICK m : m = Beyond(Filled(n), stray)
  OBVIOUS
<1>4. process_response(m, n)
  BY <1>2, <1>3
<1>5. PICK hwOK \in Outcomes("ioctl"), upOK \in Outcomes("ioctl") :
        LET out == Outputs(m, n, hwOK, upOK)
        IN  /\ tap' = out.tap /\ written' = out.written /\ gsm' = out.gsm
            /\ past' = past \cup (IF Whole(n) THEN {} ELSE {"cut"})
                           \cup (IF out = Outputs(m, n, TRUE, TRUE) THEN {} ELSE {"ioctl"})
  BY <1>4 DEF process_response
<1>6. hwOK \in BOOLEAN /\ upOK \in BOOLEAN
  BY DEF Outcomes
<1>7. posted' \in BOOLEAN /\ frames' = frames
  BY DEF Receive, Resubmit, Outcomes
<1>8. /\ MemOK(m) /\ \A q \in 0..(n - 1) : m[q] = wire[q + 1]
      /\ Filled(n) \in [0..(BufSize - 1) -> Words]
      /\ \A j \in 0..(BufSize - 1) : WordOK(Filled(n)[j])
  BY <1>2, <1>3, MemoryTyped
<1>9. PICK w : w = Walk(m, n)
  OBVIOUS
<1>10. n \in Nat /\ w \in Seq(Nat) /\ Len(w) \in Nat /\ Len(w) \in 0..Len(w)
  <2>1. n \in Nat
    BY <1>1
  <2>2. w \in Seq(Nat)
    BY <1>1, <1>2, <1>8, <1>9, <2>1, WalkSound
  <2>3. Len(w) \in Nat
    BY <2>2
  <2> QED
    BY <2>1, <2>2, <2>3
<1>11. PICK st : Outcome(m, w, hwOK, upOK, st) /\ Outputs(m, n, hwOK, upOK) = st[Len(w)]
  BY <1>9, <1>10, OutputsStepwise
<1>12. PICK yes : yes = TRUE
  OBVIOUS
<1>13. PICK tt : Outcome(m, w, yes, yes, tt) /\ Outputs(m, n, yes, yes) = tt[Len(w)]
  BY <1>9, <1>10, OutputsStepwise
<1>14. Outputs(m, n, TRUE, TRUE) = tt[Len(w)]
  BY <1>12, <1>13, Zenon
<1> DEFINE o == st[Len(w)]
<1>15. Quiet(Before)
  BY DEF LinkInv
<1>16. o \in OutState /\ Quiet(o)
  BY <1>1, <1>2, <1>6, <1>8, <1>9, <1>10, <1>11, <1>15, OutputsTyped
<1>17. tap' = o.tap /\ written' = o.written /\ gsm' = o.gsm
  BY <1>5, <1>11
<1>18. past' = past \cup (IF Whole(n) THEN {} ELSE {"cut"}) \cup (IF o = tt[Len(w)] THEN {} ELSE {"ioctl"})
  BY <1>5, <1>11, <1>14
<1>19. /\ wire' \in Seq(Words) /\ WireInv'
       /\ Coming(1)' \subseteq Coming(n + 1)
       /\ Whole(n) => (wire' # << >> => wire'[1].o = 0)
  BY <1>1, <1>2, <1>7, WireLess
<1>20. TypeOK'
  <2>1. tap' \in Tap /\ written' \in Seq(Seq(Words)) /\ gsm' \in Seq(Seq(Words))
    BY <1>16, <1>17 DEF OutState
  <2>2. past' \subseteq {"cut", "ioctl"}
    BY <1>1, <1>18 DEF TypeOK
  <2> QED
    BY <1>1, <1>2, <1>7, <1>8, <1>19, <2>1, <2>2 DEF TypeOK, Tap
<1>21. \A j \in 0..(BufSize - 1) : WordOK(buf[j])'
  <2>1. ASSUME NEW j \in 0..(BufSize - 1) PROVE WordOK(buf[j])'
    <3>1. buf'[j] = Filled(n)[j] /\ WordOK(Filled(n)[j])
      BY <1>2, <1>8
    <3> QED
      BY <1>7, <3>1 DEF WordOK
  <2> QED
    BY <2>1
<1>22. Quiet(Before)'
  <2>1. Before' = [tap |-> o.tap, written |-> o.written, gsm |-> o.gsm]
    BY <1>17 DEF Before
  <2>2. Before'.tap = o.tap /\ Before'.written = o.written
    BY <2>1
  <2> QED
    BY <1>16, <2>2 DEF Quiet
<1>23. ASSUME "ioctl" \notin past', tap'.up PROVE tap'.hwaddr # << >>
  <2>1. o = tt[Len(w)] /\ "ioctl" \notin past
    BY <1>18, <1>23
  <2>2. tap.up => tap.hwaddr # << >>
    BY <2>1 DEF LinkInv
  <2>3. yes /\ (tap.up => tap.hwaddr # << >>) => (tt[Len(w)].tap.up => tt[Len(w)].tap.hwaddr # << >>)
    <3>1. yes \in BOOLEAN
      BY <1>12, Zenon
    <3> QED
      BY <1>1, <1>2, <1>8, <1>9, <1>10, <1>15, <1>13, <3>1, OutputsTyped
  <2> HIDE DEF o
  <2> QED
    BY <1>12, <1>17, <1>23, <2>1, <2>2, <2>3
<1>24. ASSUME "cut" \notin past' PROVE (wire' # << >> => wire'[1].o = 0) /\ GoodOut(Before, Coming(1))'
  <2>1. "cut" \notin past /\ Whole(n)
    BY <1>18, <1>24
  <2>2. GoodOut(Before, Coming(1))
    BY <2>1 DEF LinkInv
  <2>3. GoodOut(o, Coming(n + 1))
    BY <1>1, <1>2, <1>6, <1>8, <1>9, <1>11, <1>15, <2>1, <2>2, OutputsWhole
  <2>4. PICK s, B, C : s = o /\ B = Coming(n + 1) /\ C = Coming(1)'
    OBVIOUS
  <2>5. GoodOut(s, B)'
    BY <1>7, <2>3, <2>4, FramesKept
  <2>6. GoodOut(Before, Coming(1))'
    BY <1>17, <1>19, <2>4, <2>5, GoodOutNow
  <2> QED
    BY <1>19, <2>1, <2>6
<1> QED
  BY <1>19, <1>20, <1>21, <1>22, <1>23, <1>24 DEF LinkInv

\* Nothing changes but posted and the history of cuts.
LEMMA RestLink ==
  ASSUME LinkInv, UNCHANGED <<frames, wire, buf, tap, written, gsm>>, posted' \in BOOLEAN,
         past' \in {past, past \cup {"cut"}}
  PROVE  LinkInv'
<1>1. TypeOK' /\ WireInv'
  BY DEF LinkInv, TypeOK, WireInv, WireWords, Runs, Succ, InOrder, Size
<1>2. (\A j \in 0..(BufSize - 1) : WordOK(buf[j])') /\ Quiet(Before)'
  BY DEF LinkInv, WordOK, Quiet, Before
<1>3. ASSUME "cut" \notin past PROVE GoodOut(Before, Coming(1))'
  <2>1. PICK s, B, C : s = Before /\ B = Coming(1) /\ C = Coming(1)'
    OBVIOUS
  <2>2. C = B
    BY <2>1 DEF Coming
  <2>3. GoodOut(s, B)'
    BY <1>3, <2>1, FramesKept DEF LinkInv
  <2>4. s.tap = tap' /\ s.written = written' /\ s.gsm = gsm'
    BY <2>1 DEF Before
  <2> QED
    BY <2>1, <2>2, <2>3, <2>4, GoodOutNow
<1> QED
  BY <1>1, <1>2, <1>3 DEF LinkInv

\* A failed transfer is not read, but its words are gone and in the buffer.
LEMMA ErrorLink ==
  ASSUME LinkInv, ReceiveError
  PROVE  LinkInv'
<1>1. /\ TypeOK /\ WireInv /\ BufSize \in Nat /\ wire \in Seq(Words) /\ Len(wire) \in Nat
      /\ DOMAIN wire = 1..Len(wire) /\ buf \in [0..(BufSize - 1) -> Words]
  BY TypesOfState DEF LinkInv, TypeOK
<1>2. PICK n \in 0..Len(wire) :
        /\ n <= BufSize /\ wire' = SubSeq(wire, n + 1, Len(wire)) /\ buf' = Filled(n)
        /\ past' = past \cup (IF Whole(n) THEN {} ELSE {"cut"})
  BY DEF ReceiveError
<1>3. posted' \in BOOLEAN /\ UNCHANGED <<frames, tap, written, gsm>>
  BY DEF ReceiveError, Resubmit, Outcomes
<1>4. CASE n = 0
  <2>1. wire' = wire
    BY <1>1, <1>2, <1>4
  <2>2. buf' = buf
    BY <1>1, <1>2, <1>4 DEF Filled
  <2> QED
    BY <1>2, <1>3, <2>1, <2>2, RestLink
<1>5. CASE n \in DOMAIN wire
  <2>1. /\ wire' \in Seq(Words) /\ WireInv' /\ Coming(1)' \subseteq Coming(n + 1)
        /\ Whole(n) => (wire' # << >> => wire'[1].o = 0)
    BY <1>1, <1>2, <1>3, <1>5, WireLess
  <2>2. PICK m : m = Beyond(Filled(n), 0)
    OBVIOUS
  <2>3. /\ Filled(n) \in [0..(BufSize - 1) -> Words]
        /\ \A j \in 0..(BufSize - 1) : WordOK(Filled(n)[j])
    BY <1>2, <1>5, <2>2, MemoryTyped
  <2>4. TypeOK'
    BY <1>1, <1>2, <1>3, <2>1, <2>3 DEF TypeOK
  <2>5. \A j \in 0..(BufSize - 1) : WordOK(buf[j])'
    BY <1>2, <1>3, <2>3 DEF WordOK
  <2>6. Quiet(Before)' /\ (("ioctl" \notin past' /\ tap'.up) => tap'.hwaddr # << >>)
    BY <1>2, <1>3 DEF LinkInv, Quiet, Before
  <2>7. ASSUME "cut" \notin past' PROVE (wire' # << >> => wire'[1].o = 0) /\ GoodOut(Before, Coming(1))'
    <3>1. "cut" \notin past /\ Whole(n)
      BY <1>2, <2>7
    <3>2. PICK s, B, C : s = Before /\ B = Coming(1) /\ C = Coming(1)'
      OBVIOUS
    <3>3. C \subseteq B
      <4>1. \A x \in DOMAIN wire : x >= n + 1 => x >= 1
        BY <1>1, <1>5
      <4>2. Coming(n + 1) \subseteq Coming(1)
        BY <4>1 DEF Coming
      <4> QED
        BY <2>1, <3>2, <4>2
    <3>4. GoodOut(s, B)'
      BY <1>3, <3>1, <3>2, FramesKept DEF LinkInv
    <3>5. s.tap = tap' /\ s.written = written' /\ s.gsm = gsm'
      BY <1>3, <3>2 DEF Before
    <3> QED
      BY <2>1, <3>1, <3>2, <3>3, <3>4, <3>5, GoodOutNow
  <2> QED
    BY <2>1, <2>4, <2>5, <2>6, <2>7 DEF LinkInv
<1> QED
  BY <1>1, <1>4, <1>5

LEMMA LinkHolds == Spec => []LinkInv
<1>1. ASSUME LinkInv, [Next]_vars PROVE LinkInv'
  <2>1. CASE ReceiveError
    BY <1>1, <2>1, ErrorLink
  <2>2. CASE UNCHANGED vars
    BY <1>1, <2>2, RestLink DEF vars, LinkInv, TypeOK
  <2> QED
    BY <1>1, <2>1, <2>2, ModemSendsLink, ReceiveLink DEF Next
<1> QED
  BY <1>1, InitLink, PTL DEF Spec

-----------------------------------------------------------------------------
(* A transfer that begins and ends with a whole frame, whatever was handed *)
(* over before it.                                                         *)

\* The places where frames begin in the first n words, as Brought has them.
FirstWords(n) == {j \in 1..n : wire[j].o = 0}

\* No end marker before place i.
NoEnd(n, i) == \A e \in FirstWords(n) : e < i => frames[wire[e].f] # "end"

LEMMA LaterFirst ==
  ASSUME NEW h \in Nat \ {0}, NEW k \in Nat, NEW z \in 3..5, NEW n \in Nat, NEW i, h + k = i, i <= n, k > z
  PROVE  h + z \in 1..n /\ h + z < i /\ k - z \in Nat /\ (h + z) + (k - z) = i /\ ~(k <= k - z)
OBVIOUS

\* A frame that is not the first begins where another one ends.
LEMMA FrameBefore ==
  ASSUME TypeOK, WireInv, NEW n \in DOMAIN wire, wire[1].o = 0, NEW i \in FirstWords(n), i # 1
  PROVE  \E h \in FirstWords(n) : h < i /\ h + Size(wire[h].f) = i
<1> DEFINE T == {k \in Nat : \E h \in FirstWords(n) : h < i /\ h + k = i}
<1>1. /\ Len(wire) \in Nat /\ DOMAIN wire = 1..Len(wire) /\ n \in 1..Len(wire)
      /\ FirstWords(n) \subseteq DOMAIN wire /\ \A j \in FirstWords(n) : j \in 1..n
      /\ \A j \in 1..n : wire[j].o = 0 => j \in FirstWords(n)
  BY TypesOfState DEF FirstWords
<1>2. i \in 1..n /\ 1 \in FirstWords(n) /\ 1 < i /\ i - 1 \in Nat /\ 1 + (i - 1) = i
  BY <1>1
<1>3. i - 1 \in T
  BY <1>2
<1>4. PICK k \in T : \A l \in T : k <= l
  BY <1>3, LeastNumber
<1>5. PICK h \in FirstWords(n) : h < i /\ h + k = i
  BY <1>4
<1>6. /\ h \in DOMAIN wire /\ h \in 1..n /\ wire[h].o = 0 /\ k \in Nat \ {0}
      /\ wire[h].f \in DOMAIN frames
  BY <1>1, <1>2, <1>4, <1>5 DEF FirstWords, WireInv, WireWords
<1>7. PICK z \in 3..5 : z = Size(wire[h].f)
  BY <1>6, TypesOfState, FrameShape DEF Size
<1>8. ASSUME k < z PROVE FALSE
  <2>1. k \in 1..4 /\ wire[h].o + k < Size(wire[h].f) /\ wire[h].o + k = k
    BY <1>6, <1>7, <1>8
  <2>2. wire[h + k] = [f |-> wire[h].f, o |-> k]
    BY <1>6, <2>1 DEF WireInv, Runs
  <2>3. wire[i].o = k /\ wire[i].o = 0
    BY <1>5, <2>2 DEF FirstWords
  <2> QED
    BY <1>6, <2>3
<1>9. ASSUME k > z PROVE FALSE
  <2>1. z \in 1..5 /\ wire[h].o + z = Size(wire[h].f)
    BY <1>6, <1>7
  <2>2. h + z \in 1..n /\ h + z < i /\ k - z \in Nat /\ (h + z) + (k - z) = i /\ ~(k <= k - z)
    <3>1. h \in Nat \ {0} /\ k \in Nat /\ z \in 3..5 /\ n \in Nat /\ h + k = i /\ i <= n /\ k > z
      BY <1>1, <1>2, <1>5, <1>6, <1>7, <1>9
    <3> QED
      BY <3>1, LaterFirst
  <2>3. h + z \in DOMAIN wire
    BY <1>1, <2>2
  <2>4. wire[h + z].o = 0
    BY <1>6, <2>1, <2>3 DEF WireInv, Succ
  <2>5. h + z \in FirstWords(n)
    BY <1>1, <2>2, <2>4
  <2>6. k - z \in T
    BY <2>2, <2>5
  <2> QED
    BY <1>4, <2>2, <2>6
<1>10. k = z
  BY <1>6, <1>8, <1>9
<1> QED
  BY <1>5, <1>7, <1>10

\* What the lemmas below assume of a transfer, its buffer and its frames.
Aligned(n, m, w) ==
  /\ TypeOK /\ WireInv /\ n \in DOMAIN wire /\ n <= BufSize
  /\ wire[1].o = 0 /\ Whole(n)
  /\ MemOK(m) /\ \A q \in 0..(n - 1) : m[q] = wire[q + 1]
  /\ w = Walk(m, n)

LEMMA AlignedWalk ==
  ASSUME NEW n, NEW m, NEW w, Aligned(n, m, w)
  PROVE  /\ n \in Nat /\ DOMAIN wire = 1..Len(wire) /\ Len(wire) \in Nat /\ n \in 1..Len(wire)
         /\ w \in Seq(Nat) /\ Len(w) \in Nat /\ IsWalk(m, n, w, 0)
         /\ \A k \in 1..Len(w) : /\ w[k] \in Nat /\ w[k] < n /\ w[k] + 1 \in FirstWords(n)
                                 /\ m[w[k]] = wire[w[k] + 1] /\ WholeFrame(m, w[k], wire[w[k] + 1].f)
         /\ \A i \in FirstWords(n) : i - 1 \in 0..(n - 1) /\ m[i - 1] = wire[i] /\ Starts(m[i - 1])
                                     /\ i \in 1..n /\ wire[i].f \in DOMAIN frames
<1>1. TypeOK /\ WireInv /\ n \in DOMAIN wire /\ FramesOK /\ BufSize \in Nat
  BY TypesOfState DEF Aligned
<1>2. n \in Nat /\ DOMAIN wire = 1..Len(wire) /\ Len(wire) \in Nat /\ n \in 1..Len(wire)
  BY <1>1, TypesOfState
<1>3. /\ w \in Seq(Nat) /\ \A j \in 1..Len(w) : w[j] < n /\ Starts(m[w[j]])
      /\ n >= 2 => IsWalk(m, n, w, 0)
  BY <1>1, <1>2, WalkSound DEF Aligned
<1>4. n >= 2
  <2>1. 1 \in DOMAIN wire /\ wire[1].o = 0 /\ wire[1].f \in DOMAIN frames
    BY <1>1, <1>2 DEF Aligned, WireInv, WireWords
  <2>2. Size(wire[1].f) \in 3..5
    BY <1>1, <2>1, FrameShape DEF Size
  <2>3. wire[1].o + 1 < Size(wire[1].f) /\ 1 \in 1..4
    BY <2>1, <2>2
  <2>4. 1 + 1 \in DOMAIN wire /\ wire[1 + 1] = [f |-> wire[1].f, o |-> wire[1].o + 1]
    BY <1>1, <2>1, <2>3 DEF WireInv, Runs
  <2>5. 1 + 1 \in DOMAIN wire /\ wire[1 + 1].o = 1
    BY <2>1, <2>4
  <2>6. CASE n = 1
    <3>1. 1 < Len(wire) /\ Whole(1)
      BY <1>2, <2>5, <2>6 DEF Aligned
    <3>2. wire[1 + 1].o = 0
      BY <3>1 DEF Whole
    <3> QED
      BY <2>5, <3>2
  <2> QED
    BY <1>2, <2>6
<1>5. Len(w) \in Nat
  BY <1>3
<1>6. ASSUME NEW k \in 1..Len(w)
      PROVE  /\ w[k] \in Nat /\ w[k] < n /\ w[k] + 1 \in FirstWords(n)
             /\ m[w[k]] = wire[w[k] + 1] /\ WholeFrame(m, w[k], wire[w[k] + 1].f)
  <2>1. w[k] \in Nat /\ w[k] < n /\ Starts(m[w[k]])
    BY <1>3
  <2>2. w[k] \in 0..(n - 1) /\ w[k] + 1 \in 1..n
    BY <1>2, <2>1
  <2>3. m[w[k]] = wire[w[k] + 1]
    BY <2>2 DEF Aligned
  <2>4. w[k] + 1 \in FirstWords(n)
    BY <2>1, <2>2, <2>3 DEF FirstWords, Starts
  <2>5. WholeFrame(m, w[k], wire[w[k] + 1].f)
    BY <1>1, <2>1, FramesWhole DEF Aligned
  <2> QED
    BY <2>1, <2>3, <2>4, <2>5
<1>7. ASSUME NEW i \in FirstWords(n)
      PROVE  i - 1 \in 0..(n - 1) /\ m[i - 1] = wire[i] /\ Starts(m[i - 1])
             /\ i \in 1..n /\ wire[i].f \in DOMAIN frames
  <2>1. i \in 1..n /\ wire[i].o = 0
    BY DEF FirstWords
  <2>2. i \in DOMAIN wire /\ i - 1 \in 0..(n - 1) /\ (i - 1) + 1 = i
    BY <1>2, <2>1
  <2>3. m[i - 1] = wire[(i - 1) + 1]
    BY <2>2 DEF Aligned
  <2>4. wire[i].f \in DOMAIN frames
    BY <1>1, <2>2 DEF WireInv, WireWords
  <2>5. wire[i].f # 0
    BY <1>1, <2>4 DEF FramesOK
  <2> QED
    BY <2>1, <2>2, <2>3, <2>4, <2>5 DEF Starts
<1> QED
  BY <1>2, <1>3, <1>4, <1>5, <1>6, <1>7

\* Every frame before the first end marker, and the marker itself, is found.
LEMMA WalkMeets ==
  ASSUME NEW n, NEW m, NEW w, Aligned(n, m, w), NEW i \in FirstWords(n), NoEnd(n, i)
  PROVE  \E k \in 1..Len(w) : w[k] + 1 = i
<1> DEFINE T == {x \in FirstWords(n) : NoEnd(n, x) /\ ~\E k \in 1..Len(w) : w[k] + 1 = x}
<1>1. /\ n \in Nat /\ w \in Seq(Nat) /\ Len(w) \in Nat /\ IsWalk(m, n, w, 0)
      /\ TypeOK /\ WireInv /\ FramesOK /\ n \in DOMAIN wire /\ wire[1].o = 0
  BY AlignedWalk, TypesOfState DEF Aligned
<1>2. ASSUME NEW x \in FirstWords(n)
      PROVE  x - 1 \in 0..(n - 1) /\ m[x - 1] = wire[x] /\ Starts(m[x - 1]) /\ x \in 1..n
             /\ wire[x].f \in DOMAIN frames
  BY AlignedWalk
<1>3. ASSUME NEW x \in T, \A y \in T : x <= y PROVE FALSE
  <2>1. /\ x \in FirstWords(n) /\ x \in 1..n /\ x - 1 < n /\ Starts(m[x - 1]) /\ x - 1 \in Nat
        /\ NoEnd(n, x)
    BY <1>1, <1>2
  <2>2. CASE x = 1
    <3>1. x - 1 = 0
      BY <2>2
    <3>2. 0 < n /\ Starts(m[0])
      BY <2>1, <3>1
    <3>3. w # << >>
      BY <1>1, <3>2 DEF IsWalk
    <3>4. 1 \in 1..Len(w) /\ w[1] = 0
      BY <1>1, <3>3 DEF IsWalk
    <3> QED
      BY <2>2, <3>4
  <2>3. CASE x # 1
    <3>1. PICK h \in FirstWords(n) : h < x /\ h + Size(wire[h].f) = x
      BY <1>1, <2>1, <2>3, FrameBefore
    <3>2. h \in 1..n /\ frames[wire[h].f] # "end"
      BY <1>2, <2>1, <3>1 DEF NoEnd
    <3>3. NoEnd(n, h)
      <4>1. ASSUME NEW e \in FirstWords(n), e < h PROVE frames[wire[e].f] # "end"
        <5>1. e \in 1..n /\ e < x
          BY <1>1, <1>2, <2>1, <3>1, <3>2, <4>1
        <5> QED
          BY <2>1, <4>1, <5>1 DEF NoEnd
      <4> QED
        BY <4>1 DEF NoEnd
    <3>4. h \notin T
      BY <1>1, <1>3, <2>1, <3>1, <3>2
    <3>5. PICK k \in 1..Len(w) : w[k] + 1 = h
      BY <3>3, <3>4
    <3>6. w[k] \in Nat /\ WholeFrame(m, w[k], wire[h].f)
      BY <3>5, AlignedWalk
    <3>7. CheckLen(m, w[k]) = Size(wire[h].f)
      BY <1>1, <3>2, <3>6, WholeRead
    <3>8. Size(wire[h].f) \in 3..5
      BY <1>1, <1>2, FrameShape DEF Size
    <3>9. w[k] + CheckLen(m, w[k]) = x - 1
      BY <2>1, <3>1, <3>2, <3>5, <3>6, <3>7, <3>8
    <3>10. k < Len(w) /\ w[k + 1] = x - 1
      <4>1. LET next == w[k] + CheckLen(m, w[k]) IN
            IF k < Len(w) THEN w[k + 1] = next ELSE ~(next < n /\ Starts(m[next]))
        BY <1>1 DEF IsWalk
      <4> QED
        BY <2>1, <3>9, <4>1
    <3>11. k + 1 \in 1..Len(w) /\ w[k + 1] + 1 = x
      BY <1>1, <2>1, <3>10
    <3> QED
      BY <3>11
  <2> QED
    BY <2>2, <2>3
<1>4. T \in SUBSET Nat
  BY <1>1, <1>2
<1>5. T = {}
  BY <1>3, <1>4, LeastNumber
<1> QED
  BY <1>5

\* No frame behind an end marker is found.
LEMMA WalkStops ==
  ASSUME NEW n, NEW m, NEW w, Aligned(n, m, w), NEW k \in 1..Len(w)
  PROVE  NoEnd(n, w[k] + 1) /\ (frames[wire[w[k] + 1].f] = "end" => k = Len(w))
<1>1. /\ n \in Nat /\ w \in Seq(Nat) /\ Len(w) \in Nat /\ IsWalk(m, n, w, 0) /\ FramesOK
      /\ \A j \in 1..Len(w) : w[j] \in Nat /\ WholeFrame(m, w[j], wire[w[j] + 1].f)
  BY AlignedWalk, TypesOfState DEF Aligned
<1>2. ASSUME NEW j \in 1..Len(w), frames[wire[w[j] + 1].f] = "end" PROVE j = Len(w)
  <2> DEFINE f == wire[w[j] + 1].f
             p == w[j]
  <2>1. p \in Nat /\ WholeFrame(m, p, f) /\ frames[f] = "end"
    BY <1>1, <1>2
  <2> HIDE DEF f
  <2>2. CheckLen(m, p) = 2 /\ Size(f) = 3
    BY <1>1, <2>1, WholeRead, ShapeTable DEF Size
  <2>3. m[p + 2] = [f |-> f, o |-> 2]
    BY <2>1, <2>2 DEF WholeFrame
  <2>4. ~Starts(m[p + 2])
    BY <2>3 DEF Starts
  <2>5. CASE j < Len(w)
    <3>1. j + 1 \in 1..Len(w)
      BY <1>1, <2>5
    <3>2. w[j + 1] = p + 2
      BY <1>1, <2>2, <2>5 DEF IsWalk
    <3>3. Starts(m[w[j + 1]])
      BY <1>1, <3>1 DEF IsWalk
    <3> QED
      BY <2>4, <3>2, <3>3
  <2> QED
    BY <1>1, <2>5
<1> DEFINE T == {e \in FirstWords(n) : frames[wire[e].f] = "end" /\ e < w[k] + 1}
<1>3. \A e \in FirstWords(n) : e \in 1..n
  BY AlignedWalk
<1>4. ASSUME NEW e \in T, \A d \in T : e <= d PROVE FALSE
  <2>1. e \in FirstWords(n) /\ e \in 1..n /\ frames[wire[e].f] = "end" /\ e < w[k] + 1
    BY <1>3
  <2>2. NoEnd(n, e)
    <3>1. ASSUME NEW d \in FirstWords(n), d < e PROVE frames[wire[d].f] # "end"
      <4>1. d \in 1..n /\ d < w[k] + 1 /\ ~(e <= d)
        <5>1. d \in Nat /\ e \in Nat /\ w[k] \in Nat /\ d \in 1..n
          BY <1>1, <1>3, <2>1
        <5> QED
          BY <2>1, <3>1, <5>1
      <4> QED
        BY <1>4, <4>1
    <3> QED
      BY <3>1 DEF NoEnd
  <2>3. PICK j \in 1..Len(w) : w[j] + 1 = e
    BY <2>1, <2>2, WalkMeets
  <2>4. j = Len(w)
    BY <1>2, <2>1, <2>3
  <2>5. w[j] < w[k]
    BY <1>1, <2>1, <2>3
  <2>6. ~(k < j) /\ j # k
    BY <1>1, <2>5 DEF IsWalk
  <2> QED
    BY <1>1, <2>4, <2>6
<1>5. T \in SUBSET Nat
  BY <1>1, <1>3
<1>6. T = {}
  BY <1>4, <1>5, LeastNumber
<1>7. NoEnd(n, w[k] + 1)
  BY <1>6 DEF NoEnd
<1> QED
  BY <1>2, <1>7

\* The data frames among the first k that are found.
DataOf(w, k) == {wire[w[l] + 1].f : l \in {x \in 1..k : frames[wire[w[x] + 1].f] = "data"}}

LEMMA BroughtIsFound ==
  ASSUME NEW n, NEW m, NEW w, Aligned(n, m, w)
  PROVE  Brought(n) = DataOf(w, Len(w))
<1>1. /\ n \in Nat /\ Len(w) \in Nat
      /\ \A k \in 1..Len(w) : w[k] \in Nat /\ w[k] + 1 \in FirstWords(n)
      /\ \A j \in FirstWords(n) : j \in 1..n
  BY AlignedWalk
<1> DEFINE ends == {j \in FirstWords(n) : frames[wire[j].f] = "end"}
           D == {j \in FirstWords(n) : frames[wire[j].f] = "data" /\ \A e \in ends : j < e}
<1>2. Brought(n) = {wire[j].f : j \in D}
  BY DEF Brought, FirstWords
<1>3. ASSUME NEW j \in D PROVE wire[j].f \in DataOf(w, Len(w))
  <2>1. j \in FirstWords(n) /\ NoEnd(n, j) /\ frames[wire[j].f] = "data"
    <3>1. ASSUME NEW e \in FirstWords(n), e < j PROVE frames[wire[e].f] # "end"
      <4>1. e \in 1..n /\ j \in 1..n /\ ~(j < e)
        BY <1>1, <3>1
      <4> QED
        BY <4>1
    <3> QED
      BY <3>1 DEF NoEnd
  <2>2. PICK k \in 1..Len(w) : w[k] + 1 = j
    BY <2>1, WalkMeets
  <2> QED
    BY <2>1, <2>2 DEF DataOf
<1>4. ASSUME NEW k \in 1..Len(w), frames[wire[w[k] + 1].f] = "data" PROVE w[k] + 1 \in D
  <2>1. NoEnd(n, w[k] + 1) /\ w[k] + 1 \in FirstWords(n)
    BY <1>1, WalkStops
  <2>2. ASSUME NEW e \in ends PROVE w[k] + 1 < e
    <3>1. e \in 1..n /\ w[k] + 1 \in 1..n /\ ~(e < w[k] + 1) /\ e # w[k] + 1
      BY <1>1, <1>4, <2>1 DEF NoEnd
    <3> QED
      BY <3>1
  <2> QED
    BY <1>4, <2>1, <2>2
<1> HIDE DEF D
<1>5. ASSUME NEW f \in DataOf(w, Len(w)) PROVE f \in {wire[j].f : j \in D}
  <2>1. PICK k \in 1..Len(w) : frames[wire[w[k] + 1].f] = "data" /\ f = wire[w[k] + 1].f
    BY DEF DataOf
  <2> QED
    BY <1>4, <2>1
<1> QED
  BY <1>2, <1>3, <1>5

\* What was written since the beginning of the transfer.
NewPackets(s, w, k, new) ==
  /\ new \in Seq(Seq(Words)) /\ s.written = written \o new
  /\ Packets(new) /\ Ordered(new)
  /\ {Source(new[j]) : j \in DOMAIN new} = DataOf(w, k)

LEMMA NewPacketsMore ==
  ASSUME NEW n, NEW m, NEW w, Aligned(n, m, w), NEW k \in 1..Len(w),
         NEW s \in OutState, s.tap.up, NEW new, NewPackets(s, w, k - 1, new),
         NEW hwOK \in BOOLEAN, NEW upOK \in BOOLEAN
  PROVE  LET h == Handle(m, s, w[k], hwOK, upOK)
         IN  h \in OutState /\ h.tap.up /\ \E more : NewPackets(h, w, k, more)
<1> DEFINE p == w[k]
           f == wire[p + 1].f
           h == Handle(m, s, p, hwOK, upOK)
<1>1. /\ p \in Nat /\ p < n /\ WholeFrame(m, p, f) /\ p + 1 \in FirstWords(n) /\ Len(w) \in Nat
      /\ \A j \in 1..Len(w) : w[j] \in Nat /\ w[j] + 1 \in FirstWords(n)
      /\ \A j \in FirstWords(n) : j \in DOMAIN wire /\ wire[j].o = 0
      /\ n \in Nat /\ BufSize \in Nat /\ n <= BufSize /\ FramesOK /\ MemOK(m) /\ WireInv
      /\ written \in Seq(Seq(Words))
  <2>1. \A j \in FirstWords(n) : j \in DOMAIN wire /\ wire[j].o = 0
    BY AlignedWalk DEF FirstWords
  <2>2. TypeOK /\ FramesOK /\ BufSize \in Nat /\ n <= BufSize /\ MemOK(m) /\ WireInv
    BY TypesOfState DEF Aligned
  <2>3. written \in Seq(Seq(Words))
    BY <2>2 DEF TypeOK
  <2> QED
    BY <2>1, <2>2, <2>3, AlignedWalk
<1>2. p < BufSize
  BY <1>1
<1>3. h \in OutState
  BY <1>1, <1>2, HandleTyped
<1>4. h.tap.up
  BY <1>1, <1>2, HandleQuiet
<1>5. f \in DOMAIN frames /\ frames[f] \in DOMAIN Shape /\ TypeOf(m[p]) = Shape[frames[f]].type
  BY <1>1, WholeRead, SMTT(60) DEF WholeFrame
<1>6. TypeOf(m[p]) = "D" <=> frames[f] = "data"
  BY <1>5, KindRead
<1>7. /\ new \in Seq(Seq(Words)) /\ s.written = written \o new /\ Packets(new) /\ Ordered(new)
      /\ {Source(new[j]) : j \in DOMAIN new} = DataOf(w, k - 1)
  BY DEF NewPackets
<1>8. 1..k = (1..(k - 1)) \cup {k} /\ k - 1 \in Nat
  BY <1>1
<1>9. s.written \in Seq(Seq(Words)) /\ h.written \in Seq(Seq(Words))
  BY <1>3 DEF OutState
<1> HIDE DEF h
<1>10. CASE frames[f] = "data"
  <2> DEFINE v == Packet(f)
             more == Append(new, v)
  <2>1. Slice(m, p + 3, p + CheckLen(m, p)) = v /\ Source(v) = f
    BY <1>1, <1>10, SliceOfPacket
  <2>2. h = [s EXCEPT !.written = Append(s.written, Slice(m, p + 3, p + CheckLen(m, p)))]
    BY <1>6, <1>10, HandleCases DEF h
  <2> HIDE DEF v
  <2>3. h.written = Append(s.written, v)
    BY <2>1, <2>2 DEF OutState
  <2>4. v \in Seq(Words)
    <3>1. /\ DOMAIN h.written = 1..(Len(s.written) + 1) /\ h.written[Len(s.written) + 1] = v
          /\ Len(s.written) + 1 \in DOMAIN h.written
      BY <1>9, <2>3
    <3> QED
      BY <1>9, <3>1
  <2>5. /\ h.written = written \o more /\ more \in Seq(Seq(Words))
        /\ DOMAIN more = DOMAIN new \cup {Len(new) + 1}
        /\ (\A j \in DOMAIN new : more[j] = new[j]) /\ more[Len(new) + 1] = v
    <3>1. PICK S, a, b : S = Seq(Words) /\ a = written /\ b = new
      OBVIOUS
    <3>2. a \in Seq(S) /\ b \in Seq(S) /\ v \in S
      BY <1>1, <1>7, <2>4, <3>1
    <3>3. Append(a \o b, v) = a \o Append(b, v) /\ Append(b, v) \in Seq(S)
          /\ DOMAIN Append(b, v) = DOMAIN b \cup {Len(b) + 1}
          /\ (\A j \in DOMAIN b : Append(b, v)[j] = b[j]) /\ Append(b, v)[Len(b) + 1] = v
      BY <3>2, SMTT(60)
    <3>4. h.written = Append(a \o b, v) /\ more = Append(b, v)
      BY <1>7, <2>3, <3>1
    <3> QED
      BY <3>1, <3>3, <3>4, Zenon
  <2>6. DataOf(w, k) = DataOf(w, k - 1) \cup {f}
    BY <1>8, <1>10 DEF DataOf
  <2>7. \A g \in DataOf(w, k - 1) : g < f
    <3>1. ASSUME NEW l \in 1..(k - 1) PROVE wire[w[l] + 1].f < f
      <4>1. l \in 1..Len(w) /\ l < k
        BY <1>1, <1>8
      <4>2. w[l] < p
        BY <4>1, AlignedWalk DEF IsWalk
      <4>3. w[l] + 1 \in DOMAIN wire /\ p + 1 \in DOMAIN wire /\ w[l] + 1 < p + 1 /\ wire[p + 1].o = 0
        <5>1. w[l] \in Nat /\ w[l] + 1 \in FirstWords(n) /\ p + 1 \in FirstWords(n) /\ p \in Nat
          BY <1>1, <4>1
        <5>2. w[l] + 1 < p + 1
          BY <4>2, <5>1
        <5> QED
          BY <1>1, <5>1, <5>2
      <4> QED
        BY <1>1, <4>3 DEF WireInv, InOrder
    <3> QED
      BY <3>1 DEF DataOf
  <2>8. Below(new, {f})
    BY <1>7, <2>7 DEF Below
  <2>9. Ordered(more)
    <3>1. PICK B : B = {}
      OBVIOUS
    <3>2. Below(new, {f} \cup B) /\ \A b \in B : f < b
      BY <2>8, <3>1 DEF Below
    <3>3. PICK S, g : S = Seq(Words) /\ g = f
      OBVIOUS
    <3>4. new \in Seq(S) /\ v \in S /\ Source(v) = g /\ Below(new, {g} \cup B) /\ \A b \in B : g < b
      BY <1>7, <2>1, <2>4, <3>2, <3>3
    <3>5. Ordered(Append(new, v))
      BY <1>7, <3>4, OrderedMore
    <3> QED
      BY <3>5
  <2> HIDE DEF more
  <2>10. Packets(more)
    <3>1. ASSUME NEW j \in DOMAIN more
          PROVE  Source(more[j]) \in DOMAIN frames /\ frames[Source(more[j])] = "data"
                 /\ more[j] = Packet(Source(more[j]))
      BY <1>5, <1>7, <1>10, <2>1, <2>5 DEF Packets, v
    <3> QED
      BY <3>1 DEF Packets
  <2>11. {Source(more[j]) : j \in DOMAIN more} = DataOf(w, k)
    BY <1>7, <2>1, <2>5, <2>6
  <2> QED
    BY <1>3, <1>4, <2>5, <2>9, <2>10, <2>11 DEF NewPackets, h
<1>11. CASE frames[f] # "data"
  <2>1. TypeOf(m[p]) # "D"
    BY <1>6, <1>11
  <2>2. \/ h = [s EXCEPT !.gsm = Append(s.gsm, Slice(m, p, p + CheckLen(m, p)))]
        \/ h = [s EXCEPT !.tap = tap_set_macaddr(s.tap, Slice(m, p + 4, p + 5), hwOK, upOK)]
        \/ h = s
    BY <2>1, HandleCases DEF h
  <2>3. h.written = s.written
    BY <2>2 DEF OutState
  <2>4. DataOf(w, k) = DataOf(w, k - 1)
    BY <1>8, <1>11 DEF DataOf
  <2> QED
    BY <1>3, <1>4, <1>7, <2>3, <2>4 DEF NewPackets, h
<1> QED
  BY <1>10, <1>11

\* With the TAP up, a transfer writes the packets of the frames that are found.
LEMMA NewOutputs ==
  ASSUME NEW n, NEW m, NEW w, Aligned(n, m, w), tap.up,
         NEW hwOK \in BOOLEAN, NEW upOK \in BOOLEAN, NEW st, Outcome(m, w, hwOK, upOK, st)
  PROVE  \E new : NewPackets(st[Len(w)], w, Len(w), new)
<1> DEFINE Right(k) == st[k] \in OutState /\ st[k].tap.up /\ \E new : NewPackets(st[k], w, k, new)
           T == {k \in 0..Len(w) : ~Right(k)}
<1>1. Len(w) \in Nat /\ Before \in OutState /\ written \in Seq(Seq(Words))
  BY AlignedWalk, TypesOfState DEF Aligned, TypeOK
<1>2. Right(0)
  <2>1. st[0] = Before /\ Before.tap = tap /\ Before.written = written
    BY DEF Outcome, Before
  <2>2. DataOf(w, 0) = {}
    BY DEF DataOf
  <2>3. written \o << >> = written /\ << >> \in Seq(Seq(Words)) /\ DOMAIN << >> = {}
    BY <1>1
  <2>4. NewPackets(st[0], w, 0, << >>)
    BY <2>1, <2>2, <2>3 DEF NewPackets, Packets, Ordered
  <2> QED
    BY <1>1, <2>1, <2>4
<1>3. ASSUME NEW k \in 1..Len(w), Right(k - 1) PROVE Right(k)
  <2>1. st[k] = Handle(m, st[k - 1], w[k], hwOK, upOK)
    BY DEF Outcome
  <2>2. PICK s, new : s = st[k - 1] /\ s \in OutState /\ s.tap.up /\ NewPackets(s, w, k - 1, new)
    BY <1>3
  <2>3. LET h == Handle(m, s, w[k], hwOK, upOK)
        IN  h \in OutState /\ h.tap.up /\ \E more : NewPackets(h, w, k, more)
    BY <2>2, NewPacketsMore
  <2> QED
    BY <2>1, <2>2, <2>3
<1> HIDE DEF Right
<1>4. ASSUME T # {} PROVE FALSE
  <2>1. T \in SUBSET Nat
    BY <1>1
  <2>2. PICK k \in T : \A j \in T : k <= j
    BY <1>4, <2>1, LeastNumber
  <2>3. k \in 0..Len(w) /\ k # 0 /\ ~Right(k)
    BY <1>2, <2>2
  <2>4. k - 1 \in 0..Len(w) /\ k \in 1..Len(w) /\ ~(k <= k - 1)
    BY <1>1, <2>3
  <2>5. Right(k - 1)
    BY <2>2, <2>4
  <2> QED
    BY <1>3, <2>3, <2>4, <2>5
<1>5. Right(Len(w))
  BY <1>1, <1>4
<1> QED
  BY <1>5 DEF Right

LEMMA AddedBehind ==
  ASSUME NEW S, NEW a \in Seq(S), NEW b \in Seq(S)
  PROVE  SubSeq(a \o b, Len(a) + 1, Len(a \o b)) = b
<1> DEFINE c == SubSeq(a \o b, Len(a) + 1, Len(a \o b))
<1>1. Len(a) \in Nat /\ Len(b) \in Nat /\ a \o b \in Seq(S) /\ Len(a \o b) = Len(a) + Len(b)
      /\ \A j \in 1..Len(b) : (a \o b)[Len(a) + j] = b[j]
  BY Concatenated
<1>2. c \in Seq(S) /\ Len(c) = Len(b) /\ \A j \in 1..Len(b) : c[j] = b[j]
  BY <1>1
<1> QED
  BY <1>2

\* A transfer hands over as many packets as it brought data frames.
LEMMA AsMany ==
  ASSUME NEW new \in Seq(Seq(Words)), Ordered(new), NEW D, {Source(new[j]) : j \in DOMAIN new} = D,
         \A j \in DOMAIN new : Source(new[j]) \in Nat
  PROVE  Len(new) = Cardinality(D)
<1>1. Len(new) \in Nat /\ DOMAIN new = 1..Len(new)
  OBVIOUS
<1> DEFINE src == [j \in 1..Len(new) |-> Source(new[j])]
<1>2. src \in [1..Len(new) -> D]
  BY <1>1
<1>3. ASSUME NEW j \in 1..Len(new), NEW l \in 1..Len(new), src[j] = src[l] PROVE j = l
  <2>1. src[j] \in Nat /\ src[j] = Source(new[j]) /\ src[l] = Source(new[l])
    BY <1>1
  <2>2. ~(j < l) /\ ~(l < j)
    BY <1>1, <1>3, <2>1 DEF Ordered
  <2> QED
    BY <1>1, <2>2
<1>4. \A d \in D : \E j \in 1..Len(new) : src[j] = d
  BY <1>1
<1> HIDE DEF src
<1>5. src \in Bijection(1..Len(new), D)
  BY <1>2, <1>3, <1>4 DEF Bijection, Injection, Surjection, IsInjective
<1>6. ExistsBijection(1..Len(new), D)
  BY <1>5, Zenon DEF ExistsBijection
<1> QED
  BY <1>1, <1>6, FS_CountingElements

\* The step of Resync.
ResyncOf(n) ==
  (/\ wire' = SubSeq(wire, n + 1, Len(wire)) /\ Len(wire') = Len(wire) - n
   /\ wire[1].o = 0 /\ Whole(n) /\ tap.up /\ Receive)
  => LET new == SubSeq(written', Len(written) + 1, Len(written'))
     IN  /\ ToSet(new) = {Packet(f) : f \in Brought(n)}
         /\ Len(new) = Cardinality(Brought(n))

LEMMA LenLess ==
  ASSUME NEW S, NEW a \in Seq(S), NEW k \in 1..Len(a)
  PROVE  Len(SubSeq(a, k + 1, Len(a))) = Len(a) - k
OBVIOUS

LEMMA ReceiveResyncs ==
  ASSUME LinkInv, Receive, NEW n \in 1..Len(wire)
  PROVE  ResyncOf(n)
<1> SUFFICES ASSUME Len(wire') = Len(wire) - n, wire[1].o = 0, Whole(n), tap.up
             PROVE  LET new == SubSeq(written', Len(written) + 1, Len(written'))
                    IN  /\ ToSet(new) = {Packet(f) : f \in Brought(n)}
                        /\ Len(new) = Cardinality(Brought(n))
  BY DEF ResyncOf
<1>1. /\ TypeOK /\ WireInv /\ FramesOK /\ DOMAIN wire = 1..Len(wire) /\ Len(wire) \in Nat
      /\ written \in Seq(Seq(Words)) /\ wire \in Seq(Words)
  BY TypesOfState DEF LinkInv, TypeOK
<1>2. PICK n0 \in DOMAIN wire, stray \in {0, 2} :
        /\ n0 <= BufSize /\ wire' = SubSeq(wire, n0 + 1, Len(wire))
        /\ process_response(Beyond(Filled(n0), stray), n0)
  BY <1>1 DEF Receive
<1>3. n0 = n
  <2>1. wire' = SubSeq(wire, n0 + 1, Len(wire)) /\ n0 \in 1..Len(wire)
    BY <1>1, <1>2
  <2>2. PICK a, k : a = wire /\ k = n0 /\ a \in Seq(Words) /\ k \in 1..Len(a)
    BY <1>1, <2>1
  <2>3. Len(wire') = Len(a) - k
    BY <2>1, <2>2, LenLess
  <2> QED
    BY <1>1, <2>2, <2>3
<1>4. PICK m : m = Beyond(Filled(n), stray)
  OBVIOUS
<1>5. PICK hwOK \in Outcomes("ioctl"), upOK \in Outcomes("ioctl") : written' = Outputs(m, n, hwOK, upOK).written
  BY <1>2, <1>3, <1>4 DEF process_response
<1>6. hwOK \in BOOLEAN /\ upOK \in BOOLEAN
  BY DEF Outcomes
<1>7. MemOK(m) /\ \A q \in 0..(n - 1) : m[q] = wire[q + 1]
  <2>1. n \in DOMAIN wire /\ n <= BufSize /\ m = Beyond(Filled(n), stray)
    BY <1>1, <1>2, <1>3, <1>4
  <2> QED
    BY <2>1, MemoryTyped, SMTT(60)
<1>8. PICK w : w = Walk(m, n)
  OBVIOUS
<1>9. Aligned(n, m, w)
  BY <1>1, <1>2, <1>3, <1>7, <1>8 DEF Aligned
<1>10. w \in Seq(Nat)
  BY <1>9, AlignedWalk
<1>11. PICK st : Outcome(m, w, hwOK, upOK, st) /\ Outputs(m, n, hwOK, upOK) = st[Len(w)]
  BY <1>8, <1>10, OutputsStepwise
<1>12. PICK new : NewPackets(st[Len(w)], w, Len(w), new)
  BY <1>6, <1>9, <1>11, NewOutputs
<1>13. /\ written' = written \o new /\ new \in Seq(Seq(Words)) /\ Packets(new) /\ Ordered(new)
       /\ {Source(new[j]) : j \in DOMAIN new} = Brought(n)
  BY <1>5, <1>9, <1>11, <1>12, BroughtIsFound DEF NewPackets
<1>14. SubSeq(written', Len(written) + 1, Len(written')) = new
  BY <1>1, <1>13, AddedBehind
<1>15. ToSet(new) = {Packet(f) : f \in Brought(n)}
  <2>1. ToSet(new) = {new[j] : j \in DOMAIN new}
    BY DEF ToSet
  <2>2. \A j \in DOMAIN new : new[j] = Packet(Source(new[j]))
    BY <1>13 DEF Packets
  <2>3. {new[j] : j \in DOMAIN new} = {Packet(f) : f \in {Source(new[j]) : j \in DOMAIN new}}
    BY <2>2
  <2> QED
    BY <1>13, <2>1, <2>3
<1>16. Len(new) = Cardinality(Brought(n))
  <2>1. \A j \in DOMAIN new : Source(new[j]) \in Nat
    BY <1>1, <1>13 DEF Packets, FramesOK
  <2> QED
    BY <1>13, <2>1, AsMany
<1> QED
  BY <1>14, <1>15, <1>16

-----------------------------------------------------------------------------

\* Type correctness: the parser, which trusts the lengths it reads, does not read
\* further behind read_buffer_ctrl than Beyond has words, whatever is in it.
THEOREM LinkTypeCorrect == Spec => []TypeOK
<1>1. LinkInv => TypeOK
  BY DEF LinkInv
<1> QED
  BY <1>1, LinkHolds, PTL

\* As long as every transfer ended with a frame, what is on the TAP and at the GSMTAP
\* host are the packets and messages of frames, in order (protocol.c:64-103).
THEOREM NoSpliceHolds == Spec => []NoSplice
<1>1. LinkInv => NoSplice
  BY DEF LinkInv, GoodOut, Before, NoSplice, Packets, Messages, Ordered, Size
<1> QED
  BY <1>1, LinkHolds, PTL

\* The TAP has an address of the modem, from before its packets (tap.c:24-28).
THEOREM AddressOfModemHolds == Spec => []AddressOfModem
<1>1. LinkInv => AddressOfModem
  BY DEF LinkInv, GoodOut, Before, AddressOfModem, Addressed, Above
<1> QED
  BY <1>1, LinkHolds, PTL

\* Cut transfers do no lasting harm: with the TAP up, a transfer that begins and ends
\* with a whole frame hands over exactly its data frames (protocol.c:64, 102).
THEOREM ResyncHolds == Spec => Resync
<1>1. LinkInv => \A n \in 1..Len(wire) : ResyncOf(n)
  BY ReceiveResyncs DEF ResyncOf
<1>2. ASSUME LinkInv, [Next]_vars
      PROVE  [\A n \in 1..Len(wire) :
       (/\ wire' = SubSeq(wire, n + 1, Len(wire)) /\ Len(wire') = Len(wire) - n
        /\ wire[1].o = 0 /\ Whole(n) /\ tap.up /\ Receive)
       => LET new == SubSeq(written', Len(written) + 1, Len(written'))
          IN  /\ ToSet(new) = {Packet(f) : f \in Brought(n)}
              /\ Len(new) = Cardinality(Brought(n))]_vars
  BY <1>1, <1>2 DEF ResyncOf
<1> QED
  BY <1>2, LinkHolds, PTL DEF Spec, Resync
=============================================================================
