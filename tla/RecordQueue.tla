---------------------------- MODULE RecordQueue -----------------------------
(***************************************************************************)
(* What the debug FIFO of the kalmia driver promises its readers, and the  *)
(* event loop the packets of the TAP: records are taken whole, in the      *)
(* order they were put, none twice.  Any of them may be lost.              *)
(***************************************************************************)
EXTENDS Naturals, Sequences

CONSTANT Record

VARIABLES
  queue,    \* records waiting
  taken     \* records the readers got, in order

vars == <<queue, taken>>

Init == queue = << >> /\ taken = << >>

\* A record is put behind all records put before it.
Put(r) ==
  /\ \A i \in DOMAIN queue : queue[i] < r
  /\ \A i \in DOMAIN taken : taken[i] < r
  /\ queue' = Append(queue, r)
  /\ UNCHANGED taken

Take ==
  /\ queue # << >>
  /\ taken' = Append(taken, Head(queue))
  /\ queue' = Tail(queue)

\* Any stretch of the records waiting is lost.
Lose ==
  /\ \E j, k \in 1..Len(queue) :
       j <= k /\ queue' = SubSeq(queue, 1, j - 1) \o SubSeq(queue, k + 1, Len(queue))
  /\ UNCHANGED taken

Next == (\E r \in Record : Put(r)) \/ Take \/ Lose

Spec == Init /\ [][Next]_vars
=============================================================================
