------------------------------ MODULE AtScript ------------------------------
(***************************************************************************)
(* What the dial-up of the modem manager promises, whatever carries the    *)
(* commands: the steps of the script are issued one at a time, a step only *)
(* after the modem has accepted the one before it, and the link is         *)
(* declared up only when every step has been accepted.  AtHandshake        *)
(* implements it when no PIN is given.                                     *)
(***************************************************************************)
EXTENDS Naturals

CONSTANT N          \* the number of steps of the script, a natural

VARIABLES
  issued,           \* steps written to the modem
  accepted,         \* steps the modem has answered with OK
  up                \* the link was declared up

vars == <<issued, accepted, up>>

TypeOK ==
  /\ issued \in 0..N
  /\ accepted \in 0..N
  /\ up \in BOOLEAN

Init ==
  /\ issued = 0
  /\ accepted = 0
  /\ up = FALSE

Issue ==
  /\ issued = accepted
  /\ issued < N
  /\ issued' = issued + 1
  /\ UNCHANGED <<accepted, up>>

Accept ==
  /\ accepted < issued
  /\ accepted' = issued
  /\ UNCHANGED <<issued, up>>

Declare ==
  /\ accepted = N
  /\ up' = TRUE
  /\ UNCHANGED <<issued, accepted>>

Next == Issue \/ Accept \/ Declare

Spec == Init /\ [][Next]_vars
=============================================================================
