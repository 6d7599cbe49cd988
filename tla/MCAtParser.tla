----------------------------- MODULE MCAtParser -----------------------------
(***************************************************************************)
(* AtParser with two lines of every kind, or three of some.                *)
(***************************************************************************)
EXTENDS AtParser

Some == {"ok", "quoted", "dash"}
TwoOrThree == [1..2 -> Kinds] \cup [1..3 -> Some]
=============================================================================
