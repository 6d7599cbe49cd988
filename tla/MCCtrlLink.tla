----------------------------- MODULE MCCtrlLink -----------------------------
(***************************************************************************)
(* CtrlLink with a buffer that holds an address message and a packet: a    *)
(* short transfer leaves most of an earlier one behind.                    *)
(***************************************************************************)
EXTENDS CtrlLink

AllKinds == DOMAIN Shape

\* Everything may go wrong.
Anything == Disturbances
=============================================================================
