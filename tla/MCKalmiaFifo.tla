---------------------------- MODULE MCKalmiaFifo ----------------------------
(***************************************************************************)
(* KalmiaFifo with room for two records, so that the FIFO gets full.       *)
(***************************************************************************)
EXTENDS KalmiaFifo

OneOrTwo == {1, 2}
=============================================================================
