--------------------------- MODULE MCKalmiaFrames ---------------------------
(***************************************************************************)
(* KalmiaFrames with packets of up to three parts.  One length is that of  *)
(* a frame, one is shorter than two headers, one is only found in a length *)
(* field.                                                                  *)
(***************************************************************************)
EXTENDS KalmiaFrames

SomeLengths == {0, 9, 15, 65535}
SomeRooms == 0..11
=============================================================================
