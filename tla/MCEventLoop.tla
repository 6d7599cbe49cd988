---------------------------- MODULE MCEventLoop -----------------------------
(***************************************************************************)
(* EventLoop with three packets and every disturbance.                       *)
(***************************************************************************)
EXTENDS EventLoop

Anything == Disturbances
=============================================================================
