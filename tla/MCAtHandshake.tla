--------------------------- MODULE MCAtHandshake ---------------------------
(***************************************************************************)
(* AtHandshake with the script of modem.c: 18 steps, the PIN at step 10,   *)
(* the query of the contexts at 15, the APN at 17, the attach at 18.  The  *)
(* runs differ in whether a PIN is given and in what may go wrong.         *)
(***************************************************************************)
EXTENDS AtHandshake

\* The network states around the threshold of modem.c:130.
NwAround == {3, 4}

\* Everything may go wrong.
Anything == Disturbances

\* Lines arrive whole, the context query finds an active context, and the IN
\* endpoint stays open (its loss only cuts a behaviour short).
WholeLines == {"early", "refused", "error", "unsent", "sigint"}

\* Nothing goes wrong, and no answer comes before its command's send returns.
Nothing == {}

\* Nothing goes wrong, but an answer may be handled inside a send.
EarlyAnswers == {"early"}
=============================================================================
