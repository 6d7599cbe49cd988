----------------------------- MODULE EventLoop ------------------------------
(***************************************************************************)
(* The main loop of the modem manager (lte.c): process_events_once polls   *)
(* the descriptors of libusb and the TAP, reads the TAP itself and leaves  *)
(* the rest to libusb; modem_process follows.  What is read from the TAP   *)
(* goes up in a synchronous transfer (tap.c, lte_send_ctrl), which handles *)
(* the events of libusb in the middle of the walk over the poll set, and   *)
(* these may replace the poll set (cb_remove_pollfd, alloc_fds).           *)
(*                                                                         *)
(* What the callbacks do with the data is in AtHandshake and CtrlLink; of  *)
(* modem_process only its sends and connected() are kept.  No transfer     *)
(* with a timeout is pending while the loop polls, so                      *)
(* libusb_get_next_timeout returns 0 and lines 235-238 and 245 do nothing. *)
(***************************************************************************)
EXTENDS Integers, Sequences, FiniteSets, SequencesExt

CONSTANTS
  MaxPackets,  \* bound: packets the network stack sends to the TAP
  May          \* the disturbances that may happen, see Disturbances

Disturbances ==
  { "notap",     \* create_tap fails, the manager goes on without a TAP
    "deleted",   \* the TAP interface is deleted while it is open
    "interrupt", \* poll is interrupted
    "error",     \* an IN transfer fails
    "submit",    \* libusb_submit_transfer fails
    "timeout",   \* an OUT transfer of the control endpoint takes over 100 ms
    "unplug" }   \* the dongle is unplugged

Endpoints == {"modem", "ctrl"}

ASSUME LoopAssumption == MaxPackets \in Nat /\ May \subseteq Disturbances

VARIABLES
  pc,        \* "poll", "walk", "sending" (in read_tap), "events", "process", "atsend"
  fds, i,    \* the poll set with its revents, and the place of the walk
  process_libusb,
  isconn, device_disconnected,
  cur        \* the packet being sent, 0 if tap_read had none

VARIABLES
  transfer,  \* of the IN transfer of each endpoint, see TransferStates
  dongle,    \* "plugged", "unplugged", or "removed" once libusb has noticed
  tap,       \* "none", "open" or "deleted"
  tapq,      \* packets waiting in the TAP
  made       \* packets the network stack has sent so far

VARIABLES    \* history
  reported,  \* what the last poll reported and nothing has handled yet
  up,        \* packets sent up whole, in order
  short      \* a frame without a packet was sent up

loop == <<pc, fds, i, process_libusb, isconn, device_disconnected, cur>>
env  == <<transfer, dongle, tap, tapq, made>>
vars == <<loop, env, reported, up, short>>

\* "refused": libusb_submit_transfer failed; "idle": not submitted.
TransferStates == {"posted", "done", "failed", "refused", "idle"}

Descriptors == {"pipe", "dongle", "tap"}
PollFd == [fd : Descriptors, revents : BOOLEAN]

LoopTypes ==
  /\ pc \in {"poll", "walk", "sending", "events", "process", "atsend"}
  /\ fds \in Seq(PollFd)
  /\ i \in 1..4  \* past the end, if the set shrinks in the walk
  /\ cur \in 0..made

FlagTypes ==
  /\ process_libusb \in BOOLEAN /\ isconn \in BOOLEAN /\ device_disconnected \in BOOLEAN
  /\ short \in BOOLEAN

EnvTypes ==
  /\ transfer \in [Endpoints -> TransferStates]
  /\ dongle \in {"plugged", "unplugged", "removed"}
  /\ tap \in {"none", "open", "deleted"}
  /\ made \in 0..MaxPackets /\ tapq \in Seq(1..made)

TypeOK ==
  /\ LoopTypes /\ FlagTypes /\ EnvTypes
  /\ reported \subseteq Descriptors /\ up \in Seq(1..made)

-----------------------------------------------------------------------------
\* The descriptors of libusb: its own pipe, and the dongle until libusb removes it.
LibusbFds(d) == IF d = "removed" THEN <<"pipe">> ELSE <<"pipe", "dongle">>

\* Mutant: the TAP is counted only when the set is made for the first time.
alloc_fds_NoTap(d) ==
  [k \in DOMAIN LibusbFds(d) |-> [fd |-> LibusbFds(d)[k], revents |-> FALSE]]

\* The new poll set: the descriptors of libusb, then the TAP.
alloc_fds(d) ==
  LET all == LibusbFds(d) \o (IF tap = "none" THEN << >> ELSE <<"tap">>)
  IN  [k \in DOMAIN all |-> [fd |-> all[k], revents |-> FALSE]]

\* Mutant: the poll set keeps a descriptor that libusb has removed.
cb_remove_pollfd_Ignored(d) == fds' = fds

cb_remove_pollfd(d) == fds' = alloc_fds(d)

\* What libusb_submit_transfer makes of a transfer.
Submitted == {"posted"} \cup (IF "submit" \in May THEN {"refused"} ELSE {})

Init ==
  /\ pc = "poll" /\ i = 1 /\ process_libusb = FALSE
  /\ isconn = FALSE /\ device_disconnected = FALSE /\ cur = 0
  /\ transfer \in [Endpoints -> Submitted]
  /\ dongle = "plugged"
  /\ tap \in {"open"} \cup (IF "notap" \in May THEN {"none"} ELSE {})
  /\ fds = alloc_fds("plugged")
  /\ tapq = << >> /\ made = 0
  /\ reported = {} /\ up = << >> /\ short = FALSE

-----------------------------------------------------------------------------
(* What libusb does when it handles events: the callbacks.                 *)

Completed == {e \in Endpoints : transfer[e] \in {"done", "failed"}}

\* Mutant: only a completed transfer is submitted again, a failed one is not.
Resubmitted_DoneOnly(e) ==
  IF transfer[e] = "done" THEN Submitted ELSE {"idle"}

\* cb_req_modem, cb_req_ctrl: submitted again, whether it had completed or failed.
Resubmitted(e) == Submitted

\* Every completed transfer is handed to its callback.  If the dongle is gone,
\* its descriptor is removed from the poll set and the posted transfers end with
\* NO_DEVICE; they are not submitted again.
HandleEvents ==
  /\ IF dongle = "plugged"
       THEN /\ transfer' \in [Endpoints -> TransferStates]
            /\ \A e \in Endpoints :
                 transfer'[e] \in IF e \in Completed THEN Resubmitted(e) ELSE {transfer[e]}
            /\ UNCHANGED <<dongle, fds, device_disconnected>>
       ELSE /\ transfer' = [e \in Endpoints |-> "idle"]
            /\ dongle' = "removed"
            /\ IF dongle = "unplugged" THEN cb_remove_pollfd("removed") ELSE fds' = fds
            /\ device_disconnected' =
                 (device_disconnected \/ \E e \in Endpoints : transfer[e] = "posted")
  /\ reported' = reported \ {"pipe", "dongle"}

\* Inside a synchronous transfer, while it waits.
NestedEvents ==
  /\ pc \in {"sending", "atsend"}
  /\ Completed # {} \/ dongle = "unplugged"
  /\ HandleEvents
  /\ UNCHANGED <<pc, i, process_libusb, isconn, cur, tap, tapq, made, up, short>>

-----------------------------------------------------------------------------
(* process_events_once.                                                    *)

Ready(fd) ==
  CASE fd = "pipe"   -> FALSE
    [] fd = "dongle" -> Completed # {} \/ dongle = "unplugged"
    [] fd = "tap"    -> tap = "deleted" \/ tapq # << >>

Poll ==
  /\ pc = "poll"
  /\ fds' = [k \in DOMAIN fds |-> [fds[k] EXCEPT !.revents = Ready(fds[k].fd)]]
  /\ reported' = {fds[k].fd : k \in {x \in DOMAIN fds : Ready(fds[x].fd)}}
  /\ pc' = "walk" /\ i' = 1 /\ process_libusb' = FALSE
  /\ UNCHANGED <<isconn, device_disconnected, cur, env, up, short>>

\* poll fails: the revents are left as they were, process_events_once returns.
PollInterrupted ==
  /\ pc = "poll" /\ "interrupt" \in May
  /\ pc' = "process"
  /\ UNCHANGED <<fds, i, process_libusb, isconn, device_disconnected, cur, env, reported, up, short>>

WalkLibusb ==
  /\ pc = "walk" /\ i <= Len(fds) /\ fds[i].fd # "tap"
  /\ process_libusb' = (process_libusb \/ fds[i].revents)
  /\ i' = i + 1
  /\ UNCHANGED <<pc, fds, isconn, device_disconnected, cur, env, reported, up, short>>

\* Mutant: the loop returns with the result of read_tap.
WalkTap_Returns ==
  /\ pc = "walk" /\ i <= Len(fds) /\ fds[i].fd = "tap" /\ fds[i].revents
  /\ cur' = IF tap = "open" THEN Head(tapq) ELSE 0
  /\ tapq' = IF tap = "open" THEN Tail(tapq) ELSE tapq
  /\ pc' = IF isconn THEN "sending" ELSE "process"
  /\ i' = i /\ reported' = reported \ {"tap"}
  /\ UNCHANGED <<fds, process_libusb, isconn, device_disconnected, transfer, dongle, tap, made, up, short>>

\* Mutant: the TAP is read whatever poll said of it.
WalkIdleTap_Reads ==
  /\ pc = "walk" /\ i <= Len(fds) /\ fds[i].fd = "tap" /\ ~fds[i].revents
  /\ tapq = << >> /\ cur' = 0
  /\ IF isconn THEN pc' = "sending" /\ i' = i ELSE pc' = pc /\ i' = i + 1
  /\ UNCHANGED <<fds, process_libusb, isconn, device_disconnected, env, reported, up, short>>

WalkIdleTap ==
  /\ pc = "walk" /\ i <= Len(fds) /\ fds[i].fd = "tap" /\ ~fds[i].revents
  /\ i' = i + 1
  /\ UNCHANGED <<pc, fds, process_libusb, isconn, device_disconnected, cur, env, reported, up, short>>

\* read_tap, tap_read up to lte_send_ctrl, which sends only if isconn.  From a
\* deleted TAP the read fails, and what is sent has no packet in it.
WalkTap ==
  /\ pc = "walk" /\ i <= Len(fds) /\ fds[i].fd = "tap" /\ fds[i].revents
  /\ cur' = IF tap = "open" THEN Head(tapq) ELSE 0
  /\ tapq' = IF tap = "open" THEN Tail(tapq) ELSE tapq
  /\ IF isconn THEN pc' = "sending" /\ i' = i ELSE pc' = pc /\ i' = i + 1
  /\ reported' = reported \ {"tap"}
  /\ UNCHANGED <<fds, process_libusb, isconn, device_disconnected, transfer, dongle, tap, made, up, short>>

\* Mutant: a transfer that times out is sent again, sent in part or not.
SendReturns_Retries ==
  /\ pc = "sending" /\ dongle = "plugged"
  /\ up' = IF cur = 0 THEN up ELSE Append(up, cur)
  /\ short' = (short \/ cur = 0)
  /\ \/ pc' = "walk" /\ i' = i + 1
     \/ "timeout" \in May /\ Len(up) < MaxPackets /\ UNCHANGED <<pc, i>>
  /\ UNCHANGED <<fds, process_libusb, isconn, device_disconnected, cur, env, reported>>

\* Mutant: what a failed read leaves in the buffer is taken for a packet.
SendReturns_Counted ==
  /\ pc = "sending"
  /\ IF dongle = "plugged" THEN up' = Append(up, cur) ELSE up' = up
  /\ pc' = "walk" /\ i' = i + 1
  /\ UNCHANGED <<fds, process_libusb, isconn, device_disconnected, cur, env, reported, short>>

\* The transfer ends: sent, or not, or in part; its result is only printed.
SendReturns ==
  /\ pc = "sending"
  /\ \/ /\ dongle = "plugged"
        /\ up' = IF cur = 0 THEN up ELSE Append(up, cur)
        /\ short' = (short \/ cur = 0)
     \/ ("timeout" \in May \/ dongle # "plugged") /\ UNCHANGED <<up, short>>
  /\ pc' = "walk" /\ i' = i + 1
  /\ UNCHANGED <<fds, process_libusb, isconn, device_disconnected, cur, env, reported>>

\* Mutant: the loop ends one descriptor early.
WalkEnd_Early ==
  /\ pc = "walk" /\ i >= Len(fds)
  /\ pc' = IF process_libusb THEN "events" ELSE "process"
  /\ UNCHANGED <<fds, i, process_libusb, isconn, device_disconnected, cur, env, reported, up, short>>

WalkEnd ==
  /\ pc = "walk" /\ i > Len(fds)
  /\ pc' = IF process_libusb THEN "events" ELSE "process"
  /\ UNCHANGED <<fds, i, process_libusb, isconn, device_disconnected, cur, env, reported, up, short>>

Events ==
  /\ pc = "events"
  /\ HandleEvents
  /\ pc' = "process"
  /\ UNCHANGED <<i, process_libusb, isconn, cur, tap, tapq, made, up, short>>

-----------------------------------------------------------------------------
(* modem_process.                                                          *)

ProcessIdle ==
  /\ pc = "process" /\ pc' = "poll"
  /\ UNCHANGED <<fds, i, process_libusb, isconn, device_disconnected, cur, env, reported, up, short>>

connected ==
  /\ pc = "process" /\ pc' = "poll" /\ isconn' = TRUE
  /\ UNCHANGED <<fds, i, process_libusb, device_disconnected, cur, env, reported, up, short>>

\* lte_send_modem: a transfer without a timeout.
SendAt ==
  /\ pc = "process" /\ pc' = "atsend"
  /\ UNCHANGED <<fds, i, process_libusb, isconn, device_disconnected, cur, env, reported, up, short>>

\* The modem takes the command, some time or never.
AtTaken ==
  /\ pc = "atsend" /\ dongle = "plugged" /\ pc' = "poll"
  /\ UNCHANGED <<fds, i, process_libusb, isconn, device_disconnected, cur, env, reported, up, short>>

AtFails ==
  /\ pc = "atsend" /\ dongle # "plugged" /\ pc' = "poll"
  /\ UNCHANGED <<fds, i, process_libusb, isconn, device_disconnected, cur, env, reported, up, short>>

-----------------------------------------------------------------------------
(* The dongle and the network stack.                                       *)

PacketArrives ==
  /\ tap = "open" /\ made < MaxPackets
  /\ made' = made + 1 /\ tapq' = Append(tapq, made + 1)
  /\ UNCHANGED <<loop, transfer, dongle, tap, reported, up, short>>

TapDeleted ==
  /\ tap = "open" /\ "deleted" \in May
  /\ tap' = "deleted" /\ tapq' = << >>
  /\ UNCHANGED <<loop, transfer, dongle, made, reported, up, short>>

Complete(e) ==
  /\ dongle = "plugged" /\ transfer[e] = "posted"
  /\ \E s \in {"done"} \cup (IF "error" \in May THEN {"failed"} ELSE {}) :
       transfer' = [transfer EXCEPT ![e] = s]
  /\ UNCHANGED <<loop, dongle, tap, tapq, made, reported, up, short>>

Unplug ==
  /\ dongle = "plugged" /\ "unplug" \in May
  /\ dongle' = "unplugged"
  /\ UNCHANGED <<loop, transfer, tap, tapq, made, reported, up, short>>

-----------------------------------------------------------------------------
Walk == WalkLibusb \/ WalkIdleTap \/ WalkTap \/ SendReturns \/ WalkEnd

MainLoop == Poll \/ Walk \/ Events \/ ProcessIdle \/ connected \/ SendAt \/ AtFails

Environment ==
  \/ PacketArrives \/ TapDeleted \/ Unplug
  \/ \E e \in Endpoints : Complete(e)

Next == MainLoop \/ PollInterrupted \/ AtTaken \/ NestedEvents \/ Environment

Spec == Init /\ [][Next]_vars

\* The loop runs, signals do not interrupt every poll, and libusb handles events
\* while it waits.  The modem need not take a command.
FairSpec == Spec /\ WF_vars(MainLoop) /\ SF_vars(Poll) /\ WF_vars(NestedEvents)

-----------------------------------------------------------------------------
(* Properties.                                                             *)

\* The loop never polls a poll set that is out of date: whatever libusb did since
\* the set was made, in Events or inside a synchronous transfer, poll watches the
\* descriptors libusb has now and the TAP (lte.c:318, lte.c:360).
PollSetCurrent ==
  pc = "poll" =>
    {fds[k].fd : k \in DOMAIN fds} =
      ToSet(LibusbFds(dongle)) \cup (IF tap = "none" THEN {} ELSE {"tap"})

\* Nothing that poll reported is left unhandled when the pass ends, although
\* the set may be replaced, and its revents lost, in the middle of the walk
\* (lte.c:246-261, lte.c:336).
ReportsHandled == pc \in {"process", "atsend", "poll"} => reported = {}

\* A frame without a packet goes up only when the TAP has been deleted: read is
\* never -1 otherwise (tap.c:49-57).
ShortOnlyWhenDeleted == short => tap = "deleted"

\* Packets of the TAP go up whole, in order and at most once: a transfer that times
\* out is not repeated, and a packet read before the connection is dropped.
Uplink == INSTANCE RecordQueue WITH
  Record <- 1..MaxPackets,
  queue <- (IF pc = "sending" /\ cur # 0 THEN <<cur>> ELSE << >>) \o tapq,
  taken <- up
UplinkSpec == Uplink!Spec

\* The TAP is emptied again and again, unless the modem never takes an AT command:
\* that transfer has no timeout and the loop waits in it (lte.c:172).
TapServed == []<>(tapq = << >>) \/ <>[](pc = "atsend")

\* A transfer that ended is submitted again, whatever else the loop waits for.
\* An endpoint falls silent only when the submission fails or the dongle is gone
\* (lte.c:379, lte.c:396).
EndpointsServed ==
  \A e \in Endpoints :
    transfer[e] \in {"done", "failed"} ~> transfer[e] \in {"posted", "refused"} \/ dongle # "plugged"

\* That the dongle is gone is noticed, and its descriptor leaves the poll set for
\* good: the loop does not spin on it (lte.c:360, lte.c:373).
UnplugNoticed == dongle = "unplugged" ~> [](\A k \in DOMAIN fds : fds[k].fd # "dongle")
=============================================================================
