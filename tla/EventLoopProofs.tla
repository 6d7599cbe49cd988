-------------------------- MODULE EventLoopProofs ---------------------------
(***************************************************************************)
(* What EventLoop guarantees for any number of packets and every           *)
(* combination of disturbances.                                            *)
(***************************************************************************)
EXTENDS EventLoop, SequenceTheorems, TLAPS

-----------------------------------------------------------------------------
(* The inductive invariant.                                                *)

\* How many descriptors libusb has.
LibusbCount == IF dongle = "removed" THEN 1 ELSE 2

\* The poll set has the descriptors of libusb, then the TAP, at every moment:
\* libusb removes a descriptor and alloc_fds makes a new set in one step.
PollSetInv ==
  /\ Len(fds) = LibusbCount + (IF tap = "none" THEN 0 ELSE 1)
  /\ fds[1].fd = "pipe"
  /\ dongle # "removed" => fds[2].fd = "dongle"
  /\ tap # "none" => fds[Len(fds)].fd = "tap"

\* The walk has still to come to what was reported and not handled, or it is noted
\* in process_libusb; while a packet is sent, the TAP is behind it.
WalkInv ==
  /\ reported \subseteq {"dongle", "tap"}
  /\ pc = "walk" =>
       /\ "dongle" \in reported => process_libusb \/ (i <= 2 /\ 2 <= Len(fds) /\ fds[2].fd = "dongle" /\ fds[2].revents)
       /\ "tap" \in reported => i <= Len(fds) /\ fds[Len(fds)].fd = "tap" /\ fds[Len(fds)].revents
  /\ pc = "sending" => i \in 1..3 /\ i >= Len(fds) /\ "tap" \notin reported /\ ("dongle" \in reported => process_libusb)
  /\ pc = "events" => "tap" \notin reported
  /\ pc \in {"process", "atsend", "poll"} => reported = {}

\* What makes read fail.
TapInv ==
  /\ pc = "walk" /\ i <= Len(fds) /\ fds[Len(fds)].fd = "tap" /\ fds[Len(fds)].revents
       => tap = "deleted" \/ tapq # << >>
  /\ pc = "sending" /\ cur = 0 => tap = "deleted"
  /\ short => tap = "deleted"

LoopInv == TypeOK /\ PollSetInv /\ WalkInv /\ TapInv

-----------------------------------------------------------------------------
(* The poll set.                                                           *)

\* The new poll set is complete, and has no revents.
LEMMA AllocatedFds ==
  ASSUME NEW d \in {"plugged", "unplugged", "removed"}
  PROVE  LET new == alloc_fds(d)
             n   == IF d = "removed" THEN 1 ELSE 2
         IN  /\ new \in Seq(PollFd)
             /\ Len(new) = n + (IF tap = "none" THEN 0 ELSE 1)
             /\ new[1].fd = "pipe"
             /\ d # "removed" => new[2].fd = "dongle"
             /\ tap # "none" => new[Len(new)].fd = "tap"
             /\ \A k \in DOMAIN new : ~new[k].revents
<1> DEFINE dev == LibusbFds(d)
           own == IF tap = "none" THEN << >> ELSE <<"tap">>
           all == dev \o own
<1>1. /\ dev \in Seq(Descriptors) /\ Len(dev) = (IF d = "removed" THEN 1 ELSE 2)
      /\ dev[1] = "pipe" /\ (d # "removed" => dev[2] = "dongle")
      /\ own \in Seq(Descriptors) /\ Len(own) = (IF tap = "none" THEN 0 ELSE 1)
      /\ tap # "none" => own[1] = "tap"
  <2>0. /\ own \in Seq(Descriptors) /\ Len(own) = (IF tap = "none" THEN 0 ELSE 1)
        /\ tap # "none" => own[1] = "tap"
    <3>1. CASE tap = "none"
      BY <3>1
    <3>2. CASE tap # "none"
      BY <3>2 DEF Descriptors
    <3> QED
      BY <3>1, <3>2
  <2>1. CASE d = "removed"
    <3>1. dev = <<"pipe">>
      BY <2>1 DEF LibusbFds
    <3> HIDE DEF dev
    <3>2. dev \in Seq(Descriptors) /\ Len(dev) = 1 /\ dev[1] = "pipe"
      BY <3>1 DEF Descriptors
    <3> QED
      BY <2>1, <3>2, <2>0
  <2>2. CASE d # "removed"
    <3>1. dev = <<"pipe", "dongle">>
      BY <2>2 DEF LibusbFds
    <3> HIDE DEF dev
    <3>2. dev \in Seq(Descriptors) /\ Len(dev) = 2 /\ dev[1] = "pipe" /\ dev[2] = "dongle"
      BY <3>1 DEF Descriptors
    <3> QED
      BY <2>2, <3>2, <2>0
  <2> QED
    BY <2>1, <2>2
<1>2. alloc_fds(d) = [k \in DOMAIN all |-> [fd |-> all[k], revents |-> FALSE]]
  BY DEF alloc_fds
<1>3. /\ all \in Seq(Descriptors)
      /\ Len(all) = (IF d = "removed" THEN 1 ELSE 2) + (IF tap = "none" THEN 0 ELSE 1)
      /\ all[1] = "pipe"
      /\ d # "removed" => all[2] = "dongle"
      /\ tap # "none" => all[Len(all)] = "tap"
  <2> HIDE DEF dev, own
  <2>1. Len(all) = Len(dev) + Len(own) /\ all \in Seq(Descriptors)
    BY <1>1, ConcatProperties
  <2>2. \A k \in 1..Len(all) : all[k] = IF k <= Len(dev) THEN dev[k] ELSE own[k - Len(dev)]
    BY <1>1, <2>1, ConcatProperties
  <2> HIDE DEF all
  <2> QED
    BY <1>1, <2>1, <2>2
<1> HIDE DEF all
<1>4. alloc_fds(d) \in Seq(PollFd) /\ Len(alloc_fds(d)) = Len(all)
  BY <1>2, <1>3 DEF PollFd
<1>5. \A k \in 1..Len(all) : alloc_fds(d)[k].fd = all[k] /\ ~alloc_fds(d)[k].revents
  BY <1>2, <1>3
<1>6. DOMAIN alloc_fds(d) = 1..Len(all) /\ Len(all) \in 1..3 /\ (d # "removed" => Len(all) >= 2)
  BY <1>2, <1>3
<1> QED
  BY <1>3, <1>4, <1>5, <1>6

-----------------------------------------------------------------------------
(* Every step keeps the invariant.                                         *)

LEMMA InitInv == Init => LoopInv
<1> SUFFICES ASSUME Init PROVE LoopInv
  OBVIOUS
<1>1. /\ fds = alloc_fds("plugged") /\ dongle = "plugged" /\ pc = "poll" /\ reported = {}
      /\ tap \in {"open", "none"} /\ ~short /\ made = 0 /\ tapq = << >> /\ up = << >>
      /\ i = 1 /\ cur = 0
  BY DEF Init
<1>2. /\ fds \in Seq(PollFd)
      /\ Len(fds) = 2 + (IF tap = "none" THEN 0 ELSE 1)
      /\ fds[1].fd = "pipe" /\ fds[2].fd = "dongle" /\ (tap # "none" => fds[Len(fds)].fd = "tap")
  BY <1>1, AllocatedFds
<1>3. transfer \in [Endpoints -> TransferStates]
  BY DEF Init, Submitted, TransferStates
<1>4. TypeOK
  <2>1. LoopTypes
    BY <1>1, <1>2 DEF LoopTypes
  <2>2. EnvTypes
    BY <1>1, <1>3, LoopAssumption DEF EnvTypes
  <2>3. FlagTypes
    BY Zenon DEF Init, FlagTypes
  <2> QED
    BY <1>1, <2>1, <2>2, <2>3 DEF TypeOK
<1>5. PollSetInv
  BY <1>1, <1>2 DEF PollSetInv, LibusbCount
<1>6. WalkInv /\ TapInv
  BY <1>1 DEF WalkInv, TapInv
<1> QED
  BY <1>4, <1>5, <1>6 DEF LoopInv

\* Steps that only move pc between the walk and the next poll.
LEMMA QuietInv ==
  ASSUME LoopInv, PollInterrupted \/ ProcessIdle \/ connected \/ SendAt \/ AtTaken \/ AtFails
  PROVE  LoopInv'
<1>1. /\ pc \in {"poll", "process", "atsend"} /\ pc' \in {"poll", "process", "atsend"} /\ isconn' \in {isconn, TRUE}
      /\ UNCHANGED <<fds, i, process_libusb, device_disconnected, cur, env, reported, up, short>>
  BY DEF PollInterrupted, ProcessIdle, connected, SendAt, AtTaken, AtFails
<1>2. TypeOK'
  <2>1. FlagTypes'
    BY <1>1, Zenon DEF LoopInv, TypeOK, FlagTypes
  <2>2. LoopTypes' /\ EnvTypes'
    BY <1>1 DEF LoopInv, TypeOK, LoopTypes, EnvTypes, env
  <2> QED
    BY <1>1, <2>1, <2>2 DEF LoopInv, TypeOK, env
<1>3. PollSetInv'
  BY <1>1 DEF LoopInv, PollSetInv, LibusbCount, env
<1>4. WalkInv' /\ TapInv'
  BY <1>1 DEF LoopInv, WalkInv, TapInv, env
<1> QED
  BY <1>2, <1>3, <1>4 DEF LoopInv

LEMMA PollInv ==
  ASSUME LoopInv, Poll
  PROVE  LoopInv'
<1>1. /\ pc' = "walk" /\ i' = 1 /\ process_libusb' = FALSE
      /\ UNCHANGED <<isconn, device_disconnected, cur, env, up, short>>
      /\ fds' = [k \in DOMAIN fds |-> [fds[k] EXCEPT !.revents = Ready(fds[k].fd)]]
      /\ reported' = {fds[k].fd : k \in {x \in DOMAIN fds : Ready(fds[x].fd)}}
  BY DEF Poll
<1>2. /\ ~Ready("pipe")
      /\ Ready("tap") => tap = "deleted" \/ tapq # << >>
      /\ \A d \in Descriptors : Ready(d) \in BOOLEAN
  BY DEF Ready, Descriptors
<1>3. fds \in Seq(PollFd) /\ PollSetInv /\ dongle \in {"plugged", "unplugged", "removed"}
  BY DEF LoopInv, TypeOK, LoopTypes, EnvTypes
<1>4. /\ Len(fds) \in 1..3
      /\ \A k \in 1..Len(fds) : fds[k] \in PollFd /\ fds[k].fd \in Descriptors
  <2>1. Len(fds) \in 1..3
    BY <1>3 DEF PollSetInv, LibusbCount
  <2>2. \A k \in 1..Len(fds) : fds[k] \in PollFd
    BY <1>3
  <2>3. \A x \in PollFd : x.fd \in Descriptors
    BY DEF PollFd
  <2> QED
    BY <2>1, <2>2, <2>3
<1>5. /\ fds' \in Seq(PollFd) /\ Len(fds') = Len(fds)
      /\ \A k \in 1..Len(fds) : fds'[k].fd = fds[k].fd /\ fds'[k].revents = Ready(fds[k].fd)
  <2>1. fds' = [k \in 1..Len(fds) |-> [fds[k] EXCEPT !.revents = Ready(fds[k].fd)]]
    BY <1>1, <1>3
  <2>2. \A k \in 1..Len(fds) :
          /\ [fds[k] EXCEPT !.revents = Ready(fds[k].fd)] \in PollFd
          /\ [fds[k] EXCEPT !.revents = Ready(fds[k].fd)].fd = fds[k].fd
          /\ [fds[k] EXCEPT !.revents = Ready(fds[k].fd)].revents = Ready(fds[k].fd)
    BY <1>2, <1>4 DEF PollFd
  <2>3. fds' \in [1..Len(fds) -> PollFd] /\ Len(fds) \in Nat
    BY <1>4, <2>1, <2>2
  <2>4. fds' \in Seq(PollFd) /\ Len(fds') = Len(fds)
    BY <2>3
  <2>5. \A k \in 1..Len(fds) : fds'[k] = [fds[k] EXCEPT !.revents = Ready(fds[k].fd)]
    BY <2>1
  <2> QED
    BY <2>2, <2>4, <2>5, Zenon
<1>6. \A d \in reported' : d # "pipe" /\ \E k \in 1..Len(fds) : fds[k].fd = d /\ Ready(d)
  <2>1. DOMAIN fds = 1..Len(fds)
    BY <1>3
  <2> QED
    BY <1>1, <1>2, <2>1, Zenon
<1>7. reported' \subseteq {"dongle", "tap"}
  BY <1>4, <1>6 DEF Descriptors
<1>8. "dongle" \in reported' => 2 <= Len(fds) /\ fds[2].fd = "dongle" /\ Ready("dongle")
  BY <1>3, <1>4, <1>6 DEF PollSetInv, LibusbCount
<1>9. "tap" \in reported' => fds[Len(fds)].fd = "tap" /\ Ready("tap")
  BY <1>3, <1>4, <1>6 DEF PollSetInv, LibusbCount
<1>10. TypeOK'
  <2>1. LoopTypes' /\ EnvTypes'
    BY <1>1, <1>5 DEF LoopInv, TypeOK, LoopTypes, EnvTypes, env
  <2>2. FlagTypes'
    BY <1>1, Zenon DEF LoopInv, TypeOK, FlagTypes
  <2> QED
    BY <1>1, <1>7, <2>1, <2>2 DEF LoopInv, TypeOK, env, Descriptors
<1>11. PollSetInv'
  BY <1>1, <1>3, <1>4, <1>5 DEF PollSetInv, LibusbCount, env
<1>12. WalkInv'
  BY <1>1, <1>4, <1>5, <1>7, <1>8, <1>9 DEF WalkInv
<1>13. TapInv'
  BY <1>1, <1>2, <1>4, <1>5 DEF LoopInv, TapInv, env
<1> QED
  BY <1>10, <1>11, <1>12, <1>13 DEF LoopInv

\* The TAP is the last descriptor of the set.
LEMMA TapLast ==
  ASSUME LoopInv, NEW k \in 1..Len(fds), fds[k].fd = "tap"
  PROVE  k = Len(fds)
<1>1. Len(fds) \in 1..3 /\ fds[1].fd = "pipe"
  BY DEF LoopInv, TypeOK, LoopTypes, PollSetInv, LibusbCount
<1>2. Len(fds) = 3 => fds[2].fd = "dongle"
  BY DEF LoopInv, PollSetInv, LibusbCount
<1>3. k # 1 /\ (Len(fds) = 3 => k # 2)
  BY <1>1, <1>2
<1>4. \A n \in 1..3 : \A m \in 1..n : m # 1 /\ (n = 3 => m # 2) => m = n
  OBVIOUS
<1> QED
  BY <1>1, <1>3, <1>4

\* What libusb does keeps the poll set complete, and handles what was reported of
\* its descriptors.
LEMMA HandleEventsKept ==
  ASSUME LoopInv, HandleEvents, tap' = tap
  PROVE  /\ fds' \in Seq(PollFd) /\ PollSetInv' /\ Len(fds') <= Len(fds)
         /\ transfer' \in [Endpoints -> TransferStates]
         /\ dongle' \in {"plugged", "unplugged", "removed"}
         /\ device_disconnected' \in BOOLEAN
         /\ reported' = reported \ {"pipe", "dongle"}
<1>1. /\ fds \in Seq(PollFd) /\ PollSetInv /\ dongle \in {"plugged", "unplugged", "removed"}
      /\ transfer \in [Endpoints -> TransferStates] /\ Len(fds) \in Nat
  BY DEF LoopInv, TypeOK, LoopTypes, EnvTypes
<1>2. device_disconnected' \in BOOLEAN
  BY Zenon DEF HandleEvents, LoopInv, TypeOK, FlagTypes
<1>3. reported' = reported \ {"pipe", "dongle"}
  BY DEF HandleEvents
<1>4. CASE dongle = "plugged"
  <2>1. fds' = fds /\ dongle' = dongle /\ transfer' \in [Endpoints -> TransferStates]
    BY <1>4 DEF HandleEvents
  <2>2. PollSetInv'
    BY <1>1, <2>1 DEF PollSetInv, LibusbCount
  <2> QED
    BY <1>1, <1>2, <1>3, <2>1, <2>2
<1>5. CASE dongle # "plugged"
  <2>1. /\ transfer' = [e \in Endpoints |-> "idle"] /\ dongle' = "removed"
        /\ IF dongle = "unplugged" THEN fds' = alloc_fds("removed") ELSE fds' = fds
    BY <1>5 DEF HandleEvents, cb_remove_pollfd
  <2>2. transfer' \in [Endpoints -> TransferStates]
    BY <2>1 DEF TransferStates
  <2>3. CASE dongle = "unplugged"
    <3>1. /\ fds' \in Seq(PollFd) /\ fds'[1].fd = "pipe"
          /\ Len(fds') = 1 + (IF tap = "none" THEN 0 ELSE 1)
          /\ tap # "none" => fds'[Len(fds')].fd = "tap"
      BY <2>1, <2>3, AllocatedFds
    <3>2. PollSetInv' /\ Len(fds') <= Len(fds)
      BY <1>1, <2>1, <2>3, <3>1 DEF PollSetInv, LibusbCount
    <3> QED
      BY <1>2, <1>3, <2>1, <2>2, <3>1, <3>2
  <2>4. CASE dongle = "removed"
    <3>1. PollSetInv' /\ fds' = fds
      BY <1>1, <2>1, <2>4 DEF PollSetInv, LibusbCount
    <3> QED
      BY <1>1, <1>2, <1>3, <2>1, <2>2, <3>1
  <2> QED
    BY <1>1, <1>5, <2>3, <2>4
<1> QED
  BY <1>4, <1>5

LEMMA NestedEventsInv ==
  ASSUME LoopInv, NestedEvents
  PROVE  LoopInv'
<1>1. /\ pc \in {"sending", "atsend"} /\ HandleEvents
      /\ UNCHANGED <<pc, i, process_libusb, isconn, cur, tap, tapq, made, up, short>>
  BY DEF NestedEvents
<1>2. /\ fds' \in Seq(PollFd) /\ PollSetInv' /\ Len(fds') <= Len(fds)
      /\ transfer' \in [Endpoints -> TransferStates]
      /\ dongle' \in {"plugged", "unplugged", "removed"}
      /\ reported' = reported \ {"pipe", "dongle"}
  BY <1>1, HandleEventsKept
<1>3. TypeOK'
  <2>1. FlagTypes'
    BY <1>1, HandleEventsKept, Zenon DEF LoopInv, TypeOK, FlagTypes
  <2>2. LoopTypes' /\ EnvTypes'
    BY <1>1, <1>2 DEF LoopInv, TypeOK, LoopTypes, EnvTypes
  <2> QED
    BY <1>1, <1>2, <2>1, <2>2 DEF LoopInv, TypeOK
<1>4. Len(fds) \in Nat /\ Len(fds') \in Nat /\ i \in Nat
  BY <1>2 DEF LoopInv, TypeOK, LoopTypes
<1>5. WalkInv'
  BY <1>1, <1>2, <1>4 DEF LoopInv, WalkInv
<1>6. TapInv'
  BY <1>1 DEF LoopInv, TapInv
<1> QED
  BY <1>2, <1>3, <1>5, <1>6 DEF LoopInv

LEMMA EventsInv ==
  ASSUME LoopInv, Events
  PROVE  LoopInv'
<1>1. /\ pc = "events" /\ pc' = "process" /\ HandleEvents
      /\ UNCHANGED <<i, process_libusb, isconn, cur, tap, tapq, made, up, short>>
  BY DEF Events
<1>2. /\ fds' \in Seq(PollFd) /\ PollSetInv'
      /\ transfer' \in [Endpoints -> TransferStates]
      /\ dongle' \in {"plugged", "unplugged", "removed"}
      /\ reported' = reported \ {"pipe", "dongle"}
  BY <1>1, HandleEventsKept
<1>3. TypeOK'
  <2>1. FlagTypes'
    BY <1>1, HandleEventsKept, Zenon DEF LoopInv, TypeOK, FlagTypes
  <2>2. LoopTypes' /\ EnvTypes'
    BY <1>1, <1>2 DEF LoopInv, TypeOK, LoopTypes, EnvTypes
  <2> QED
    BY <1>1, <1>2, <2>1, <2>2 DEF LoopInv, TypeOK
<1>4. WalkInv' /\ TapInv'
  BY <1>1, <1>2 DEF LoopInv, WalkInv, TapInv
<1> QED
  BY <1>2, <1>3, <1>4 DEF LoopInv

LEMMA WalkLibusbInv ==
  ASSUME LoopInv, WalkLibusb
  PROVE  LoopInv'
<1>1. /\ pc = "walk" /\ i <= Len(fds) /\ fds[i].fd # "tap" /\ i' = i + 1
      /\ UNCHANGED <<pc, fds, isconn, device_disconnected, cur, env, reported, up, short>>
  BY DEF WalkLibusb
<1>2. Len(fds) \in 1..3 /\ i \in 1..3
  BY <1>1 DEF LoopInv, TypeOK, LoopTypes, PollSetInv, LibusbCount
<1>3. (process_libusb => process_libusb') /\ (fds[i].revents => process_libusb') /\ FlagTypes'
  BY <1>1, Zenon DEF WalkLibusb, LoopInv, TypeOK, FlagTypes
<1>4. TypeOK'
  <2>1. LoopTypes' /\ EnvTypes'
    BY <1>1, <1>2 DEF LoopInv, TypeOK, LoopTypes, EnvTypes, env
  <2> QED
    BY <1>1, <1>3, <2>1 DEF LoopInv, TypeOK, env
<1>5. PollSetInv'
  BY <1>1 DEF LoopInv, PollSetInv, LibusbCount, env
<1>6. "tap" \in reported => i + 1 <= Len(fds) /\ fds[Len(fds)].fd = "tap" /\ fds[Len(fds)].revents
  <2>1. "tap" \in reported => fds[Len(fds)].fd = "tap" /\ fds[Len(fds)].revents
    BY <1>1 DEF LoopInv, WalkInv
  <2>2. "tap" \in reported => i # Len(fds)
    BY <1>1, <2>1
  <2> QED
    BY <1>1, <1>2, <2>1, <2>2
<1>7. "dongle" \in reported => process_libusb' \/ (i + 1 <= 2 /\ 2 <= Len(fds) /\ fds[2].fd = "dongle" /\ fds[2].revents)
  <2>1. CASE i = 1
    BY <1>1, <1>3, <2>1 DEF LoopInv, WalkInv
  <2>2. CASE i = 2
    BY <1>1, <1>3, <2>2 DEF LoopInv, WalkInv
  <2>3. CASE i = 3
    BY <1>1, <1>3, <2>3 DEF LoopInv, WalkInv
  <2> QED
    BY <1>2, <2>1, <2>2, <2>3
<1>8. WalkInv'
  BY <1>1, <1>6, <1>7 DEF LoopInv, WalkInv
<1>9. TapInv'
  BY <1>1, <1>2 DEF LoopInv, TapInv, env
<1> QED
  BY <1>4, <1>5, <1>8, <1>9 DEF LoopInv

\* At the TAP the walk is at its end, and what libusb has to do is noted.
LEMMA AtTap ==
  ASSUME LoopInv, pc = "walk", i <= Len(fds), fds[i].fd = "tap"
  PROVE  /\ i = Len(fds) /\ i \in 1..3 /\ tap # "none"
         /\ "dongle" \in reported => process_libusb
<1>1. i \in 1..Len(fds) /\ Len(fds) \in 1..3
  BY DEF LoopInv, TypeOK, LoopTypes, PollSetInv, LibusbCount
<1>2. i = Len(fds)
  BY <1>1, TapLast
<1>3. tap # "none"
  <2>1. tap = "none" => Len(fds) = LibusbCount /\ fds[1].fd = "pipe" /\ (Len(fds) = 2 => fds[2].fd = "dongle")
    BY DEF LoopInv, PollSetInv, LibusbCount
  <2> QED
    BY <1>1, <1>2, <2>1 DEF LibusbCount
<1>4. "dongle" \in reported => process_libusb
  <2>1. "dongle" \in reported => process_libusb \/ (i <= 2 /\ 2 <= Len(fds) /\ fds[2].fd = "dongle")
    BY DEF LoopInv, WalkInv
  <2> QED
    BY <1>1, <1>2, <2>1
<1> QED
  BY <1>1, <1>2, <1>3, <1>4

LEMMA WalkIdleTapInv ==
  ASSUME LoopInv, WalkIdleTap
  PROVE  LoopInv'
<1>1. /\ pc = "walk" /\ i <= Len(fds) /\ fds[i].fd = "tap" /\ ~fds[i].revents /\ i' = i + 1
      /\ UNCHANGED <<pc, fds, process_libusb, isconn, device_disconnected, cur, env, reported, up, short>>
  BY DEF WalkIdleTap
<1>2. /\ i = Len(fds) /\ i \in 1..3 /\ ("dongle" \in reported => process_libusb)
  BY <1>1, AtTap
<1>3. TypeOK'
  <2>1. FlagTypes'
    BY <1>1, Zenon DEF LoopInv, TypeOK, FlagTypes
  <2>2. i' \in 1..4 /\ UNCHANGED <<pc, fds, cur, env>>
    BY <1>1, <1>2
  <2>3. LoopTypes' /\ EnvTypes'
    BY <2>2 DEF LoopInv, TypeOK, LoopTypes, EnvTypes, env
  <2> QED
    BY <1>1, <2>1, <2>3 DEF LoopInv, TypeOK, env
<1>4. PollSetInv'
  BY <1>1 DEF LoopInv, PollSetInv, LibusbCount, env
<1>5. WalkInv'
  BY <1>1, <1>2 DEF LoopInv, WalkInv
<1>6. TapInv'
  BY <1>1, <1>2 DEF LoopInv, TapInv, env
<1> QED
  BY <1>3, <1>4, <1>5, <1>6 DEF LoopInv

LEMMA WalkTapInv ==
  ASSUME LoopInv, WalkTap
  PROVE  LoopInv'
<1>1. /\ pc = "walk" /\ i <= Len(fds) /\ fds[i].fd = "tap" /\ fds[i].revents
      /\ cur' = IF tap = "open" THEN Head(tapq) ELSE 0
      /\ tapq' = IF tap = "open" THEN Tail(tapq) ELSE tapq
      /\ (pc' = "sending" /\ i' = i) \/ (pc' = pc /\ i' = i + 1)
      /\ reported' = reported \ {"tap"}
      /\ UNCHANGED <<fds, process_libusb, isconn, device_disconnected, transfer, dongle, tap, made, up, short>>
  BY DEF WalkTap
<1>2. /\ i = Len(fds) /\ i \in 1..3 /\ tap # "none" /\ ("dongle" \in reported => process_libusb)
  BY <1>1, AtTap
<1>3. tap \in {"open", "deleted"} /\ made \in Nat /\ tapq \in Seq(1..made)
  BY <1>2, LoopAssumption DEF LoopInv, TypeOK, EnvTypes
<1>4. tap = "open" => tapq # << >>
  BY <1>1, <1>2 DEF LoopInv, TapInv
<1>5. tapq' \in Seq(1..made) /\ cur' \in 0..made /\ (cur' = 0 => tap = "deleted")
  <2>1. CASE tap = "open"
    <3>1. Head(tapq) \in 1..made /\ Tail(tapq) \in Seq(1..made)
      BY <1>3, <1>4, <2>1
    <3> QED
      BY <1>1, <1>3, <2>1, <3>1
  <2>2. CASE tap = "deleted"
    BY <1>1, <1>3, <2>2
  <2> QED
    BY <1>3, <2>1, <2>2
<1>6. TypeOK'
  <2>1. FlagTypes'
    BY <1>1, Zenon DEF LoopInv, TypeOK, FlagTypes
  <2>2. i' \in 1..4 /\ pc' \in {"walk", "sending"} /\ UNCHANGED <<fds, transfer, dongle, tap, made>>
    BY <1>1, <1>2
  <2>3. LoopTypes' /\ EnvTypes'
    BY <1>5, <2>2 DEF LoopInv, TypeOK, LoopTypes, EnvTypes
  <2> QED
    BY <1>1, <2>1, <2>3 DEF LoopInv, TypeOK
<1>7. PollSetInv'
  BY <1>1 DEF LoopInv, PollSetInv, LibusbCount
<1>8. WalkInv'
  BY <1>1, <1>2 DEF LoopInv, WalkInv
<1>9. TapInv'
  BY <1>1, <1>2, <1>5 DEF LoopInv, TapInv
<1> QED
  BY <1>6, <1>7, <1>8, <1>9 DEF LoopInv

LEMMA SendReturnsInv ==
  ASSUME LoopInv, SendReturns
  PROVE  LoopInv'
<1>1. /\ pc = "sending" /\ pc' = "walk" /\ i' = i + 1
      /\ UNCHANGED <<fds, process_libusb, isconn, device_disconnected, cur, env, reported>>
      /\ up' = up \/ (cur # 0 /\ up' = Append(up, cur))
      /\ short' => short \/ cur = 0
  <2>1. /\ pc = "sending" /\ pc' = "walk" /\ i' = i + 1
        /\ UNCHANGED <<fds, process_libusb, isconn, device_disconnected, cur, env, reported>>
    BY Zenon DEF SendReturns
  <2>2. up' = up \/ (cur # 0 /\ up' = Append(up, cur))
    BY DEF SendReturns
  <2>3. short' => short \/ cur = 0
    <3>1. (short' = (short \/ cur = 0)) \/ short' = short
      BY Zenon DEF SendReturns
    <3> QED
      BY <3>1, Zenon
  <2> QED
    BY <2>1, <2>2, <2>3, Zenon
<1>2. /\ i >= Len(fds) /\ Len(fds) \in 1..3 /\ i \in 1..3 /\ reported \subseteq {"dongle"}
      /\ ("dongle" \in reported => process_libusb)
  BY <1>1 DEF LoopInv, WalkInv, TypeOK, LoopTypes, PollSetInv, LibusbCount
<1>3. up' \in Seq(1..made)
  <2>1. made \in Nat /\ cur \in 0..made /\ up \in Seq(1..made)
    BY LoopAssumption DEF LoopInv, TypeOK, LoopTypes, EnvTypes
  <2>2. cur # 0 => cur \in 1..made
    BY <2>1
  <2> QED
    BY <1>1, <2>1, <2>2
<1>4. TypeOK'
  <2>1. FlagTypes'
    BY Zenon DEF SendReturns, LoopInv, TypeOK, FlagTypes
  <2>2. LoopTypes' /\ EnvTypes'
    BY <1>1, <1>2 DEF LoopInv, TypeOK, LoopTypes, EnvTypes, env
  <2> QED
    BY <1>1, <1>3, <2>1, <2>2 DEF LoopInv, TypeOK, env
<1>5. PollSetInv'
  BY <1>1 DEF LoopInv, PollSetInv, LibusbCount, env
<1>6. WalkInv'
  BY <1>1, <1>2 DEF WalkInv
<1>7. TapInv'
  <2>1. short' => tap = "deleted"
    BY <1>1 DEF LoopInv, TapInv
  <2> QED
    BY <1>1, <1>2, <2>1 DEF LoopInv, TapInv, env
<1> QED
  BY <1>4, <1>5, <1>6, <1>7 DEF LoopInv

LEMMA WalkEndInv ==
  ASSUME LoopInv, WalkEnd
  PROVE  LoopInv'
<1>1. /\ pc = "walk" /\ i > Len(fds)
      /\ (pc' = "events" \/ (pc' = "process" /\ ~process_libusb))
      /\ UNCHANGED <<fds, i, process_libusb, isconn, device_disconnected, cur, env, reported, up, short>>
  BY DEF WalkEnd
<1>2. Len(fds) \in 1..3 /\ i \in 1..4
  BY DEF LoopInv, TypeOK, LoopTypes, PollSetInv, LibusbCount
<1>3. "tap" \notin reported /\ reported \subseteq {"dongle", "tap"}
  BY <1>1, <1>2 DEF LoopInv, WalkInv
<1>4. "dongle" \in reported => process_libusb
  <2>1. "dongle" \in reported => process_libusb \/ (i <= 2 /\ 2 <= Len(fds))
    BY <1>1 DEF LoopInv, WalkInv
  <2> QED
    BY <1>1, <1>2, <2>1
<1>5. TypeOK'
  <2>1. FlagTypes'
    BY <1>1, Zenon DEF LoopInv, TypeOK, FlagTypes
  <2>2. LoopTypes' /\ EnvTypes'
    BY <1>1 DEF LoopInv, TypeOK, LoopTypes, EnvTypes, env
  <2> QED
    BY <1>1, <2>1, <2>2 DEF LoopInv, TypeOK, env
<1>6. PollSetInv'
  BY <1>1 DEF LoopInv, PollSetInv, LibusbCount, env
<1>7. WalkInv' /\ TapInv'
  BY <1>1, <1>3, <1>4 DEF LoopInv, WalkInv, TapInv, env
<1> QED
  BY <1>5, <1>6, <1>7 DEF LoopInv

LEMMA PacketArrivesInv ==
  ASSUME LoopInv, PacketArrives
  PROVE  LoopInv'
<1>1. /\ made < MaxPackets /\ made' = made + 1 /\ tapq' = Append(tapq, made + 1)
      /\ UNCHANGED <<loop, transfer, dongle, tap, reported, up, short>>
  BY DEF PacketArrives
<1>2. made \in Nat /\ MaxPackets \in Nat /\ tapq \in Seq(1..made) /\ up \in Seq(1..made) /\ cur \in 0..made
  BY LoopAssumption DEF LoopInv, TypeOK, LoopTypes, EnvTypes
<1>3. made' \in 0..MaxPackets /\ cur' \in 0..made'
  BY <1>1, <1>2 DEF loop
<1>4. tapq' \in Seq(1..made') /\ tapq' # << >> /\ up' \in Seq(1..made')
  <2>1. 1..made \subseteq 1..made' /\ made + 1 \in 1..made'
    BY <1>1, <1>2
  <2>2. tapq \in Seq(1..made') /\ up \in Seq(1..made')
    BY <1>2, <2>1, SeqMonotonic, Zenon
  <2> QED
    BY <1>1, <2>1, <2>2, AppendProperties
<1>5. TypeOK'
  <2>1. FlagTypes'
    BY <1>1, Zenon DEF LoopInv, TypeOK, FlagTypes, loop
  <2>2. LoopTypes' /\ EnvTypes'
    BY <1>1, <1>3, <1>4 DEF LoopInv, TypeOK, LoopTypes, EnvTypes, loop
  <2> QED
    BY <1>1, <1>4, <2>1, <2>2 DEF LoopInv, TypeOK
<1>6. PollSetInv' /\ WalkInv'
  BY <1>1 DEF LoopInv, PollSetInv, WalkInv, LibusbCount, loop
<1>7. TapInv'
  BY <1>1, <1>4 DEF LoopInv, TapInv, loop
<1> QED
  BY <1>5, <1>6, <1>7 DEF LoopInv

LEMMA TapDeletedInv ==
  ASSUME LoopInv, TapDeleted
  PROVE  LoopInv'
<1>1. /\ tap = "open" /\ tap' = "deleted" /\ tapq' = << >>
      /\ UNCHANGED <<loop, transfer, dongle, made, reported, up, short>>
  BY DEF TapDeleted
<1>2. TypeOK'
  <2>1. FlagTypes'
    BY <1>1, Zenon DEF LoopInv, TypeOK, FlagTypes, loop
  <2>2. LoopTypes' /\ EnvTypes'
    BY <1>1 DEF LoopInv, TypeOK, LoopTypes, EnvTypes, loop
  <2> QED
    BY <1>1, <2>1, <2>2 DEF LoopInv, TypeOK
<1>3. PollSetInv' /\ WalkInv' /\ TapInv'
  BY <1>1 DEF LoopInv, PollSetInv, WalkInv, TapInv, LibusbCount, loop
<1> QED
  BY <1>2, <1>3 DEF LoopInv

\* The dongle's own steps.
LEMMA DongleInv ==
  ASSUME LoopInv, Unplug \/ \E e \in Endpoints : Complete(e)
  PROVE  LoopInv'
<1>1. /\ dongle' = dongle \/ (dongle = "plugged" /\ dongle' = "unplugged")
      /\ UNCHANGED <<loop, tap, tapq, made, reported, up, short>>
  BY DEF Unplug, Complete
<1>2. transfer' \in [Endpoints -> TransferStates]
  BY DEF Unplug, Complete, LoopInv, TypeOK, EnvTypes, TransferStates
<1>3. TypeOK'
  <2>1. FlagTypes'
    BY <1>1, Zenon DEF LoopInv, TypeOK, FlagTypes, loop
  <2>2. LoopTypes' /\ EnvTypes'
    BY <1>1, <1>2 DEF LoopInv, TypeOK, LoopTypes, EnvTypes, loop
  <2> QED
    BY <1>1, <2>1, <2>2 DEF LoopInv, TypeOK
<1>4. PollSetInv' /\ WalkInv' /\ TapInv'
  BY <1>1 DEF LoopInv, PollSetInv, WalkInv, TapInv, LibusbCount, loop
<1> QED
  BY <1>3, <1>4 DEF LoopInv

LEMMA StutterInv ==
  ASSUME LoopInv, UNCHANGED vars
  PROVE  LoopInv'
<1>1. TypeOK'
  <2>1. FlagTypes'
    BY Zenon DEF vars, loop, LoopInv, TypeOK, FlagTypes
  <2>2. LoopTypes' /\ EnvTypes'
    BY DEF vars, loop, env, LoopInv, TypeOK, LoopTypes, EnvTypes
  <2> QED
    BY <2>1, <2>2 DEF vars, env, LoopInv, TypeOK
<1>2. PollSetInv' /\ WalkInv' /\ TapInv'
  BY DEF vars, loop, env, LoopInv, PollSetInv, WalkInv, TapInv, LibusbCount
<1> QED
  BY <1>1, <1>2 DEF LoopInv

LEMMA InvHolds == Spec => []LoopInv
<1>1. LoopInv /\ [Next]_vars => LoopInv'
  BY QuietInv, PollInv, WalkLibusbInv, WalkIdleTapInv, WalkTapInv, SendReturnsInv, WalkEndInv,
     EventsInv, NestedEventsInv, PacketArrivesInv, TapDeletedInv, DongleInv, StutterInv
     DEF Next, MainLoop, Walk, Environment
<1> QED
  BY InitInv, <1>1, PTL DEF Spec

-----------------------------------------------------------------------------
(* The theorems.                                                           *)

\* Type correctness: the walk stays in the poll set, and what is sent was read
\* from the TAP (lte.c:224-262).
THEOREM LoopTypeCorrect == Spec => []TypeOK
<1>1. LoopInv => TypeOK
  BY DEF LoopInv
<1> QED
  BY InvHolds, <1>1, PTL

\* poll is always called with the descriptors libusb has now, and the TAP
\* (lte.c:318-366).
THEOREM PollSetCurrentHolds == Spec => []PollSetCurrent
<1>1. LoopInv => PollSetCurrent
  <2> SUFFICES ASSUME LoopInv
               PROVE  {fds[k].fd : k \in DOMAIN fds} =
                        ToSet(LibusbFds(dongle)) \cup (IF tap = "none" THEN {} ELSE {"tap"})
    BY DEF PollSetCurrent
  <2>1. /\ Len(fds) = LibusbCount + (IF tap = "none" THEN 0 ELSE 1) /\ DOMAIN fds = 1..Len(fds)
        /\ fds[1].fd = "pipe" /\ (dongle # "removed" => fds[2].fd = "dongle")
        /\ tap # "none" => fds[Len(fds)].fd = "tap"
    BY DEF LoopInv, TypeOK, LoopTypes, PollSetInv
  <2>2. ToSet(LibusbFds(dongle)) = IF dongle = "removed" THEN {"pipe"} ELSE {"pipe", "dongle"}
    BY DEF ToSet, LibusbFds
  <2> QED
    BY <2>1, <2>2 DEF LibusbCount
<1> QED
  BY InvHolds, <1>1, PTL

\* Nothing that poll reported is left unhandled at the end of a pass, although
\* callbacks may replace the poll set inside the walk (lte.c:246-261).
THEOREM ReportsHandledHolds == Spec => []ReportsHandled
<1>1. LoopInv => ReportsHandled
  BY DEF LoopInv, WalkInv, ReportsHandled
<1> QED
  BY InvHolds, <1>1, PTL

\* A frame without a packet is sent only when the TAP has been deleted (tap.c:49).
THEOREM ShortOnlyWhenDeletedHolds == Spec => []ShortOnlyWhenDeleted
<1>1. LoopInv => ShortOnlyWhenDeleted
  BY DEF LoopInv, TapInv, ShortOnlyWhenDeleted
<1> QED
  BY InvHolds, <1>1, PTL

-----------------------------------------------------------------------------
(* The event loop implements RecordQueue.                                  *)

\* The packets the loop holds: the one being sent, and those in the TAP.
Waiting == (IF pc = "sending" /\ cur # 0 THEN <<cur>> ELSE << >>) \o tapq

LEMMA WaitingTypes ==
  ASSUME TypeOK
  PROVE  /\ made \in Nat /\ tapq \in Seq(1..made) /\ up \in Seq(1..made) /\ cur \in 0..made
         /\ Waiting \in Seq(1..made)
         /\ pc = "sending" /\ cur # 0 => /\ cur \in 1..made /\ <<cur>> \in Seq(1..made)
                                         /\ Waiting = <<cur>> \o tapq
         /\ ~(pc = "sending" /\ cur # 0) => Waiting = tapq
<1>1. made \in Nat /\ tapq \in Seq(1..made) /\ up \in Seq(1..made) /\ cur \in 0..made
  BY LoopAssumption DEF TypeOK, LoopTypes, EnvTypes
<1>2. CASE pc = "sending" /\ cur # 0
  <2>1. cur \in 1..made
    BY <1>1, <1>2
  <2>2. <<cur>> \in Seq(1..made)
    BY <2>1
  <2>3. Waiting = <<cur>> \o tapq
    BY <1>2 DEF Waiting
  <2> QED
    BY <1>1, <1>2, <2>1, <2>2, <2>3, ConcatProperties
<1>3. CASE ~(pc = "sending" /\ cur # 0)
  <2>1. Waiting = << >> \o tapq
    BY <1>3, Zenon DEF Waiting
  <2>2. Waiting = tapq
    BY <1>1, <2>1, ConcatEmptySeq, Zenon
  <2> QED
    BY <1>1, <1>3, <2>2
<1> QED
  BY <1>2, <1>3

\* The steps of RecordQueue, in terms of Waiting.
LEMMA QueueSteps ==
  /\ up' = up /\ Waiting' = Waiting => UNCHANGED Uplink!vars
  /\ Waiting # << >> /\ up' = Append(up, Head(Waiting)) /\ Waiting' = Tail(Waiting) => Uplink!Take
  /\ up' = up /\ (\E j, k \in 1..Len(Waiting) :
       j <= k /\ Waiting' = SubSeq(Waiting, 1, j - 1) \o SubSeq(Waiting, k + 1, Len(Waiting)))
     => Uplink!Lose
  BY Zenon DEF Waiting, Uplink!vars, Uplink!Take, Uplink!Lose

\* Losing the first record, or all records from the j-th on.
LEMMA LoseFirst ==
  ASSUME NEW S, NEW q \in Seq(S), q # << >>
  PROVE  1 \in 1..Len(q) /\ Tail(q) = SubSeq(q, 1, 1 - 1) \o SubSeq(q, 1 + 1, Len(q))
<1>1. Len(q) \in Nat /\ Len(q) >= 1 /\ Tail(q) \in Seq(S)
  BY HeadTailProperties, LenProperties, EmptySeq
<1>2. SubSeq(q, 1, 1 - 1) = << >>
  BY SubSeqEmpty
<1>3. SubSeq(q, 1 + 1, Len(q)) = Tail(q)
  BY TailIsSubSeq
<1> QED
  BY <1>1, <1>2, <1>3, ConcatEmptySeq

LEMMA LoseRest ==
  ASSUME NEW S, NEW p \in Seq(S), NEW q \in Seq(S), q # << >>
  PROVE  LET j == Len(p) + 1
             k == Len(p \o q)
         IN  /\ j \in 1..k /\ k \in 1..k /\ j <= k
             /\ p = SubSeq(p \o q, 1, j - 1) \o SubSeq(p \o q, k + 1, k)
<1> DEFINE r == p \o q
<1>1. /\ Len(p) \in Nat /\ Len(q) \in Nat /\ Len(q) >= 1
      /\ r \in Seq(S) /\ Len(r) = Len(p) + Len(q)
  BY ConcatProperties, LenProperties, EmptySeq
<1>2. \A n \in 1..Len(p) : r[n] = p[n] /\ r[n] \in S
  BY <1>1, ConcatProperties, ElementOfSeq
<1>3. SubSeq(r, Len(r) + 1, Len(r)) = << >>
  BY <1>1, SubSeqEmpty
<1> HIDE DEF r
<1>4. SubSeq(r, 1, Len(p)) = p
  <2>1. /\ SubSeq(r, 1, Len(p)) \in Seq(S)
        /\ Len(SubSeq(r, 1, Len(p))) = Len(p)
        /\ \A n \in 1..Len(p) : SubSeq(r, 1, Len(p))[n] = r[n]
    BY <1>1, <1>2, SubSeqProperties
  <2> QED
    BY <1>2, <2>1, SeqEqual
<1>5. SubSeq(r, 1, (Len(p) + 1) - 1) \o SubSeq(r, Len(r) + 1, Len(r)) = p
  BY <1>1, <1>3, <1>4, ConcatEmptySeq
<1> QED
  BY <1>1, <1>5 DEF r

LEMMA AppendToConcat ==
  ASSUME NEW S, NEW p \in Seq(S), NEW q \in Seq(S), NEW e \in S
  PROVE  p \o Append(q, e) = Append(p \o q, e)
<1>1. <<e>> \in Seq(S) /\ p \o q \in Seq(S)
  BY ConcatProperties
<1>2. Append(q, e) = q \o <<e>> /\ Append(p \o q, e) = (p \o q) \o <<e>>
  BY <1>1, AppendIsConcat
<1>3. (p \o q) \o <<e>> = p \o (q \o <<e>>)
  BY <1>1, ConcatAssociative
<1> QED
  BY <1>2, <1>3

LEMMA PacketArrivesQueued ==
  ASSUME TypeOK, PacketArrives
  PROVE  \E r \in 1..MaxPackets : Uplink!Put(r)
<1>1. /\ made < MaxPackets /\ tapq' = Append(tapq, made + 1)
      /\ pc' = pc /\ cur' = cur /\ up' = up
  BY DEF PacketArrives, loop
<1>2. made \in Nat /\ made + 1 \in 1..MaxPackets
  BY <1>1, WaitingTypes, LoopAssumption
<1>3. /\ \A n \in DOMAIN Waiting : Waiting[n] < made + 1
      /\ \A n \in DOMAIN up : up[n] < made + 1
  <2>1. /\ \A n \in DOMAIN Waiting : Waiting[n] \in 1..made
        /\ \A n \in DOMAIN up : up[n] \in 1..made
    BY WaitingTypes, ElementOfSeq, LenProperties
  <2> QED
    BY <1>2, <2>1
<1>4. Waiting' = Append(Waiting, made + 1)
  <2> DEFINE held == IF pc = "sending" /\ cur # 0 THEN <<cur>> ELSE << >>
             T    == 1..(made + 1)
  <2>1. Waiting = held \o tapq /\ Waiting' = held \o Append(tapq, made + 1)
    BY <1>1 DEF Waiting
  <2>2. made + 1 \in T /\ 1..made \subseteq T
    BY <1>2
  <2>3. tapq \in Seq(T) /\ held \in Seq(T)
    <3>1. tapq \in Seq(T)
      BY <2>2, WaitingTypes, SeqMonotonic, Zenon
    <3>2. ASSUME pc = "sending" /\ cur # 0 PROVE held \in Seq(T)
      BY <2>2, <3>2, WaitingTypes, SeqMonotonic, Zenon
    <3>3. ASSUME ~(pc = "sending" /\ cur # 0) PROVE held \in Seq(T)
      <4>1. held = << >>
        BY <3>3, Zenon
      <4> QED
        BY <4>1, EmptySeq, Zenon
    <3>4. held \in Seq(T)
      BY <3>2, <3>3, Zenon
    <3> QED
      BY <3>1, <3>4, Zenon
  <2> HIDE DEF held, T
  <2>4. held \o Append(tapq, made + 1) = Append(held \o tapq, made + 1)
    BY <2>2, <2>3, AppendToConcat
  <2> QED
    BY <2>1, <2>4, Zenon
<1>5. Uplink!Put(made + 1)
  BY <1>1, <1>3, <1>4, Zenon DEF Waiting, Uplink!Put
<1> QED
  BY <1>2, <1>5

LEMMA WalkTapQueued ==
  ASSUME LoopInv, WalkTap
  PROVE  Uplink!Lose \/ UNCHANGED Uplink!vars
<1>1. /\ pc = "walk" /\ i <= Len(fds) /\ fds[i].fd = "tap" /\ fds[i].revents
      /\ cur' = IF tap = "open" THEN Head(tapq) ELSE 0
      /\ tapq' = IF tap = "open" THEN Tail(tapq) ELSE tapq
      /\ pc' \in {"sending", "walk"} /\ up' = up
  BY DEF WalkTap
<1>2. i = Len(fds) /\ tap # "none"
  BY <1>1, AtTap
<1>3. TypeOK /\ Waiting = tapq
  BY <1>1, WaitingTypes DEF LoopInv
<1>4. tap \in {"open", "deleted"} /\ made \in Nat /\ tapq \in Seq(1..made)
  BY <1>2, <1>3, WaitingTypes DEF TypeOK, EnvTypes
<1>5. CASE tap = "deleted"
  <2>1. cur' = 0 /\ tapq' = tapq
    BY <1>1, <1>5
  <2>2. Waiting' = << >> \o tapq
    BY <2>1 DEF Waiting
  <2> QED
    BY <1>1, <1>3, <1>4, <2>2, ConcatEmptySeq, QueueSteps, Zenon
<1>6. CASE tap = "open"
  <2>1. tapq # << >>
    BY <1>1, <1>2, <1>6 DEF LoopInv, TapInv
  <2>2. Head(tapq) \in 1..made /\ Tail(tapq) \in Seq(1..made) /\ Head(tapq) # 0
    BY <1>4, <2>1, HeadTailProperties
  <2>3. cur' = Head(tapq) /\ tapq' = Tail(tapq)
    BY <1>1, <1>6
  <2>4. CASE pc' = "sending"
    <3>1. Waiting' = <<Head(tapq)>> \o Tail(tapq)
      BY <2>2, <2>3, <2>4 DEF Waiting
    <3>2. <<Head(tapq)>> \o Tail(tapq) = tapq
      BY <1>4, <2>1, <2>2
    <3> QED
      BY <1>1, <1>3, <3>1, <3>2, QueueSteps, Zenon
  <2>5. CASE pc' = "walk"
    <3>1. Waiting' = << >> \o Tail(tapq)
      BY <2>3, <2>5 DEF Waiting
    <3>2. Waiting' = Tail(Waiting)
      BY <1>3, <2>2, <3>1, ConcatEmptySeq, Zenon
    <3>3. /\ 1 \in 1..Len(Waiting) /\ 1 <= 1
          /\ Waiting' = SubSeq(Waiting, 1, 1 - 1) \o SubSeq(Waiting, 1 + 1, Len(Waiting))
      BY <1>3, <1>4, <2>1, <3>2, LoseFirst
    <3> QED
      BY <1>1, <3>3, QueueSteps, Zenon
  <2> QED
    BY <1>1, <2>4, <2>5
<1> QED
  BY <1>4, <1>5, <1>6

LEMMA SendReturnsQueued ==
  ASSUME LoopInv, SendReturns
  PROVE  Uplink!Take \/ Uplink!Lose \/ UNCHANGED Uplink!vars
<1>1. pc = "sending" /\ pc' = "walk" /\ cur' = cur /\ tapq' = tapq
  BY DEF SendReturns, env
<1>2. up' = up \/ (cur # 0 /\ up' = Append(up, cur))
  BY DEF SendReturns
<1>3. TypeOK /\ tapq \in Seq(1..made)
  BY WaitingTypes DEF LoopInv
<1>4. Waiting' = tapq
  <2>1. Waiting' = << >> \o tapq
    BY <1>1 DEF Waiting
  <2> QED
    BY <1>3, <2>1, ConcatEmptySeq, Zenon
<1>5. CASE cur = 0
  BY <1>2, <1>3, <1>4, <1>5, WaitingTypes, QueueSteps, Zenon
<1>6. CASE cur # 0
  <2>1. cur \in 1..made /\ Waiting = <<cur>> \o tapq /\ Waiting \in Seq(1..made)
    BY <1>1, <1>3, <1>6, WaitingTypes
  <2>2. Waiting # << >> /\ Head(Waiting) = cur /\ Tail(Waiting) = tapq
    BY <1>3, <2>1
  <2>3. CASE up' = up
    <3>1. /\ 1 \in 1..Len(Waiting) /\ 1 <= 1
          /\ Waiting' = SubSeq(Waiting, 1, 1 - 1) \o SubSeq(Waiting, 1 + 1, Len(Waiting))
      BY <1>4, <2>1, <2>2, LoseFirst
    <3> QED
      BY <2>3, <3>1, QueueSteps, Zenon
  <2>4. CASE up' = Append(up, cur)
    BY <1>4, <2>2, <2>4, QueueSteps, Zenon
  <2> QED
    BY <1>2, <2>3, <2>4
<1> QED
  BY <1>5, <1>6

LEMMA TapDeletedQueued ==
  ASSUME TypeOK, TapDeleted
  PROVE  Uplink!Lose \/ UNCHANGED Uplink!vars
<1> DEFINE held == IF pc = "sending" /\ cur # 0 THEN <<cur>> ELSE << >>
<1>1. /\ Waiting = held \o tapq /\ Waiting' = held \o << >> /\ up' = up
  BY DEF TapDeleted, loop, Waiting
<1>2. tapq \in Seq(1..made) /\ held \in Seq(1..made)
  <2>1. CASE pc = "sending" /\ cur # 0
    BY <2>1, WaitingTypes, Zenon
  <2>2. CASE ~(pc = "sending" /\ cur # 0)
    <3>1. held = << >>
      BY <2>2, Zenon
    <3> QED
      BY <3>1, WaitingTypes, EmptySeq, Zenon
  <2> QED
    BY <2>1, <2>2
<1> HIDE DEF held
<1>3. Waiting' = held
  BY <1>1, <1>2, ConcatEmptySeq, Zenon
<1>4. CASE tapq = << >>
  BY <1>1, <1>2, <1>3, <1>4, ConcatEmptySeq, QueueSteps, Zenon
<1>5. CASE tapq # << >>
  <2> DEFINE j == Len(held) + 1
             k == Len(held \o tapq)
  <2>1. /\ j \in 1..k /\ k \in 1..k /\ j <= k
        /\ held = SubSeq(held \o tapq, 1, j - 1) \o SubSeq(held \o tapq, k + 1, k)
    BY <1>2, <1>5, LoseRest
  <2> HIDE DEF j
  <2>2. \E m, n \in 1..Len(Waiting) :
          m <= n /\ Waiting' = SubSeq(Waiting, 1, m - 1) \o SubSeq(Waiting, n + 1, Len(Waiting))
    BY <1>1, <1>3, <2>1, Zenon
  <2> QED
    BY <1>1, <2>2, QueueSteps, Zenon
<1> QED
  BY <1>4, <1>5

\* Every other step leaves the packets alone.
LEMMA OthersQueued ==
  ASSUME LoopInv, [Next]_vars, ~PacketArrives, ~WalkTap, ~SendReturns, ~TapDeleted
  PROVE  UNCHANGED Uplink!vars
<1>1. /\ tapq' = tapq /\ cur' = cur /\ up' = up
      /\ pc' = pc \/ (pc # "sending" /\ pc' # "sending")
  BY DEF Next, MainLoop, Walk, Environment, Poll, PollInterrupted, WalkLibusb, WalkIdleTap,
     WalkEnd, Events, ProcessIdle, connected, SendAt, AtTaken, AtFails, NestedEvents, Complete,
     Unplug, vars, loop, env
<1>2. TypeOK
  BY DEF LoopInv
<1>3. Waiting' = Waiting
  BY <1>1 DEF Waiting
<1> QED
  BY <1>1, <1>3, QueueSteps, Zenon

\* Packets of the TAP go up whole, in order and at most once, whatever libusb
\* handles meanwhile and whichever transfer fails (lte.c:246-261, tap.c:46-57).
THEOREM UplinkImplemented == Spec => UplinkSpec
<1>1. Init => Uplink!Init
  <2> SUFFICES ASSUME Init PROVE Uplink!Init
    OBVIOUS
  <2>1. pc = "poll" /\ tapq = << >> /\ up = << >>
    BY DEF Init
  <2>2. << >> \o << >> = << >>
    BY EmptySeq, ConcatEmptySeq, Zenon
  <2> QED
    BY <2>1, <2>2 DEF Uplink!Init
<1>2. LoopInv /\ [Next]_vars => [Uplink!Next]_(Uplink!vars)
  BY PacketArrivesQueued, WalkTapQueued, SendReturnsQueued, TapDeletedQueued, OthersQueued, Zenon
     DEF LoopInv, Uplink!Next
<1> QED
  BY <1>1, <1>2, InvHolds, PTL DEF Spec, UplinkSpec, Uplink!Spec
=============================================================================
