---------------------------- MODULE AtHandshake ----------------------------
(***************************************************************************)
(* The AT dialogue of the userland modem manager: modem.c drives the       *)
(* script atcmd[1..18], lte.c carries it over two USB bulk endpoints and   *)
(* undoes it on SIGINT.  One thread runs everything; callbacks of the IN   *)
(* endpoint run inside process_events_once, but also inside every          *)
(* synchronous libusb_bulk_transfer, which handles events while it waits.  *)
(*                                                                         *)
(* The modem and libusb are external.  The IN byte stream is abstracted to *)
(* counts of the lines the host reacts to; the ERROR answer has no line,   *)
(* because error_cb is NULL (modem.c:318) and the err branch of            *)
(* modem_process (modem.c:107-111) is dead: nothing ever sets err.         *)
(***************************************************************************)
EXTENDS Integers, Sequences, FiniteSets

CONSTANTS
  Pin,         \* TRUE iff a PIN was given on the command line (-p)
  PinStep,     \* index in atcmd of "AT+CPIN?"     (10)
  QueryStep,   \* index in atcmd of "AT+CGACT?"    (15)
  ApnStep,     \* index in atcmd of "AT+CGDCONT"   (17)
  AttachStep,  \* index in atcmd of "AT+CGATT=1"   (18), the last one sent
  NwValues,    \* the network states the modem may report
  May          \* the disturbances that may happen, see Disturbances

Disturbances ==
  { "early",    \* an IN transfer completes while an OUT transfer is waited for
    "garbled",  \* a line is cut by a transfer, or follows one the grammar lacks
    "refused",  \* the modem answers ERROR
    "error",    \* an IN transfer completes with an error status
    "submit",   \* libusb_submit_transfer fails
    "unsent",   \* an OUT transfer fails, its result is only printed
    "nodevice", \* the dongle is unplugged
    "inactive", \* "AT+CGACT?" is answered with "+CGACT:1,0"
    "sigint" }  \* the user presses Control-C

ASSUME HandshakeAssumption ==
  /\ Pin \in BOOLEAN
  /\ {PinStep, QueryStep, ApnStep, AttachStep} \subseteq Nat
  /\ 1 < PinStep /\ PinStep < QueryStep /\ QueryStep < ApnStep
  /\ ApnStep < AttachStep
  /\ NwValues \subseteq Nat
  /\ May \subseteq Disturbances

PinCmd == 0    \* AT+CPIN="<pin>"; every other command is its index in atcmd

VARIABLES
  state, curstate,        \* modem.c: next step, step last handled
  nwstate, cgact_1_0,     \* modem.c: highest NWSTATEIND seen, "+CGACT:1,0" seen
  isconn,                 \* lte.c: connected() ran, lte_send_ctrl is open
  pc,                     \* where the main loop is
  sig,                    \* where the SIGINT handler is
  posted,                 \* req_transfer_modem is submitted
  device_disconnected     \* lte.c: a callback saw NO_DEVICE (never read)

host == <<state, curstate, nwstate, cgact_1_0, isconn, pc, sig, posted,
          device_disconnected>>

VARIABLES
  sent,                   \* commands written, in order
  bye,                    \* AT+CGATT=0: "none", "written" or "answered"
  answered,               \* how many of sent the modem has answered
  acked,                  \* the commands it answered with OK
  okline, nwsline, cgline,\* lines in the IN endpoint: OKs, NWSTATEINDs, CGACT
  reported                \* history: network states the modem ever reported

modem == <<sent, bye, answered, acked, okline, nwsline, cgline, reported>>
vars  == <<host, modem>>

TypeOK ==
  /\ state \in Nat /\ curstate \in Nat /\ nwstate \in Nat
  /\ cgact_1_0 \in BOOLEAN /\ isconn \in BOOLEAN
  /\ pc \in {"events", "process", "pin", "send"}
  /\ sig \in {"none", "sending", "spinning", "blocked", "exited"}
  /\ posted \in BOOLEAN /\ device_disconnected \in BOOLEAN
  /\ sent \in Seq(Nat)
  /\ bye \in {"none", "written", "answered"}
  /\ answered \in 0..Len(sent)
  /\ acked \subseteq Nat
  /\ okline \in Nat
  /\ nwsline \subseteq reported /\ reported \subseteq NwValues
  /\ cgline \in BOOLEAN

\* Mutant: "no step handled yet" is written as -1.
Init_NoStep ==
  /\ state = 1 /\ curstate = -1 /\ nwstate = 0
  /\ cgact_1_0 = FALSE /\ isconn = FALSE
  /\ pc = "events" /\ sig = "none"
  /\ posted = TRUE /\ device_disconnected = FALSE
  /\ sent = << >> /\ bye = "none" /\ answered = 0 /\ acked = {}
  /\ okline = 0 /\ nwsline = {} /\ cgline = FALSE /\ reported = {}

Init ==
  /\ state = 1 /\ curstate = 0 /\ nwstate = 0
  /\ cgact_1_0 = FALSE /\ isconn = FALSE
  /\ pc = "events" /\ sig = "none"
  /\ posted = TRUE /\ device_disconnected = FALSE
  /\ sent = << >> /\ bye = "none" /\ answered = 0 /\ acked = {}
  /\ okline = 0 /\ nwsline = {} /\ cgline = FALSE /\ reported = {}

-----------------------------------------------------------------------------
(* The IN endpoint: cb_req_modem and modem_response.                       *)

\* Mutant: the handler's spin handles events too.
Pumping_Spinning == posted /\ (sig = "none" => pc = "events")

\* Event callbacks run in process_events_once, and inside an OUT transfer of
\* the main loop or of the SIGINT handler; never while the handler spins.
Pumping ==
  /\ posted
  /\ \/ sig = "none" /\ pc = "events"
     \/ sig = "none" /\ pc \in {"pin", "send"} /\ "early" \in May
     \/ sig = "sending" /\ "early" \in May

\* Mutant: the transfer is not submitted again.
Resubmit_Never == posted' = FALSE

\* The submission at the end of the callback; a failure is only printed.
Resubmit ==
  \/ posted' = TRUE
  \/ "submit" \in May /\ posted' = FALSE

\* One IN transfer takes k OK lines, the reports in seen and, if c, the
\* "+CGACT:1,0" line out of the endpoint; it holds at least one line.
Take(k, seen, c) ==
  /\ k > 0 \/ seen # {} \/ c
  /\ c => cgline
  /\ okline' = okline - k
  /\ nwsline' = nwsline \ seen
  /\ cgline' = (cgline /\ ~c)
  /\ UNCHANGED <<sent, bye, answered, acked, reported>>

\* Mutant: on_endline misses a break, a report line runs into the OK case.
modem_response_FallsThrough(oks, read, c) ==
  /\ nwstate' \in {nwstate} \cup read
  /\ \A v \in {nwstate} \cup read : v <= nwstate'
  /\ cgact_1_0' = (cgact_1_0 \/ c)
  /\ state' = state + oks + Cardinality(read)
  /\ UNCHANGED <<curstate, isconn, pc, sig, device_disconnected>>

\* The callback's work on a transfer in which the scan finds the network
\* states in read and (if c) "+CGACT:1,0", and the parser oks times an OK;
\* the scan ignores lines, the parser stops at the first one it cannot parse.
modem_response(oks, read, c) ==
  /\ nwstate' \in {nwstate} \cup read
  /\ \A v \in {nwstate} \cup read : v <= nwstate'
  /\ cgact_1_0' = (cgact_1_0 \/ c)
  /\ state' = state + oks
  /\ UNCHANGED <<curstate, isconn, pc, sig, device_disconnected>>

\* A completed transfer.  Parsing restarts with every transfer, so a line cut
\* in two is lost, and the digit after a cut "+NWSTATEIND: ", or a cut
\* "+CGACT:1,", is whatever the previous transfer left in the buffer ("garbled").
Receive ==
  /\ Pumping
  /\ \E k \in 0..okline, seen \in SUBSET nwsline, c \in BOOLEAN :
       /\ Take(k, seen, c)
       /\ \E oks \in 0..k, read \in SUBSET NwValues, d \in BOOLEAN :
            /\ "garbled" \notin May => oks = k /\ read = seen /\ d = c
            /\ seen = {} => read = {}
            /\ d => c \/ QueryStep \in acked
            /\ modem_response(oks, read, d)
  /\ Resubmit

\* A transfer that ends with an error status: its data is dropped.
ReceiveError ==
  /\ "error" \in May
  /\ Pumping
  /\ \E k \in 0..okline, seen \in SUBSET nwsline, c \in BOOLEAN : Take(k, seen, c)
  /\ Resubmit
  /\ UNCHANGED <<state, curstate, nwstate, cgact_1_0, isconn, pc, sig,
                 device_disconnected>>

\* The transfer ends with NO_DEVICE: it is not submitted again.
ReceiveNoDevice ==
  /\ "nodevice" \in May
  /\ Pumping
  /\ device_disconnected' = TRUE
  /\ posted' = FALSE
  /\ UNCHANGED <<state, curstate, nwstate, cgact_1_0, isconn, pc, sig, modem>>

-----------------------------------------------------------------------------
(* The main loop: process_events_once, then modem_process.                 *)

EndEvents ==
  /\ sig = "none" /\ pc = "events"
  /\ pc' = "process"
  /\ UNCHANGED <<state, curstate, nwstate, cgact_1_0, isconn, sig, posted,
                 device_disconnected, modem>>

\* send_at_cmd: the transfer reaches the modem, or fails without a trace.
send_at_cmd(cmd) ==
  /\ \/ ~device_disconnected /\ sent' = Append(sent, cmd)
     \/ (device_disconnected \/ "unsent" \in May) /\ sent' = sent
  /\ UNCHANGED <<bye, answered, acked, okline, nwsline, cgline, reported>>

\* Mutant: the attach step waits for a network state of 3, not above 3.
SendStep_AtThree ==
  \/ /\ state = AttachStep /\ nwstate < 3
     /\ pc' = "events"
     /\ UNCHANGED modem
  \/ /\ state # AttachStep \/ nwstate >= 3
     /\ pc' = "send"
     /\ send_at_cmd(state)

\* The part of modem_process behind the PIN: the attach step waits for a
\* network state above 3, every other step is sent at once.
SendStep ==
  \/ /\ state = AttachStep /\ nwstate <= 3
     /\ pc' = "events"
     /\ UNCHANGED modem
  \/ /\ state # AttachStep \/ nwstate > 3
     /\ pc' = "send"
     /\ send_at_cmd(state)

\* modem_process with a step of the script to handle, up to its first send.
ProcessStep ==
  /\ sig = "none" /\ pc = "process"
  /\ curstate # state /\ state <= AttachStep
  /\ IF Pin /\ state = PinStep
       THEN pc' = "pin" /\ send_at_cmd(PinCmd)
       ELSE SendStep
  /\ UNCHANGED <<state, curstate, nwstate, cgact_1_0, isconn, sig, posted,
                 device_disconnected>>

\* The send of the PIN returns: curstate takes the state of now, which is read
\* again to choose the command that follows in the same call.
PinReturns ==
  /\ sig = "none" /\ pc = "pin"
  /\ curstate' = state
  /\ SendStep
  /\ UNCHANGED <<state, nwstate, cgact_1_0, isconn, sig, posted,
                 device_disconnected>>

\* Mutant: the step is not marked as handled.
SendReturns_Resends ==
  /\ sig = "none" /\ pc = "send"
  /\ pc' = "events"
  /\ UNCHANGED <<state, curstate, nwstate, cgact_1_0, isconn, sig, posted,
                 device_disconnected, modem>>

\* The send of a step returns: curstate takes the state of now, not of the
\* command that was sent.
SendReturns ==
  /\ sig = "none" /\ pc = "send"
  /\ curstate' = state
  /\ pc' = "events"
  /\ UNCHANGED <<state, nwstate, cgact_1_0, isconn, sig, posted,
                 device_disconnected, modem>>

\* Mutant: the script ends one step early (state < 18 for state <= 18).
Connect_Early ==
  /\ sig = "none" /\ pc = "process"
  /\ curstate # state /\ state >= AttachStep
  /\ isconn' = TRUE
  /\ pc' = "events"
  /\ UNCHANGED <<state, curstate, nwstate, cgact_1_0, sig, posted,
                 device_disconnected, modem>>

\* The script is over: connected().
Connect ==
  /\ sig = "none" /\ pc = "process"
  /\ curstate # state /\ state > AttachStep
  /\ isconn' = TRUE
  /\ pc' = "events"
  /\ UNCHANGED <<state, curstate, nwstate, cgact_1_0, sig, posted,
                 device_disconnected, modem>>

\* Nothing new: modem_process returns without effect.
ProcessIdle ==
  /\ sig = "none" /\ pc = "process"
  /\ curstate = state
  /\ pc' = "events"
  /\ UNCHANGED <<state, curstate, nwstate, cgact_1_0, isconn, sig, posted,
                 device_disconnected, modem>>

-----------------------------------------------------------------------------
(* Control-C: unattach runs on top of whatever the main loop was doing.    *)

\* The handler sends AT+CGATT=0.  libusb is not reentrant: when the handler
\* interrupts it (pc # "process") the nested transfer may also be refused at
\* once or wait for ever for the event lock its own thread holds.
Sigint ==
  /\ "sigint" \in May
  /\ sig = "none"
  /\ \/ /\ sig' = "sending"
        /\ \/ ~device_disconnected /\ bye' = "written"
           \/ (device_disconnected \/ "unsent" \in May) /\ bye' = bye
     \/ /\ pc # "process"
        /\ sig' \in {"spinning", "blocked"}
        /\ bye' = bye
  /\ UNCHANGED <<state, curstate, nwstate, cgact_1_0, isconn, pc, posted,
                 device_disconnected, sent, answered, acked, okline, nwsline,
                 cgline, reported>>

\* The send returns and the handler starts to spin on cgact_1_0.
ByeReturns ==
  /\ sig = "sending"
  /\ sig' = "spinning"
  /\ UNCHANGED <<state, curstate, nwstate, cgact_1_0, isconn, pc, posted,
                 device_disconnected, modem>>

\* Mutant: the handler exits without looking at cgact_1_0.
HandlerExits_Unchecked ==
  /\ sig = "spinning"
  /\ sig' = "exited"
  /\ UNCHANGED <<state, curstate, nwstate, cgact_1_0, isconn, pc, posted,
                 device_disconnected, modem>>

\* The spin sees cgact_1_0: release_usb_device and exit.
HandlerExits ==
  /\ sig = "spinning" /\ cgact_1_0
  /\ sig' = "exited"
  /\ UNCHANGED <<state, curstate, nwstate, cgact_1_0, isconn, pc, posted,
                 device_disconnected, modem>>

-----------------------------------------------------------------------------
(* The modem, external: it answers the commands in order, one line each,   *)
(* and reports network states and deactivation when it likes.              *)

ModemAccepts ==
  /\ ~device_disconnected
  /\ answered < Len(sent)
  /\ answered' = answered + 1
  /\ acked' = acked \cup {sent[answered + 1]}
  /\ okline' = okline + 1
  /\ UNCHANGED <<host, sent, bye, nwsline, cgline, reported>>

ModemRefuses ==
  /\ "refused" \in May
  /\ ~device_disconnected
  /\ answered < Len(sent)
  /\ answered' = answered + 1
  /\ UNCHANGED <<host, sent, bye, acked, okline, nwsline, cgline, reported>>

ModemDetaches ==
  /\ ~device_disconnected
  /\ answered = Len(sent)
  /\ bye = "written"
  /\ bye' = "answered"
  /\ okline' = okline + 1
  /\ UNCHANGED <<host, sent, answered, acked, nwsline, cgline, reported>>

ModemReports(v) ==
  /\ ~device_disconnected
  /\ v \notin nwsline
  /\ nwsline' = nwsline \cup {v}
  /\ reported' = reported \cup {v}
  /\ UNCHANGED <<host, sent, bye, answered, acked, okline, cgline>>

ModemReportsInactive ==
  /\ ~device_disconnected
  /\ \/ bye = "answered"
     \/ "inactive" \in May /\ QueryStep \in acked
  /\ ~cgline
  /\ cgline' = TRUE
  /\ UNCHANGED <<host, sent, bye, answered, acked, okline, nwsline, reported>>

-----------------------------------------------------------------------------
MainLoop == \/ EndEvents \/ ProcessStep \/ PinReturns \/ SendReturns
            \/ Connect \/ ProcessIdle

Callback == Receive \/ ReceiveError \/ ReceiveNoDevice

Handler == Sigint \/ ByeReturns \/ HandlerExits

Modem == \/ ModemAccepts \/ ModemRefuses \/ ModemDetaches
         \/ (\E v \in NwValues : ModemReports(v)) \/ ModemReportsInactive

Next == MainLoop \/ Callback \/ Handler \/ Modem

Spec == Init /\ [][Next]_vars

\* Fairness: the loop never stops; the modem answers what it received and
\* registers in the end; and as every pass through process_events_once handles
\* the completed transfer, the endpoint is drained again and again.
Drain == Receive /\ (okline = 0 /\ nwsline = {} /\ ~cgline)'

FairSpec ==
  /\ Spec
  /\ WF_vars(MainLoop)
  /\ WF_vars(ModemAccepts)
  /\ WF_vars(\E v \in NwValues : v > 3 /\ ModemReports(v))
  /\ SF_vars(Drain)

-----------------------------------------------------------------------------
(* Correctness without a PIN.                                              *)

\* lte.c opens the uplink (isconn, lte.c:182) only after the modem has said OK
\* to every step of the script, the attach included, whatever is lost, refused
\* or answered early on the way.
ConnectedAfterScript ==
  isconn /\ ~Pin => 1..AttachStep \subseteq acked

\* Stop and wait: modem_process writes a command only when every command
\* before it was accepted and its OK was consumed (modem.c:113).
StopAndWait ==
  [][sent' # sent /\ ~Pin => {sent[i] : i \in DOMAIN sent} \subseteq acked /\ okline = 0]_vars

\* The dialogue implements the abstract script.
Script == INSTANCE AtScript
            WITH N <- AttachStep, issued <- Len(sent),
                 accepted <- Cardinality(acked), up <- isconn
ScriptSpec == Script!Spec

\* The inductive invariant behind these three: the commands written are
\* 1..Len(sent), accepted but for the last at most; as long as no signal came,
\* state counts the accepted steps, the endpoint holds an OK only if it is for
\* the step state, and a step not yet handled is a step not yet written.
HandshakeInv ==
  ~Pin =>
    /\ \A i \in DOMAIN sent : sent[i] = i
    /\ Len(sent) <= AttachStep
    /\ acked \subseteq 1..answered
    /\ acked \in {1..Len(sent), 1..(Len(sent) - 1)}
    /\ isconn => acked = 1..AttachStep
    /\ sig = "none" =>
         /\ bye = "none"
         /\ pc # "pin"
         /\ state >= 1 /\ 1..(state - 1) \subseteq acked
         /\ Len(sent) \in {state - 1, state}
         /\ curstate # state /\ pc # "send" => Len(sent) = state - 1
         /\ okline > 0 => okline = 1 /\ Len(sent) = state /\ state \in acked

-----------------------------------------------------------------------------
(* Correctness with or without a PIN.                                      *)

\* No command of the table is sent twice and none is read from beyond the
\* attach step, although state is advanced by callbacks inside sends.
CommandsOnce ==
  /\ \A i, j \in DOMAIN sent : sent[i] = sent[j] => i = j
  /\ \A i \in DOMAIN sent : sent[i] <= AttachStep

\* The PIN costs one OK more than the script has steps (modem.c:116-121 falls
\* through to modem.c:142), so the link may be declared up with one step never
\* accepted or never sent, but not with two.
ConnectedMissesOne ==
  isconn => Cardinality((1..AttachStep) \ acked) <= 1

\* The modem never has more than two commands to answer.
TwoOutstanding == Len(sent) - answered <= 2

\* AT+CGATT=1 is sent only after the modem reported a network state above 3,
\* as long as no report is cut in two (modem.c:59-70, 130).
AttachAfterRegistration ==
  "garbled" \notin May /\ AttachStep \in {sent[i] : i \in DOMAIN sent} =>
    \E v \in reported : v > 3

\* Control-C ends the process only when the modem has detached, as long as the
\* answer to "AT+CGACT?", whole or cut, did not already set cgact_1_0 (modem.c:72-76).
ExitOnlyWhenDetached ==
  May \cap {"inactive", "garbled"} = {} /\ sig = "exited" => bye = "answered"

\* A handler that starts to spin before cgact_1_0 is set spins for ever: only
\* an event callback sets it and the spin runs none (lte.c:206-213).
SpinIsFinal ==
  [][sig = "spinning" /\ ~cgact_1_0 => sig' = sig /\ ~cgact_1_0']_vars

\* With the PIN too, the script that is declared finished has configured the
\* APN that README.md:66 says is needed to get the dongle to connect.
ConnectedUsesApn == isconn => ApnStep \in acked

-----------------------------------------------------------------------------
(* Liveness, under FairSpec.                                               *)

\* A modem that accepts everything and registers gets connected.
EventuallyConnected == <>isconn

\* Nothing is outstanding and modem_process has nothing to do, unconnected.
Stalled ==
  /\ ~isconn
  /\ pc \in {"events", "process"} /\ curstate = state
  /\ answered = Len(sent) /\ okline = 0

\* When OKs may arrive inside a send, the dialogue connects or stalls for good
\* because an OK was swallowed by the assignment curstate = state; it does not
\* go round in circles and does not wait with an OK undelivered.
ConnectedOrStalled == <>[](isconn \/ Stalled)
=============================================================================
