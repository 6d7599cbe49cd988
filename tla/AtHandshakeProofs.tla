------------------------- MODULE AtHandshakeProofs -------------------------
(***************************************************************************)
(* What AtHandshake guarantees for every script length, every set of       *)
(* network states and every combination of disturbances.                   *)
(***************************************************************************)
EXTENDS AtHandshake, FiniteSetTheorems, TLAPS

\* One received transfer keeps the types: what it takes from the endpoint and
\* what the callback does with it.
LEMMA ReceiveTypeOK ==
  ASSUME TypeOK, Receive
  PROVE  TypeOK'
<1>1. PICK k \in 0..okline, seen \in SUBSET nwsline, c \in BOOLEAN :
        /\ Take(k, seen, c)
        /\ \E oks \in 0..k, read \in SUBSET NwValues, d \in BOOLEAN :
             modem_response(oks, read, d)
  BY ZenonT(60) DEF Receive
<1>2. PICK oks \in 0..k, read \in SUBSET NwValues, d \in BOOLEAN :
        modem_response(oks, read, d)
  BY <1>1
<1>3. state' \in Nat /\ nwstate' \in Nat /\ cgact_1_0' \in BOOLEAN
  BY <1>2, HandshakeAssumption DEF modem_response, TypeOK
<1>4. okline' \in Nat /\ nwsline' \subseteq nwsline /\ cgline' \in BOOLEAN
  BY <1>1 DEF Take, TypeOK
<1>5. posted' \in BOOLEAN
  BY DEF Receive, Resubmit
<1> QED
  BY <1>1, <1>2, <1>3, <1>4, <1>5 DEF Take, modem_response, TypeOK

LEMMA ReceiveErrorTypeOK ==
  ASSUME TypeOK, ReceiveError
  PROVE  TypeOK'
<1>1. PICK k \in 0..okline, seen \in SUBSET nwsline, c \in BOOLEAN :
        Take(k, seen, c)
  BY DEF ReceiveError
<1>2. okline' \in Nat /\ nwsline' \subseteq nwsline /\ cgline' \in BOOLEAN
  BY <1>1 DEF Take, TypeOK
<1>3. posted' \in BOOLEAN
  BY DEF ReceiveError, Resubmit
<1> QED
  BY <1>1, <1>2, <1>3 DEF Take, ReceiveError, TypeOK

\* A send keeps the modem's side well typed, whether it succeeds or fails.
LEMMA SendTypeOK ==
  ASSUME TypeOK, NEW cmd \in Nat, send_at_cmd(cmd)
  PROVE  /\ sent' \in Seq(Nat)
         /\ Len(sent') \in {Len(sent), Len(sent) + 1}
         /\ answered' \in 0..Len(sent')
         /\ UNCHANGED <<bye, acked, okline, nwsline, cgline, reported>>
<1>1. CASE sent' = Append(sent, cmd)
  BY <1>1 DEF send_at_cmd, TypeOK
<1>2. CASE sent' = sent
  BY <1>2 DEF send_at_cmd, TypeOK
<1> QED
  BY <1>1, <1>2 DEF send_at_cmd

LEMMA SendStepTypeOK ==
  ASSUME TypeOK, SendStep
  PROVE  /\ pc' \in {"events", "send"}
         /\ sent' \in Seq(Nat)
         /\ answered' \in 0..Len(sent')
         /\ UNCHANGED <<bye, acked, okline, nwsline, cgline, reported>>
<1>1. CASE UNCHANGED modem /\ pc' = "events"
  BY <1>1 DEF modem, TypeOK
<1>2. CASE send_at_cmd(state) /\ pc' = "send"
  BY <1>2, SendTypeOK DEF TypeOK
<1> QED
  BY <1>1, <1>2 DEF SendStep

\* The types of all variables are kept by every step of the host and the modem.
LEMMA NextTypeOK == TypeOK /\ [Next]_vars => TypeOK'
<1> SUFFICES ASSUME TypeOK, [Next]_vars PROVE TypeOK'
  OBVIOUS
<1>1. CASE EndEvents
  BY <1>1 DEF EndEvents, modem, TypeOK
<1>2. CASE ProcessStep
  <2>1. CASE pc' = "pin" /\ send_at_cmd(PinCmd)
    BY <1>2, <2>1, SendTypeOK DEF ProcessStep, PinCmd, TypeOK
  <2>2. CASE SendStep
    BY <1>2, <2>2, SendStepTypeOK DEF ProcessStep, TypeOK
  <2> QED
    BY <1>2, <2>1, <2>2 DEF ProcessStep
<1>3. CASE PinReturns
  BY <1>3, SendStepTypeOK DEF PinReturns, TypeOK
<1>4. CASE SendReturns
  BY <1>4 DEF SendReturns, modem, TypeOK
<1>5. CASE Connect
  BY <1>5 DEF Connect, modem, TypeOK
<1>6. CASE ProcessIdle
  BY <1>6 DEF ProcessIdle, modem, TypeOK
<1>7. CASE Receive
  BY <1>7, ReceiveTypeOK
<1>8. CASE ReceiveError
  BY <1>8, ReceiveErrorTypeOK
<1>9. CASE ReceiveNoDevice
  BY <1>9 DEF ReceiveNoDevice, modem, TypeOK
<1>10. CASE Sigint
  BY <1>10 DEF Sigint, TypeOK
<1>11. CASE ByeReturns
  BY <1>11 DEF ByeReturns, modem, TypeOK
<1>12. CASE HandlerExits
  BY <1>12 DEF HandlerExits, modem, TypeOK
<1>13. CASE ModemAccepts
  <2>1. sent[answered + 1] \in Nat /\ answered + 1 \in 0..Len(sent)
    BY <1>13 DEF ModemAccepts, TypeOK
  <2>2. acked' \subseteq Nat
    BY <1>13, <2>1 DEF ModemAccepts, TypeOK
  <2>3. answered' \in 0..Len(sent')
    BY <1>13, <2>1 DEF ModemAccepts
  <2>4. okline' \in Nat
    BY <1>13 DEF ModemAccepts, TypeOK
  <2> QED
    BY <1>13, <2>2, <2>3, <2>4 DEF ModemAccepts, host, TypeOK
<1>14. CASE ModemRefuses
  BY <1>14 DEF ModemRefuses, host, TypeOK
<1>15. CASE ModemDetaches
  BY <1>15 DEF ModemDetaches, host, TypeOK
<1>16. ASSUME NEW v \in NwValues, ModemReports(v) PROVE TypeOK'
  BY <1>16 DEF ModemReports, host, TypeOK
<1>17. CASE ModemReportsInactive
  BY <1>17 DEF ModemReportsInactive, host, TypeOK
<1>18. CASE UNCHANGED vars
  BY <1>18 DEF vars, host, modem, TypeOK
<1> QED
  BY <1>1, <1>2, <1>3, <1>4, <1>5, <1>6, <1>7, <1>8, <1>9, <1>10, <1>11,
     <1>12, <1>13, <1>14, <1>15, <1>16, <1>17, <1>18
  DEF Next, MainLoop, Callback, Handler, Modem

\* Type correctness of the dialogue.
THEOREM TypeCorrect == Spec => []TypeOK
<1>1. ASSUME Init PROVE TypeOK
  <2>1. sent \in Seq(Nat) /\ answered \in 0..Len(sent) /\ okline \in Nat
    BY <1>1 DEF Init
  <2>2. state \in Nat /\ curstate \in Nat /\ nwstate \in Nat
    BY <1>1 DEF Init
  <2>3. /\ cgact_1_0 \in BOOLEAN /\ isconn \in BOOLEAN /\ posted \in BOOLEAN
        /\ device_disconnected \in BOOLEAN /\ cgline \in BOOLEAN
    BY <1>1 DEF Init
  <2>4. acked \subseteq Nat /\ nwsline \subseteq reported /\ reported \subseteq NwValues
    BY <1>1 DEF Init
  <2> QED
    BY <1>1, <2>1, <2>2, <2>3, <2>4 DEF Init, TypeOK
<1> QED
  BY <1>1, NextTypeOK, PTL DEF Spec

-----------------------------------------------------------------------------
(* The dialogue without a PIN.                                             *)

\* A step that is written is the next of the script: everything before it is
\* accepted, and no OK is under way.
LEMMA SendNextStep ==
  ASSUME ~Pin, TypeOK, HandshakeInv, ProcessStep
  PROVE  /\ Len(sent) = state - 1 /\ state <= AttachStep
         /\ acked = 1..Len(sent) /\ answered = Len(sent)
         /\ okline = 0
<1>1. /\ sig = "none" /\ pc = "process" /\ curstate # state
      /\ state <= AttachStep /\ AttachStep \in Nat /\ state >= 1
  BY HandshakeAssumption DEF ProcessStep, HandshakeInv
<1>2. Len(sent) = state - 1 /\ 1..(state - 1) \subseteq acked
  BY <1>1 DEF HandshakeInv
<1>3. Len(sent) \in Nat /\ answered \in 0..Len(sent) /\ okline \in Nat /\ state \in Nat
  BY DEF TypeOK
<1>4. acked = 1..Len(sent)
  <2>1. acked \subseteq 1..Len(sent)
    BY <1>3 DEF HandshakeInv
  <2> QED
    BY <1>2, <2>1
<1>5. answered = Len(sent)
  <2>1. acked \subseteq 1..answered
    BY DEF HandshakeInv
  <2>2. CASE Len(sent) = 0
    BY <1>3, <2>2
  <2>3. CASE Len(sent) # 0
    <3>1. Len(sent) \in 1..answered
      BY <1>3, <1>4, <2>1, <2>3
    <3> QED
      BY <1>3, <3>1
  <2> QED
    BY <2>2, <2>3
<1>6. okline = 0
  BY <1>1, <1>2, <1>3 DEF HandshakeInv
<1> QED
  BY <1>1, <1>2, <1>4, <1>5, <1>6

LEMMA ProcessStepInv ==
  ASSUME ~Pin, TypeOK, HandshakeInv, ProcessStep
  PROVE  HandshakeInv'
<1>1. SendStep
  BY DEF ProcessStep
<1>2. /\ Len(sent) = state - 1 /\ state <= AttachStep /\ AttachStep \in Nat
      /\ acked = 1..Len(sent) /\ answered = Len(sent) /\ okline = 0
      /\ state \in Nat /\ sent \in Seq(Nat) /\ state >= 1 /\ sig = "none" /\ bye = "none"
  BY SendNextStep, HandshakeAssumption DEF TypeOK, ProcessStep, HandshakeInv
<1>3. UNCHANGED <<state, curstate, isconn, sig, bye, answered, acked, okline>>
  BY <1>1 DEF ProcessStep, SendStep, send_at_cmd, modem
<1>4. CASE sent' = sent /\ pc' \in {"events", "send"}
  BY <1>2, <1>3, <1>4 DEF HandshakeInv
<1>5. CASE sent' = Append(sent, state) /\ pc' = "send"
  <2>1. Len(sent') = state /\ \A i \in 1..Len(sent) : sent'[i] = sent[i]
    BY <1>2, <1>5
  <2>2. \A i \in DOMAIN sent' : sent'[i] = i
    BY <1>2, <1>5, <2>1 DEF HandshakeInv
  <2>3. acked' \in {1..Len(sent'), 1..(Len(sent') - 1)}
    BY <1>2, <1>3, <2>1
  <2> QED
    BY <1>2, <1>3, <1>5, <2>1, <2>2, <2>3 DEF HandshakeInv
<1> QED
  BY <1>1, <1>4, <1>5 DEF SendStep, send_at_cmd, modem

\* A received OK is the one for the step state: the state moves by one.
LEMMA ReceiveInv ==
  ASSUME ~Pin, TypeOK, HandshakeInv, Receive
  PROVE  HandshakeInv'
<1>1. PICK k \in 0..okline, seen \in SUBSET nwsline, c \in BOOLEAN :
        /\ Take(k, seen, c)
        /\ \E oks \in 0..k, read \in SUBSET NwValues, d \in BOOLEAN :
             modem_response(oks, read, d)
  BY ZenonT(60) DEF Receive
<1>2. PICK oks \in 0..k : state' = state + oks
  BY <1>1 DEF modem_response
<1>3. /\ UNCHANGED <<curstate, isconn, pc, sig, sent, bye, answered, acked>>
      /\ okline' = okline - k
  BY <1>1 DEF modem_response, Take
<1>4. /\ state \in Nat /\ curstate \in Nat /\ okline \in Nat /\ Len(sent) \in Nat
      /\ k \in Nat /\ oks \in Nat /\ oks <= k /\ k <= okline
  BY DEF TypeOK
<1>5. CASE sig # "none"
  BY <1>3, <1>5 DEF HandshakeInv
<1>6. CASE sig = "none" /\ oks = 0
  BY <1>2, <1>3, <1>4, <1>6 DEF HandshakeInv
<1>7. CASE sig = "none" /\ oks # 0
  <2>1. okline = 1 /\ k = 1 /\ oks = 1 /\ Len(sent) = state /\ state \in acked
    BY <1>4, <1>7 DEF HandshakeInv
  <2>2. state' = state + 1 /\ okline' = 0
    BY <1>2, <1>3, <2>1
  <2>3. 1..(state' - 1) \subseteq acked'
    BY <1>3, <1>4, <1>7, <2>1, <2>2 DEF HandshakeInv
  <2> QED
    BY <1>3, <1>4, <1>7, <2>1, <2>2, <2>3 DEF HandshakeInv
<1> QED
  BY <1>5, <1>6, <1>7

LEMMA ReceiveErrorInv ==
  ASSUME ~Pin, TypeOK, HandshakeInv, ReceiveError
  PROVE  HandshakeInv'
<1>1. PICK k \in 0..okline, seen \in SUBSET nwsline, c \in BOOLEAN : Take(k, seen, c)
  BY DEF ReceiveError
<1>2. /\ UNCHANGED <<state, curstate, isconn, pc, sig, sent, bye, answered, acked>>
      /\ okline' \in Nat /\ okline' <= okline
  BY <1>1 DEF ReceiveError, Take, TypeOK
<1> QED
  BY <1>2 DEF HandshakeInv, TypeOK

\* An answer completes the accepted prefix of the script, and only the last
\* command written can still be answered.
LEMMA ModemAcceptsInv ==
  ASSUME ~Pin, TypeOK, HandshakeInv, ModemAccepts
  PROVE  /\ HandshakeInv'
         /\ answered + 1 = Len(sent) /\ acked = 1..(Len(sent) - 1)
         /\ acked' = 1..Len(sent)
<1>1. /\ Len(sent) \in Nat /\ answered \in 0..Len(sent) /\ answered < Len(sent)
      /\ acked \subseteq 1..answered /\ state \in Nat /\ okline \in Nat
      /\ answered' = answered + 1 /\ okline' = okline + 1
      /\ UNCHANGED <<state, curstate, isconn, pc, sig, sent, bye>>
  BY DEF TypeOK, HandshakeInv, ModemAccepts, host
<1>2. acked = 1..(Len(sent) - 1)
  <2>1. Len(sent) \notin acked /\ Len(sent) \in 1..Len(sent)
    BY <1>1
  <2> QED
    BY <2>1 DEF HandshakeInv
<1>3. answered + 1 = Len(sent)
  <2>1. CASE Len(sent) = 1
    BY <1>1, <2>1
  <2>2. CASE Len(sent) > 1
    <3>1. Len(sent) - 1 \in 1..(Len(sent) - 1)
      BY <1>1, <2>2
    <3>2. Len(sent) - 1 \in 1..answered
      BY <1>1, <1>2, <3>1
    <3> QED
      BY <1>1, <3>2
  <2> QED
    BY <1>1, <2>1, <2>2
<1>4. acked' = 1..Len(sent)
  <2>1. sent[answered + 1] = answered + 1
    BY <1>1, <1>3 DEF HandshakeInv, TypeOK
  <2>2. acked' = acked \cup {Len(sent)}
    BY <1>3, <2>1 DEF ModemAccepts
  <2> QED
    BY <1>1, <1>2, <2>2
<1>5. isconn' => acked' = 1..AttachStep
  <2> SUFFICES ASSUME isconn PROVE FALSE
    BY <1>1
  <2>1. AttachStep \in Nat /\ Len(sent) <= AttachStep /\ acked = 1..AttachStep
    BY HandshakeAssumption DEF HandshakeInv
  <2>2. Len(sent) \in 1..AttachStep /\ Len(sent) \notin 1..(Len(sent) - 1)
    BY <1>1, <2>1
  <2> QED
    BY <1>2, <2>1, <2>2
<1>6. ASSUME sig = "none"
      PROVE  /\ state >= 1 /\ 1..(state - 1) \subseteq acked'
             /\ okline' = 1 /\ Len(sent) = state /\ state \in acked'
  <2>1. /\ 1..(state - 1) \subseteq acked /\ Len(sent) \in {state - 1, state}
        /\ state >= 1 /\ (okline > 0 => Len(sent) = state /\ state \in acked)
    BY <1>6 DEF HandshakeInv
  <2>2. Len(sent) = state
    <3> SUFFICES ASSUME Len(sent) = state - 1 PROVE FALSE
      BY <2>1
    <3>1. Len(sent) \in 1..(state - 1) /\ Len(sent) \notin 1..(Len(sent) - 1)
      BY <1>1
    <3> QED
      BY <1>2, <2>1, <3>1
  <2>3. okline = 0
    <3>1. state \notin acked
      BY <1>1, <1>2, <2>2
    <3> QED
      BY <1>1, <2>1, <3>1
  <2> QED
    BY <1>1, <1>2, <1>4, <2>1, <2>2, <2>3
<1>7. acked' \subseteq 1..answered'
  BY <1>1, <1>3, <1>4
<1> QED
  BY <1>1, <1>2, <1>3, <1>4, <1>5, <1>6, <1>7 DEF HandshakeInv

\* Declaring the link up: the state has passed the attach step.
LEMMA ConnectInv ==
  ASSUME ~Pin, TypeOK, HandshakeInv, Connect
  PROVE  HandshakeInv' /\ acked = 1..AttachStep
<1>1. /\ sig = "none" /\ pc = "process" /\ state > AttachStep /\ curstate # state
      /\ UNCHANGED <<state, curstate, sig, sent, bye, answered, acked, okline>>
      /\ pc' = "events"
  BY DEF Connect, modem
<1>2. acked = 1..AttachStep
  <2>1. AttachStep \in Nat /\ Len(sent) <= AttachStep /\ Len(sent) \in Nat /\ state \in Nat
    BY HandshakeAssumption DEF TypeOK, HandshakeInv
  <2>2. acked \subseteq 1..Len(sent) /\ 1..(state - 1) \subseteq acked
    BY <1>1, <2>1 DEF HandshakeInv
  <2>3. 1..AttachStep \subseteq acked
    BY <1>1, <2>1, <2>2
  <2>4. acked \subseteq 1..AttachStep
    BY <2>1, <2>2
  <2> QED
    BY <2>3, <2>4
<1> QED
  BY <1>1, <1>2 DEF HandshakeInv

LEMMA NextInv == ~Pin /\ TypeOK /\ HandshakeInv /\ [Next]_vars => HandshakeInv'
<1> SUFFICES ASSUME ~Pin, TypeOK, HandshakeInv, [Next]_vars PROVE HandshakeInv'
  OBVIOUS
<1>1. CASE EndEvents
  BY <1>1 DEF EndEvents, modem, HandshakeInv
<1>2. CASE ProcessStep
  BY <1>2, ProcessStepInv
<1>3. CASE PinReturns
  BY <1>3 DEF PinReturns, HandshakeInv
<1>4. CASE SendReturns
  BY <1>4 DEF SendReturns, modem, HandshakeInv
<1>5. CASE Connect
  BY <1>5, ConnectInv
<1>6. CASE ProcessIdle
  BY <1>6 DEF ProcessIdle, modem, HandshakeInv
<1>7. CASE Receive
  BY <1>7, ReceiveInv
<1>8. CASE ReceiveError
  BY <1>8, ReceiveErrorInv
<1>9. CASE ReceiveNoDevice
  BY <1>9 DEF ReceiveNoDevice, modem, HandshakeInv
<1>10. CASE Sigint
  BY <1>10 DEF Sigint, HandshakeInv
<1>11. CASE ByeReturns
  BY <1>11 DEF ByeReturns, modem, HandshakeInv
<1>12. CASE HandlerExits
  BY <1>12 DEF HandlerExits, modem, HandshakeInv
<1>13. CASE ModemAccepts
  BY <1>13, ModemAcceptsInv
<1>14. CASE ModemRefuses
  <2>1. acked \subseteq 1..answered'
    BY <1>14 DEF ModemRefuses, HandshakeInv, TypeOK
  <2> QED
    BY <1>14, <2>1 DEF ModemRefuses, host, HandshakeInv
<1>15. CASE ModemDetaches
  BY <1>15 DEF ModemDetaches, host, HandshakeInv
<1>16. ASSUME NEW v \in NwValues, ModemReports(v) PROVE HandshakeInv'
  BY <1>16 DEF ModemReports, host, HandshakeInv
<1>17. CASE ModemReportsInactive
  BY <1>17 DEF ModemReportsInactive, host, HandshakeInv
<1>18. CASE UNCHANGED vars
  BY <1>18 DEF vars, host, modem, HandshakeInv
<1> QED
  BY <1>1, <1>2, <1>3, <1>4, <1>5, <1>6, <1>7, <1>8, <1>9, <1>10, <1>11,
     <1>12, <1>13, <1>14, <1>15, <1>16, <1>17, <1>18
  DEF Next, MainLoop, Callback, Handler, Modem

\* HandshakeInv holds in every reachable state, with a script of any length.
THEOREM HandshakeInvariant == Spec => []HandshakeInv
<1>1. Init => HandshakeInv
  <2> SUFFICES ASSUME Init PROVE HandshakeInv
    OBVIOUS
  <2>1. /\ Len(sent) = 0 /\ DOMAIN sent = {} /\ 1..Len(sent) = {} /\ acked = {}
        /\ 1..(state - 1) = {} /\ 1..answered = {}
    BY DEF Init
  <2>2. AttachStep \in Nat
    BY HandshakeAssumption
  <2> QED
    BY <2>1, <2>2 DEF Init, HandshakeInv
<1>2. TypeOK /\ HandshakeInv /\ [Next]_vars => HandshakeInv'
  <2>1. CASE Pin
    BY <2>1 DEF HandshakeInv
  <2> QED
    BY <2>1, NextInv
<1> QED
  BY <1>1, <1>2, TypeCorrect, PTL DEF Spec

\* Without a PIN the uplink opens only after the whole script was accepted.
THEOREM ConnectedAfterScriptHolds == Spec => []ConnectedAfterScript
<1>1. HandshakeInv => ConnectedAfterScript
  BY DEF HandshakeInv, ConnectedAfterScript
<1> QED
  BY <1>1, HandshakeInvariant, PTL

\* A new command is written only when every earlier one is accepted and its OK
\* consumed.
THEOREM StopAndWaitHolds == Spec => StopAndWait
<1>1. TypeOK /\ HandshakeInv /\ [Next]_vars =>
        [sent' # sent /\ ~Pin => {sent[i] : i \in DOMAIN sent} \subseteq acked /\ okline = 0]_vars
  <2> SUFFICES ASSUME TypeOK, HandshakeInv, [Next]_vars, sent' # sent, ~Pin
               PROVE  {sent[i] : i \in DOMAIN sent} \subseteq acked /\ okline = 0
    OBVIOUS
  <2>1. ProcessStep
    <3>1. PinReturns => FALSE
      BY DEF PinReturns, HandshakeInv
    <3>2. ~ProcessStep /\ Next => sent' = sent
      BY <3>1 DEF Next, MainLoop, Callback, Handler, Modem, EndEvents, SendReturns,
         Connect, ProcessIdle, Receive, ReceiveError, ReceiveNoDevice, Take, Sigint,
         ByeReturns, HandlerExits, ModemAccepts, ModemRefuses, ModemDetaches,
         ModemReports, ModemReportsInactive, modem
    <3>3. sent' # sent => vars' # vars
      BY DEF vars, modem
    <3> QED
      BY <3>2, <3>3
  <2>2. /\ acked = 1..Len(sent) /\ okline = 0 /\ DOMAIN sent = 1..Len(sent)
        /\ \A i \in DOMAIN sent : sent[i] = i
    BY <2>1, SendNextStep DEF HandshakeInv, TypeOK
  <2> QED
    BY <2>2
<1> QED
  BY <1>1, TypeCorrect, HandshakeInvariant, PTL DEF Spec, StopAndWait

-----------------------------------------------------------------------------
(* The dialogue implements the abstract script.                            *)

LEMMA CardInterval ==
  ASSUME NEW n \in Nat
  PROVE  Cardinality(1..n) = n
<1>1. Cardinality(1..n) = IF 1 > n THEN 0 ELSE n - 1 + 1
  BY FS_Interval
<1> QED
  BY <1>1

LEMMA ScriptStep ==
  ASSUME ~Pin, TypeOK, HandshakeInv, Next
  PROVE  [Script!Next]_(Script!vars)
<1>0. Len(sent) \in Nat /\ AttachStep \in Nat
  BY HandshakeAssumption DEF TypeOK
<1>1. CASE ProcessStep
  <2>1. /\ Len(sent) = state - 1 /\ state <= AttachStep
        /\ acked = 1..Len(sent) /\ state \in Nat /\ sent \in Seq(Nat)
    BY <1>1, SendNextStep DEF TypeOK
  <2>2. Cardinality(acked) = Len(sent)
    BY <1>0, <2>1, CardInterval
  <2>3. UNCHANGED <<acked, isconn>>
    BY <1>1 DEF ProcessStep, SendStep, send_at_cmd, modem
  <2>4. CASE sent' = Append(sent, state)
    <3>1. Len(sent') = Len(sent) + 1 /\ Len(sent) < AttachStep
      BY <1>0, <2>1, <2>4
    <3>2. Script!Issue
      BY <2>2, <2>3, <3>1 DEF Script!Issue
    <3> QED
      BY <3>2 DEF Script!Next
  <2>5. CASE sent' = sent
    BY <2>3, <2>5 DEF Script!vars
  <2> QED
    BY <1>1, <2>4, <2>5 DEF ProcessStep, SendStep, send_at_cmd, modem
<1>2. CASE Connect
  <2>1. acked = 1..AttachStep
    BY <1>2, ConnectInv
  <2>2. Cardinality(acked) = AttachStep
    BY <1>0, <2>1, CardInterval
  <2>3. Script!Declare
    BY <1>2, <2>2 DEF Connect, modem, Script!Declare
  <2> QED
    BY <2>3 DEF Script!Next
<1>3. CASE ModemAccepts
  <2>1. /\ acked = 1..(Len(sent) - 1) /\ acked' = 1..Len(sent)
        /\ Len(sent) - 1 \in Nat /\ sent' = sent /\ isconn' = isconn
    BY <1>3, <1>0, ModemAcceptsInv DEF ModemAccepts, host, TypeOK
  <2>2. Cardinality(acked) = Len(sent) - 1
    BY <2>1, CardInterval
  <2>3. Cardinality(acked') = Len(sent)
    BY <1>0, <2>1, CardInterval
  <2>4. Script!Accept
    BY <1>0, <2>1, <2>2, <2>3 DEF Script!Accept
  <2> QED
    BY <2>4 DEF Script!Next
<1>4. CASE ~ProcessStep /\ ~Connect /\ ~ModemAccepts
  <2>1. ~PinReturns
    BY DEF PinReturns, HandshakeInv
  <2>2. UNCHANGED <<sent, acked, isconn>>
    BY <1>4, <2>1, ZenonT(60) DEF Next, MainLoop, Callback, Handler, Modem, EndEvents, SendReturns,
       ProcessIdle, Receive, ReceiveError, ReceiveNoDevice, Take, modem_response,
       Sigint, ByeReturns, HandlerExits, ModemRefuses, ModemDetaches,
       ModemReports, ModemReportsInactive, modem, host
  <2> QED
    BY <2>2 DEF Script!vars
<1> QED
  BY <1>1, <1>2, <1>3, <1>4

\* Without a PIN every run of the dialogue, whatever is lost, refused or answered
\* early, is a run of the script: one step at a time, up only after the last.
THEOREM ScriptImplemented == ~Pin => (Spec => ScriptSpec)
<1> SUFFICES ASSUME ~Pin PROVE Spec => ScriptSpec
  OBVIOUS
<1>1. Init => Script!Init
  <2> SUFFICES ASSUME Init PROVE Script!Init
    OBVIOUS
  <2>1. Len(sent) = 0 /\ acked = {} /\ isconn = FALSE
    BY DEF Init
  <2>2. Cardinality(acked) = 0
    BY <2>1, FS_EmptySet
  <2> QED
    BY <2>1, <2>2 DEF Script!Init
<1>2. TypeOK /\ HandshakeInv /\ [Next]_vars => [Script!Next]_(Script!vars)
  <2>1. CASE UNCHANGED vars
    BY <2>1 DEF vars, host, modem, Script!vars
  <2> QED
    BY <2>1, ScriptStep
<1> QED
  BY <1>1, <1>2, TypeCorrect, HandshakeInvariant, PTL DEF Spec, ScriptSpec, Script!Spec

-----------------------------------------------------------------------------
(* Control-C and the network state, with or without a PIN.                 *)

\* A spin that starts without cgact_1_0 never ends: no callback runs in it.
THEOREM SpinIsFinalHolds == Spec => SpinIsFinal
<1>1. [Next]_vars =>
        [sig = "spinning" /\ ~cgact_1_0 => sig' = sig /\ ~cgact_1_0']_vars
  <2> SUFFICES ASSUME Next, sig = "spinning", ~cgact_1_0
               PROVE  sig' = sig /\ cgact_1_0' = cgact_1_0
    OBVIOUS
  <2>1. ~Pumping /\ ~MainLoop /\ ~Handler
    BY DEF Pumping, MainLoop, EndEvents, ProcessStep, PinReturns, SendReturns, Connect,
       ProcessIdle, Handler, Sigint, ByeReturns, HandlerExits
  <2>2. ~Callback
    BY <2>1 DEF Callback, Receive, ReceiveError, ReceiveNoDevice
  <2> QED
    BY <2>1, <2>2 DEF Next, Modem, ModemAccepts, ModemRefuses, ModemDetaches,
       ModemReports, ModemReportsInactive, host
<1> QED
  BY <1>1, PTL DEF Spec, SpinIsFinal

\* The detach is sent by the signal handler only.
ByeInv == sig = "none" => bye = "none"

LEMMA ByeStep == ByeInv /\ [Next]_vars => ByeInv'
BY ZenonT(60) DEF ByeInv, Next, MainLoop, Callback, Handler, Modem, EndEvents, ProcessStep, PinReturns,
   SendStep, send_at_cmd, SendReturns, Connect, ProcessIdle, Receive, ReceiveError,
   ReceiveNoDevice, Take, modem_response, Sigint, ByeReturns, HandlerExits, ModemAccepts,
   ModemRefuses, ModemDetaches, ModemReports, ModemReportsInactive, modem, host, vars

\* Where the deactivation notice can be, if no query reported it: nowhere before
\* the modem has detached.
NoticeInv ==
  May \cap {"inactive", "garbled"} = {} =>
    (cgline = TRUE \/ cgact_1_0 = TRUE \/ sig = "exited" => bye = "answered")

LEMMA NoticeStep == TypeOK /\ ByeInv /\ NoticeInv /\ [Next]_vars => NoticeInv'
<1> SUFFICES ASSUME TypeOK, ByeInv, NoticeInv, [Next]_vars, "inactive" \notin May,
                    "garbled" \notin May, bye' # "answered"
             PROVE  cgline' # TRUE /\ cgact_1_0' # TRUE /\ sig' # "exited"
  BY DEF NoticeInv
<1>1. bye # "answered"
  BY DEF ByeInv, Next, MainLoop, Callback, Handler, Modem, EndEvents, ProcessStep, PinReturns,
     SendStep, send_at_cmd, SendReturns, Connect, ProcessIdle, Receive, ReceiveError,
     ReceiveNoDevice, Take, Sigint, ByeReturns, HandlerExits, ModemAccepts, ModemRefuses,
     ModemDetaches, ModemReports, ModemReportsInactive, modem, vars
<1>2. cgline = FALSE /\ cgact_1_0 = FALSE /\ sig # "exited"
  BY <1>1 DEF NoticeInv, TypeOK
<1>3. CASE Receive
  <2>1. PICK k \in 0..okline, seen \in SUBSET nwsline, c \in BOOLEAN :
          /\ Take(k, seen, c)
          /\ \E oks \in 0..k, read \in SUBSET NwValues : modem_response(oks, read, c)
    BY <1>3, ZenonT(60) DEF Receive
  <2>2. c = FALSE /\ cgline' = FALSE
    BY <1>2, <2>1 DEF Take
  <2>3. cgact_1_0' = FALSE /\ sig' = sig
    BY <1>2, <2>1, <2>2 DEF modem_response
  <2> QED
    BY <1>2, <2>2, <2>3
<1>4. CASE ReceiveError
  <2>1. PICK k \in 0..okline, seen \in SUBSET nwsline, c \in BOOLEAN : Take(k, seen, c)
    BY <1>4 DEF ReceiveError
  <2> QED
    BY <1>2, <1>4, <2>1 DEF Take, ReceiveError
<1>5. CASE ~Receive /\ ~ReceiveError
  <2>1. cgact_1_0' = cgact_1_0 /\ ~ModemReportsInactive /\ ~HandlerExits
    BY <1>1, <1>2, <1>5 DEF Next, MainLoop, Callback, Handler, Modem, EndEvents, ProcessStep,
       PinReturns, SendReturns, Connect, ProcessIdle, ReceiveNoDevice, Sigint, ByeReturns,
       HandlerExits, ModemAccepts, ModemRefuses, ModemDetaches, ModemReports,
       ModemReportsInactive, host, vars
  <2>2. cgline' = cgline
    BY <1>5, <2>1 DEF Next, MainLoop, Callback, Handler, Modem, EndEvents, ProcessStep,
       PinReturns, SendStep, send_at_cmd, SendReturns, Connect, ProcessIdle,
       ReceiveNoDevice, Sigint, ByeReturns, ModemAccepts, ModemRefuses, ModemDetaches,
       ModemReports, modem, vars
  <2>3. sig' # "exited"
    BY <1>2, <1>5, <2>1 DEF Next, MainLoop, Callback, Handler, Modem, EndEvents, ProcessStep,
       PinReturns, SendReturns, Connect, ProcessIdle, ReceiveNoDevice, Sigint, ByeReturns,
       ModemAccepts, ModemRefuses, ModemDetaches, ModemReports, host, vars
  <2> QED
    BY <1>2, <2>1, <2>2, <2>3
<1> QED
  BY <1>3, <1>4, <1>5

\* Control-C ends the process only after the modem answered AT+CGATT=0, unless the
\* context query had already set the flag it waits for.
THEOREM ExitOnlyWhenDetachedHolds == Spec => []ExitOnlyWhenDetached
<1>1. Init => ByeInv /\ NoticeInv
  BY DEF Init, ByeInv, NoticeInv
<1>2. NoticeInv => ExitOnlyWhenDetached
  BY DEF NoticeInv, ExitOnlyWhenDetached
<1> QED
  BY <1>1, <1>2, ByeStep, NoticeStep, TypeCorrect, PTL DEF Spec

\* A network state above 3 in nwstate, or an attach written, goes back to a report
\* of the modem, if no report is cut in two.
Registered == \E v \in reported : v > 3

ReportInv ==
  "garbled" \notin May =>
    (nwstate > 3 \/ (\E i \in DOMAIN sent : sent[i] = AttachStep) => Registered)

\* A send adds the attach step only behind the test of nwstate.
LEMMA AttachGuarded ==
  ASSUME TypeOK, NEW cmd \in Nat, send_at_cmd(cmd), cmd = AttachStep => nwstate > 3,
         \E i \in DOMAIN sent' : sent'[i] = AttachStep
  PROVE  nwstate > 3 \/ \E i \in DOMAIN sent : sent[i] = AttachStep
<1>1. CASE sent' = sent
  BY <1>1
<1>2. CASE sent' = Append(sent, cmd)
  <2>1. PICK i \in DOMAIN sent' : sent'[i] = AttachStep
    OBVIOUS
  <2>2. /\ sent \in Seq(Nat) /\ Len(sent') = Len(sent) + 1 /\ sent'[Len(sent) + 1] = cmd
        /\ \A j \in 1..Len(sent) : sent'[j] = sent[j]
    BY <1>2 DEF TypeOK
  <2>3. i \in 1..Len(sent) \/ i = Len(sent) + 1
    BY <1>2, <2>2
  <2> QED
    BY <2>1, <2>2, <2>3
<1> QED
  BY <1>1, <1>2 DEF send_at_cmd

LEMMA ReportStep == TypeOK /\ ReportInv /\ [Next]_vars => ReportInv'
<1> SUFFICES ASSUME TypeOK, ReportInv, [Next]_vars, "garbled" \notin May,
                    nwstate' > 3 \/ \E i \in DOMAIN sent' : sent'[i] = AttachStep
             PROVE  Registered'
  BY DEF ReportInv
<1>1. Registered => Registered'
  <2>1. reported \subseteq reported'
    BY DEF Next, MainLoop, Callback, Handler, Modem, EndEvents, ProcessStep, PinReturns,
       SendStep, send_at_cmd, SendReturns, Connect, ProcessIdle, Receive, ReceiveError,
       ReceiveNoDevice, Take, Sigint, ByeReturns, HandlerExits, ModemAccepts, ModemRefuses,
       ModemDetaches, ModemReports, ModemReportsInactive, modem, vars
  <2> QED
    BY <2>1 DEF Registered
<1>2. CASE Receive
  <2>1. PICK k \in 0..okline, seen \in SUBSET nwsline, c \in BOOLEAN :
          /\ Take(k, seen, c)
          /\ \E oks \in 0..k, read \in SUBSET NwValues, d \in BOOLEAN :
               read = seen /\ modem_response(oks, read, d)
    BY <1>2, ZenonT(60) DEF Receive
  <2>2. nwstate' \in {nwstate} \cup reported
    BY <2>1 DEF modem_response, TypeOK
  <2>3. sent' = sent
    BY <2>1 DEF Take
  <2>4. CASE nwstate' > 3 /\ nwstate' \in reported
    BY <1>1, <2>4 DEF Registered
  <2> QED
    BY <1>1, <2>2, <2>3, <2>4 DEF ReportInv
<1>3. CASE ProcessStep \/ PinReturns
  <2>1. nwstate' = nwstate
    BY <1>3 DEF ProcessStep, PinReturns
  <2>2. CASE sent' = sent
    BY <1>1, <2>1, <2>2 DEF ReportInv
  <2>3. CASE send_at_cmd(PinCmd)
    <3>1. PinCmd \in Nat /\ PinCmd # AttachStep
      BY HandshakeAssumption DEF PinCmd
    <3> QED
      BY <1>1, <2>1, <2>3, <3>1, AttachGuarded DEF ReportInv
  <2>4. CASE send_at_cmd(state) /\ (state = AttachStep => nwstate > 3)
    BY <1>1, <2>1, <2>4, AttachGuarded DEF ReportInv, TypeOK
  <2> QED
    BY <1>3, <2>2, <2>3, <2>4 DEF ProcessStep, PinReturns, SendStep, modem
<1>4. CASE ~Receive /\ ~ProcessStep /\ ~PinReturns
  <2>1. nwstate' = nwstate /\ sent' = sent
    BY <1>4 DEF Next, MainLoop, Callback, Handler, Modem, EndEvents, SendReturns, Connect,
       ProcessIdle, ReceiveError, ReceiveNoDevice, Take, Sigint, ByeReturns, HandlerExits,
       ModemAccepts, ModemRefuses, ModemDetaches, ModemReports, ModemReportsInactive,
       modem, host, vars
  <2> QED
    BY <1>1, <2>1 DEF ReportInv
<1> QED
  BY <1>2, <1>3, <1>4

\* The attach is written only after the modem reported a network state above 3,
\* as long as reports arrive whole.
THEOREM AttachAfterRegistrationHolds == Spec => []AttachAfterRegistration
<1>1. Init => ReportInv
  <2> SUFFICES ASSUME Init PROVE ~(nwstate > 3) /\ DOMAIN sent = {}
    BY DEF ReportInv
  <2> QED
    BY DEF Init
<1>2. ReportInv => AttachAfterRegistration
  BY DEF ReportInv, AttachAfterRegistration, Registered
<1> QED
  BY <1>1, <1>2, ReportStep, TypeCorrect, PTL DEF Spec
=============================================================================
