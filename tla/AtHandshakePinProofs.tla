------------------------ MODULE AtHandshakePinProofs ------------------------
(***************************************************************************)
(* What is left of the dialogue with a PIN, where two commands may be      *)
(* outstanding (modem.c:116-142): the theorems hold with and without one.  *)
(***************************************************************************)
EXTENDS AtHandshakeProofs

-----------------------------------------------------------------------------
(* The inductive invariant.                                                *)

Sent == {sent[i] : i \in DOMAIN sent}

\* The last step of the script that may have been written.
Mark == IF pc = "send" THEN state ELSE curstate

\* The PIN is one command more than the script has steps.
PinCount == IF PinCmd \in Sent THEN 1 ELSE 0

\* The modem's side: it accepted only what was written, and each command once.
AcceptInv ==
  /\ acked \subseteq {sent[i] : i \in 1..answered}
  /\ IsFiniteSet(acked) /\ Cardinality(acked) <= answered
  /\ isconn => AttachStep <= Cardinality(acked)

\* The main loop, until a signal stops it: each OK that was consumed or waits in
\* the endpoint goes back to an accepted command, and what was written is behind
\* Mark, so that the step state is new whenever modem_process handles it.
LoopInv ==
  sig = "none" =>
    /\ bye = "none"
    /\ curstate <= state
    /\ state - 1 + okline <= Cardinality(acked)
    /\ pc = "pin" => curstate < PinStep /\ PinStep <= state
    /\ \A i \in DOMAIN sent : sent[i] <= Mark
    /\ Len(sent) <= Mark + PinCount
    /\ PinCmd \in Sent => pc = "pin" \/ curstate >= PinStep

DialogueInv == CommandsOnce /\ TwoOutstanding /\ AcceptInv /\ LoopInv

LEMMA Types ==
  ASSUME TypeOK, DialogueInv
  PROVE  /\ state \in Nat /\ curstate \in Nat /\ okline \in Nat /\ sent \in Seq(Nat)
         /\ Len(sent) \in Nat /\ DOMAIN sent = 1..Len(sent) /\ answered \in 0..Len(sent)
         /\ Cardinality(acked) \in Nat /\ Cardinality(acked) <= answered
         /\ Mark \in Nat /\ PinCount \in {0, 1}
         /\ PinStep \in Nat /\ AttachStep \in Nat /\ 1 < PinStep /\ PinStep + 3 <= AttachStep
<1>1. /\ state \in Nat /\ curstate \in Nat /\ okline \in Nat /\ sent \in Seq(Nat)
      /\ answered \in 0..Len(sent)
  BY DEF TypeOK
<1>2. Cardinality(acked) \in Nat /\ Cardinality(acked) <= answered
  BY FS_CardinalityType DEF DialogueInv, AcceptInv
<1>3. Mark \in Nat /\ PinCount \in {0, 1}
  BY <1>1 DEF Mark, PinCount
<1>4. PinStep \in Nat /\ AttachStep \in Nat /\ 1 < PinStep /\ PinStep + 3 <= AttachStep
  BY HandshakeAssumption
<1> QED
  BY <1>1, <1>2, <1>3, <1>4

-----------------------------------------------------------------------------
(* The steps.                                                              *)

\* A command that is new, written when at most one is outstanding.
LEMMA SendNew ==
  ASSUME TypeOK, DialogueInv, NEW cmd \in 0..AttachStep, cmd \notin Sent,
         Len(sent) - answered <= 1, send_at_cmd(cmd)
  PROVE  /\ CommandsOnce' /\ TwoOutstanding'
         /\ acked' \subseteq {sent'[i] : i \in 1..answered'}
         /\ \/ sent' = sent
            \/ /\ sent' = Append(sent, cmd) /\ Len(sent') = Len(sent) + 1
               /\ Sent' = Sent \cup {cmd}
         /\ UNCHANGED <<bye, answered, acked, okline>>
<1>1. UNCHANGED <<bye, answered, acked, okline>>
  BY DEF send_at_cmd
<1>2. CASE sent' = sent
  BY <1>1, <1>2 DEF DialogueInv, CommandsOnce, TwoOutstanding, AcceptInv
<1>3. CASE sent' = Append(sent, cmd)
  <2>1. /\ Len(sent) \in Nat /\ answered \in 0..Len(sent) /\ Len(sent') = Len(sent) + 1
        /\ DOMAIN sent' = 1..(Len(sent) + 1) /\ sent'[Len(sent) + 1] = cmd
        /\ \A i \in 1..Len(sent) : sent'[i] = sent[i]
        /\ DOMAIN sent = 1..Len(sent)
    BY <1>3, Types, SMTT(60)
  <2>2. Sent' = Sent \cup {cmd}
    BY <2>1 DEF Sent
  <2>3. CommandsOnce'
    <3>1. \A i \in DOMAIN sent' : sent'[i] <= AttachStep
      <4>1. cmd <= AttachStep
        BY HandshakeAssumption
      <4> QED
        BY <2>1, <4>1 DEF DialogueInv, CommandsOnce
    <3>2. ASSUME NEW i \in DOMAIN sent', NEW j \in DOMAIN sent', sent'[i] = sent'[j]
          PROVE  i = j
      <4>1. \A n \in 1..Len(sent) : sent[n] # cmd
        BY <2>1 DEF Sent
      <4>2. CASE i \in 1..Len(sent) /\ j \in 1..Len(sent)
        BY <2>1, <3>2, <4>2 DEF DialogueInv, CommandsOnce
      <4>3. CASE i = Len(sent) + 1 \/ j = Len(sent) + 1
        BY <2>1, <3>2, <4>1, <4>3
      <4> QED
        BY <2>1, <4>2, <4>3
    <3> QED
      BY <3>1, <3>2 DEF CommandsOnce
  <2>4. TwoOutstanding'
    BY <1>1, <2>1 DEF TwoOutstanding
  <2>5. acked' \subseteq {sent'[i] : i \in 1..answered'}
    <3>1. \A i \in 1..answered : sent'[i] = sent[i]
      BY <2>1
    <3> QED
      BY <1>1, <3>1 DEF DialogueInv, AcceptInv
  <2> QED
    BY <1>1, <1>3, <2>1, <2>2, <2>3, <2>4, <2>5
<1> QED
  BY <1>2, <1>3 DEF send_at_cmd

\* What the main loop knows when it is about to handle a new step.
LEMMA NewStep ==
  ASSUME TypeOK, DialogueInv, sig = "none", pc \in {"process", "pin"}, curstate # state
  PROVE  /\ curstate < state /\ state \notin Sent /\ state >= 1
         /\ Len(sent) <= curstate + PinCount
         /\ Len(sent) - answered <= 1
<1>1. curstate < state /\ state >= 1
  BY Types, SMTT(60) DEF DialogueInv, LoopInv
<1>2. Mark = curstate /\ Len(sent) <= curstate + PinCount
  BY DEF DialogueInv, LoopInv, Mark
<1>3. state \notin Sent
  BY <1>1, <1>2, Types, SMTT(60) DEF DialogueInv, LoopInv, Sent
<1>4. state - 1 <= answered
  BY Types, SMTT(60) DEF DialogueInv, LoopInv
<1>5. Len(sent) - answered <= 1
  BY <1>1, <1>2, <1>4, Types, SMTT(60)
<1> QED
  BY <1>1, <1>2, <1>3, <1>5

\* The step state is written, or the attach step waits; afterwards the loop is at
\* Mark = state, or where it was.
LEMMA SendStepInv ==
  ASSUME TypeOK, DialogueInv, sig = "none", pc \in {"process", "pin"}, curstate # state,
         state <= AttachStep, SendStep, UNCHANGED <<state, isconn, sig>>,
         curstate' \in {curstate, state}, pc = "pin" => curstate' = state
  PROVE  DialogueInv'
<1>1. /\ curstate < state /\ state \notin Sent /\ state >= 1
      /\ Len(sent) <= curstate + PinCount /\ Len(sent) - answered <= 1
  BY NewStep
<1>2. /\ bye = "none" /\ state - 1 + okline <= Cardinality(acked)
      /\ \A i \in DOMAIN sent : sent[i] <= curstate
      /\ PinCmd \in Sent => pc = "pin" \/ curstate >= PinStep
      /\ pc = "pin" => PinStep <= state
  BY DEF DialogueInv, LoopInv, Mark
<1>3. PinCmd \in Sent => curstate' >= PinStep
  BY <1>1, <1>2, Types, SMTT(60)
<1>4. CASE pc' = "events" /\ UNCHANGED modem
  <2>1. UNCHANGED <<sent, bye, answered, acked, okline, Sent, PinCount>>
    BY <1>4 DEF modem, Sent, PinCount
  <2>2. CommandsOnce' /\ TwoOutstanding' /\ AcceptInv'
    BY <2>1 DEF DialogueInv, CommandsOnce, TwoOutstanding, AcceptInv
  <2>3. Mark' = curstate' /\ curstate <= curstate' /\ curstate' <= state'
    BY <1>1, <1>4, Types, SMTT(60) DEF Mark
  <2>4. (\A i \in DOMAIN sent' : sent'[i] <= Mark') /\ Len(sent') <= Mark' + PinCount'
    <3>1. curstate' \in Nat /\ \A i \in DOMAIN sent : sent[i] \in Nat
      BY Types, SMTT(60)
    <3>2. \A i \in DOMAIN sent' : sent'[i] <= Mark'
      BY <1>2, <2>1, <2>3, <3>1, Types, SMTT(60)
    <3>3. Len(sent') <= Mark' + PinCount'
      BY <1>1, <2>1, <2>3, <3>1, Types, SMTT(60)
    <3> QED
      BY <3>2, <3>3
  <2>5. LoopInv'
    BY <1>2, <1>3, <1>4, <2>1, <2>3, <2>4 DEF LoopInv
  <2> QED
    BY <2>2, <2>5 DEF DialogueInv
<1>5. CASE pc' = "send" /\ send_at_cmd(state)
  <2>1. state \in 0..AttachStep
    BY Types, SMTT(60)
  <2>2. /\ CommandsOnce' /\ TwoOutstanding'
        /\ acked' \subseteq {sent'[i] : i \in 1..answered'}
        /\ \/ sent' = sent
           \/ /\ sent' = Append(sent, state) /\ Len(sent') = Len(sent) + 1
              /\ Sent' = Sent \cup {state}
        /\ UNCHANGED <<bye, answered, acked, okline>>
    BY <1>1, <1>5, <2>1, SendNew
  <2>3. AcceptInv'
    BY <2>2 DEF DialogueInv, AcceptInv
  <2>4. PinCount' = PinCount /\ (PinCmd \in Sent' <=> PinCmd \in Sent)
    <3>1. PinCmd # state
      BY <1>1 DEF PinCmd
    <3> QED
      BY <2>2, <3>1 DEF PinCount, Sent
  <2>5. Mark' = state
    BY <1>5 DEF Mark
  <2>6. \A i \in DOMAIN sent' : sent'[i] <= Mark'
    <3>1. \A i \in DOMAIN sent : sent[i] \in Nat /\ sent[i] <= state
      BY <1>1, <1>2, Types, SMTT(60)
    <3>2. CASE sent' = sent
      BY <2>5, <3>1, <3>2
    <3>3. CASE sent' = Append(sent, state)
      BY <2>5, <3>1, <3>3, Types, SMTT(60)
    <3> QED
      BY <2>2, <3>2, <3>3
  <2>7. Len(sent') <= Mark' + PinCount'
    BY <1>1, <2>2, <2>4, <2>5, Types, SMTT(60)
  <2>8. curstate' <= state'
    BY <1>1, Types, SMTT(60)
  <2>9. LoopInv'
    BY <1>2, <1>3, <1>5, <2>2, <2>4, <2>6, <2>7, <2>8 DEF LoopInv
  <2> QED
    BY <2>2, <2>3, <2>9 DEF DialogueInv
<1> QED
  BY <1>4, <1>5 DEF SendStep

LEMMA ProcessStepKeeps ==
  ASSUME TypeOK, DialogueInv, ProcessStep
  PROVE  DialogueInv'
<1>1. /\ sig = "none" /\ pc = "process" /\ curstate # state /\ state <= AttachStep
      /\ UNCHANGED <<state, curstate, isconn, sig>>
  BY DEF ProcessStep
<1>2. CASE SendStep
  BY <1>1, <1>2, SendStepInv
<1>3. CASE state = PinStep /\ pc' = "pin" /\ send_at_cmd(PinCmd)
  <2>1. /\ curstate < state /\ Len(sent) <= curstate + PinCount /\ Len(sent) - answered <= 1
    BY <1>1, NewStep
  <2>2. /\ bye = "none" /\ state - 1 + okline <= Cardinality(acked)
        /\ \A i \in DOMAIN sent : sent[i] <= curstate
        /\ PinCmd \notin Sent
    BY <1>1, <1>3, <2>1, Types, SMTT(60) DEF DialogueInv, LoopInv, Mark
  <2>3. PinCmd \in 0..AttachStep
    BY Types, SMTT(60) DEF PinCmd
  <2>4. /\ CommandsOnce' /\ TwoOutstanding'
        /\ acked' \subseteq {sent'[i] : i \in 1..answered'}
        /\ \/ sent' = sent
           \/ /\ sent' = Append(sent, PinCmd) /\ Len(sent') = Len(sent) + 1
              /\ Sent' = Sent \cup {PinCmd}
        /\ UNCHANGED <<bye, answered, acked, okline>>
    BY <1>3, <2>1, <2>2, <2>3, SendNew
  <2>5. AcceptInv'
    BY <1>1, <2>4 DEF DialogueInv, AcceptInv
  <2>6. Mark' = curstate
    BY <1>1, <1>3 DEF Mark
  <2>7. \A i \in DOMAIN sent' : sent'[i] <= Mark'
    <3>1. CASE sent' = sent
      BY <2>2, <2>6, <3>1
    <3>2. CASE sent' = Append(sent, PinCmd)
      BY <2>2, <2>6, <3>2, Types, SMTT(60) DEF PinCmd
    <3> QED
      BY <2>4, <3>1, <3>2
  <2>8. Len(sent') <= Mark' + PinCount'
    <3>1. CASE sent' = sent
      <4>1. PinCount' = PinCount
        BY <3>1 DEF PinCount, Sent
      <4> QED
        BY <2>1, <2>6, <3>1, <4>1
    <3>2. CASE Len(sent') = Len(sent) + 1 /\ Sent' = Sent \cup {PinCmd}
      <4>1. PinCount' = 1 /\ PinCount = 0
        BY <2>2, <3>2 DEF PinCount
      <4> QED
        BY <2>1, <2>6, <3>2, <4>1, Types, SMTT(60)
    <3> QED
      BY <2>4, <3>1, <3>2
  <2>9. LoopInv'
    <3>1. /\ bye' = "none" /\ curstate' <= state'
          /\ state' - 1 + okline' <= Cardinality(acked')
      BY <1>1, <2>1, <2>2, <2>4, Types, SMTT(60)
    <3>2. curstate' < PinStep /\ PinStep <= state'
      BY <1>1, <1>3, <2>1, Types, SMTT(60)
    <3> QED
      BY <1>3, <2>7, <2>8, <3>1, <3>2 DEF LoopInv
  <2> QED
    BY <2>4, <2>5, <2>9 DEF DialogueInv
<1> QED
  BY <1>2, <1>3 DEF ProcessStep

\* During the send of the PIN the state moves by one at most, so that the step
\* written behind it is not beyond the script.
LEMMA PinReturnsKeeps ==
  ASSUME TypeOK, DialogueInv, PinReturns
  PROVE  DialogueInv'
<1>1. /\ sig = "none" /\ pc = "pin" /\ curstate' = state /\ SendStep
      /\ UNCHANGED <<state, isconn, sig>>
  BY DEF PinReturns
<1>2. curstate < PinStep /\ PinStep <= state
  BY <1>1 DEF DialogueInv, LoopInv
<1>3. state <= AttachStep
  <2>1. state - 1 <= Len(sent)
    BY <1>1, Types, SMTT(60) DEF DialogueInv, LoopInv
  <2>2. Len(sent) <= curstate + 1
    BY <1>1, Types, SMTT(60) DEF DialogueInv, LoopInv, Mark
  <2> QED
    BY <1>2, <2>1, <2>2, Types, SMTT(60)
<1>4. curstate # state
  BY <1>2, Types, SMTT(60)
<1> QED
  BY <1>1, <1>3, <1>4, SendStepInv

\* The steps that leave what was written and accepted alone.
LEMMA QuietKeeps ==
  ASSUME TypeOK, DialogueInv, UNCHANGED <<sent, answered, acked>>,
         isconn' => isconn \/ AttachStep <= Cardinality(acked),
         sig' = "none" =>
           /\ sig = "none" /\ bye' = bye
           /\ curstate' <= state' /\ state' - 1 + okline' <= Cardinality(acked)
           /\ Mark <= Mark' /\ Mark' \in Nat
           /\ pc' = "pin" => pc = "pin" /\ curstate' = curstate /\ state <= state' /\ state' \in Nat
           /\ PinCmd \in Sent => pc' = "pin" \/ curstate' >= PinStep
  PROVE  DialogueInv'
<1>1. UNCHANGED <<Sent, PinCount>>
  BY DEF Sent, PinCount
<1>2. CommandsOnce' /\ TwoOutstanding' /\ AcceptInv'
  BY DEF DialogueInv, CommandsOnce, TwoOutstanding, AcceptInv
<1>3. LoopInv'
  <2> SUFFICES ASSUME sig' = "none"
               PROVE  /\ bye' = "none" /\ curstate' <= state'
                      /\ state' - 1 + okline' <= Cardinality(acked')
                      /\ pc' = "pin" => curstate' < PinStep /\ PinStep <= state'
                      /\ \A i \in DOMAIN sent' : sent'[i] <= Mark'
                      /\ Len(sent') <= Mark' + PinCount'
                      /\ PinCmd \in Sent' => pc' = "pin" \/ curstate' >= PinStep
    BY DEF LoopInv
  <2>1. sig = "none" /\ bye' = bye
    OBVIOUS
  <2>2. /\ bye = "none" /\ (pc = "pin" => curstate < PinStep /\ PinStep <= state)
        /\ (\A i \in DOMAIN sent : sent[i] <= Mark) /\ Len(sent) <= Mark + PinCount
    BY <2>1 DEF DialogueInv, LoopInv
  <2>3. pc' = "pin" => curstate' < PinStep /\ PinStep <= state'
    BY <2>2, Types, SMTT(60)
  <2>4. \A i \in DOMAIN sent' : sent'[i] <= Mark'
    <3>1. \A i \in DOMAIN sent : sent[i] \in Nat
      BY Types, SMTT(60)
    <3> QED
      BY <2>2, <3>1, Types, SMTT(60)
  <2>5. Len(sent') <= Mark' + PinCount'
    BY <1>1, <2>2, Types, SMTT(60)
  <2> QED
    BY <1>1, <2>1, <2>2, <2>3, <2>4, <2>5
<1> QED
  BY <1>2, <1>3 DEF DialogueInv

\* The steps of the main loop that write nothing.
LEMMA LoopKeeps ==
  ASSUME TypeOK, DialogueInv, EndEvents \/ SendReturns \/ Connect \/ ProcessIdle
  PROVE  DialogueInv'
<1>1. /\ sig = "none" /\ UNCHANGED <<sent, answered, acked, okline, bye, state, sig>>
      /\ pc' \in {"events", "process"}
  BY DEF EndEvents, SendReturns, Connect, ProcessIdle, modem
<1>2. /\ curstate <= state /\ state - 1 + okline <= Cardinality(acked)
      /\ PinCmd \in Sent => pc = "pin" \/ curstate >= PinStep
  BY <1>1 DEF DialogueInv, LoopInv
<1>3. CASE EndEvents \/ Connect \/ ProcessIdle
  <2>1. curstate' = curstate /\ pc \in {"events", "process"}
    BY <1>3 DEF EndEvents, Connect, ProcessIdle
  <2>2. Mark' = Mark
    BY <1>1, <2>1 DEF Mark
  <2>3. isconn' => isconn \/ AttachStep <= Cardinality(acked)
    <3>1. CASE Connect
      BY <1>2, <3>1, Types, SMTT(60) DEF Connect
    <3>2. CASE EndEvents \/ ProcessIdle
      BY <3>2, Zenon DEF EndEvents, ProcessIdle
    <3> QED
      BY <1>3, <3>1, <3>2
  <2> QED
    BY <1>1, <1>2, <2>1, <2>2, <2>3, Types, QuietKeeps, SMTT(60)
<1>4. CASE SendReturns
  <2>1. curstate' = state /\ pc = "send" /\ isconn' = isconn
    BY <1>4 DEF SendReturns
  <2>2. Mark' = Mark /\ Mark = state
    BY <1>1, <2>1 DEF Mark
  <2>3. PinCmd \in Sent => curstate' >= PinStep
    BY <1>2, <2>1, Types, SMTT(60)
  <2> QED
    BY <1>1, <1>2, <2>1, <2>2, <2>3, Types, QuietKeeps, SMTT(60)
<1> QED
  BY <1>3, <1>4

\* A transfer takes the OKs it counts out of the endpoint, or more.
LEMMA CallbackKeeps ==
  ASSUME TypeOK, DialogueInv, Callback
  PROVE  DialogueInv'
<1>1. \E k \in 0..okline : \E oks \in 0..k : state' = state + oks /\ okline' = okline - k
  <2>1. CASE Receive
    BY <2>1 DEF Receive, Take, modem_response
  <2>2. CASE ReceiveError
    <3>1. PICK k \in 0..okline, seen \in SUBSET nwsline, c \in BOOLEAN : Take(k, seen, c)
      BY <2>2 DEF ReceiveError
    <3>2. okline' = okline - k /\ state' = state + 0 /\ 0 \in 0..k
      BY <2>2, <3>1, Types, SMTT(60) DEF ReceiveError, Take
    <3> QED
      BY <3>2
  <2>3. CASE ReceiveNoDevice
    <3>1. state' = state + 0 /\ okline' = okline - 0 /\ 0 \in 0..okline /\ 0 \in 0..0
      BY <2>3, Types, SMTT(60) DEF ReceiveNoDevice, modem
    <3> QED
      BY <3>1
  <2> QED
    BY <2>1, <2>2, <2>3 DEF Callback
<1>2. UNCHANGED <<sent, answered, acked, bye, curstate, isconn, pc, sig>>
  BY ZenonT(60) DEF Callback, Receive, ReceiveError, ReceiveNoDevice, Take, modem_response, modem
<1>3. /\ state' \in Nat /\ okline' \in Nat /\ state <= state'
      /\ state' + okline' <= state + okline
  <2>1. PICK k \in 0..okline : \E oks \in 0..k : state' = state + oks /\ okline' = okline - k
    BY <1>1
  <2>2. PICK oks \in 0..k : state' = state + oks /\ okline' = okline - k
    BY <2>1
  <2>3. /\ k \in Nat /\ k <= okline /\ oks \in Nat /\ oks <= k
        /\ state \in Nat /\ okline \in Nat
    BY Types, SMTT(60)
  <2> QED
    BY <2>2, <2>3
<1>4. ASSUME sig = "none"
      PROVE  /\ curstate <= state /\ state - 1 + okline <= Cardinality(acked)
             /\ PinCmd \in Sent => pc = "pin" \/ curstate >= PinStep
  BY <1>4 DEF DialogueInv, LoopInv
<1>5. Mark <= Mark' /\ Mark' \in Nat
  BY <1>2, <1>3, Types, SMTT(60) DEF Mark
<1>6. ASSUME sig = "none"
      PROVE  curstate <= state' /\ state' - 1 + okline' <= Cardinality(acked)
  <2>1. /\ state \in Nat /\ okline \in Nat /\ curstate \in Nat
        /\ Cardinality(acked) \in Nat
    BY Types, SMTT(60)
  <2>2. curstate <= state /\ state - 1 + okline <= Cardinality(acked)
    BY <1>4, <1>6
  <2>3. curstate <= state'
    BY <1>3, <2>1, <2>2
  <2>4. \A a, b, c, d, n \in Nat :
          a + b <= c + d /\ c - 1 + d <= n => a - 1 + b <= n
    OBVIOUS
  <2> QED
    BY <1>3, <2>1, <2>2, <2>3, <2>4
<1> QED
  BY <1>2, <1>3, <1>4, <1>5, <1>6, QuietKeeps

\* A signal stops the main loop for good.
LEMMA HandlerKeeps ==
  ASSUME TypeOK, DialogueInv, Handler
  PROVE  DialogueInv'
<1>1. sig' # "none" /\ UNCHANGED <<sent, answered, acked, isconn>>
  BY DEF Handler, Sigint, ByeReturns, HandlerExits, modem
<1> QED
  BY <1>1, QuietKeeps

\* An OK is for a command that had none: nothing is written twice.
LEMMA AcceptKeeps ==
  ASSUME TypeOK, DialogueInv, ModemAccepts
  PROVE  DialogueInv'
<1>1. /\ answered < Len(sent) /\ answered' = answered + 1 /\ okline' = okline + 1
      /\ acked' = acked \cup {sent[answered + 1]}
      /\ UNCHANGED <<state, curstate, isconn, pc, sig, sent, bye>>
  BY DEF ModemAccepts, host
<1>2. answered \in Nat /\ answered + 1 \in DOMAIN sent
  BY <1>1, Types, SMTT(60)
<1>3. sent[answered + 1] \notin acked
  <2>1. \A i \in 1..answered : sent[i] # sent[answered + 1]
    <3>1. \A i \in 1..answered : i \in DOMAIN sent /\ i # answered + 1
      BY <1>2, Types, SMTT(60)
    <3> QED
      BY <1>2, <3>1 DEF DialogueInv, CommandsOnce
  <2> QED
    BY <2>1 DEF DialogueInv, AcceptInv
<1>4. IsFiniteSet(acked') /\ Cardinality(acked') = Cardinality(acked) + 1
  BY <1>1, <1>3, FS_AddElement DEF DialogueInv, AcceptInv
<1>5. AcceptInv'
  <2>1. acked' \subseteq {sent'[i] : i \in 1..answered'}
    <3>1. 1..answered \subseteq 1..answered' /\ answered + 1 \in 1..answered'
      BY <1>1, <1>2
    <3> QED
      BY <1>1, <3>1 DEF DialogueInv, AcceptInv
  <2>2. Cardinality(acked') <= answered'
    BY <1>1, <1>4, Types, SMTT(60)
  <2>3. isconn' => AttachStep <= Cardinality(acked')
    BY <1>1, <1>4, Types, SMTT(60) DEF DialogueInv, AcceptInv
  <2> QED
    BY <1>4, <2>1, <2>2, <2>3 DEF AcceptInv
<1>6. CommandsOnce' /\ TwoOutstanding'
  <2>1. CommandsOnce'
    BY <1>1 DEF DialogueInv, CommandsOnce
  <2>2. TwoOutstanding'
    BY <1>1, Types, SMTT(60) DEF DialogueInv, TwoOutstanding
  <2> QED
    BY <2>1, <2>2
<1>7. LoopInv'
  <2> SUFFICES ASSUME sig = "none" PROVE LoopInv'
    BY <1>1 DEF LoopInv
  <2>1. UNCHANGED <<Mark, PinCount, Sent>>
    BY <1>1 DEF Mark, PinCount, Sent
  <2>2. state' - 1 + okline' <= Cardinality(acked')
    BY <1>1, <1>4, Types, SMTT(60) DEF DialogueInv, LoopInv
  <2> QED
    BY <1>1, <2>1, <2>2 DEF DialogueInv, LoopInv
<1> QED
  BY <1>5, <1>6, <1>7 DEF DialogueInv

\* What else the modem does.
LEMMA ModemKeeps ==
  ASSUME TypeOK, DialogueInv, Modem
  PROVE  DialogueInv'
<1>1. CASE ModemAccepts
  BY <1>1, AcceptKeeps
<1>2. CASE ModemRefuses
  <2>1. /\ answered' = answered + 1 /\ answered + 1 <= Len(sent)
        /\ UNCHANGED <<state, curstate, isconn, pc, sig, sent, bye, acked, okline>>
    BY <1>2, Types, SMTT(60) DEF ModemRefuses, host
  <2>2. CommandsOnce' /\ TwoOutstanding'
    BY <2>1, Types, SMTT(60) DEF DialogueInv, CommandsOnce, TwoOutstanding
  <2>3. AcceptInv'
    <3>1. 1..answered \subseteq 1..answered' /\ Cardinality(acked) <= answered'
      BY <2>1, Types, SMTT(60)
    <3> QED
      BY <2>1, <3>1 DEF DialogueInv, AcceptInv
  <2>4. LoopInv'
    BY <2>1 DEF DialogueInv, LoopInv, Mark, PinCount, Sent
  <2> QED
    BY <2>2, <2>3, <2>4 DEF DialogueInv
<1>3. CASE ModemDetaches
  <2>1. /\ sig' # "none" /\ UNCHANGED <<sent, answered, acked, isconn>>
    BY <1>3 DEF ModemDetaches, host, DialogueInv, LoopInv
  <2> QED
    BY <2>1, QuietKeeps
<1>4. CASE (\E v \in NwValues : ModemReports(v)) \/ ModemReportsInactive
  <2>1. UNCHANGED <<state, curstate, isconn, pc, sig, sent, bye, answered, acked, okline>>
    BY <1>4 DEF ModemReports, ModemReportsInactive, host
  <2> QED
    BY <2>1 DEF DialogueInv, CommandsOnce, TwoOutstanding, AcceptInv, LoopInv, Mark, PinCount, Sent
<1> QED
  BY <1>1, <1>2, <1>3, <1>4 DEF Modem

-----------------------------------------------------------------------------
(* The theorems.                                                           *)

LEMMA DialogueHolds == Spec => []DialogueInv
<1>1. Init => DialogueInv
  <2> SUFFICES ASSUME Init PROVE DialogueInv
    OBVIOUS
  <2>1. /\ sent = << >> /\ Len(sent) = 0 /\ DOMAIN sent = {} /\ answered = 0 /\ acked = {}
        /\ state = 1 /\ curstate = 0 /\ okline = 0 /\ pc = "events" /\ sig = "none"
        /\ bye = "none"
    BY DEF Init
  <2>2. ~isconn
    BY DEF Init
  <2>3. IsFiniteSet(acked) /\ Cardinality(acked) = 0
    BY <2>1, FS_EmptySet
  <2>4. CommandsOnce /\ TwoOutstanding
    BY <2>1 DEF CommandsOnce, TwoOutstanding
  <2>5. AcceptInv
    BY <2>1, <2>2, <2>3 DEF AcceptInv
  <2>6. LoopInv
    BY <2>1, <2>3 DEF LoopInv, Mark, PinCount, Sent
  <2> QED
    BY <2>4, <2>5, <2>6 DEF DialogueInv
<1>2. TypeOK /\ DialogueInv /\ [Next]_vars => DialogueInv'
  <2> SUFFICES ASSUME TypeOK, DialogueInv, [Next]_vars PROVE DialogueInv'
    OBVIOUS
  <2>1. CASE UNCHANGED vars
    BY <2>1 DEF vars, host, modem, DialogueInv, CommandsOnce, TwoOutstanding, AcceptInv,
       LoopInv, Mark, PinCount, Sent
  <2> QED
    BY <2>1, LoopKeeps, ProcessStepKeeps, PinReturnsKeeps, CallbackKeeps, HandlerKeeps,
       ModemKeeps DEF Next, MainLoop
<1> QED
  BY <1>1, <1>2, TypeCorrect, PTL DEF Spec

\* No command is written twice, and none from behind the attach step, although
\* callbacks inside the sends advance the state (modem.c:113-146).
THEOREM CommandsOnceHolds == Spec => []CommandsOnce
<1>1. DialogueInv => CommandsOnce
  BY DEF DialogueInv
<1> QED
  BY <1>1, DialogueHolds, PTL

\* The modem never has more than two commands to answer, the PIN and the step
\* written behind it (modem.c:116-142).
THEOREM TwoOutstandingHolds == Spec => []TwoOutstanding
<1>1. DialogueInv => TwoOutstanding
  BY DEF DialogueInv
<1> QED
  BY <1>1, DialogueHolds, PTL

\* When the link is declared up, the modem accepted all steps of the script but
\* one at most, PIN or not (modem.c:113, 149).
THEOREM ConnectedMissesOneHolds == Spec => []ConnectedMissesOne
<1>1. TypeOK /\ DialogueInv => ConnectedMissesOne
  <2> SUFFICES ASSUME TypeOK, DialogueInv, isconn
               PROVE  Cardinality((1..AttachStep) \ acked) <= 1
    BY DEF ConnectedMissesOne
  <2> DEFINE script == 1..AttachStep
             got    == script \cap acked
  <2>1. IsFiniteSet(script) /\ Cardinality(script) = AttachStep
    BY Types, FS_Interval, SMTT(60)
  <2>2. IsFiniteSet(acked) /\ AttachStep <= Cardinality(acked)
    BY DEF DialogueInv, AcceptInv
  <2>3. acked \subseteq got \cup {PinCmd}
    <3>1. \A i \in 1..answered : i \in DOMAIN sent
      BY Types, SMTT(60)
    <3>2. \A i \in 1..answered : sent[i] \in Nat /\ sent[i] <= AttachStep
      BY <3>1, Types, SMTT(60) DEF DialogueInv, CommandsOnce
    <3>3. \A x \in acked : x \in Nat /\ x <= AttachStep
      BY <3>2 DEF DialogueInv, AcceptInv
    <3> QED
      BY <3>3, Types, SMTT(60) DEF PinCmd
  <2>4. IsFiniteSet(got) /\ Cardinality(got) \in Nat
    BY <2>1, FS_Intersection, FS_CardinalityType
  <2> HIDE DEF got, script
  <2>5. /\ IsFiniteSet(got \cup {PinCmd})
        /\ Cardinality(got \cup {PinCmd}) <= Cardinality(got) + 1
    BY <2>4, FS_AddElement
  <2>6. Cardinality(acked) <= Cardinality(got \cup {PinCmd})
    BY <2>3, <2>5, FS_Subset
  <2>7. Cardinality(script \ acked) = Cardinality(script) - Cardinality(got)
    BY <2>1, FS_Difference DEF got
  <2>8. Cardinality(got \cup {PinCmd}) \in Nat /\ Cardinality(acked) \in Nat
    BY <2>2, <2>5, FS_CardinalityType
  <2>9. Cardinality(script \ acked) <= 1
    BY <2>1, <2>2, <2>4, <2>5, <2>6, <2>7, <2>8, Types, SMTT(60)
  <2> QED
    BY <2>9 DEF script
<1> QED
  BY <1>1, DialogueHolds, TypeCorrect, PTL
=============================================================================
