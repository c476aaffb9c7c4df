------------------------ MODULE MessageToLanternProofs ------------------------
(***************************************************************************)
(* Theorems about MessageToLantern, for any number of messages, tasks,     *)
(* failures and losses, and every form of message: connection and pipeline *)
(* behave in one process as each does by itself, no message is missed but  *)
(* those dropped while nobody listened, and the program implements         *)
(* LanternService.                                                         *)
(***************************************************************************)
EXTENDS MessageToLantern, MqttConnectionProofs, SpawnPipelineProofs

-----------------------------------------------------------------------------
(* The parts *)

\* What the broker's messages and the lambdas that carry them are.
FormsInv ==
  /\ forms \in Seq(Forms) /\ Len(forms) = sent
  /\ \A i \in 1 .. Len(queue) : queue[i].kind = "message" => queue[i].m \in 1 .. sent

\* Each step of the program is one of the connection, or invisible in it ...
LEMMA ConnectionPart ==
  ASSUME [ProgramNext]_programVars
  PROVE  [ConnectionNext]_connectionVars
<1> USE DEF ConnectionNext
<1>1. CASE ~halted /\ BrokerSends
  BY <1>1 DEF BrokerSends
<1>2. CASE ~halted /\ ManagerReceives
  BY <1>2 DEF ManagerReceives, GameStep
<1>3. CASE ~halted /\ Handle
  BY <1>3 DEF Handle, GameStep
<1>4. CASE ~halted /\ Communicate
  BY <1>4 DEF Communicate
<1>5. CASE UNCHANGED connectionVars
  BY <1>5
<1> QED BY <1>1, <1>2, <1>3, <1>4, <1>5 DEF ProgramNext, OnGameThread, Save, programVars

\* ... and one of the pipeline, or invisible in that.
LEMMA PipelinePart ==
  ASSUME ConnectionTypeOK, FormsInv, [ProgramNext]_programVars
  PROVE  [Next]_vars
<1>1. CASE ManagerReceives
  <2>1. queue \in Seq(Lambda) /\ queue # <<>> /\ Head(queue).kind = "message"
    BY <1>1 DEF ManagerReceives, MessageArrived, NextLambda, ConnectionTypeOK
  <2>2. Head(queue).m \in 1 .. Len(forms)
    BY <2>1 DEF FormsInv
  <2>3. forms[Head(queue).m] \in Forms
    BY <2>2 DEF FormsInv
  <2> QED BY <1>1, <2>3 DEF ManagerReceives, Next
<1>2. CASE UNCHANGED vars
  BY <1>2
<1>3. CASE Next
  BY <1>3
<1> QED BY <1>1, <1>2, <1>3 DEF ProgramNext, BrokerSends, Handle, Communicate, OnGameThread,
                                Completion, Save, Next, programVars

\* What the other steps of the connection do to the messages.
LEMMA OtherSteps ==
  ASSUME Handle \/ Communicate
  PROVE  /\ UNCHANGED <<received, sent, swallowed, forms, numbers, vars>>
         /\ \/ UNCHANGED queue
            \/ \E e \in Lambda : e.kind # "message" /\ queue' = Append(queue, e)
            \/ queue # <<>> /\ Head(queue).kind # "message" /\ queue' = Tail(queue)
<1>1. ASSUME NEW t \in Tasks, TaskStep(t)
      PROVE  UNCHANGED <<queue, received, sent, swallowed>>
  BY <1>1 DEF TaskStep, ConnectStart, ConnectStop, AskDisconnect, Reset,
              ConnectCreate, SetCallback, AskConnect, StartConsuming,
              FinishConsuming, FinishConsumingStray, Crash, Events
<1>2. CASE SendThread
  BY <1>2 DEF SendThread, ProcessConnect, ProcessDisconnect, Events, Handle, Communicate
<1>3. CASE Connack \/ ConnectFails \/ ConnectionLost
  BY <1>3, LambdaTypes DEF Connack, ConnectFails, ConnectionLost, Events, Post, Handle, Communicate
<1>4. CASE OnConnected \/ OnDisconnected
  BY <1>4 DEF OnConnected, OnDisconnected, NextLambda, Events, Handle, Communicate
<1>5. CASE AskDisconnect(Game) \/ Reset(Game) \/ ConnectToServer
  BY <1>5 DEF AskDisconnect, Reset, ConnectToServer, Crash, Events, Handle, Communicate
<1> QED BY <1>1, <1>2, <1>3, <1>4, <1>5 DEF Handle, Communicate

\* The rest of the program's steps are the pipeline's, with the connection as it
\* was and no message accepted.
LEMMA ProgramCases ==
  ASSUME [ProgramNext]_programVars
  PROVE  \/ BrokerSends \/ ManagerReceives \/ Handle \/ Communicate
         \/ UNCHANGED <<connectionVars, forms, numbers, accepted>>
<1>1. CASE OnGameThread(StartSpawnDelayElapsed) \/ OnGameThread(TickCoolDown \/ TickRequest)
  BY <1>1 DEF OnGameThread, StartSpawnDelayElapsed, TickCoolDown, TickRequest
<1>2. CASE OnGameThread(FinishRequest)
  BY <1>2 DEF OnGameThread, FinishRequest
<1>3. CASE OnGameThread(Completion)
  BY <1>3 DEF OnGameThread, Completion, OnResponseReceived, OnImageReceived, OnImageFailed,
              OnImageFatal, OnCallbackResponseReceived
<1>4. CASE OnGameThread(RemoveAllLantern \/ OperatorSpawnLantern)
  BY <1>4 DEF OnGameThread, RemoveAllLantern, OperatorSpawnLantern
<1>5. CASE Save
  BY <1>5 DEF Save, SaveScreenshot
<1>6. CASE UNCHANGED programVars
  BY <1>6 DEF programVars, vars
<1> QED BY <1>1, <1>2, <1>3, <1>4, <1>5, <1>6 DEF ProgramNext

\* The messages of the queue, when a lambda is appended or the first one taken.
LEMMA MessagesAppended ==
  ASSUME NEW q \in Seq(Lambda), NEW e \in Lambda
  PROVE  MessagesIn(Append(q, e)) =
           MessagesIn(q) \cup (IF e.kind = "message" THEN {e.m} ELSE {})
<1> DEFINE p == Append(q, e)
<1>1. /\ Len(q) \in Nat /\ Len(p) = Len(q) + 1 /\ p[Len(q) + 1] = e
      /\ \A i \in 1 .. Len(q) : p[i] = q[i] /\ i \in 1 .. Len(p)
      /\ \A i \in 1 .. Len(p) : i \in 1 .. Len(q) \/ i = Len(q) + 1
      /\ Len(q) + 1 \in 1 .. Len(p)
  OBVIOUS
<1> HIDE DEF p
<1> QED BY <1>1 DEF MessagesIn, p

LEMMA MessagesTaken ==
  ASSUME NEW q \in Seq(Lambda), q # <<>>
  PROVE  MessagesIn(q) =
           MessagesIn(Tail(q)) \cup (IF Head(q).kind = "message" THEN {Head(q).m} ELSE {})
<1> DEFINE p == Tail(q)
<1>1. /\ Head(q) = q[1] /\ 1 \in 1 .. Len(q)
      /\ \A i \in 1 .. Len(p) : p[i] = q[i + 1] /\ i + 1 \in 1 .. Len(q)
      /\ \A i \in 1 .. Len(q) : i = 1 \/ (i - 1 \in 1 .. Len(p) /\ p[i - 1] = q[i])
  <2>1. /\ Len(q) \in Nat /\ Len(q) >= 1 /\ Len(p) = Len(q) - 1 /\ Head(q) = q[1]
        /\ \A i \in 1 .. Len(p) : p[i] = q[i + 1]
    OBVIOUS
  <2> HIDE DEF p
  <2> QED BY <2>1
<1> HIDE DEF p
<1> QED BY <1>1 DEF MessagesIn, p

LEMMA OtherMessages ==
  ASSUME queue \in Seq(Lambda), Handle \/ Communicate
  PROVE  MessagesIn(queue') = MessagesIn(queue)
<1>1. CASE UNCHANGED queue
  BY <1>1
<1>2. ASSUME NEW e \in Lambda, e.kind # "message", queue' = Append(queue, e)
      PROVE  MessagesIn(queue') = MessagesIn(queue)
  BY <1>2, MessagesAppended
<1>3. CASE queue # <<>> /\ Head(queue).kind # "message" /\ queue' = Tail(queue)
  BY <1>3, MessagesTaken
<1> QED BY <1>1, <1>2, <1>3, OtherSteps

\* The messages in the queue are messages that were sent.
LEMMA FormsWaiting ==
  FormsInv <=> /\ forms \in Seq(Forms) /\ Len(forms) = sent
               /\ MessagesIn(queue) \subseteq 1 .. sent
BY DEF FormsInv, MessagesIn

LEMMA FormsStep ==
  ASSUME ConnectionTypeOK, FormsInv, [ProgramNext]_programVars
  PROVE  FormsInv'
<1>0. /\ queue \in Seq(Lambda) /\ sent \in Nat
      /\ forms \in Seq(Forms) /\ Len(forms) = sent /\ MessagesIn(queue) \subseteq 1 .. sent
  BY FormsWaiting DEF ConnectionTypeOK
<1>1. ASSUME UNCHANGED <<forms, sent>>, MessagesIn(queue') \subseteq MessagesIn(queue)
      PROVE  FormsInv'
  <2>1. \A i \in 1 .. Len(queue') : queue'[i].kind = "message" => queue'[i].m \in MessagesIn(queue')
    BY DEF MessagesIn
  <2> QED BY <1>0, <1>1, <2>1 DEF FormsInv
<1>2. CASE BrokerSends
  <2>1. PICK m \in Forms : forms' = Append(forms, m)
    BY <1>2 DEF BrokerSends
  <2>2. sent' = sent + 1
    BY <1>2 DEF BrokerSends, Deliver
  <2>3. forms' \in Seq(Forms) /\ Len(forms') = sent + 1
    BY <1>0, <2>1
  <2>4. MessagesIn(queue') \subseteq 1 .. sent + 1
    <3>1. CASE UNCHANGED queue
      BY <1>0, <3>1
    <3>2. CASE Post([kind |-> "message", m |-> sent + 1])
      <4>1. MessagesIn(queue') = MessagesIn(queue) \cup {sent + 1}
        BY <1>0, <3>2, MessagesAppended, LambdaTypes DEF Post
      <4> QED BY <1>0, <4>1
    <3> QED BY <1>2, <3>1, <3>2 DEF BrokerSends, Deliver
  <2>5. \A i \in 1 .. Len(queue') : queue'[i].kind = "message" => queue'[i].m \in MessagesIn(queue')
    BY DEF MessagesIn
  <2> QED BY <2>2, <2>3, <2>4, <2>5 DEF FormsInv
<1>3. CASE ManagerReceives
  <2>1. queue # <<>> /\ queue' = Tail(queue) /\ UNCHANGED <<forms, sent>>
    BY <1>3 DEF ManagerReceives, MessageArrived, NextLambda
  <2> QED BY <1>0, <1>1, <2>1, MessagesTaken
<1>4. CASE Handle \/ Communicate
  <2>1. UNCHANGED <<forms, sent>>
    BY <1>4, OtherSteps
  <2> QED BY <1>0, <1>1, <1>4, <2>1, OtherMessages
<1>5. CASE UNCHANGED <<connectionVars, forms, numbers, accepted>>
  BY <1>1, <1>5 DEF connectionVars
<1> QED BY <1>2, <1>3, <1>4, <1>5, ProgramCases

-----------------------------------------------------------------------------
(* Which of the broker's messages an accepted one is *)

\* The accepted messages are, in their order, messages that were sent and
\* received.
NumbersInv ==
  /\ numbers \in Seq(Nat) /\ Len(numbers) = Len(accepted)
  /\ \A k \in 1 .. Len(numbers) :
       /\ numbers[k] \in 1 .. Len(forms) /\ accepted[k] = forms[numbers[k]]
       /\ \E i \in 1 .. Len(received) : received[i] = numbers[k]
       /\ \A j \in 1 .. k - 1 : numbers[j] < numbers[k]

\* The lantern messages received have all been accepted.
AcceptedInv ==
  \A i \in 1 .. Len(received) :
    /\ received[i] \in 1 .. Len(forms)
    /\ forms[received[i]].lantern => \E k \in 1 .. Len(numbers) : numbers[k] = received[i]

\* A message in the queue is a later one than those received.
LEMMA WaitingLater ==
  ASSUME MessagesInv, NEW n \in MessagesIn(queue), NEW i \in 1 .. Len(received)
  PROVE  received[i] < n
BY DEF MessagesInv, MessagesFit, MessagesIn

\* What OnMessage does, in numbers.
LEMMA ReceivesOne ==
  ASSUME ConnectionTypeOK, FormsInv, ManagerReceives
  PROVE  \E n \in MessagesIn(queue) :
           /\ n \in 1 .. Len(forms)
           /\ queue # <<>> /\ queue' = Tail(queue)
           /\ Head(queue).kind = "message" /\ Head(queue).m = n
           /\ received' = Append(received, n)
           /\ IF forms[n].lantern
              THEN numbers' = Append(numbers, n) /\ accepted' = Append(accepted, forms[n])
              ELSE UNCHANGED <<numbers, accepted>>
           /\ UNCHANGED <<forms, sent, swallowed, spawned, imagesFailed, crashed, halted>>
<1>1. queue \in Seq(Lambda) /\ queue # <<>> /\ Head(queue).kind = "message"
  BY DEF ManagerReceives, MessageArrived, NextLambda, ConnectionTypeOK
<1>2. Head(queue) = queue[1] /\ 1 \in 1 .. Len(queue)
  BY <1>1
<1>3. Head(queue).m \in MessagesIn(queue) /\ Head(queue).m \in 1 .. Len(forms)
  BY <1>1, <1>2 DEF MessagesIn, FormsInv
<1> QED BY <1>1, <1>3 DEF ManagerReceives, MessageArrived, NextLambda, OnMessage,
                          CheckIsLanternData, lanternVars

LEMMA NumbersStep ==
  ASSUME ConnectionTypeOK, TypeOK, FormsInv, MessagesInv, NumbersInv,
         [ProgramNext]_programVars
  PROVE  NumbersInv'
<1>0. /\ numbers \in Seq(Nat) /\ accepted \in Seq(Form) /\ received \in Seq(Nat)
      /\ forms \in Seq(Forms) /\ Len(numbers) = Len(accepted) /\ Len(forms) \in Nat
  BY DEF NumbersInv, ConnectionTypeOK, TypeOK, FormsInv
<1>1. CASE BrokerSends
  <2>1. PICK m \in Forms : forms' = Append(forms, m)
    BY <1>1 DEF BrokerSends
  <2>2. UNCHANGED <<numbers, accepted, received>>
    BY <1>1 DEF BrokerSends, Deliver, vars
  <2>3. Len(forms') = Len(forms) + 1 /\ \A n \in 1 .. Len(forms) : forms'[n] = forms[n]
    BY <1>0, <2>1
  <2>4. \A n \in 1 .. Len(forms) : n \in 1 .. Len(forms')
    BY <1>0, <2>3
  <2> QED BY <2>2, <2>3, <2>4 DEF NumbersInv
<1>2. CASE ManagerReceives
  <2>1. PICK n \in MessagesIn(queue) :
          /\ n \in 1 .. Len(forms) /\ received' = Append(received, n)
          /\ IF forms[n].lantern
             THEN numbers' = Append(numbers, n) /\ accepted' = Append(accepted, forms[n])
             ELSE UNCHANGED <<numbers, accepted>>
          /\ forms' = forms
    BY <1>2, ReceivesOne
  <2>2. /\ Len(received') = Len(received) + 1 /\ received'[Len(received) + 1] = n
        /\ Len(received) + 1 \in 1 .. Len(received')
        /\ \A i \in 1 .. Len(received) : i \in 1 .. Len(received') /\ received'[i] = received[i]
    BY <1>0, <2>1
  <2>3. CASE ~forms[n].lantern
    BY <2>1, <2>2, <2>3 DEF NumbersInv
  <2>4. CASE forms[n].lantern
    <3>1. numbers' = Append(numbers, n) /\ accepted' = Append(accepted, forms[n])
      BY <2>1, <2>4
    <3>2. forms[n] \in Form
      BY <1>0, <2>1, FormsAssumption
    <3>3. /\ Len(numbers) \in Nat /\ numbers' \in Seq(Nat)
          /\ Len(numbers') = Len(numbers) + 1 /\ numbers'[Len(numbers) + 1] = n
          /\ \A k \in 1 .. Len(numbers) : numbers'[k] = numbers[k]
      BY <1>0, <2>1, <3>1
    <3>4. /\ Len(accepted') = Len(numbers) + 1 /\ accepted'[Len(numbers) + 1] = forms[n]
          /\ \A k \in 1 .. Len(numbers) : accepted'[k] = accepted[k]
      <4> HIDE DEF Form
      <4> QED BY <1>0, <3>1, <3>2
    <3>5. \A k \in 1 .. Len(numbers) : numbers[k] < n
      BY WaitingLater DEF NumbersInv
    <3>6. ASSUME NEW k \in 1 .. Len(numbers)
          PROVE  /\ numbers'[k] \in 1 .. Len(forms) /\ accepted'[k] = forms[numbers'[k]]
                 /\ \E i \in 1 .. Len(received') : received'[i] = numbers'[k]
                 /\ \A j \in 1 .. k - 1 : numbers'[j] < numbers'[k]
      <4>1. numbers'[k] = numbers[k] /\ accepted'[k] = accepted[k]
        BY <3>3, <3>4
      <4>2. /\ numbers[k] \in 1 .. Len(forms) /\ accepted[k] = forms[numbers[k]]
            /\ \A j \in 1 .. k - 1 : numbers[j] < numbers[k]
        BY DEF NumbersInv
      <4>3. PICK i \in 1 .. Len(received) : received[i] = numbers[k]
        BY DEF NumbersInv
      <4>4. i \in 1 .. Len(received') /\ received'[i] = numbers'[k]
        BY <2>2, <4>1, <4>3
      <4>5. \A j \in 1 .. k - 1 : j \in 1 .. Len(numbers) /\ numbers'[j] = numbers[j]
        BY <3>3
      <4>6. k - 1 \in Nat /\ \A j \in 1 .. k - 1 : numbers'[j] < numbers'[k]
        BY <3>3, <4>1, <4>2, <4>5
      <4>7. \E h \in 1 .. Len(received') : received'[h] = numbers'[k]
        BY <4>4
      <4> QED BY <4>1, <4>2, <4>6, <4>7
    <3>7. /\ numbers'[Len(numbers) + 1] \in 1 .. Len(forms)
          /\ accepted'[Len(numbers) + 1] = forms[numbers'[Len(numbers) + 1]]
          /\ \E i \in 1 .. Len(received') : received'[i] = numbers'[Len(numbers) + 1]
          /\ \A j \in 1 .. Len(numbers) : numbers'[j] < numbers'[Len(numbers) + 1]
      <4>1. \E i \in 1 .. Len(received') : received'[i] = n
        BY <2>2
      <4> QED BY <2>1, <3>3, <3>4, <3>5, <4>1
    <3>8. /\ \A k \in 1 .. Len(numbers') : k \in 1 .. Len(numbers) \/ k = Len(numbers) + 1
          /\ Len(numbers) + 1 - 1 = Len(numbers)
          /\ forms' = forms /\ Len(numbers') = Len(accepted')
      BY <2>1, <3>3, <3>4
    <3>9. ASSUME NEW k \in 1 .. Len(numbers')
          PROVE  /\ numbers'[k] \in 1 .. Len(forms') /\ accepted'[k] = forms'[numbers'[k]]
                 /\ \E i \in 1 .. Len(received') : received'[i] = numbers'[k]
                 /\ \A j \in 1 .. k - 1 : numbers'[j] < numbers'[k]
      <4>1. CASE k \in 1 .. Len(numbers)
        BY <3>6, <3>8, <4>1
      <4>2. CASE k = Len(numbers) + 1
        BY <3>7, <3>8, <4>2
      <4> QED BY <3>8, <4>1, <4>2
    <3> QED BY <3>3, <3>8, <3>9 DEF NumbersInv
  <2> QED BY <2>3, <2>4
<1>3. CASE Handle \/ Communicate
  <2>1. UNCHANGED <<received, forms, numbers, accepted>>
    BY <1>3, OtherSteps DEF vars
  <2> QED BY <2>1 DEF NumbersInv
<1>4. CASE UNCHANGED <<connectionVars, forms, numbers, accepted>>
  BY <1>4 DEF NumbersInv, connectionVars
<1> QED BY <1>1, <1>2, <1>3, <1>4, ProgramCases

LEMMA AcceptedStep ==
  ASSUME ConnectionTypeOK, TypeOK, FormsInv, NumbersInv, AcceptedInv,
         [ProgramNext]_programVars
  PROVE  AcceptedInv'
<1>0. /\ numbers \in Seq(Nat) /\ received \in Seq(Nat)
      /\ forms \in Seq(Forms) /\ Len(forms) \in Nat
  BY DEF NumbersInv, ConnectionTypeOK, FormsInv
<1>1. CASE BrokerSends
  <2>1. PICK m \in Forms : forms' = Append(forms, m)
    BY <1>1 DEF BrokerSends
  <2>2. UNCHANGED <<numbers, received>>
    BY <1>1 DEF BrokerSends, Deliver, vars
  <2>3. /\ Len(forms') = Len(forms) + 1
        /\ \A n \in 1 .. Len(forms) : forms'[n] = forms[n] /\ n \in 1 .. Len(forms')
    BY <1>0, <2>1
  <2> QED BY <2>2, <2>3 DEF AcceptedInv
<1>2. CASE ManagerReceives
  <2>1. PICK n \in MessagesIn(queue) :
          /\ n \in 1 .. Len(forms) /\ received' = Append(received, n)
          /\ IF forms[n].lantern
             THEN numbers' = Append(numbers, n) /\ accepted' = Append(accepted, forms[n])
             ELSE UNCHANGED <<numbers, accepted>>
          /\ forms' = forms
    BY <1>2, ReceivesOne
  <2>2. \A i \in 1 .. Len(received') :
          \/ i = Len(received) + 1 /\ received'[i] = n
          \/ i \in 1 .. Len(received) /\ received'[i] = received[i]
    BY <1>0, <2>1
  <2>3. \A k \in 1 .. Len(numbers) : k \in 1 .. Len(numbers') /\ numbers'[k] = numbers[k]
    <3>1. CASE forms[n].lantern
      <4>1. numbers' = Append(numbers, n)
        BY <2>1, <3>1
      <4> QED BY <1>0, <4>1
    <3>2. CASE ~forms[n].lantern
      BY <2>1, <3>2
    <3> QED BY <3>1, <3>2
  <2>4. forms[n].lantern => \E k \in 1 .. Len(numbers') : numbers'[k] = n
    <3>1. CASE forms[n].lantern
      <4>1. Len(numbers) + 1 \in 1 .. Len(numbers') /\ numbers'[Len(numbers) + 1] = n
        BY <1>0, <2>1, <3>1
      <4> QED BY <4>1
    <3> QED BY <3>1
  <2> QED BY <2>1, <2>2, <2>3, <2>4 DEF AcceptedInv
<1>3. CASE Handle \/ Communicate
  <2>1. UNCHANGED <<received, forms, numbers>>
    BY <1>3, OtherSteps
  <2> QED BY <2>1 DEF AcceptedInv
<1>4. CASE UNCHANGED <<connectionVars, forms, numbers, accepted>>
  BY <1>4 DEF AcceptedInv, connectionVars
<1> QED BY <1>1, <1>2, <1>3, <1>4, ProgramCases

-----------------------------------------------------------------------------
(* What holds of the program *)

ProgramInv ==
  /\ ConnectionTypeOK /\ MessagesInv /\ MessagesKept
  /\ TypeOK /\ PipelineInv
  /\ FormsInv /\ NumbersInv /\ AcceptedInv

LEMMA ProgramInvInit == ProgramInit => ProgramInv
<1> SUFFICES ASSUME ProgramInit PROVE ProgramInv
  OBVIOUS
<1>1. ConnectionTypeOK /\ MessagesInv /\ MessagesKept /\ TypeOK /\ PipelineInv
  BY TypeInit, MessagesInit, TypeOKInit, PipelineInvInit DEF ProgramInit
<1>2. /\ forms = <<>> /\ numbers = <<>> /\ accepted = <<>> /\ received = <<>>
      /\ queue = <<>> /\ sent = 0
  BY DEF ProgramInit, ConnectionInit, Init
<1>3. /\ forms \in Seq(Forms) /\ numbers \in Seq(Nat)
      /\ Len(forms) = 0 /\ Len(numbers) = 0 /\ Len(accepted) = 0 /\ Len(received) = 0
      /\ Len(queue) = 0
  BY <1>2
<1> QED BY <1>1, <1>2, <1>3 DEF ProgramInv, FormsInv, NumbersInv, AcceptedInv

LEMMA ProgramStep ==
  ASSUME ProgramInv, [ProgramNext]_programVars
  PROVE  ProgramInv'
<1> USE DEF ProgramInv
<1>1. [ConnectionNext]_connectionVars /\ [Next]_vars
  BY ConnectionPart, PipelinePart
<1>2. ConnectionTypeOK' /\ MessagesInv' /\ MessagesKept'
  BY <1>1, TypeStep, MessagesStep, KeptStep
<1>3. TypeOK'
  BY <1>1, TypeOKStep
<1>4. PipelineInv'
  <2>1. CASE OperatorSpawns = 0
    BY <1>1, <1>3, <2>1, PipelineInvStep
  <2>2. CASE OperatorSpawns # 0
    BY <2>2 DEF PipelineInv
  <2> QED BY <2>1, <2>2
<1> QED BY <1>2, <1>3, <1>4, FormsStep, NumbersStep, AcceptedStep

THEOREM ProgramCorrect == ProgramSpec => []ProgramInv
BY ProgramInvInit, ProgramStep, PTL DEF ProgramSpec

\* Neither part does in the program what it does not do by itself: OnMessage is
\* the pipeline's OnMessage of a form the broker sends, and no handler of one
\* changes what the other relies on.
THEOREM PartsImplemented ==
  ProgramSpec => /\ ConnectionInit /\ [][ConnectionNext]_connectionVars
                 /\ Init /\ [][Next]_vars
<1>1. ProgramInv /\ [ProgramNext]_programVars =>
        [ConnectionNext]_connectionVars /\ [Next]_vars
  BY ConnectionPart, PipelinePart DEF ProgramInv
<1>2. ProgramInit => ConnectionInit /\ Init
  BY DEF ProgramInit
<1> QED BY <1>1, <1>2, ProgramCorrect, PTL DEF ProgramSpec

\* A message is lost nowhere between the client that took it and the queue of
\* AMqttManager.
THEOREM NothingMissedCorrect == ProgramSpec => []NothingMissed
<1>1. ASSUME ProgramInv PROVE NothingMissed
  <2> SUFFICES ASSUME ~swallowed, NEW n \in 1 .. Len(forms), forms[n].lantern
               PROVE  \/ n \in MessagesIn(queue)
                      \/ \E k \in 1 .. Len(accepted) : numbers[k] = n
    BY DEF NothingMissed
  <2>1. n \in 1 .. sent
    BY <1>1 DEF ProgramInv, FormsInv
  <2>2. \/ \E i \in 1 .. Len(received) : received[i] = n
        \/ \E i \in 1 .. Len(queue) : queue[i] = [kind |-> "message", m |-> n]
    BY <1>1, <2>1 DEF ProgramInv, MessagesKept, MessagesHere
  <2>3. ASSUME NEW i \in 1 .. Len(received), received[i] = n
        PROVE  \E k \in 1 .. Len(accepted) : numbers[k] = n
    BY <1>1, <2>3 DEF ProgramInv, AcceptedInv, NumbersInv
  <2>4. ASSUME NEW i \in 1 .. Len(queue), queue[i] = [kind |-> "message", m |-> n]
        PROVE  n \in MessagesIn(queue)
    BY <2>4 DEF MessagesIn
  <2> QED BY <2>2, <2>3, <2>4
<1> QED BY <1>1, ProgramCorrect, PTL

-----------------------------------------------------------------------------
(* The program implements the service *)

Stopped == imagesFailed # {} \/ crashed \/ halted

\* What the invariant says of the lanterns and of what is due.
LEMMA ShownFacts ==
  ASSUME OperatorSpawns = 0, ProgramInv
  PROVE  /\ numbers \in Seq(Nat) /\ Len(numbers) = Len(accepted)
         /\ Len(accepted) \in Nat /\ Len(spawned) \in Nat /\ Len(spawned) <= Len(accepted)
         /\ queue \in Seq(Lambda) /\ Len(forms) \in Nat /\ forms \in Seq(Forms)
         /\ \A k \in 1 .. Len(spawned) :
              /\ spawned[k].for = k /\ spawned[k].text \in {0, k}
              /\ spawned[k].image \in {0, k}
<1>1. LanternsInOrder
  BY DEF ProgramInv, PipelineInv
<1>2. /\ numbers \in Seq(Nat) /\ Len(numbers) = Len(accepted)
      /\ Len(accepted) \in Nat /\ Len(spawned) \in Nat
      /\ queue \in Seq(Lambda) /\ Len(forms) \in Nat /\ forms \in Seq(Forms)
  BY Counters DEF ProgramInv, NumbersInv, ConnectionTypeOK, FormsInv
<1>3. Len(spawned) <= Len(accepted)
  <2>1. CASE Len(spawned) = 0
    BY <1>2, <2>1
  <2>2. CASE Len(spawned) \in 1 .. Len(spawned)
    BY <1>1, <2>2 DEF LanternsInOrder
  <2> QED BY <1>2, <2>1, <2>2
<1> QED BY <1>1, <1>2, <1>3 DEF LanternsInOrder, FieldOf

\* The lanterns stay what they are when messages are accepted.
LEMMA ShownKept ==
  ASSUME OperatorSpawns = 0, ProgramInv, spawned' = spawned,
         \A k \in 1 .. Len(accepted) : numbers'[k] = numbers[k]
  PROVE  Shown' = Shown
<1>1. /\ Len(spawned) \in Nat /\ Len(accepted) \in Nat /\ Len(spawned) <= Len(accepted)
      /\ \A k \in 1 .. Len(spawned) :
           /\ spawned[k].for = k /\ spawned[k].text \in {0, k} /\ spawned[k].image \in {0, k}
  BY ShownFacts
<1>2. \A n \in 0 .. Len(spawned) : Sender(n)' = Sender(n)
  BY <1>1 DEF Sender
<1>3. \A k \in 1 .. Len(spawned) :
        /\ spawned[k].for \in 0 .. Len(spawned) /\ spawned[k].text \in 0 .. Len(spawned)
        /\ spawned[k].image \in 0 .. Len(spawned)
  BY <1>1
<1> QED BY <1>2, <1>3 DEF Shown

\* The connection's own steps: the display stops, or nothing happens.
LEMMA ServiceOther ==
  ASSUME OperatorSpawns = 0, ProgramInv, ~halted, Handle \/ Communicate
  PROVE  Service!Next \/ UNCHANGED Service!serviceVars
<1>1. UNCHANGED <<received, sent, swallowed, forms, numbers, vars>>
  BY OtherSteps
<1>2. MessagesIn(queue') = MessagesIn(queue)
  BY OtherMessages DEF ProgramInv, ConnectionTypeOK
<1>3. Due' = Due
  BY <1>1, <1>2 DEF Due, vars, lanternVars
<1>4. Shown' = Shown
  BY <1>1, ShownKept DEF vars, lanternVars
<1>5. CASE halted'
  BY <1>1, <1>3, <1>4, <1>5 DEF Service!Next, Service!Stop
<1>6. CASE ~halted'
  <2>1. Stopped' = Stopped
    BY <1>1, <1>6 DEF vars, Stopped
  <2> QED BY <1>1, <1>3, <1>4, <2>1 DEF Service!serviceVars, Stopped
<1> QED BY <1>5, <1>6

\* OnMessage takes a message from one queue to the other.
LEMMA ServiceReceives ==
  ASSUME OperatorSpawns = 0, ProgramInv, ManagerReceives
  PROVE  UNCHANGED Service!serviceVars
<1>0. PICK n \in MessagesIn(queue) :
           /\ n \in 1 .. Len(forms)
           /\ queue # <<>> /\ queue' = Tail(queue)
           /\ Head(queue).kind = "message" /\ Head(queue).m = n
           /\ received' = Append(received, n)
           /\ IF forms[n].lantern
              THEN numbers' = Append(numbers, n) /\ accepted' = Append(accepted, forms[n])
              ELSE UNCHANGED <<numbers, accepted>>
           /\ UNCHANGED <<forms, sent, swallowed, spawned, imagesFailed, crashed, halted>>
  BY ReceivesOne DEF ProgramInv
<1>1. /\ numbers \in Seq(Nat) /\ Len(numbers) = Len(accepted) /\ queue \in Seq(Lambda)
      /\ Len(accepted) \in Nat /\ Len(spawned) \in Nat /\ Len(spawned) <= Len(accepted)
      /\ n \in Nat /\ forms[n] \in Form
  BY <1>0, ShownFacts, FormsAssumption
<1>2. MessagesIn(queue) = MessagesIn(queue') \cup {n}
  BY <1>0, <1>1, MessagesTaken
<1>3. CASE ~forms[n].lantern
  <2>1. Due' = Due
    BY <1>0, <1>2, <1>3 DEF Due
  <2>2. Shown' = Shown
    BY <1>0, <1>3, ShownKept
  <2> QED BY <1>0, <2>1, <2>2 DEF Service!serviceVars
<1>4. CASE forms[n].lantern
  <2>1. numbers' = Append(numbers, n) /\ accepted' = Append(accepted, forms[n])
    BY <1>0, <1>4
  <2>2. /\ \A k \in 1 .. Len(accepted) : numbers'[k] = numbers[k]
        /\ numbers'[Len(accepted) + 1] = n
    BY <1>1, <2>1
  <2>3. Len(accepted') = Len(accepted) + 1
    <3>1. accepted \in Seq(Form)
      BY DEF ProgramInv, TypeOK
    <3> HIDE DEF Form
    <3> QED BY <1>1, <2>1, <3>1
  <2>4. {numbers'[k] : k \in Len(spawned) + 1 .. Len(accepted')} =
          {numbers[k] : k \in Len(spawned) + 1 .. Len(accepted)} \cup {n}
    <3>1. \A k \in Len(spawned) + 1 .. Len(accepted) :
            k \in 1 .. Len(accepted) /\ k \in Len(spawned) + 1 .. Len(accepted')
      BY <1>1, <2>3
    <3>2. Len(accepted) + 1 \in Len(spawned) + 1 .. Len(accepted')
      BY <1>1, <2>3
    <3>3. \A k \in Len(spawned) + 1 .. Len(accepted') :
            k = Len(accepted) + 1 \/ k \in Len(spawned) + 1 .. Len(accepted)
      BY <1>1, <2>3
    <3> QED BY <2>2, <3>1, <3>2, <3>3
  <2>5. Due' = Due
    BY <1>0, <1>2, <1>4, <2>4 DEF Due
  <2>6. Shown' = Shown
    BY <1>0, <2>2, ShownKept
  <2> QED BY <1>0, <2>5, <2>6 DEF Service!serviceVars
<1> QED BY <1>3, <1>4

\* The broker's message is heard or missed.
LEMMA ServiceSends ==
  ASSUME OperatorSpawns = 0, ProgramInv, BrokerSends
  PROVE  Service!Next
<1>0. PICK m \in Forms : forms' = Append(forms, m)
  BY DEF BrokerSends
<1>1. UNCHANGED <<numbers, accepted, spawned, imagesFailed, crashed, halted>>
  BY DEF BrokerSends, Deliver, vars, lanternVars
<1>2. /\ queue \in Seq(Lambda) /\ forms \in Seq(Forms) /\ Len(forms) \in Nat /\ sent = Len(forms)
      /\ numbers \in Seq(Nat) /\ Len(numbers) = Len(accepted)
      /\ MessagesIn(queue) \subseteq 1 .. Len(forms)
  BY ShownFacts, FormsWaiting DEF ProgramInv
<1>3. /\ \A n \in 1 .. Len(forms) : forms'[n] = forms[n]
      /\ forms'[Len(forms) + 1] = m
  BY <1>0, <1>2
<1>4. Shown' = Shown
  BY <1>1, ShownKept
<1>5. CASE UNCHANGED queue /\ swallowed' = TRUE
  <2>1. Due' = Due
    BY <1>1, <1>2, <1>3, <1>5 DEF Due
  <2>2. Service!Miss(m)
    BY <1>0, <1>1, <1>4, <1>5, <2>1 DEF Service!Miss
  <2> QED BY <2>2 DEF Service!Next
<1>6. CASE Post([kind |-> "message", m |-> sent + 1]) /\ UNCHANGED swallowed
  <2>1. MessagesIn(queue') = MessagesIn(queue) \cup {Len(forms) + 1}
    BY <1>2, <1>6, MessagesAppended, LambdaTypes DEF Post
  <2>2. Due' = IF m.lantern THEN Due \cup {Len(forms) + 1} ELSE Due
    BY <1>1, <1>2, <1>3, <2>1 DEF Due
  <2>3. Service!Send(m)
    BY <1>0, <1>1, <1>4, <1>6, <2>2 DEF Service!Send
  <2> QED BY <2>3 DEF Service!Next
<1> QED BY <1>5, <1>6 DEF BrokerSends, Deliver

\* The pipeline's next lantern is of the least message that is due.
LEMMA ServiceShows ==
  ASSUME OperatorSpawns = 0, ProgramInv, ~halted, Display!Show,
         UNCHANGED <<connectionVars, forms, numbers, accepted>>
  PROVE  Service!Next
<1> DEFINE next == Len(spawned) + 1
           n == numbers[next]
<1>0. /\ numbers \in Seq(Nat) /\ Len(numbers) = Len(accepted)
      /\ Len(accepted) \in Nat /\ Len(spawned) \in Nat /\ Len(spawned) <= Len(accepted)
      /\ \A k \in 1 .. Len(spawned) :
              /\ spawned[k].for = k /\ spawned[k].text \in {0, k}
              /\ spawned[k].image \in {0, k}
  BY ShownFacts
<1>1. /\ imagesFailed = {} /\ ~crashed /\ Len(spawned) < Len(accepted)
      /\ \E lantern \in Display!LanternsOf(next) : spawned' = Append(spawned, lantern)
      /\ (imagesFailed # {} \/ crashed)' = (imagesFailed # {} \/ crashed)
  BY DEF Display!Show
<1>2. next \in 1 .. Len(accepted) /\ next \in 1 .. Len(numbers)
  BY <1>0, <1>1
<1>3. /\ n \in 1 .. Len(forms) /\ accepted[next] = forms[n] /\ n \in Nat
      /\ \E i \in 1 .. Len(received) : received[i] = n
      /\ \A j \in next + 1 .. Len(accepted) : n < numbers[j] /\ numbers[j] \in Nat
  <2>1. /\ n \in 1 .. Len(forms) /\ accepted[next] = forms[n]
        /\ \E i \in 1 .. Len(received) : received[i] = n
    BY <1>2 DEF ProgramInv, NumbersInv
  <2>2. ASSUME NEW j \in next + 1 .. Len(accepted)
        PROVE  n < numbers[j] /\ numbers[j] \in Nat
    <3>1. j \in 1 .. Len(numbers) /\ next \in 1 .. j - 1
      BY <1>0, <1>2
    <3> QED BY <1>0, <3>1 DEF ProgramInv, NumbersInv
  <2>3. n \in Nat
    BY <1>0, <1>2
  <2> QED BY <2>1, <2>2, <2>3
<1>4. \A other \in MessagesIn(queue) : n < other
  BY <1>3, WaitingLater DEF ProgramInv
<1>5. PICK lantern \in Display!LanternsOf(next) : spawned' = Append(spawned, lantern)
  BY <1>1
<1>6. /\ lantern.for = next /\ lantern.text = (IF accepted[next].text THEN next ELSE 0)
      /\ lantern.image \in {0, IF accepted[next].img THEN next ELSE 0}
  BY DEF Display!LanternsOf
<1>7. /\ Len(spawned') = next /\ spawned'[next] = lantern
      /\ \A k \in 1 .. Len(spawned) : spawned'[k] = spawned[k]
  <2>1. spawned \in Seq([for: Nat, image: Nat, text: Nat])
    BY DEF ProgramInv, TypeOK
  <2> QED BY <1>5, <2>1
<1> HIDE DEF next
<1>8. /\ \A j \in next .. Len(accepted) : j = next \/ j \in next + 1 .. Len(accepted)
      /\ next \in next .. Len(accepted)
      /\ \A j \in next + 1 .. Len(accepted) : j \in next .. Len(accepted)
  BY <1>2, <1>0 DEF next
<1>9. /\ n \in Due /\ \A other \in Due : n <= other
      /\ Due' = Due \ {n}
  <2>1. Due = {k \in MessagesIn(queue) : forms[k].lantern}
                \cup {numbers[k] : k \in next .. Len(accepted)}
    BY DEF Due, next
  <2>2. Due' = {k \in MessagesIn(queue) : forms[k].lantern}
                 \cup {numbers[k] : k \in next + 1 .. Len(accepted)}
    <3>1. queue' = queue
      BY DEF connectionVars
    <3> QED BY <1>7, <3>1 DEF Due
  <2>4. MessagesIn(queue) \subseteq Nat
    BY FormsWaiting DEF ProgramInv, ConnectionTypeOK
  <2>5. n <= n /\ \A k \in MessagesIn(queue) : k # n /\ n <= k
    BY <1>3, <1>4, <2>4
  <2>6. \A k \in next + 1 .. Len(accepted) : numbers[k] # n /\ n <= numbers[k]
    BY <1>3
  <2> QED BY <1>8, <2>1, <2>2, <2>5, <2>6
<1>10. PICK l : l = [for |-> Sender(lantern.for), image |-> Sender(lantern.image),
                     text |-> Sender(lantern.text)]
  OBVIOUS
<1>11. Shown' = Append(Shown, l)
  <2>1. Len(Shown) = Len(spawned)
    BY <1>0 DEF Shown
  <2>2. \A x : Sender(x)' = Sender(x)
    BY DEF Sender
  <2>3. Shown' = [k \in 1 .. Len(spawned) + 1 |->
                    [for |-> Sender(spawned'[k].for), image |-> Sender(spawned'[k].image),
                     text |-> Sender(spawned'[k].text)]]
    BY <1>7, <2>2 DEF Shown, next
  <2>4. PICK S : Shown \in Seq(S) /\ l \in S
    <3>1. Shown \in Seq({Shown[k] : k \in 1 .. Len(spawned)} \cup {l})
      <4> DEFINE T == {Shown[k] : k \in 1 .. Len(spawned)} \cup {l}
      <4>1. Shown \in [1 .. Len(spawned) -> T]
        BY DEF Shown
      <4> HIDE DEF T
      <4>2. Shown \in Seq(T)
        BY <1>0, <4>1
      <4> QED BY <4>2 DEF T
    <3> QED BY <3>1
  <2>5. /\ Append(Shown, l) \in Seq(S) /\ Len(Append(Shown, l)) = Len(spawned) + 1
        /\ Append(Shown, l)[Len(spawned) + 1] = l
        /\ \A k \in 1 .. Len(spawned) : Append(Shown, l)[k] = Shown[k]
    BY <2>1, <2>4
  <2>6. Append(Shown, l) = [k \in 1 .. Len(spawned) + 1 |-> Append(Shown, l)[k]]
    <3>1. ASSUME NEW s \in Seq(S) PROVE s = [k \in 1 .. Len(s) |-> s[k]]
      BY LenProperties
    <3> QED BY <2>5, <3>1
  <2>7. \A k \in 1 .. Len(spawned) + 1 :
          k = Len(spawned) + 1 \/ (k # Len(spawned) + 1 /\ k \in 1 .. Len(spawned))
    BY <1>0
  <2>8. \A k \in 1 .. Len(spawned) : Append(Shown, l)[k] = [for |-> Sender(spawned'[k].for),
                     image |-> Sender(spawned'[k].image), text |-> Sender(spawned'[k].text)]
    BY <1>7, <2>5 DEF Shown
  <2>9. Append(Shown, l)[Len(spawned) + 1] = [for |-> Sender(spawned'[Len(spawned) + 1].for),
                     image |-> Sender(spawned'[Len(spawned) + 1].image),
                     text |-> Sender(spawned'[Len(spawned) + 1].text)]
    BY <1>7, <1>10, <2>5 DEF next
  <2> QED BY <2>3, <2>6, <2>7, <2>8, <2>9
<1>12. l \in Service!LanternsOf(n)
  <2>1. next # 0 /\ Sender(next) = n /\ Sender(0) = 0
    BY <1>0 DEF Sender, next
  <2>2. /\ l.for = n /\ l.text = (IF forms[n].text THEN n ELSE 0)
        /\ l.image \in {0, IF forms[n].img THEN n ELSE 0}
    BY <1>3, <1>6, <1>10, <2>1
  <2>3. l = [for |-> l.for, image |-> l.image, text |-> l.text]
    BY <1>10
  <2> QED BY <2>2, <2>3 DEF Service!LanternsOf
<1>13. Service!Show(n)
  <2>1. halted' = halted /\ swallowed' = swallowed
    BY DEF connectionVars
  <2> QED BY <1>1, <1>9, <1>11, <1>12, <2>1 DEF Service!Show
<1> QED BY <1>9, <1>13 DEF Service!Next

\* The other steps of the pipeline: nothing, or the end.
LEMMA ServicePipeline ==
  ASSUME OperatorSpawns = 0, ProgramInv, ~halted, [Next]_vars,
         UNCHANGED <<connectionVars, forms, numbers, accepted>>
  PROVE  Service!Next \/ UNCHANGED Service!serviceVars
<1>1. Display!Next \/ UNCHANGED Display!displayVars
  BY DisplayStep DEF ProgramInv
<1>2. ~ \E m \in Forms : Display!Accept(m)
  <2>1. accepted \in Seq(Form)
    BY DEF ProgramInv, TypeOK
  <2>2. ASSUME NEW m \in Forms PROVE Append(accepted, m) # accepted
    <3>1. m \in Form
      BY FormsAssumption
    <3>2. Len(Append(accepted, m)) = Len(accepted) + 1 /\ Len(accepted) \in Nat
      <4> HIDE DEF Form
      <4> QED BY <2>1, <3>1
    <3> QED BY <3>2
  <2> QED BY <2>2 DEF Display!Accept
<1>3. CASE Display!Show
  BY <1>3, ServiceShows
<1>4. ASSUME spawned' = spawned PROVE Due' = Due /\ Shown' = Shown
  <2>1. queue' = queue
    BY DEF connectionVars
  <2> QED BY <1>4, <2>1, ShownKept DEF Due
<1>5. CASE Display!Stop
  <2>1. spawned' = spawned /\ (imagesFailed # {} \/ crashed)' = TRUE
    BY <1>5 DEF Display!Stop
  <2>2. swallowed' = swallowed
    BY DEF connectionVars
  <2> QED BY <1>4, <2>1, <2>2 DEF Service!Next, Service!Stop
<1>6. CASE UNCHANGED Display!displayVars
  <2>1. spawned' = spawned /\ (imagesFailed # {} \/ crashed)' = (imagesFailed # {} \/ crashed)
    BY <1>6 DEF Display!displayVars
  <2>2. swallowed' = swallowed /\ halted' = halted
    BY DEF connectionVars
  <2> QED BY <1>4, <2>1, <2>2 DEF Service!serviceVars
<1> QED BY <1>1, <1>2, <1>3, <1>5, <1>6 DEF Display!Next

LEMMA ServiceStep ==
  ASSUME OperatorSpawns = 0, ProgramInv, [ProgramNext]_programVars
  PROVE  Service!Next \/ UNCHANGED Service!serviceVars
<1>1. [Next]_vars
  BY PipelinePart DEF ProgramInv
<1>2. CASE UNCHANGED programVars
  BY <1>2 DEF programVars, connectionVars, vars, lanternVars, Service!serviceVars, Due,
              Shown, Sender
<1>3. CASE ProgramNext
  <2>1. ~halted
    BY <1>3 DEF ProgramNext
  <2> QED BY <1>1, <2>1, ProgramCases, ServiceSends, ServiceReceives, ServiceOther, ServicePipeline
<1> QED BY <1>2, <1>3

\* From the broker to the sky: for any number of messages, connections that are
\* refused, break and are made again, tasks that overtake each other and image
\* requests, the display shows the messages it hears of in the order in which
\* they were sent, each with its own text and image, and nothing else.
THEOREM ServiceImplemented ==
  ASSUME OperatorSpawns = 0
  PROVE  ProgramSpec => ImplementsService
<1>1. ProgramInit => Service!Init
  BY DEF ProgramInit, ConnectionInit, Init, Service!Init, Due, Shown, MessagesIn
<1>2. ProgramInv /\ [ProgramNext]_programVars => [Service!Next]_(Service!serviceVars)
  BY ServiceStep
<1> QED
  BY <1>1, <1>2, ProgramCorrect, PTL DEF ProgramSpec, ImplementsService, Service!Spec

=============================================================================
