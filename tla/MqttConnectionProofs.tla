------------------------ MODULE MqttConnectionProofs ------------------------
(***************************************************************************)
(* TLAPS proofs about MqttConnection, for every number of losses, failures *)
(* and messages: types, that neither the reconnection nor the subscription *)
(* is ever forgotten, and the order of messages.                           *)
(***************************************************************************)
EXTENDS MqttConnection, TLAPS

\* Where the threads may be.
PcType(p) ==
  /\ p \in [Threads -> TaskPcs \cup GamePcs]
  /\ p[Game] \in GamePcs
  /\ \A t \in Tasks : p[t] \in TaskPcs

\* Threads and tasks are told apart by their numbers.
LEMMA ThreadNames ==
  /\ Game \in Threads /\ Tasks \subseteq Threads
  /\ \A w \in Threads : w = Game \/ w \in Tasks
  /\ \A t \in Tasks : t # Game /\ t \in Nat
  /\ 1 \in Tasks
  /\ Nobody \notin Threads /\ Freed \notin Threads
BY BoundsAssumption DEF Game, Threads, Tasks, Nobody, Freed

LEMMA OneStepPc ==
  ASSUME NEW p, PcType(p), NEW w \in Threads,
         NEW where \in (IF w = Game THEN GamePcs ELSE TaskPcs)
  PROVE  PcType([p EXCEPT ![w] = where])
BY ThreadNames DEF PcType

LEMMA GotoType ==
  ASSUME PcType(pc), NEW w \in Threads,
         NEW where \in (IF w = Game THEN GamePcs ELSE TaskPcs), Goto(w, where)
  PROVE  PcType(pc')
BY OneStepPc DEF Goto

\* A failed call leads to a place of the thread that made it.
LEMMA AfterFailureType ==
  ASSUME NEW w \in Threads
  PROVE  AfterFailure(w) \in (IF w = Game THEN GamePcs ELSE TaskPcs)
BY DEF AfterFailure, GamePcs, TaskPcs

\* Dropping the client leaves every thread at a place of its own.
LEMMA DroppedType ==
  ASSUME PcType(pc)
  PROVE  PcType(Dropped)
<1>1. \A w \in Threads :
        Dropped[w] \in {AfterFailure(w), pc[w]} \cup
                       (IF pc[w] = "blind" THEN {"stray"} ELSE {})
  BY DEF Dropped
<1>2. \A w \in Threads : Dropped[w] \in (IF w = Game THEN GamePcs ELSE TaskPcs)
  <2> SUFFICES ASSUME NEW w \in Threads
               PROVE  Dropped[w] \in (IF w = Game THEN GamePcs ELSE TaskPcs)
    OBVIOUS
  <2>1. pc[w] \in (IF w = Game THEN GamePcs ELSE TaskPcs)
    BY ThreadNames DEF PcType
  <2>2. "blind" \notin GamePcs /\ "stray" \in TaskPcs
    BY DEF GamePcs, TaskPcs
  <2> QED BY <1>1, <2>1, <2>2, AfterFailureType
<1>3. Dropped = [w \in Threads |-> Dropped[w]]
  BY DEF Dropped
<1> HIDE DEF Dropped
<1> QED BY <1>2, <1>3, ThreadNames DEF PcType

\* An answered token moves a thread to a place of its own.
LEMMA AnsweredType ==
  ASSUME NEW p, PcType(p), NEW w, NEW waits, NEW where \in TaskPcs,
         waits \in GamePcs => where \in GamePcs
  PROVE  PcType(Answered(p, w, waits, where))
<1>1. CASE w \in Threads /\ p[w] = waits
  <2>1. where \in (IF w = Game THEN GamePcs ELSE TaskPcs)
    BY <1>1 DEF PcType
  <2> QED BY <1>1, <2>1, OneStepPc DEF Answered
<1>2. CASE ~(w \in Threads /\ p[w] = waits)
  BY <1>2 DEF Answered
<1> QED BY <1>1, <1>2

\* The lambdas the wrapper posts are well formed.
LEMMA LambdaTypes ==
  /\ [kind |-> "connected"] \in Lambda
  /\ [kind |-> "lost"] \in Lambda
  /\ \A m \in Nat : [kind |-> "message", m |-> m] \in Lambda
BY DEF Lambda

LEMMA PostType ==
  ASSUME queue \in Seq(Lambda), NEW lambda \in Lambda, Post(lambda)
  PROVE  queue' \in Seq(Lambda)
BY DEF Post

LEMMA CommandTypes ==
  ASSUME NEW w \in Threads \cup {Nobody, Freed}
  PROVE  /\ << [kind |-> "connect", by |-> w] >> \in Seq(Command)
         /\ << [kind |-> "reconnect", by |-> w] >> \in Seq(Command)
         /\ \A cs \in Seq(Command) :
              Append(cs, [kind |-> "disconnect", by |-> w]) \in Seq(Command)
BY DEF Command

LEMMA NewClientTypes == NewClient \in Client /\ NoClient \in Client
<1>1. NewClient \in Client
  <2>1. <<>> \in Seq(Command)
    OBVIOUS
  <2> QED BY <2>1 DEF NewClient, Client
<1>2. NoClient \in Client
  BY <1>1 DEF NoClient, Client
<1> QED BY <1>1, <1>2

\* The session is over: still a client.
LEMMA ClosedType ==
  ASSUME MqttClient \in Client
  PROVE  /\ Closed \in Client
         /\ Closed.commands = MqttClient.commands
         /\ Closed.connector = MqttClient.connector
         /\ Closed.state = "idle" /\ ~Closed.announced
BY DEF Closed, Client

LEMMA TypeInit == ConnectionInit => ConnectionTypeOK
<1> SUFFICES ASSUME ConnectionInit PROVE ConnectionTypeOK
  OBVIOUS
<1>1. MqttClient \in Client
  BY NewClientTypes DEF ConnectionInit
<1>2. PcType(pc)
  <2>1. /\ {"idle"} \subseteq GamePcs
        /\ {"start", "unused"} \subseteq TaskPcs
    BY DEF GamePcs, TaskPcs
  <2> QED BY <2>1, ThreadNames DEF ConnectionInit, PcType
<1>3. queue \in Seq(Lambda) /\ received \in Seq(Nat)
  BY DEF ConnectionInit
<1>4. /\ sent \in 0 .. MaxSent
      /\ failures \in 0 .. MaxFailures /\ losses \in 0 .. MaxLosses
  BY BoundsAssumption DEF ConnectionInit
<1>5. swallowed \in BOOLEAN /\ unreported \in BOOLEAN /\ halted \in BOOLEAN
  BY Zenon DEF ConnectionInit
<1> QED BY <1>1, <1>2, <1>3, <1>4, <1>5, Zenon DEF ConnectionTypeOK, PcType

\* What the wrapper's steps leave alone keeps its type.
LEMMA EventsType ==
  ASSUME ConnectionTypeOK, UNCHANGED Events
  PROVE  /\ received' \in Seq(Nat) /\ sent' \in 0 .. MaxSent
         /\ swallowed' \in BOOLEAN /\ unreported' \in BOOLEAN
         /\ failures' \in 0 .. MaxFailures /\ losses' \in 0 .. MaxLosses
BY DEF ConnectionTypeOK, Events

\* A step of the wrapper is type correct when the client, the threads, the
\* queue and the crash are.
LEMMA WrapperType ==
  ASSUME ConnectionTypeOK, UNCHANGED Events,
         MqttClient' \in Client, PcType(pc'), queue' \in Seq(Lambda),
         halted' \in BOOLEAN
  PROVE  ConnectionTypeOK'
BY EventsType DEF ConnectionTypeOK, PcType

LEMMA CrashType ==
  ASSUME ConnectionTypeOK, Crash, UNCHANGED Events
  PROVE  ConnectionTypeOK'
BY EventsType DEF ConnectionTypeOK, Crash

LEMMA StopConsumingType ==
  ASSUME MqttClient \in Client, PcType(pc), NEW w \in Threads,
         NEW next \in (IF w = Game THEN GamePcs ELSE TaskPcs),
         StopConsuming(w, next)
  PROVE  MqttClient' \in Client /\ PcType(pc')
<1>1. [MqttClient EXCEPT !.callbacks = "disabled"] \in Client
  BY DEF Client
<1> QED BY <1>1, AfterFailureType, GotoType DEF StopConsuming

LEMMA AskDisconnectType ==
  ASSUME ConnectionTypeOK, NEW w \in Threads, AskDisconnect(w)
  PROVE  ConnectionTypeOK'
<1>0. MqttClient \in Client /\ PcType(pc) /\ queue \in Seq(Lambda)
  BY DEF ConnectionTypeOK, PcType
<1>1. CASE Crash
  BY <1>1, CrashType DEF AskDisconnect
<1>2. CASE Goto(w, AfterFailure(w)) /\ UNCHANGED <<MqttClient, queue, halted>>
  BY <1>0, <1>2, GotoType, AfterFailureType, WrapperType DEF AskDisconnect, ConnectionTypeOK
<1>3. CASE /\ MqttClient' = [MqttClient EXCEPT
                !.commands = Append(@, [kind |-> "disconnect", by |-> w])]
           /\ Goto(w, "awaiting")
           /\ UNCHANGED <<queue, halted>>
  <2>1. Append(MqttClient.commands, [kind |-> "disconnect", by |-> w]) \in Seq(Command)
    BY <1>0, CommandTypes DEF Client
  <2>2. MqttClient' \in Client
    BY <1>0, <1>3, <2>1 DEF Client
  <2>3. "awaiting" \in (IF w = Game THEN GamePcs ELSE TaskPcs)
    BY DEF GamePcs, TaskPcs
  <2> QED BY <1>0, <1>3, <2>2, <2>3, GotoType, WrapperType DEF AskDisconnect, ConnectionTypeOK
<1> QED BY <1>1, <1>2, <1>3 DEF AskDisconnect

LEMMA ResetType ==
  ASSUME ConnectionTypeOK, NEW w \in Threads, Reset(w)
  PROVE  ConnectionTypeOK'
<1>0. PcType(pc) /\ queue \in Seq(Lambda)
  BY DEF ConnectionTypeOK, PcType
<1>1. (IF w = Game THEN "reconnect" ELSE "create")
        \in (IF w = Game THEN GamePcs ELSE TaskPcs)
  BY DEF GamePcs, TaskPcs
<1>2. PcType(pc')
  BY <1>0, <1>1, DroppedType, OneStepPc DEF Reset
<1> QED BY <1>0, <1>2, NewClientTypes, WrapperType DEF Reset, ConnectionTypeOK

\* The places a task's steps lead to.
LEMMA TaskPlaces ==
  {"start", "stop", "closing", "reset", "create", "callback", "connect", "waiting",
   "consume", "blind", "done"} \subseteq TaskPcs
BY DEF TaskPcs

LEMMA TaskType ==
  ASSUME ConnectionTypeOK, NEW t \in Tasks, TaskStep(t)
  PROVE  ConnectionTypeOK'
<1>0. /\ MqttClient \in Client /\ PcType(pc) /\ queue \in Seq(Lambda)
      /\ halted \in BOOLEAN
      /\ t \in Threads /\ t # Game
  BY ThreadNames DEF ConnectionTypeOK, PcType
<1> DEFINE Moved(where) == Goto(t, where) => PcType(pc')
<1>1. \A where \in TaskPcs : Moved(where)
  BY <1>0, GotoType
<1> HIDE DEF Moved
<1>2. CASE ConnectStart(t)
  BY <1>0, <1>1, <1>2, TaskPlaces, WrapperType DEF ConnectStart, Moved
<1>3. CASE ConnectStop(t)
  <2>1. CASE Crash
    BY <1>3, <2>1, CrashType DEF ConnectStop
  <2>2. CASE StopConsuming(t, "closing") /\ UNCHANGED <<queue, halted>>
    BY <1>0, <1>3, <2>2, TaskPlaces, StopConsumingType, WrapperType DEF ConnectStop
  <2> QED BY <1>3, <2>1, <2>2 DEF ConnectStop
<1>4. CASE ConnectCreate(t)
  <2>1. PcType(pc')
    BY <1>0, <1>4, TaskPlaces, DroppedType, OneStepPc DEF ConnectCreate
  <2> QED BY <1>0, <1>4, <2>1, NewClientTypes, WrapperType DEF ConnectCreate
<1>5. CASE SetCallback(t)
  <2>1. MqttClient' \in Client
    BY <1>0, <1>5 DEF SetCallback, Client
  <2> QED BY <1>0, <1>1, <1>5, <2>1, TaskPlaces, WrapperType DEF SetCallback, Moved
<1>6. CASE AskConnect(t)
  <2>1. CASE Crash
    BY <1>6, <2>1, CrashType DEF AskConnect
  <2>2. CASE /\ MqttClient' = [MqttClient EXCEPT
                  !.connector = t,
                  !.commands = << [kind |-> "connect", by |-> t] >>]
             /\ Goto(t, "waiting")
             /\ UNCHANGED <<queue, halted>>
    <3>1. MqttClient' \in Client
      BY <1>0, <2>2, CommandTypes DEF Client
    <3> QED BY <1>0, <1>1, <1>6, <2>2, <3>1, TaskPlaces, WrapperType
            DEF AskConnect, Moved
  <2>3. CASE /\ MqttClient' = [MqttClient EXCEPT !.connector = Freed]
             /\ Goto(t, "start")
             /\ UNCHANGED <<queue, halted>>
    <3>1. MqttClient' \in Client
      BY <1>0, <2>3 DEF Client
    <3> QED BY <1>0, <1>1, <1>6, <2>3, <3>1, TaskPlaces, WrapperType
            DEF AskConnect, Moved
  <2> QED BY <1>6, <2>1, <2>2, <2>3 DEF AskConnect
<1>7. CASE StartConsuming(t)
  <2>1. CASE Crash
    BY <1>7, <2>1, CrashType DEF StartConsuming
  <2>2. CASE StopConsuming(t, "blind") /\ UNCHANGED <<queue, halted>>
    BY <1>0, <1>7, <2>2, TaskPlaces, StopConsumingType, WrapperType DEF StartConsuming
  <2> QED BY <1>7, <2>1, <2>2 DEF StartConsuming
<1>8. CASE FinishConsuming(t)
  <2>1. MqttClient' \in Client
    BY <1>0, <1>8 DEF FinishConsuming, Client
  <2> QED BY <1>0, <1>1, <1>8, <2>1, TaskPlaces, WrapperType DEF FinishConsuming, Moved
<1>9. CASE FinishConsumingStray(t)
  <2>1. CASE Crash
    BY <1>9, <2>1, CrashType DEF FinishConsumingStray
  <2>2. CASE /\ \E where \in {"start", "done"} : Goto(t, where)
             /\ UNCHANGED <<MqttClient, queue, halted>>
    BY <1>0, <1>1, <1>9, <2>2, TaskPlaces, WrapperType DEF FinishConsumingStray, Moved
  <2> QED BY <1>9, <2>1, <2>2 DEF FinishConsumingStray
<1> QED BY <1>0, <1>2, <1>3, <1>4, <1>5, <1>6, <1>7, <1>8, <1>9,
           AskDisconnectType, ResetType DEF TaskStep

LEMMA AnswerConnectType ==
  ASSUME PcType(pc), NEW where \in TaskPcs, AnswerConnect(where)
  PROVE  PcType(pc') /\ halted' \in BOOLEAN
<1>1. "waiting" \notin GamePcs
  BY DEF GamePcs
<1>2. PcType(Answered(pc, MqttClient.connector, "waiting", where))
  BY <1>1, AnsweredType
<1> QED BY <1>2 DEF AnswerConnect

LEMMA NextOrCloseType ==
  ASSUME ConnectionTypeOK, NextOrClose
  PROVE  MqttClient' \in Client /\ PcType(pc') /\ halted' \in BOOLEAN
<1>0. MqttClient \in Client /\ PcType(pc) /\ halted \in BOOLEAN
  BY DEF ConnectionTypeOK, PcType
<1>1. CASE /\ MqttClient' = [Closed EXCEPT !.commands =
                << [kind |-> "reconnect", by |-> MqttClient.connector] >>]
           /\ UNCHANGED <<pc, halted>>
  <2>1. << [kind |-> "reconnect", by |-> MqttClient.connector] >> \in Seq(Command)
    BY <1>0, CommandTypes DEF Client
  <2>2. MqttClient' \in Client
    BY <1>0, <1>1, <2>1, ClosedType DEF Client
  <2> QED BY <1>0, <1>1, <2>2
<1>2. CASE /\ MqttClient' = [Closed EXCEPT !.connector = Nobody]
           /\ AnswerConnect("start")
  <2>1. MqttClient' \in Client
    BY <1>0, <1>2, ClosedType DEF Client
  <2> QED BY <1>0, <1>2, <2>1, TaskPlaces, AnswerConnectType
<1> QED BY <1>1, <1>2 DEF NextOrClose

LEMMA SendType ==
  ASSUME ConnectionTypeOK, SendThread
  PROVE  ConnectionTypeOK'
<1>0. /\ MqttClient \in Client /\ PcType(pc) /\ queue \in Seq(Lambda)
      /\ halted \in BOOLEAN
  BY DEF ConnectionTypeOK, PcType
<1>1. MqttClient.commands # <<>> =>
        /\ Head(MqttClient.commands) \in Command
        /\ Tail(MqttClient.commands) \in Seq(Command)
  BY <1>0 DEF Client
<1>2. CASE ProcessConnect
  <2>1. MqttClient' \in Client
    BY <1>0, <1>1, <1>2 DEF ProcessConnect, Client, Command
  <2> QED BY <1>0, <1>2, <2>1, WrapperType DEF ProcessConnect
<1>3. CASE ProcessDisconnect
  <2> DEFINE told == Answered(pc, Head(MqttClient.commands).by, "awaiting", "reset")
             rest == Tail(MqttClient.commands)
  <2>1. PcType(told)
    <3>1. "reset" \in TaskPcs /\ "reset" \in GamePcs
      BY DEF TaskPcs, GamePcs
    <3> QED BY <1>0, <3>1, AnsweredType
  <2>2. PcType(Answered(told, MqttClient.connector, "waiting", "start"))
    <3>1. "start" \in TaskPcs /\ "waiting" \notin GamePcs
      BY DEF TaskPcs, GamePcs
    <3> HIDE DEF told
    <3> QED BY <2>1, <3>1, AnsweredType
  <2>3. /\ [Closed EXCEPT !.commands = rest] \in Client
        /\ [Closed EXCEPT !.commands = rest, !.connector = Nobody] \in Client
        /\ [MqttClient EXCEPT !.commands = rest] \in Client
    BY <1>0, <1>1, <1>3, ClosedType DEF ProcessDisconnect, Client
  <2>4. PcType(pc') /\ MqttClient' \in Client /\ halted' \in BOOLEAN
    BY <1>0, <1>3, <2>1, <2>2, <2>3 DEF ProcessDisconnect
  <2> QED BY <1>0, <1>3, <2>4, WrapperType DEF ProcessDisconnect
<1> QED BY <1>2, <1>3 DEF SendThread

LEMMA ReceiveType ==
  ASSUME ConnectionTypeOK, Connack \/ ConnectFails \/ ConnectionLost \/ Deliver
  PROVE  ConnectionTypeOK'
<1>0. /\ MqttClient \in Client /\ PcType(pc) /\ queue \in Seq(Lambda)
      /\ received \in Seq(Nat) /\ sent \in 0 .. MaxSent
      /\ failures \in 0 .. MaxFailures /\ losses \in 0 .. MaxLosses
      /\ unreported \in BOOLEAN /\ swallowed \in BOOLEAN /\ halted \in BOOLEAN
  BY DEF ConnectionTypeOK, PcType
<1>1. CASE Connack
  <2>1. MqttClient' \in Client
    BY <1>0, <1>1 DEF Connack, Client
  <2>2. queue' \in Seq(Lambda)
    BY <1>0, <1>1, LambdaTypes, PostType DEF Connack
  <2> QED BY <1>0, <1>1, <2>1, <2>2, TaskPlaces, AnswerConnectType, WrapperType
          DEF Connack
<1>2. CASE ConnectFails
  <2>1. MqttClient' \in Client /\ PcType(pc') /\ halted' \in BOOLEAN
    BY <1>2, NextOrCloseType DEF ConnectFails
  <2>2. failures' \in 0 .. MaxFailures
    BY <1>0, <1>2, BoundsAssumption DEF ConnectFails
  <2> QED BY <1>0, <1>2, <2>1, <2>2 DEF ConnectFails, ConnectionTypeOK, PcType
<1>3. CASE ConnectionLost
  <2>1. MqttClient' \in Client /\ PcType(pc') /\ halted' \in BOOLEAN
    BY <1>0, <1>3, NextOrCloseType, ClosedType DEF ConnectionLost
  <2>2. losses' \in 0 .. MaxLosses
    BY <1>0, <1>3, BoundsAssumption DEF ConnectionLost
  <2>3. queue' \in Seq(Lambda) /\ unreported' \in BOOLEAN
    BY <1>0, <1>3, LambdaTypes, PostType DEF ConnectionLost
  <2> QED BY <1>0, <1>3, <2>1, <2>2, <2>3 DEF ConnectionLost, ConnectionTypeOK, PcType
<1>4. CASE Deliver
  <2>1. sent' \in 0 .. MaxSent /\ sent + 1 \in Nat
    BY <1>0, <1>4, BoundsAssumption DEF Deliver
  <2>2. queue' \in Seq(Lambda) /\ swallowed' \in BOOLEAN
    BY <1>0, <1>4, <2>1, LambdaTypes, PostType DEF Deliver
  <2> QED BY <1>0, <1>4, <2>1, <2>2 DEF Deliver, ConnectionTypeOK, PcType
<1> QED BY <1>1, <1>2, <1>3, <1>4

\* What the game thread takes from the queue.
LEMMA NextLambdaType ==
  ASSUME queue \in Seq(Lambda), NEW kind, NextLambda(kind)
  PROVE  queue' \in Seq(Lambda) /\ Head(queue) \in Lambda /\ Head(queue).kind = kind
BY DEF NextLambda

LEMMA GameType ==
  ASSUME ConnectionTypeOK, GameStep
  PROVE  ConnectionTypeOK'
<1>0. /\ MqttClient \in Client /\ PcType(pc) /\ queue \in Seq(Lambda)
      /\ received \in Seq(Nat) /\ halted \in BOOLEAN
  BY DEF ConnectionTypeOK, PcType
<1>1. CASE OnConnected
  <2>1. MqttClient' \in Client
    BY <1>0, <1>1 DEF OnConnected, Client
  <2> QED BY <1>0, <1>1, <2>1, NextLambdaType, WrapperType DEF OnConnected
<1>2. CASE MessageArrived
  <2>1. Head(queue).m \in Nat /\ queue' \in Seq(Lambda)
    <3>1. Head(queue) \in Lambda /\ Head(queue).kind = "message" /\ queue' \in Seq(Lambda)
      BY <1>0, <1>2, NextLambdaType DEF MessageArrived
    <3> QED BY <3>1 DEF Lambda
  <2>2. received' \in Seq(Nat)
    BY <1>0, <1>2, <2>1 DEF MessageArrived
  <2> QED BY <1>2, <2>1, <2>2 DEF MessageArrived, ConnectionTypeOK
<1>3. CASE OnDisconnected
  <2>1. "reconnect" \in GamePcs /\ "closing" \in GamePcs
    BY DEF GamePcs
  <2>2. MqttClient' \in Client /\ PcType(pc')
    BY <1>0, <1>3, <2>1, ThreadNames, GotoType, StopConsumingType DEF OnDisconnected
  <2> QED BY <1>0, <1>3, <2>2, NextLambdaType, WrapperType DEF OnDisconnected
<1>4. CASE ConnectToServer
  <2>1. PICK t \in Tasks : pc' = [pc EXCEPT ![Game] = "idle", ![t] = "start"]
    BY <1>4 DEF ConnectToServer
  <2>2. "idle" \in GamePcs /\ "start" \in TaskPcs
    BY DEF GamePcs, TaskPcs
  <2>3. PcType(pc')
    BY <1>0, <2>1, <2>2, ThreadNames DEF PcType
  <2> QED BY <1>0, <1>4, <2>3, WrapperType DEF ConnectToServer
<1> QED BY <1>1, <1>2, <1>3, <1>4, ThreadNames, AskDisconnectType, ResetType DEF GameStep

LEMMA TypeStep == ConnectionTypeOK /\ [ConnectionNext]_connectionVars => ConnectionTypeOK'
<1> SUFFICES ASSUME ConnectionTypeOK, [ConnectionNext]_connectionVars PROVE ConnectionTypeOK'
  OBVIOUS
<1>1. CASE UNCHANGED connectionVars
  BY <1>1 DEF ConnectionTypeOK, connectionVars
<1> QED BY <1>1, TaskType, SendType, ReceiveType, GameType DEF ConnectionNext

\* Every variable keeps its type: FMqttAsyncTask, Paho's threads and the game
\* thread's handlers, whatever their interleaving.
THEOREM ConnectionTypeCorrect == ConnectionSpec => []ConnectionTypeOK
BY TypeInit, TypeStep, PTL DEF ConnectionSpec

-----------------------------------------------------------------------------
(* The queue of the game thread *)

\* Posting keeps what is ahead, and puts the new event ahead.
LEMMA PostKeeps ==
  ASSUME queue \in Seq(Lambda), NEW lambda \in Lambda, Post(lambda)
  PROVE  /\ Ahead(lambda.kind)'
         /\ \A kind : Ahead(kind) => Ahead(kind)'
<1>1. /\ Len(queue') = Len(queue) + 1
      /\ queue'[Len(queue) + 1] = lambda
      /\ \A i \in 1 .. Len(queue) : queue'[i] = queue[i]
      /\ Len(queue) \in Nat
  BY DEF Post
<1> QED BY <1>1 DEF Ahead

\* Taking an event of one kind leaves the events of every other kind ahead.
LEMMA NextLambdaKeeps ==
  ASSUME queue \in Seq(Lambda), NEW kind, NEW other, other # kind,
         NextLambda(kind), Ahead(other)
  PROVE  Ahead(other)'
<1>1. PICK i \in 1 .. Len(queue) : queue[i].kind = other
  BY DEF Ahead
<1>2. i # 1
  BY <1>1 DEF NextLambda
<1>3. i - 1 \in 1 .. Len(queue') /\ queue'[i - 1] = queue[i]
  BY <1>1, <1>2 DEF NextLambda
<1> QED BY <1>1, <1>3 DEF Ahead

-----------------------------------------------------------------------------
(* The subscription *)

\* An announced connection waits for its subscription.
Unsubscribed == Connected /\ MqttClient.announced /\ ~MqttClient.subscribed

\* A step that neither brings up such a connection nor takes a connected event.
LEMMA SubscribeKept ==
  ASSUME SubscribeUnderWay, Unsubscribed' => Unsubscribed,
         Ahead("connected") => Ahead("connected")'
  PROVE  SubscribeUnderWay'
BY DEF SubscribeUnderWay, Unsubscribed

\* Tasks and the game thread change the pointer, callbacks and commands only.
LEMMA StopConsumingSubscribed ==
  ASSUME MqttClient \in Client, NEW w, NEW next, StopConsuming(w, next)
  PROVE  Unsubscribed' => Unsubscribed
BY DEF StopConsuming, Unsubscribed, Connected, Client

LEMMA AskDisconnectSubscribed ==
  ASSUME MqttClient \in Client, NEW w, AskDisconnect(w)
  PROVE  (Unsubscribed' => Unsubscribed) /\ UNCHANGED queue
BY DEF AskDisconnect, Crash, Unsubscribed, Connected, Client

LEMMA ResetSubscribed ==
  ASSUME NEW w, Reset(w)
  PROVE  ~Unsubscribed' /\ UNCHANGED queue
BY DEF Reset, Unsubscribed, Connected, NoClient, NewClient

LEMMA TaskSubscribed ==
  ASSUME MqttClient \in Client, NEW t \in Tasks, TaskStep(t)
  PROVE  (Unsubscribed' => Unsubscribed) /\ UNCHANGED queue
<1>1. CASE ConnectStart(t) \/ FinishConsumingStray(t)
  BY <1>1 DEF ConnectStart, FinishConsumingStray, Crash, Unsubscribed, Connected
<1>2. CASE ConnectStop(t) \/ StartConsuming(t)
  BY <1>2, StopConsumingSubscribed
     DEF ConnectStop, StartConsuming, Crash, Unsubscribed, Connected
<1>3. CASE ConnectCreate(t)
  BY <1>3 DEF ConnectCreate, Unsubscribed, Connected, NewClient
<1>4. CASE SetCallback(t)
  BY <1>4 DEF SetCallback, Unsubscribed, Connected, Client
<1>5. CASE AskConnect(t)
  BY <1>5 DEF AskConnect, Crash, Unsubscribed, Connected, Client
<1>6. CASE FinishConsuming(t)
  BY <1>6 DEF FinishConsuming, Unsubscribed, Connected, Client
<1> QED BY <1>1, <1>2, <1>3, <1>4, <1>5, <1>6, AskDisconnectSubscribed,
           ResetSubscribed DEF TaskStep

LEMMA SubscribeStep ==
  ASSUME ConnectionTypeOK, SubscribeUnderWay, [ConnectionNext]_connectionVars
  PROVE  SubscribeUnderWay'
<1>0. MqttClient \in Client /\ queue \in Seq(Lambda)
  BY DEF ConnectionTypeOK
<1>1. CASE UNCHANGED connectionVars
  BY <1>1 DEF connectionVars, SubscribeUnderWay, Connected, Ahead
<1>2. ASSUME NEW t \in Tasks, TaskStep(t) PROVE SubscribeUnderWay'
  BY <1>0, <1>2, TaskSubscribed, SubscribeKept DEF Ahead
<1>3. CASE SendThread
  <2>1. (Unsubscribed' => Unsubscribed) /\ UNCHANGED queue
    BY <1>0, <1>3, ClosedType
       DEF SendThread, ProcessConnect, ProcessDisconnect, Unsubscribed, Connected,
           Connecting, Client
  <2> QED BY <2>1, SubscribeKept DEF Ahead
<1>4. CASE Connack
  <2>1. CASE MqttClient.listener
    BY <1>0, <1>4, <2>1, LambdaTypes, PostKeeps DEF Connack, SubscribeUnderWay
  <2>2. CASE ~MqttClient.listener
    BY <1>0, <1>4, <2>2 DEF Connack, SubscribeUnderWay, Client
  <2> QED BY <2>1, <2>2
<1>5. CASE ConnectFails \/ ConnectionLost
  <2>1. ~Connected'
    BY <1>0, <1>5, ClosedType
       DEF ConnectFails, ConnectionLost, NextOrClose, Connected, Client
  <2> QED BY <2>1 DEF SubscribeUnderWay
<1>6. CASE Deliver
  <2>1. Unsubscribed' => Unsubscribed
    BY <1>6 DEF Deliver, Unsubscribed, Connected
  <2>2. [kind |-> "message", m |-> sent + 1] \in Lambda
    BY LambdaTypes DEF ConnectionTypeOK
  <2>3. Ahead("connected") => Ahead("connected")'
    BY <1>0, <1>6, <2>2, PostKeeps DEF Deliver, Ahead
  <2> QED BY <2>1, <2>3, SubscribeKept
<1>7. CASE GameStep
  <2>1. CASE OnConnected
    BY <1>0, <2>1 DEF OnConnected, SubscribeUnderWay, Connected, Client
  <2>2. CASE MessageArrived
    BY <1>0, <2>2, NextLambdaKeeps, SubscribeKept
       DEF MessageArrived, Unsubscribed, Connected
  <2>3. CASE OnDisconnected
    <3>1. Unsubscribed' => Unsubscribed
      BY <1>0, <2>3, StopConsumingSubscribed DEF OnDisconnected, Unsubscribed, Connected
    <3> QED BY <1>0, <2>3, <3>1, NextLambdaKeeps, SubscribeKept DEF OnDisconnected
  <2>4. CASE ConnectToServer
    BY <2>4, SubscribeKept DEF ConnectToServer, Unsubscribed, Connected, Ahead
  <2>5. CASE AskDisconnect(Game)
    BY <1>0, <2>5, AskDisconnectSubscribed, SubscribeKept DEF Ahead
  <2>6. CASE Reset(Game)
    BY <2>6, ResetSubscribed DEF SubscribeUnderWay, Unsubscribed
  <2> QED BY <1>7, <2>1, <2>2, <2>3, <2>4, <2>5, <2>6 DEF GameStep
<1> QED BY <1>1, <1>2, <1>3, <1>4, <1>5, <1>6, <1>7 DEF ConnectionNext

\* The subscription AMqttManager::OnConnected makes, once and on whichever
\* client is current, is never missed: an announced connection without one has
\* a connected event ahead.
THEOREM SubscribeCorrect == ConnectionSpec => []SubscribeUnderWay
<1>1. ConnectionInit => SubscribeUnderWay
  BY DEF ConnectionInit, SubscribeUnderWay, Connected, NoClient, NewClient
<1> QED BY <1>1, SubscribeStep, ConnectionTypeCorrect, PTL DEF ConnectionSpec

-----------------------------------------------------------------------------
(* The queue of the send thread *)

\* Every thread that awaits a DISCONNECT still does.
Awaits(p, q) == \A u \in Threads : p[u] = "awaiting" => q[u] = "awaiting"

\* A step that leaves the queue, and does not hand m->connect to another thread.
LEMMA FitKept ==
  ASSUME CommandsFit, MqttClient'.commands = MqttClient.commands,
         MqttClient'.connector \in {MqttClient.connector, Freed, Nobody},
         MqttClient'.state = "null" => Null, Awaits(pc, pc')
  PROVE  CommandsFit'
BY DEF CommandsFit, Null, Awaits

LEMMA FitEmpty ==
  ASSUME MqttClient'.commands = <<>>
  PROVE  CommandsFit'
<1>1. 1 .. Len(MqttClient'.commands) = {}
  OBVIOUS
<1> QED BY <1>1 DEF CommandsFit

LEMMA GotoAwaits ==
  ASSUME PcType(pc), NEW w \in Threads, NEW where, Goto(w, where),
         pc[w] # "awaiting"
  PROVE  Awaits(pc, pc')
BY DEF PcType, Goto, Awaits

LEMMA AnsweredAwaits ==
  ASSUME NEW p, PcType(p), NEW w, NEW where
  PROVE  Awaits(p, Answered(p, w, "waiting", where))
BY DEF PcType, Answered, Awaits

LEMMA StopConsumingFit ==
  ASSUME CommandsFit, MqttClient \in Client, PcType(pc), NEW w \in Threads,
         pc[w] # "awaiting", NEW next, StopConsuming(w, next)
  PROVE  CommandsFit'
<1>1. Awaits(pc, pc')
  BY GotoAwaits DEF StopConsuming
<1>2. /\ MqttClient'.commands = MqttClient.commands
      /\ MqttClient'.connector = MqttClient.connector
      /\ MqttClient'.state = MqttClient.state
  BY DEF StopConsuming, Client
<1> QED BY <1>1, <1>2, FitKept DEF Null

\* The DISCONNECT goes behind the others, and is the only one its thread awaits.
LEMMA AskDisconnectFit ==
  ASSUME CommandsFit, MqttClient \in Client, PcType(pc), NEW w \in Threads,
         AskDisconnect(w)
  PROVE  CommandsFit'
<1>0. pc[w] = "closing"
  BY DEF AskDisconnect
<1>1. CASE Crash
  BY <1>1, FitKept DEF Crash, Null, Awaits
<1>2. CASE Goto(w, AfterFailure(w)) /\ UNCHANGED <<MqttClient, queue, halted>>
  BY <1>0, <1>2, GotoAwaits, FitKept DEF Null
<1>3. CASE /\ Connected
           /\ MqttClient' = [MqttClient EXCEPT
                !.commands = Append(@, [kind |-> "disconnect", by |-> w])]
           /\ Goto(w, "awaiting")
  <2> DEFINE n == Len(MqttClient.commands)
             cs == MqttClient'.commands
  <2>1. MqttClient.commands \in Seq(Command) /\ n \in Nat
    BY DEF Client
  <2>2. /\ cs = Append(MqttClient.commands, [kind |-> "disconnect", by |-> w])
        /\ MqttClient'.connector = MqttClient.connector
        /\ MqttClient'.state = "connected"
    BY <1>3 DEF Client, Connected
  <2>3. /\ Len(cs) = n + 1
        /\ \A i \in 1 .. n : cs[i] = MqttClient.commands[i]
        /\ cs[n + 1] = [kind |-> "disconnect", by |-> w]
        /\ cs # <<>>
    BY <2>1, <2>2
  <2>4. Awaits(pc, pc') /\ pc'[w] = "awaiting"
    BY <1>0, <1>3, GotoAwaits DEF Goto, PcType
  <2> DEFINE Ds == {i \in 1 .. n : MqttClient.commands[i].kind = "disconnect"}
             Dt == {i \in 1 .. n + 1 : cs[i].kind = "disconnect"}
  <2>5. /\ \A i \in 1 .. n : i > 1 => i \in Ds
        /\ \A i \in Ds :
             /\ MqttClient.commands[i].by \in Threads
             /\ pc[MqttClient.commands[i].by] = "awaiting"
             /\ \A j \in Ds : MqttClient.commands[i].by = MqttClient.commands[j].by
                               => i = j
        /\ MqttClient.commands # <<>> /\ 1 \notin Ds
             => MqttClient.connector \in {MqttClient.commands[1].by, Freed, Nobody}
    BY DEF CommandsFit
  <2>6. Dt = Ds \cup {n + 1}
    BY <2>1, <2>3
  <2> HIDE DEF cs, n, Ds
  <2>7. \A i \in 1 .. n + 1 : i > 1 => i \in Dt
    BY <2>1, <2>5, <2>6
  <2>8. \A i \in Dt : /\ cs[i].by \in Threads /\ pc'[cs[i].by] = "awaiting"
                      /\ i # n + 1 => i \in Ds /\ cs[i].by # w
    <3> SUFFICES ASSUME NEW i \in Dt
                 PROVE  /\ cs[i].by \in Threads /\ pc'[cs[i].by] = "awaiting"
                        /\ i # n + 1 => i \in Ds /\ cs[i].by # w
      OBVIOUS
    <3>1. CASE i = n + 1
      BY <2>3, <2>4, <3>1
    <3>2. CASE i \in Ds
      <4>1. i \in 1 .. n
        BY <3>2 DEF Ds
      <4>2. cs[i] = MqttClient.commands[i]
        BY <2>3, <4>1
      <4> QED BY <1>0, <2>4, <2>5, <3>2, <4>2 DEF Awaits
    <3> QED BY <2>6, <3>1, <3>2
  <2>9. \A i, j \in Dt : cs[i].by = cs[j].by => i = j
    <3> SUFFICES ASSUME NEW i \in Dt, NEW j \in Dt, cs[i].by = cs[j].by
                 PROVE  i = j
      OBVIOUS
    <3>1. CASE i = n + 1 \/ j = n + 1
      BY <2>3, <2>8, <3>1
    <3>2. CASE i \in Ds /\ j \in Ds
      BY <2>3, <2>5, <3>2 DEF Ds
    <3> QED BY <2>6, <3>1, <3>2
  <2>10. 1 \notin Dt => MqttClient'.connector \in {cs[1].by, Freed, Nobody}
    <3>1. 1 \notin Dt => MqttClient.commands # <<>> /\ 1 \notin Ds /\ 1 \in 1 .. n
      BY <2>1, <2>3, <2>6 DEF n
    <3> QED BY <2>2, <2>3, <2>5, <3>1
  <2>11. Dt = {i \in 1 .. Len(cs) : cs[i].kind = "disconnect"}
    BY <2>3
  <2> HIDE DEF Dt
  <2> QED BY <2>2, <2>3, <2>7, <2>8, <2>9, <2>10, <2>11 DEF CommandsFit, Null, cs
<1> QED BY <1>1, <1>2, <1>3 DEF AskDisconnect

\* The send thread takes a command: DISCONNECTs remain, all still awaited.
LEMMA TailFit ==
  ASSUME CommandsFit, MqttClient \in Client, MqttClient.commands # <<>>,
         MqttClient'.commands = Tail(MqttClient.commands),
         MqttClient'.state # "null",
         \A u \in Threads :
           /\ pc[u] = "awaiting"
           /\ Head(MqttClient.commands).kind = "disconnect"
                => u # Head(MqttClient.commands).by
           => pc'[u] = "awaiting"
  PROVE  CommandsFit'
<1> DEFINE cs == MqttClient.commands
           n == Len(cs)
           ts == MqttClient'.commands
           Ds == {i \in 1 .. n : cs[i].kind = "disconnect"}
<1>1. /\ cs \in Seq(Command) /\ n \in Nat /\ n > 0 /\ 1 \in 1 .. n
      /\ Len(ts) = n - 1
      /\ \A i \in 1 .. n - 1 : ts[i] = cs[i + 1]
      /\ Head(cs) = cs[1]
  BY DEF Client
<1>2. /\ \A i \in 1 .. n : i > 1 => i \in Ds
      /\ \A i \in Ds : /\ cs[i].by \in Threads /\ pc[cs[i].by] = "awaiting"
                       /\ \A j \in Ds : cs[i].by = cs[j].by => i = j
  BY DEF CommandsFit
<1>3. \A i \in 1 .. n - 1 : /\ i + 1 \in Ds /\ ts[i] = cs[i + 1]
                            /\ ts[i].kind = "disconnect"
  BY <1>1, <1>2
<1>4. \A i \in 1 .. n - 1 : ts[i].by \in Threads /\ pc'[ts[i].by] = "awaiting"
  <2> SUFFICES ASSUME NEW i \in 1 .. n - 1
               PROVE  ts[i].by \in Threads /\ pc'[ts[i].by] = "awaiting"
    OBVIOUS
  <2>1. /\ i + 1 \in Ds /\ i + 1 # 1 /\ ts[i].by = cs[i + 1].by
    BY <1>1, <1>3
  <2>2. Head(cs).kind = "disconnect" => 1 \in Ds
    BY <1>1
  <2>3. Head(cs).kind = "disconnect" => ts[i].by # Head(cs).by
    BY <1>1, <1>2, <2>1, <2>2
  <2> QED BY <1>2, <2>1, <2>3
<1>5. \A i, j \in 1 .. n - 1 : ts[i].by = ts[j].by => i = j
  <2> SUFFICES ASSUME NEW i \in 1 .. n - 1, NEW j \in 1 .. n - 1, ts[i].by = ts[j].by
               PROVE  i = j
    OBVIOUS
  <2>1. i + 1 = j + 1
    BY <1>2, <1>3
  <2> QED BY <1>1, <2>1
<1>6. ts # <<>> => 1 \in 1 .. n - 1
  <2>1. ts \in Seq(Command) /\ Len(ts) \in Nat
    BY <1>1
  <2> HIDE DEF ts
  <2>2. ts # <<>> => Len(ts) # 0
    BY <2>1
  <2> QED BY <1>1, <2>1, <2>2
<1> HIDE DEF Ds
<1> QED BY <1>1, <1>3, <1>4, <1>5, <1>6 DEF CommandsFit, Null

LEMMA SendFit ==
  ASSUME ConnectionTypeOK, CommandsFit, SendThread
  PROVE  CommandsFit'
<1>0. /\ MqttClient \in Client /\ PcType(pc)
      /\ MqttClient.commands # <<>> /\ MqttClient.state # "null"
  BY DEF ConnectionTypeOK, PcType, SendThread, ProcessConnect, ProcessDisconnect, CommandsFit, Null
<1>1. CASE ProcessConnect
  <2>1. /\ MqttClient'.commands = Tail(MqttClient.commands)
        /\ MqttClient'.state # "null" /\ pc' = pc
    BY <1>0, <1>1 DEF ProcessConnect, Client
  <2> QED BY <1>0, <2>1, TailFit
<1>2. CASE ProcessDisconnect
  <2>1. /\ MqttClient'.commands = Tail(MqttClient.commands)
        /\ MqttClient'.state # "null"
    BY <1>0, <1>2, ClosedType DEF ProcessDisconnect, Client
  <2> DEFINE by == Head(MqttClient.commands).by
             told == Answered(pc, by, "awaiting", "reset")
  <2>2. \A u \in Threads : pc[u] = "awaiting" /\ u # by => told[u] = "awaiting"
    BY <1>0 DEF Answered, PcType
  <2>3. Awaits(told, Answered(told, MqttClient.connector, "waiting", "start"))
    <3>1. PcType(told)
      <4>1. "reset" \in TaskPcs /\ "reset" \in GamePcs
        BY DEF TaskPcs, GamePcs
      <4> QED BY <1>0, <4>1, AnsweredType
    <3> HIDE DEF told
    <3> QED BY <3>1, AnsweredAwaits
  <2>4. pc' \in {pc, told, Answered(told, MqttClient.connector, "waiting", "start")}
    BY <1>2 DEF ProcessDisconnect
  <2>5. \A u \in Threads : pc[u] = "awaiting" /\ u # by => pc'[u] = "awaiting"
    <3> HIDE DEF told
    <3> QED BY <2>2, <2>3, <2>4 DEF Awaits
  <2>6. Head(MqttClient.commands).kind = "disconnect"
    BY <1>2 DEF ProcessDisconnect
  <2> QED BY <1>0, <2>1, <2>5, <2>6, TailFit
<1> QED BY <1>1, <1>2 DEF SendThread

LEMMA TaskFit ==
  ASSUME ConnectionTypeOK, CommandsFit, NEW t \in Tasks, TaskStep(t)
  PROVE  CommandsFit'
<1>0. MqttClient \in Client /\ PcType(pc) /\ t \in Threads
  BY ThreadNames DEF ConnectionTypeOK, PcType
<1>1. ASSUME UNCHANGED MqttClient, pc[t] # "awaiting", NEW where, Goto(t, where)
      PROVE  CommandsFit'
  BY <1>0, <1>1, GotoAwaits, FitKept DEF Null
<1>2. ASSUME Crash PROVE CommandsFit'
  BY <1>2, FitKept DEF Crash, Null, Awaits
<1>3. CASE ConnectStart(t)
  BY <1>1, <1>3 DEF ConnectStart
<1>4. CASE ConnectStop(t) \/ StartConsuming(t)
  BY <1>0, <1>2, <1>4, StopConsumingFit DEF ConnectStop, StartConsuming
<1>5. CASE Reset(t) \/ ConnectCreate(t)
  BY <1>5, FitEmpty DEF Reset, ConnectCreate, NoClient, NewClient
<1>6. CASE SetCallback(t)
  <2>1. /\ MqttClient'.commands = MqttClient.commands
        /\ MqttClient'.connector = MqttClient.connector
        /\ MqttClient'.state = MqttClient.state
    BY <1>0, <1>6 DEF SetCallback, Client
  <2>2. Awaits(pc, pc')
    BY <1>0, <1>6, GotoAwaits DEF SetCallback
  <2> QED BY <2>1, <2>2, FitKept DEF Null
<1>7. CASE AskConnect(t)
  <2>1. CASE Crash
    BY <1>2, <2>1
  <2>2. CASE /\ ~Null
             /\ MqttClient' = [MqttClient EXCEPT
                  !.connector = t,
                  !.commands = << [kind |-> "connect", by |-> t] >>]
    <3>1. /\ MqttClient'.connector = t
          /\ MqttClient'.commands = << [kind |-> "connect", by |-> t] >>
          /\ MqttClient'.state # "null"
      BY <1>0, <2>2 DEF Client, Null
    <3>2. \A i : i \in 1 .. Len(MqttClient'.commands) <=> i = 1
      BY <3>1
    <3>3. MqttClient'.commands[1].kind = "connect" /\ MqttClient'.commands[1].by = t
      BY <3>1
    <3> QED BY <3>1, <3>2, <3>3 DEF CommandsFit, Null
  <2>3. CASE /\ MqttClient' = [MqttClient EXCEPT !.connector = Freed]
             /\ Goto(t, "start")
    <3>1. /\ MqttClient'.connector = Freed
          /\ MqttClient'.commands = MqttClient.commands
          /\ MqttClient'.state = MqttClient.state
      BY <1>0, <2>3 DEF Client
    <3>2. Awaits(pc, pc')
      BY <1>0, <1>7, <2>3, GotoAwaits DEF AskConnect
    <3> QED BY <3>1, <3>2, FitKept DEF Null
  <2> QED BY <1>7, <2>1, <2>2, <2>3 DEF AskConnect
<1>8. CASE FinishConsuming(t)
  <2>1. /\ MqttClient'.commands = MqttClient.commands
        /\ MqttClient'.connector = MqttClient.connector
        /\ MqttClient'.state = MqttClient.state
    BY <1>0, <1>8 DEF FinishConsuming, Client
  <2>2. Awaits(pc, pc')
    BY <1>0, <1>8, GotoAwaits DEF FinishConsuming
  <2> QED BY <2>1, <2>2, FitKept DEF Null
<1>9. CASE FinishConsumingStray(t)
  BY <1>1, <1>2, <1>9 DEF FinishConsumingStray
<1> QED BY <1>0, <1>3, <1>4, <1>5, <1>6, <1>7, <1>8, <1>9, AskDisconnectFit DEF TaskStep

LEMMA ReceiveFit ==
  ASSUME ConnectionTypeOK, CommandsFit, Connack \/ ConnectFails \/ ConnectionLost \/ Deliver
  PROVE  CommandsFit'
<1>0. MqttClient \in Client /\ PcType(pc)
  BY DEF ConnectionTypeOK, PcType
<1>1. \A where : AnswerConnect(where) => Awaits(pc, pc')
  BY <1>0, AnsweredAwaits DEF AnswerConnect
<1>2. CASE Connack
  <2>1. /\ MqttClient'.commands = MqttClient.commands
        /\ MqttClient'.connector = Nobody
        /\ MqttClient'.state # "null"
    BY <1>0, <1>2 DEF Connack, Client
  <2> QED BY <1>1, <1>2, <2>1, FitKept DEF Connack
<1>3. ASSUME NextOrClose PROVE CommandsFit'
  <2>1. CASE MqttClient' = [Closed EXCEPT !.commands =
                << [kind |-> "reconnect", by |-> MqttClient.connector] >>]
    <3> DEFINE c == [kind |-> "reconnect", by |-> MqttClient.connector]
    <3>1. /\ MqttClient'.connector = MqttClient.connector
          /\ MqttClient'.commands = << c >>
          /\ MqttClient'.state # "null"
      BY <1>0, <2>1, ClosedType DEF Client
    <3>2. \A i : i \in 1 .. Len(MqttClient'.commands) <=> i = 1
      BY <3>1
    <3>3. /\ MqttClient'.commands[1].kind = "reconnect"
          /\ MqttClient'.commands[1].by = MqttClient.connector
      BY <3>1
    <3> QED BY <3>1, <3>2, <3>3 DEF CommandsFit, Null
  <2>2. CASE /\ MqttClient' = [Closed EXCEPT !.connector = Nobody]
             /\ AnswerConnect("start")
    <3>1. /\ MqttClient'.commands = MqttClient.commands
          /\ MqttClient'.connector = Nobody
          /\ MqttClient'.state # "null"
      BY <1>0, <2>2, ClosedType DEF Client
    <3> QED BY <1>1, <2>2, <3>1, FitKept
  <2> QED BY <1>3, <2>1, <2>2 DEF NextOrClose
<1>4. ASSUME MqttClient.commands = <<>>, MqttClient' = Closed PROVE CommandsFit'
  BY <1>0, <1>4, ClosedType, FitEmpty
<1>5. CASE Deliver
  BY <1>5, FitKept DEF Deliver, Null, Awaits
<1> QED BY <1>2, <1>3, <1>4, <1>5 DEF ConnectFails, ConnectionLost

LEMMA GameFit ==
  ASSUME ConnectionTypeOK, CommandsFit, GameStep
  PROVE  CommandsFit'
<1>0. MqttClient \in Client /\ PcType(pc) /\ Game \in Threads
  BY ThreadNames DEF ConnectionTypeOK, PcType
<1>1. CASE OnConnected
  <2>1. /\ MqttClient'.commands = MqttClient.commands
        /\ MqttClient'.connector = MqttClient.connector
        /\ MqttClient'.state = MqttClient.state
    BY <1>0, <1>1 DEF OnConnected, Client
  <2> QED BY <1>1, <2>1, FitKept DEF OnConnected, Null, Awaits
<1>2. CASE MessageArrived
  BY <1>2, FitKept DEF MessageArrived, Null, Awaits
<1>3. CASE OnDisconnected
  <2>1. pc[Game] # "awaiting"
    BY <1>3 DEF OnDisconnected, NextLambda
  <2>2. ASSUME Goto(Game, "reconnect"), UNCHANGED MqttClient PROVE CommandsFit'
    BY <1>0, <2>1, <2>2, GotoAwaits, FitKept DEF Null
  <2> QED BY <1>0, <1>3, <2>1, <2>2, StopConsumingFit DEF OnDisconnected
<1>4. CASE ConnectToServer
  <2>1. Awaits(pc, pc')
    BY <1>0, <1>4, ThreadNames DEF ConnectToServer, Awaits, PcType
  <2> QED BY <1>4, <2>1, FitKept DEF ConnectToServer, Null
<1>5. CASE Reset(Game)
  BY <1>5, FitEmpty DEF Reset, NoClient, NewClient
<1> QED BY <1>0, <1>1, <1>2, <1>3, <1>4, <1>5, AskDisconnectFit DEF GameStep

LEMMA FitStep ==
  ASSUME ConnectionTypeOK, CommandsFit, [ConnectionNext]_connectionVars
  PROVE  CommandsFit'
<1>1. CASE UNCHANGED connectionVars
  BY <1>1 DEF connectionVars, CommandsFit, Null
<1> QED BY <1>1, TaskFit, SendFit, ReceiveFit, GameFit DEF ConnectionNext

-----------------------------------------------------------------------------
(* The reconnection *)

DrivePlaces ==
  {"start", "stop", "closing", "reset", "create", "callback", "connect"}

\* A task that has come to a place it drives from.
LEMMA Drives ==
  ASSUME NEW t \in Tasks, pc'[t] \in DrivePlaces
  PROVE  Driven'
BY DEF DrivePlaces, Driven, Driving

LEMMA GotoDrives ==
  ASSUME PcType(pc), NEW t \in Tasks, NEW where \in DrivePlaces, Goto(t, where)
  PROVE  Driven'
<1>1. pc'[t] = where
  BY ThreadNames DEF Goto, PcType
<1> QED BY <1>1, Drives

\* A step that moves only tasks that do not drive, and leaves the session and
\* the commands, keeps the reconnection driven.
LEMMA DrivenKept ==
  ASSUME Driven,
         \A u \in Threads : pc'[u] = pc[u] \/ (u \in Tasks /\ ~Driving(u)),
         MqttClient'.state = MqttClient.state,
         MqttClient'.commands = MqttClient.commands,
         MqttClient'.connector = MqttClient.connector,
         halted => halted', unreported => unreported',
         Ahead("lost") => Ahead("lost")'
  PROVE  Driven'
<1>1. ASSUME NEW u \in Tasks, Driving(u) PROVE Driving(u)'
  <2>1. pc'[u] = pc[u]
    BY <1>1, ThreadNames
  <2> QED BY <1>1, <2>1 DEF Driving, Queued, Connecting
<1>2. pc'[Game] = pc[Game]
  BY ThreadNames
<1> QED BY <1>1, <1>2 DEF Driven, Connected

\* The CONNECT of a waiting thread is in front, and m->connect answers no
\* other thread.
LEMMA QueuedInFront ==
  ASSUME CommandsFit, MqttClient \in Client, NEW u \in Threads,
         pc[u] = "waiting", Queued(u)
  PROVE  /\ MqttClient.commands # <<>>
         /\ Head(MqttClient.commands).by = u
         /\ Head(MqttClient.commands).kind # "disconnect"
<1>1. PICK i \in 1 .. Len(MqttClient.commands) : MqttClient.commands[i].by = u
  BY DEF Queued
<1>2. MqttClient.commands[i].kind # "disconnect"
  BY <1>1 DEF CommandsFit
<1>3. i = 1
  BY <1>1, <1>2 DEF CommandsFit, Client
<1> QED BY <1>1, <1>2, <1>3 DEF Client

LEMMA TaskDriven ==
  ASSUME ConnectionTypeOK, Driven, ~halted, NEW t \in Tasks, TaskStep(t)
  PROVE  Driven'
<1>0. MqttClient \in Client /\ PcType(pc) /\ t \in Threads /\ t # Game
  BY ThreadNames DEF ConnectionTypeOK, PcType
<1> DEFINE Falls == Goto(t, AfterFailure(t))
<1>1. ASSUME Falls PROVE Driven'
  BY <1>0, <1>1, GotoDrives DEF AfterFailure, DrivePlaces
<1>2. ASSUME Crash PROVE Driven'
  BY <1>2 DEF Crash, Driven
<1> HIDE DEF Falls
<1>3. ASSUME pc[t] \in {"consume", "blind", "stray"}, NEW where, Goto(t, where),
             UNCHANGED <<queue, halted, Events>>,
             MqttClient'.state = MqttClient.state,
             MqttClient'.commands = MqttClient.commands,
             MqttClient'.connector = MqttClient.connector
      PROVE  Driven'
  <2>1. ~Driving(t)
    BY <1>3 DEF Driving
  <2>2. \A u \in Threads : pc'[u] = pc[u] \/ (u \in Tasks /\ ~Driving(u))
    BY <1>0, <1>3, <2>1 DEF Goto, PcType
  <2>3. unreported' = unreported /\ (Ahead("lost") => Ahead("lost")')
    BY <1>3 DEF Events, Ahead
  <2> QED BY <1>3, <2>2, <2>3, DrivenKept
<1>4. CASE ConnectStart(t)
  BY <1>0, <1>4, GotoDrives DEF ConnectStart, DrivePlaces
<1>5. CASE ConnectStop(t)
  BY <1>0, <1>1, <1>2, <1>5, GotoDrives
     DEF ConnectStop, StopConsuming, DrivePlaces, Falls
<1>6. CASE AskDisconnect(t)
  <2>1. CASE Connected /\ MqttClient' = [MqttClient EXCEPT
               !.commands = Append(@, [kind |-> "disconnect", by |-> t])]
    BY <1>0, <2>1 DEF Driven, Connected, Client
  <2> QED BY <1>1, <1>2, <1>6, <2>1 DEF AskDisconnect, Falls
<1>7. CASE Reset(t) \/ ConnectCreate(t)
  <2>1. pc'[t] \in {"create", "callback"}
    BY <1>0, <1>7 DEF Reset, ConnectCreate, Dropped
  <2> QED BY <2>1, Drives DEF DrivePlaces
<1>8. CASE SetCallback(t)
  BY <1>0, <1>8, GotoDrives DEF SetCallback, DrivePlaces
<1>9. CASE AskConnect(t)
  <2>1. CASE /\ MqttClient' = [MqttClient EXCEPT
                  !.connector = t,
                  !.commands = << [kind |-> "connect", by |-> t] >>]
             /\ Goto(t, "waiting")
    <3>1. pc'[t] = "waiting"
      BY <1>0, <2>1 DEF Goto, PcType
    <3>2. MqttClient'.commands = << [kind |-> "connect", by |-> t] >>
      BY <1>0, <2>1 DEF Client
    <3>3. 1 \in 1 .. Len(MqttClient'.commands) /\ MqttClient'.commands[1].by = t
      BY <3>2
    <3> QED BY <3>1, <3>3 DEF Driven, Driving, Queued
  <2>2. CASE Goto(t, "start")
    BY <1>0, <2>2, GotoDrives DEF DrivePlaces
  <2> QED BY <1>2, <1>9, <2>1, <2>2 DEF AskConnect
<1>10. CASE StartConsuming(t)
  <2>1. CASE ~Connecting /\ StopConsuming(t, "blind") /\ UNCHANGED <<queue, halted>>
    <3>1. /\ MqttClient'.state = MqttClient.state
          /\ MqttClient'.commands = MqttClient.commands
          /\ MqttClient'.connector = MqttClient.connector
      BY <1>0, <2>1 DEF StopConsuming, Client
    <3> QED BY <1>3, <1>10, <2>1, <3>1 DEF StartConsuming, StopConsuming
  <2>2. CASE Connecting /\ StopConsuming(t, "blind")
    BY <1>1, <2>2 DEF StopConsuming, Falls
  <2> QED BY <1>2, <1>10, <2>1, <2>2 DEF StartConsuming
<1>11. CASE FinishConsuming(t)
  <2>1. /\ MqttClient'.state = MqttClient.state
        /\ MqttClient'.commands = MqttClient.commands
        /\ MqttClient'.connector = MqttClient.connector
    BY <1>0, <1>11 DEF FinishConsuming, Client
  <2> QED BY <1>3, <1>11, <2>1 DEF FinishConsuming
<1>12. CASE FinishConsumingStray(t)
  BY <1>2, <1>3, <1>12 DEF FinishConsumingStray
<1> QED BY <1>4, <1>5, <1>6, <1>7, <1>8, <1>9, <1>10, <1>11, <1>12 DEF TaskStep

\* The send thread: a CONNECT in front is that of whoever waits; a DISCONNECT
\* moves on the thread that awaits it.
LEMMA SendDriven ==
  ASSUME ConnectionTypeOK, CommandsFit, Driven, ~halted, SendThread
  PROVE  Driven'
<1>0. MqttClient \in Client /\ PcType(pc) /\ MqttClient.commands # <<>>
  BY DEF ConnectionTypeOK, PcType, SendThread, ProcessConnect, ProcessDisconnect
<1> DEFINE command == Head(MqttClient.commands)
<1>1. command = MqttClient.commands[1] /\ 1 \in 1 .. Len(MqttClient.commands)
  BY <1>0 DEF Client
<1>2. UNCHANGED <<queue, unreported>>
  BY DEF SendThread, ProcessConnect, ProcessDisconnect, Events
<1>3. CASE ProcessConnect
  <2>1. /\ command.kind # "disconnect" /\ UNCHANGED <<pc, halted>>
        /\ MqttClient'.connector = command.by
        /\ MqttClient'.state = IF MqttClient.state = "idle" THEN "connecting"
                                                           ELSE MqttClient.state
    BY <1>0, <1>3 DEF ProcessConnect, Client
  <2>2. MqttClient.connector \in {command.by, Freed, Nobody}
    BY <1>0, <1>1, <2>1 DEF CommandsFit
  <2>3. MqttClient.state \in {"idle", "connecting", "connected"}
    BY <1>0 DEF CommandsFit, Null, Client
  <2> HIDE DEF command
  <2>4. ASSUME NEW u \in Tasks, Driving(u), ~Connected PROVE Driving(u)'
    <3>1. CASE pc[u] = "waiting"
      <4>1. command.by = u
        BY <1>0, <2>2, <2>4, <3>1, ThreadNames, QueuedInFront DEF Driving, command
      <4> QED BY <2>1, <2>3, <2>4, <3>1, <4>1 DEF Driving, Connecting, Connected
    <3>2. CASE pc[u] # "waiting"
      BY <2>1, <2>4, <3>2 DEF Driving
    <3> QED BY <3>1, <3>2
  <2>5. Connected => Connected'
    BY <2>1 DEF Connected
  <2> QED BY <1>2, <2>1, <2>4, <2>5 DEF Driven, Ahead
<1>4. CASE ProcessDisconnect
  <2>0. /\ command.kind = "disconnect"
        /\ command.by \in Threads /\ pc[command.by] = "awaiting"
    BY <1>1, <1>4 DEF ProcessDisconnect, CommandsFit
  <2>1. CASE Connected \/ Connecting
    <3> DEFINE told == Answered(pc, command.by, "awaiting", "reset")
    <3>1. told[command.by] = "reset"
      BY <1>0, <2>0 DEF Answered, PcType
    <3>2. pc' = told \/ pc' = Answered(told, MqttClient.connector, "waiting", "start")
      BY <1>4, <2>1 DEF ProcessDisconnect
    <3>3. pc'[command.by] = "reset"
      <4>1. told \in [Threads -> TaskPcs \cup GamePcs \cup {"reset"}]
        BY <1>0 DEF Answered, PcType
      <4> HIDE DEF told, command
      <4> QED BY <2>0, <3>1, <3>2, <4>1 DEF Answered
    <3>4. CASE command.by = Game
      BY <3>3, <3>4 DEF Driven
    <3>5. CASE command.by \in Tasks
      BY <3>3, <3>5, Drives DEF DrivePlaces
    <3> QED BY <2>0, <3>4, <3>5, ThreadNames
  <2>2. CASE ~Connected /\ ~Connecting
    <3>1. UNCHANGED <<pc, halted>>
      BY <1>4, <2>2 DEF ProcessDisconnect
    <3>2. ASSUME NEW u \in Tasks, Driving(u) PROVE Driving(u)'
      <4>1. pc[u] # "waiting"
        BY <1>0, <2>0, <2>2, <3>2, ThreadNames, QueuedInFront DEF Driving
      <4> QED BY <3>1, <3>2, <4>1 DEF Driving
    <3> QED BY <1>2, <2>2, <3>1, <3>2 DEF Driven, Ahead
  <2> QED BY <2>1, <2>2
<1> QED BY <1>3, <1>4 DEF SendThread

\* The receive thread: what breaks a connection says so or is recorded as
\* unreported, what fails an attempt queues the next or tells who waits.
LEMMA ReceiveDriven ==
  ASSUME ConnectionTypeOK, CommandsFit, Driven, ~halted,
         Connack \/ ConnectFails \/ ConnectionLost \/ Deliver
  PROVE  Driven'
<1>0. MqttClient \in Client /\ PcType(pc) /\ queue \in Seq(Lambda)
  BY DEF ConnectionTypeOK, PcType
<1>1. CASE Connack
  BY <1>0, <1>1 DEF Connack, Driven, Connected, Client
<1>2. CASE ConnectFails
  <2>1. UNCHANGED <<queue, unreported>> /\ ~Connected
    BY <1>2 DEF ConnectFails, Connecting, Connected
  <2>2. CASE /\ MqttClient.commands = <<>>
             /\ MqttClient' = [Closed EXCEPT !.commands =
                  << [kind |-> "reconnect", by |-> MqttClient.connector] >>]
             /\ UNCHANGED <<pc, halted>>
    <3>1. MqttClient'.commands = << [kind |-> "reconnect", by |-> MqttClient.connector] >>
      BY <1>0, <2>2, ClosedType DEF Client
    <3>2. /\ 1 \in 1 .. Len(MqttClient'.commands)
          /\ MqttClient'.commands[1].by = MqttClient.connector
      BY <3>1
    <3>3. ASSUME NEW u \in Tasks, Driving(u) PROVE Driving(u)'
      <4>1. ~Queued(u)
        BY <2>2 DEF Queued
      <4> QED BY <2>2, <3>2, <3>3, <4>1 DEF Driving, Queued
    <3> QED BY <2>1, <2>2, <3>3 DEF Driven, Ahead
  <2>3. CASE /\ MqttClient' = [Closed EXCEPT !.connector = Nobody]
             /\ AnswerConnect("start")
    <3>1. MqttClient'.commands = MqttClient.commands
      BY <1>0, <2>3, ClosedType DEF Client
    <3>2. \A u \in Threads :
            \/ pc'[u] = pc[u] /\ (pc[u] = "waiting" => u # MqttClient.connector)
            \/ pc[u] = "waiting" /\ pc'[u] = "start"
      BY <1>0, <2>3 DEF AnswerConnect, Answered, PcType
    <3>3. ASSUME NEW u \in Tasks, Driving(u) PROVE Driving(u)'
      <4>1. \/ pc'[u] = pc[u] /\ (pc[u] = "waiting" => u # MqttClient.connector)
            \/ pc[u] = "waiting" /\ pc'[u] = "start"
        BY <3>2, ThreadNames
      <4> QED BY <3>1, <3>3, <4>1 DEF Driving, Queued
    <3>4. pc[Game] # "idle" => pc'[Game] # "idle"
      BY <3>2, ThreadNames
    <3> QED BY <2>1, <3>3, <3>4 DEF Driven, Ahead
  <2> QED BY <1>2, <2>2, <2>3 DEF ConnectFails, NextOrClose
<1>3. CASE ConnectionLost
  <2>1. Post([kind |-> "lost"]) => Ahead("lost")'
    BY <1>0, LambdaTypes, PostKeeps
  <2> QED BY <1>3, <2>1 DEF ConnectionLost, Driven
<1>4. CASE Deliver
  <2>1. [kind |-> "message", m |-> sent + 1] \in Lambda
    BY LambdaTypes DEF ConnectionTypeOK
  <2>2. Ahead("lost") => Ahead("lost")'
    BY <1>0, <1>4, <2>1, PostKeeps DEF Deliver, Ahead
  <2> QED BY <1>4, <2>2, DrivenKept DEF Deliver
<1> QED BY <1>1, <1>2, <1>3, <1>4

\* The game thread: whoever takes a lost event starts a task in the end.
LEMMA GameDriven ==
  ASSUME ConnectionTypeOK, Driven, ~halted, GameStep
  PROVE  Driven'
<1>0. /\ MqttClient \in Client /\ PcType(pc) /\ queue \in Seq(Lambda)
      /\ Game \in Threads
  BY ThreadNames DEF ConnectionTypeOK, PcType
<1>1. CASE OnConnected
  <2>1. /\ MqttClient'.state = MqttClient.state
        /\ MqttClient'.commands = MqttClient.commands
        /\ MqttClient'.connector = MqttClient.connector
    BY <1>0, <1>1 DEF OnConnected, Client
  <2>2. Ahead("lost") => Ahead("lost")'
    BY <1>0, <1>1, NextLambdaKeeps DEF OnConnected
  <2> QED BY <1>1, <2>1, <2>2, DrivenKept DEF OnConnected, Events
<1>2. CASE MessageArrived
  <2>1. Ahead("lost") => Ahead("lost")'
    BY <1>0, <1>2, NextLambdaKeeps DEF MessageArrived
  <2> QED BY <1>2, <2>1, DrivenKept DEF MessageArrived
<1>3. ASSUME NEW where, where # "idle", Goto(Game, where) PROVE Driven'
  BY <1>0, <1>3 DEF Goto, PcType, Driven
<1>4. AfterFailure(Game) = "reconnect"
  BY DEF AfterFailure
<1>5. CASE OnDisconnected
  BY <1>3, <1>4, <1>5 DEF OnDisconnected, StopConsuming
<1>6. CASE AskDisconnect(Game)
  BY <1>3, <1>4, <1>6 DEF AskDisconnect, Crash, Driven
<1>7. CASE Reset(Game)
  BY <1>0, <1>7 DEF Reset, Dropped, Driven
<1>8. CASE ConnectToServer
  <2>1. PICK t \in Tasks : pc' = [pc EXCEPT ![Game] = "idle", ![t] = "start"]
    BY <1>8 DEF ConnectToServer
  <2>2. pc'[t] = "start"
    BY <1>0, <2>1, ThreadNames DEF PcType
  <2> QED BY <2>2, Drives DEF DrivePlaces
<1> QED BY <1>1, <1>2, <1>5, <1>6, <1>7, <1>8 DEF GameStep

LEMMA DriverInit == ConnectionInit => DriverInv
<1>1. ConnectionInit => CommandsFit
  <2>1. ConnectionInit => MqttClient.commands = <<>> /\ 1 .. Len(MqttClient.commands) = {}
    BY DEF ConnectionInit, NoClient, NewClient
  <2> QED BY <2>1 DEF CommandsFit
<1>2. ConnectionInit => Driven
  BY ThreadNames DEF ConnectionInit, Driven, Driving
<1> QED BY <1>1, <1>2 DEF DriverInv

LEMMA DriverStep ==
  ASSUME ConnectionTypeOK, DriverInv, [ConnectionNext]_connectionVars
  PROVE  DriverInv'
<1>1. CommandsFit /\ Driven
  BY DEF DriverInv
<1>2. CASE UNCHANGED connectionVars
  BY <1>1, <1>2, FitStep, DrivenKept DEF connectionVars, Ahead, DriverInv
<1>3. CASE ConnectionNext
  BY <1>1, <1>3, FitStep, TaskDriven, SendDriven, ReceiveDriven, GameDriven
  DEF ConnectionNext, DriverInv
<1> QED BY <1>2, <1>3

\* DriverInv, the inductive invariant behind ReconnectUnderWay: FMqttAsyncTask,
\* Disconnect and Paho's queue of commands.
THEOREM DriverCorrect == ConnectionSpec => []DriverInv
BY DriverInit, DriverStep, ConnectionTypeCorrect, PTL DEF ConnectionSpec

\* From any state without a connection, some task, lambda or game-thread step
\* leads to the next attempt, unless the loss was never reported: the loop of
\* FMqttAsyncTask and OnDisconnected never both give up.
THEOREM ReconnectCorrect == ConnectionSpec => []ReconnectUnderWay
<1>1. DriverInv => ReconnectUnderWay
  <2> SUFFICES ASSUME Driven PROVE ReconnectUnderWay
    BY DEF DriverInv
  <2>1. ASSUME NEW t \in Tasks, Driving(t) PROVE Working(t)
    BY <2>1 DEF Driving, Working, Unanswered
  <2> QED BY <2>1 DEF Driven, ReconnectUnderWay
<1> QED BY <1>1, DriverCorrect, PTL

-----------------------------------------------------------------------------
(* The messages *)

\* What stands behind MessagesInOrder: the messages waiting for the game thread
\* are in the order they were sent, after those received and before those to
\* come.
MessagesFit(q, r, n) ==
  /\ \A i, j \in 1 .. Len(r) : i < j => r[i] < r[j]
  /\ \A i \in 1 .. Len(r) : r[i] <= n
  /\ \A i \in 1 .. Len(q) : q[i].kind = "message" =>
       /\ q[i].m <= n
       /\ \A j \in 1 .. Len(r) : r[j] < q[i].m
       /\ \A j \in 1 .. i - 1 : q[j].kind = "message" => q[j].m < q[i].m

MessagesInv == MessagesFit(queue, received, sent)

\* An event that is no message, at the end of the queue.
LEMMA EventFits ==
  ASSUME NEW q \in Seq(Lambda), NEW r \in Seq(Nat), NEW n \in Nat,
         MessagesFit(q, r, n), NEW e \in Lambda, e.kind # "message"
  PROVE  MessagesFit(Append(q, e), r, n)
<1> DEFINE p == Append(q, e)
<1>1. /\ Len(q) \in Nat /\ Len(p) = Len(q) + 1 /\ p[Len(q) + 1] = e
      /\ \A i \in 1 .. Len(q) : p[i] = q[i]
  OBVIOUS
<1> HIDE DEF p
<1> QED BY <1>1 DEF MessagesFit, p

\* The next message, at the end of the queue.
LEMMA MessageFits ==
  ASSUME NEW q \in Seq(Lambda), NEW r \in Seq(Nat), NEW n \in Nat,
         MessagesFit(q, r, n)
  PROVE  MessagesFit(Append(q, [kind |-> "message", m |-> n + 1]), r, n + 1)
<1> DEFINE e == [kind |-> "message", m |-> n + 1]
           p == Append(q, e)
<1>1. /\ Len(q) \in Nat /\ Len(p) = Len(q) + 1 /\ p[Len(q) + 1] = e
      /\ \A i \in 1 .. Len(q) : p[i] = q[i]
      /\ e.kind = "message" /\ e.m = n + 1
  BY LambdaTypes
<1>2. /\ \A i \in 1 .. Len(r) : r[i] \in Nat
      /\ \A i \in 1 .. Len(q) : q[i].kind = "message" => q[i].m \in Nat
  BY DEF Lambda
<1> HIDE DEF p, e
<1>3. \A i \in 1 .. Len(p) : p[i].kind = "message" =>
        /\ p[i].m <= n + 1
        /\ \A j \in 1 .. Len(r) : r[j] < p[i].m
        /\ \A j \in 1 .. i - 1 : p[j].kind = "message" => p[j].m < p[i].m
  <2> SUFFICES ASSUME NEW i \in 1 .. Len(p), p[i].kind = "message"
               PROVE  /\ p[i].m <= n + 1
                      /\ \A j \in 1 .. Len(r) : r[j] < p[i].m
                      /\ \A j \in 1 .. i - 1 : p[j].kind = "message" => p[j].m < p[i].m
    OBVIOUS
  <2>1. CASE i = Len(q) + 1
    <3>1. p[i] = e /\ \A j \in 1 .. i - 1 : j \in 1 .. Len(q)
      BY <1>1, <2>1
    <3>2. \A j \in 1 .. Len(q) : q[j].kind = "message" => q[j].m < n + 1
      BY <1>2 DEF MessagesFit
    <3>3. \A j \in 1 .. Len(r) : r[j] < n + 1
      BY <1>2 DEF MessagesFit
    <3> QED BY <1>1, <3>1, <3>2, <3>3
  <2>2. CASE i \in 1 .. Len(q)
    <3>1. p[i] = q[i] /\ \A j \in 1 .. i - 1 : p[j] = q[j]
      BY <1>1, <2>2
    <3>2. q[i].m \in Nat /\ q[i].m <= n
      BY <1>2, <2>2, <3>1 DEF MessagesFit
    <3>3. q[i].m <= n + 1
      BY <3>2
    <3> QED BY <2>2, <3>1, <3>3 DEF MessagesFit
  <2> QED BY <1>1, <2>1, <2>2
<1>4. \A i \in 1 .. Len(r) : r[i] <= n + 1
  BY <1>2 DEF MessagesFit
<1> QED BY <1>3, <1>4 DEF MessagesFit, p, e

\* The head of the queue is taken.
LEMMA TailMessagesFit ==
  ASSUME NEW q \in Seq(Lambda), NEW r \in Seq(Nat), NEW n \in Nat, q # <<>>,
         MessagesFit(q, r, n)
  PROVE  MessagesFit(Tail(q), r, n)
<1> DEFINE p == Tail(q)
<1>1. /\ Len(q) \in Nat /\ Len(p) = Len(q) - 1
      /\ \A i \in 1 .. Len(p) : p[i] = q[i + 1] /\ i + 1 \in 1 .. Len(q)
  OBVIOUS
<1> HIDE DEF p
<1>2. \A i \in 1 .. Len(p) : \A j \in 1 .. i - 1 :
        p[j] = q[j + 1] /\ j + 1 \in 1 .. (i + 1) - 1
  BY <1>1
<1> QED BY <1>1, <1>2 DEF MessagesFit, p

\* OnMessage is given the head of the queue.
LEMMA ReceiveFits ==
  ASSUME NEW q \in Seq(Lambda), NEW r \in Seq(Nat), NEW n \in Nat, q # <<>>,
         Head(q).kind = "message", MessagesFit(q, r, n)
  PROVE  MessagesFit(Tail(q), Append(r, Head(q).m), n)
<1> DEFINE p == Tail(q)
           s == Append(r, Head(q).m)
<1>0. Head(q) = q[1] /\ 1 \in 1 .. Len(q) /\ q[1] \in Lambda
  OBVIOUS
<1>1. q[1].kind = "message" /\ q[1].m \in Nat
  BY <1>0 DEF Lambda
<1>2. /\ Len(r) \in Nat /\ Len(s) = Len(r) + 1 /\ s[Len(r) + 1] = q[1].m
      /\ \A i \in 1 .. Len(r) : s[i] = r[i] /\ r[i] \in Nat
  BY <1>0, <1>1
<1>3. /\ Len(q) \in Nat /\ Len(p) = Len(q) - 1
      /\ \A i \in 1 .. Len(p) : p[i] = q[i + 1] /\ i + 1 \in 1 .. Len(q)
                               /\ 1 \in 1 .. (i + 1) - 1
  OBVIOUS
<1>4. MessagesFit(p, r, n)
  BY TailMessagesFit
<1> HIDE DEF p, s
<1>5. \A i \in 1 .. Len(p) : p[i].kind = "message" => q[1].m < p[i].m
  BY <1>1, <1>3 DEF MessagesFit
<1>6. q[1].m <= n /\ \A j \in 1 .. Len(r) : r[j] < q[1].m
  BY <1>0, <1>1 DEF MessagesFit
<1>7. \A i \in 1 .. Len(s) : i \in 1 .. Len(r) \/ i = Len(r) + 1
  BY <1>2
<1>8. \A i, j \in 1 .. Len(r) : i < j => r[i] < r[j]
  BY DEF MessagesFit
<1>9. \A i, j \in 1 .. Len(s) : i < j => s[i] < s[j]
  <2> SUFFICES ASSUME NEW i \in 1 .. Len(s), NEW j \in 1 .. Len(s), i < j
               PROVE  s[i] < s[j]
    OBVIOUS
  <2>1. i \in 1 .. Len(r)
    BY <1>2
  <2>2. CASE j = Len(r) + 1
    BY <1>2, <1>6, <2>1, <2>2
  <2>3. CASE j \in 1 .. Len(r)
    BY <1>2, <1>8, <2>1, <2>3
  <2> QED BY <1>7, <2>2, <2>3
<1>10. \A i \in 1 .. Len(s) : s[i] <= n
  <2>1. \A i \in 1 .. Len(r) : r[i] <= n
    BY DEF MessagesFit
  <2> QED BY <1>2, <1>6, <1>7, <2>1
<1>11. \A i \in 1 .. Len(p) : p[i].kind = "message" =>
        \A j \in 1 .. Len(s) : s[j] < p[i].m
  <2>1. \A i \in 1 .. Len(p) : p[i].kind = "message" =>
          \A j \in 1 .. Len(r) : r[j] < p[i].m
    BY <1>4 DEF MessagesFit
  <2> QED BY <1>2, <1>5, <1>7, <2>1
<1> QED BY <1>4, <1>9, <1>10, <1>11 DEF MessagesFit, p, s

LEMMA MessagesStep ==
  ASSUME ConnectionTypeOK, MessagesInv, [ConnectionNext]_connectionVars
  PROVE  MessagesInv'
<1>0. /\ queue \in Seq(Lambda) /\ received \in Seq(Nat) /\ sent \in Nat
  BY DEF ConnectionTypeOK
<1> USE DEF MessagesInv
<1>1. ASSUME UNCHANGED <<queue, received, sent>> PROVE MessagesInv'
  BY <1>1
<1>2. CASE UNCHANGED connectionVars
  BY <1>1, <1>2 DEF connectionVars
<1>3. ASSUME NEW t \in Tasks, TaskStep(t) PROVE MessagesInv'
  <2>1. UNCHANGED <<queue, received, sent>>
    BY <1>3 DEF TaskStep, ConnectStart, ConnectStop, AskDisconnect, Reset,
                ConnectCreate, SetCallback, AskConnect, StartConsuming,
                FinishConsuming, FinishConsumingStray, Crash, Events
  <2> QED BY <1>1, <2>1
<1>4. CASE SendThread
  BY <1>1, <1>4 DEF SendThread, ProcessConnect, ProcessDisconnect, Events
<1>5. ASSUME NEW e \in Lambda, e.kind # "message", UNCHANGED <<received, sent>>,
             UNCHANGED queue \/ Post(e)
      PROVE  MessagesInv'
  BY <1>0, <1>5, EventFits DEF Post
<1>6. CASE Connack \/ ConnectFails \/ ConnectionLost
  BY <1>5, <1>6, LambdaTypes DEF Connack, ConnectFails, ConnectionLost, Events
<1>7. CASE Deliver
  <2>1. CASE queue' = Append(queue, [kind |-> "message", m |-> sent + 1])
    BY <1>0, <1>7, <2>1, MessageFits DEF Deliver
  <2>2. CASE UNCHANGED queue
    <3>1. \A i \in 1 .. Len(received) : received[i] \in Nat
      BY <1>0
    <3>2. \A i \in 1 .. Len(queue) : queue[i].kind = "message" => queue[i].m \in Nat
      BY <1>0 DEF Lambda
    <3> QED BY <1>0, <1>7, <2>2, <3>1, <3>2 DEF Deliver, MessagesFit
  <2> QED BY <1>7, <2>1, <2>2 DEF Deliver, Post
<1>8. CASE GameStep
  <2>1. CASE OnConnected \/ OnDisconnected
    BY <1>0, <2>1, TailMessagesFit DEF OnConnected, OnDisconnected, NextLambda, Events
  <2>2. CASE MessageArrived
    BY <1>0, <2>2, ReceiveFits DEF MessageArrived, NextLambda
  <2>3. CASE AskDisconnect(Game) \/ Reset(Game) \/ ConnectToServer
    BY <1>1, <2>3 DEF AskDisconnect, Reset, ConnectToServer, Crash, Events
  <2> QED BY <1>8, <2>1, <2>2, <2>3 DEF GameStep
<1> QED BY <1>2, <1>3, <1>4, <1>6, <1>7, <1>8 DEF ConnectionNext

\* Every message that was not dropped has been received or waits.
MessagesHere(q, r, n) ==
  \A m \in 1 .. n :
    \/ \E i \in 1 .. Len(r) : r[i] = m
    \/ \E i \in 1 .. Len(q) : q[i] = [kind |-> "message", m |-> m]

MessagesKept == ~swallowed => MessagesHere(queue, received, sent)

\* Something is appended to the queue.
LEMMA AppendHere ==
  ASSUME NEW q \in Seq(Lambda), NEW r \in Seq(Nat), NEW n \in Nat,
         MessagesHere(q, r, n), NEW e \in Lambda
  PROVE  MessagesHere(Append(q, e), r, n)
<1> DEFINE p == Append(q, e)
<1>1. \A i \in 1 .. Len(q) : i \in 1 .. Len(p) /\ p[i] = q[i]
  OBVIOUS
<1> HIDE DEF p
<1> QED BY <1>1 DEF MessagesHere, p

\* The next message is appended to the queue.
LEMMA MessageHere ==
  ASSUME NEW q \in Seq(Lambda), NEW r \in Seq(Nat), NEW n \in Nat,
         MessagesHere(q, r, n)
  PROVE  MessagesHere(Append(q, [kind |-> "message", m |-> n + 1]), r, n + 1)
<1> DEFINE e == [kind |-> "message", m |-> n + 1]
           p == Append(q, e)
<1>1. e \in Lambda
  BY LambdaTypes
<1>2. Len(q) + 1 \in 1 .. Len(p) /\ p[Len(q) + 1] = e
  BY <1>1
<1>3. \A i \in 1 .. Len(q) : i \in 1 .. Len(p) /\ p[i] = q[i]
  BY <1>1
<1> HIDE DEF p
<1> SUFFICES ASSUME NEW m \in 1 .. n + 1
             PROVE  \/ \E i \in 1 .. Len(r) : r[i] = m
                    \/ \E i \in 1 .. Len(p) : p[i] = [kind |-> "message", m |-> m]
  BY DEF MessagesHere, p
<1>4. CASE m = n + 1
  BY <1>2, <1>4
<1>5. CASE m \in 1 .. n
  BY <1>3, <1>5 DEF MessagesHere
<1> QED BY <1>4, <1>5

\* The head of the queue is taken and, if it is a message, received.
LEMMA TailHere ==
  ASSUME NEW q \in Seq(Lambda), NEW r \in Seq(Nat), NEW n \in Nat, q # <<>>,
         MessagesHere(q, r, n)
  PROVE  /\ Head(q).kind # "message" => MessagesHere(Tail(q), r, n)
         /\ Head(q).kind = "message" => MessagesHere(Tail(q), Append(r, Head(q).m), n)
<1> DEFINE p == Tail(q)
           s == Append(r, Head(q).m)
<1>0. Head(q) = q[1] /\ q[1] \in Lambda
  OBVIOUS
<1>1. \A i \in 1 .. Len(q) : i = 1 \/ (i - 1 \in 1 .. Len(p) /\ p[i - 1] = q[i])
  <2>1. /\ Len(q) \in Nat /\ Len(p) = Len(q) - 1
        /\ \A i \in 1 .. Len(p) : p[i] = q[i + 1]
    OBVIOUS
  <2> QED BY <2>1
<1>2. q[1].kind = "message" =>
        /\ q[1].m \in Nat
        /\ Len(r) + 1 \in 1 .. Len(s) /\ s[Len(r) + 1] = q[1].m
        /\ \A i \in 1 .. Len(r) : i \in 1 .. Len(s) /\ s[i] = r[i]
  <2> SUFFICES ASSUME q[1].kind = "message"
               PROVE  /\ q[1].m \in Nat
                      /\ Len(r) + 1 \in 1 .. Len(s) /\ s[Len(r) + 1] = q[1].m
                      /\ \A i \in 1 .. Len(r) : i \in 1 .. Len(s) /\ s[i] = r[i]
    OBVIOUS
  <2>1. q[1].m \in Nat
    BY <1>0 DEF Lambda
  <2> QED BY <1>0, <2>1
<1> HIDE DEF p, s
<1>3. \A m \in 1 .. n : q[1] = [kind |-> "message", m |-> m]
        => q[1].kind = "message" /\ q[1].m = m
  OBVIOUS
<1>4. ASSUME q[1].kind # "message" PROVE MessagesHere(p, r, n)
  <2> SUFFICES ASSUME NEW m \in 1 .. n
               PROVE  \/ \E i \in 1 .. Len(r) : r[i] = m
                      \/ \E i \in 1 .. Len(p) : p[i] = [kind |-> "message", m |-> m]
    BY DEF MessagesHere
  <2>1. ASSUME NEW i \in 1 .. Len(q), q[i] = [kind |-> "message", m |-> m]
        PROVE  \E j \in 1 .. Len(p) : p[j] = [kind |-> "message", m |-> m]
    <3>1. i # 1
      BY <1>3, <1>4, <2>1
    <3> QED BY <1>1, <2>1, <3>1
  <2> QED BY <2>1 DEF MessagesHere
<1>5. ASSUME q[1].kind = "message" PROVE MessagesHere(p, s, n)
  <2> SUFFICES ASSUME NEW m \in 1 .. n
               PROVE  \/ \E i \in 1 .. Len(s) : s[i] = m
                      \/ \E i \in 1 .. Len(p) : p[i] = [kind |-> "message", m |-> m]
    BY DEF MessagesHere
  <2>1. CASE \E i \in 1 .. Len(r) : r[i] = m
    BY <1>2, <1>5, <2>1
  <2>2. ASSUME NEW i \in 1 .. Len(q), q[i] = [kind |-> "message", m |-> m]
        PROVE  \/ \E j \in 1 .. Len(s) : s[j] = m
               \/ \E j \in 1 .. Len(p) : p[j] = [kind |-> "message", m |-> m]
    <3>1. CASE i = 1
      BY <1>2, <1>3, <1>5, <2>2, <3>1
    <3>2. CASE i # 1
      BY <1>1, <2>2, <3>2
    <3> QED BY <3>1, <3>2
  <2> QED BY <2>1, <2>2 DEF MessagesHere
<1> QED BY <1>0, <1>4, <1>5 DEF p, s

LEMMA KeptStep ==
  ASSUME ConnectionTypeOK, MessagesKept, [ConnectionNext]_connectionVars
  PROVE  MessagesKept'
<1>0. queue \in Seq(Lambda) /\ received \in Seq(Nat) /\ sent \in Nat
  BY DEF ConnectionTypeOK
<1> USE DEF MessagesKept
<1>1. ASSUME UNCHANGED <<queue, received, sent, swallowed>> PROVE MessagesKept'
  BY <1>1
<1>2. CASE UNCHANGED connectionVars
  BY <1>1, <1>2 DEF connectionVars
<1>3. ASSUME NEW t \in Tasks, TaskStep(t) PROVE MessagesKept'
  <2>1. UNCHANGED <<queue, received, sent, swallowed>>
    BY <1>3 DEF TaskStep, ConnectStart, ConnectStop, AskDisconnect, Reset,
                ConnectCreate, SetCallback, AskConnect, StartConsuming,
                FinishConsuming, FinishConsumingStray, Crash, Events
  <2> QED BY <1>1, <2>1
<1>4. CASE SendThread
  BY <1>1, <1>4 DEF SendThread, ProcessConnect, ProcessDisconnect, Events
<1>5. ASSUME NEW e \in Lambda, UNCHANGED <<received, sent, swallowed>>,
             UNCHANGED queue \/ Post(e)
      PROVE  MessagesKept'
  BY <1>0, <1>5, AppendHere DEF Post
<1>6. CASE Connack \/ ConnectFails \/ ConnectionLost
  BY <1>5, <1>6, LambdaTypes DEF Connack, ConnectFails, ConnectionLost, Events
<1>7. CASE Deliver
  BY <1>0, <1>7, MessageHere DEF Deliver, Post
<1>8. CASE GameStep
  <2>1. CASE OnConnected \/ OnDisconnected
    BY <1>0, <2>1, TailHere DEF OnConnected, OnDisconnected, NextLambda, Events
  <2>2. CASE MessageArrived
    BY <1>0, <2>2, TailHere DEF MessageArrived, NextLambda
  <2>3. CASE AskDisconnect(Game) \/ Reset(Game) \/ ConnectToServer
    BY <1>1, <2>3 DEF AskDisconnect, Reset, ConnectToServer, Crash, Events
  <2> QED BY <1>8, <2>1, <2>2, <2>3 DEF GameStep
<1> QED BY <1>2, <1>3, <1>4, <1>6, <1>7, <1>8 DEF ConnectionNext

LEMMA MessagesInit == ConnectionInit => MessagesInv /\ MessagesKept
BY DEF ConnectionInit, MessagesInv, MessagesFit, MessagesKept, MessagesHere

\* Messages reach AMqttManager::OnMessage in the order they were sent, each at
\* most once and none missing that was not dropped, whatever happens to the
\* connections that carry them.
THEOREM MessagesCorrect == ConnectionSpec => []MessagesInOrder
<1>1. MessagesInv /\ MessagesKept => MessagesInOrder
  BY DEF MessagesInv, MessagesFit, MessagesKept, MessagesHere, MessagesInOrder
<1> QED BY <1>1, MessagesInit, MessagesStep, KeptStep, ConnectionTypeCorrect, PTL
        DEF ConnectionSpec

=============================================================================
