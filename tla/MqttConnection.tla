--------------------------- MODULE MqttConnection ---------------------------
(***************************************************************************)
(* Connecting to the broker, and staying connected: AMqttManager           *)
(* (ConnectToServer, OnConnected, OnDisconnected, OnMessage), its          *)
(* background FMqttAsyncTask, the wrapper UDTMqttClient, and as much of    *)
(* the Paho clients as the wrapper depends on.                             *)
(*                                                                         *)
(* Threads.  The game thread runs the queue of lambdas the wrapper posts,  *)
(* first in first out; OnDisconnected blocks it in Disconnect.  Each       *)
(* FMqttAsyncTask loops on a pool thread.  Paho's send thread takes the    *)
(* queued commands, its receive thread the broker's answers.  Paho's       *)
(* mutex makes each of these, and each call of the client, one step.       *)
(* Nothing protects the shared pointer MqttClient: every use of it by the  *)
(* tasks and the game thread is a step of its own and finds whichever      *)
(* client is current by then.                                              *)
(*                                                                         *)
(* Data.  The pointer is the only reference to a client, so MqttClient is  *)
(* the client itself; reassigning it destroys the client before.  A thread *)
(* that waits for a token has no step: the answer moves it on.  Subscribe  *)
(* takes effect at once.                                                   *)
(***************************************************************************)
EXTENDS Integers, Sequences

CONSTANTS
  MaxEvents,     \* bound: lambdas waiting for the game thread
  MaxFailures,   \* bound: connection attempts that fail
  MaxLosses,     \* bound: connections lost
  MaxSent    \* bound: messages the broker sends

ASSUME BoundsAssumption ==
  MaxEvents \in Nat /\ MaxFailures \in Nat /\ MaxLosses \in Nat
  /\ MaxSent \in Nat

\* At most one task per loss, and the one of BeginPlay.
Tasks == 1 .. MaxLosses + 1

Game == 0
Threads == Tasks \cup {Game}

\* Who is answered: nobody, or a token that has been freed.
Nobody == -1
Freed == -2

VARIABLES
  MqttClient,  \* the client the wrapper's shared pointer holds
  pc,          \* where each FMqttAsyncTask, and the game thread, is
  queue,       \* the lambdas posted to the game thread
  received,    \* history: the messages OnMessage was given
  sent,        \* history: messages the broker sent
  swallowed,   \* history: a client took a message and passed it to nobody
  unreported,  \* history: a connection was lost and nobody was told
  failures, losses,   \* what has happened of the bounded events
  halted       \* a null or a freed pointer has ended the process

connectionVars ==
  <<MqttClient, pc, queue, received, sent, swallowed, unreported, failures, losses, halted>>

TaskPcs == {"unused", "start", "stop", "closing", "awaiting", "reset", "create",
            "callback", "connect", "waiting", "consume", "blind", "stray", "done"}
GamePcs == {"idle", "closing", "awaiting", "reset", "reconnect"}

\* A command the send thread has yet to take.  A reconnect is a CONNECT that
\* tries MQTT 3.1 where 3.1.1 was refused or lost.
Command == [kind: {"connect", "reconnect", "disconnect"},
            by: Threads \cup {Nobody, Freed}]

Client ==
  [state: {"null", "idle", "connecting", "connected"},
   commands: Seq(Command),
   connector: Threads \cup {Nobody, Freed}, \* whom m->connect answers
   again: BOOLEAN,        \* m->connect has the older version left to try
   listener: BOOLEAN,     \* userCallback_
   callbacks: {"none", "installed", "disabled"},
   announced: BOOLEAN,    \* history: the connected callback was called
   subscribed: BOOLEAN]   \* the broker holds our subscription

NewClient ==
  [state |-> "idle", commands |-> <<>>, connector |-> Nobody, again |-> FALSE,
   listener |-> FALSE, callbacks |-> "none", announced |-> FALSE,
   subscribed |-> FALSE]

NoClient == [NewClient EXCEPT !.state = "null"]

Lambda == [kind: {"connected", "lost"}] \cup [kind: {"message"}, m: Nat]

ConnectionTypeOK ==
  /\ MqttClient \in Client
  /\ pc \in [Threads -> TaskPcs \cup GamePcs]
  /\ pc[Game] \in GamePcs
  /\ \A t \in Tasks : pc[t] \in TaskPcs
  /\ queue \in Seq(Lambda)
  /\ received \in Seq(Nat)
  /\ sent \in 0 .. MaxSent
  /\ swallowed \in BOOLEAN
  /\ unreported \in BOOLEAN
  /\ failures \in 0 .. MaxFailures
  /\ losses \in 0 .. MaxLosses
  /\ halted \in BOOLEAN

\* BeginPlay: CreateMqttClient, then ConnectToServer.
ConnectionInit ==
  /\ MqttClient = NoClient
  /\ pc = [w \in Threads |-> IF w = Game THEN "idle"
                             ELSE IF w = 1 THEN "start" ELSE "unused"]
  /\ queue = <<>>
  /\ received = <<>>
  /\ sent = 0
  /\ swallowed = FALSE
  /\ unreported = FALSE
  /\ failures = 0
  /\ losses = 0
  /\ halted = FALSE

Events == <<received, sent, swallowed, unreported, failures, losses>>

\* Variant: what comes while the game thread is in Disconnect is dropped.
PostUnlessBusy(lambda) ==
  queue' = IF pc[Game] = "idle" THEN Append(queue, lambda) ELSE queue

\* Variant: the newest lambda runs first.
PostInFront(lambda) == queue' = <<lambda>> \o queue

\* AsyncTask(ENamedThreads::GameThread, ...).
Post(lambda) == queue' = Append(queue, lambda)

Goto(w, where) == pc' = [pc EXCEPT ![w] = where]

Null == MqttClient.state = "null"
Connecting == MqttClient.state = "connecting"
Connected == MqttClient.state = "connected"

\* Variant: OnDisconnected returns when Disconnect fails.
AfterFailureGivesUp(w) == IF w = Game THEN "idle" ELSE "start"

\* Where a thread goes when Connect or Disconnect fails: a task tries again
\* three seconds later, the game thread goes on to ConnectToServer.
AfterFailure(w) == IF w = Game THEN "reconnect" ELSE "start"

\* A call through a null pointer.
Crash == halted' = TRUE /\ UNCHANGED <<MqttClient, pc, queue>>

-----------------------------------------------------------------------------
(* What the wrapper does through the pointer *)

\* The client is destroyed: queued commands fail; who waits for a connection
\* under way is not told; start_consuming is left with a client that is gone.
Dropped ==
  [w \in Threads |->
     IF /\ pc[w] \in {"waiting", "awaiting"}
        /\ \E i \in 1 .. Len(MqttClient.commands) : MqttClient.commands[i].by = w
     THEN AfterFailure(w)
     ELSE IF pc[w] = "blind" THEN "stray" ELSE pc[w]]

\* stop_consuming: refused while a connect is in progress.
StopConsuming(w, next) ==
  IF Connecting
  THEN Goto(w, AfterFailure(w)) /\ UNCHANGED MqttClient
  ELSE /\ MqttClient' = [MqttClient EXCEPT !.callbacks = "disabled"]
       /\ Goto(w, next)

\* disconnect(): refused without a connection, else queued and waited for.
AskDisconnect(w) ==
  /\ pc[w] = "closing"
  /\ \/ Null /\ Crash
     \/ /\ ~Null /\ ~Connected
        /\ Goto(w, AfterFailure(w))
        /\ UNCHANGED <<MqttClient, queue, halted>>
     \/ /\ Connected
        /\ MqttClient' = [MqttClient EXCEPT
             !.commands = Append(@, [kind |-> "disconnect", by |-> w])]
        /\ Goto(w, "awaiting")
        /\ UNCHANGED <<queue, halted>>
  /\ UNCHANGED Events

\* Reset, on whichever client is current by now.
Reset(w) ==
  /\ pc[w] = "reset"
  /\ MqttClient' = NoClient
  /\ pc' = [Dropped EXCEPT ![w] = IF w = Game THEN "reconnect" ELSE "create"]
  /\ UNCHANGED <<queue, halted, Events>>

-----------------------------------------------------------------------------
(* FMqttAsyncTask: DoWork, and UDTMqttClient::Connect under it *)

\* Connect: what the previous client's state requires before a new one.
ConnectStart(t) ==
  /\ pc[t] = "start"
  /\ Goto(t, IF Null THEN "create" ELSE IF Connected THEN "stop" ELSE "reset")
  /\ UNCHANGED <<MqttClient, queue, halted, Events>>

ConnectStop(t) ==
  /\ pc[t] = "stop"
  /\ \/ Null /\ Crash
     \/ ~Null /\ StopConsuming(t, "closing") /\ UNCHANGED <<queue, halted>>
  /\ UNCHANGED Events

\* A new async_client; one that another thread made meanwhile is destroyed.
ConnectCreate(t) ==
  /\ pc[t] = "create"
  /\ MqttClient' = NewClient
  /\ pc' = [Dropped EXCEPT ![t] = "callback"]
  /\ UNCHANGED <<queue, halted, Events>>

\* set_callback: while a connect is in progress Paho refuses, and the listener
\* is lost.
SetCallback(t) ==
  /\ pc[t] = "callback"
  /\ \/ /\ Null
        /\ Goto(t, "start")
        /\ UNCHANGED MqttClient
     \/ /\ Connecting
        /\ MqttClient' = [MqttClient EXCEPT !.listener = FALSE]
        /\ Goto(t, "start")
     \/ /\ ~Null /\ ~Connecting
        /\ MqttClient' = [MqttClient EXCEPT !.listener = TRUE,
                                            !.callbacks = "installed"]
        /\ Goto(t, "connect")
  /\ UNCHANGED <<queue, halted, Events>>

\* connect(): m->connect answers our token from now on; behind another command
\* the CONNECT is ignored and the token freed.
AskConnect(t) ==
  /\ pc[t] = "connect"
  /\ \/ Null /\ Crash
     \/ /\ ~Null /\ MqttClient.commands = <<>>
        /\ MqttClient' = [MqttClient EXCEPT
             !.connector = t,
             !.commands = << [kind |-> "connect", by |-> t] >>]
        /\ Goto(t, "waiting")
        /\ UNCHANGED <<queue, halted>>
     \/ /\ ~Null /\ MqttClient.commands # <<>>
        /\ MqttClient' = [MqttClient EXCEPT !.connector = Freed]
        /\ Goto(t, "start")
        /\ UNCHANGED <<queue, halted>>
  /\ UNCHANGED Events

\* start_consuming, first half, again through the pointer.
StartConsuming(t) ==
  /\ pc[t] = "consume"
  /\ \/ Null /\ Crash
     \/ ~Null /\ StopConsuming(t, "blind") /\ UNCHANGED <<queue, halted>>
  /\ UNCHANGED Events

\* Variant: the callbacks stay disabled.
FinishConsumingDisabled(t) ==
  /\ pc[t] = "blind"
  /\ Goto(t, "done")
  /\ UNCHANGED <<MqttClient, queue, halted, Events>>

\* start_consuming, second half: the callbacks are installed again, which Paho
\* refuses while a connect is in progress.
FinishConsuming(t) ==
  /\ pc[t] = "blind"
  /\ IF Connecting
     THEN Goto(t, "start") /\ UNCHANGED MqttClient
     ELSE /\ MqttClient' = [MqttClient EXCEPT !.callbacks = "installed"]
          /\ Goto(t, "done")
  /\ UNCHANGED <<queue, halted, Events>>

\* The same on a client that has been destroyed: undefined.
FinishConsumingStray(t) ==
  /\ pc[t] = "stray"
  /\ \/ Crash
     \/ /\ \E where \in {"start", "done"} : Goto(t, where)
        /\ UNCHANGED <<MqttClient, queue, halted>>
  /\ UNCHANGED Events

TaskStep(t) ==
  \/ ConnectStart(t)   \/ ConnectStop(t)     \/ AskDisconnect(t)
  \/ Reset(t)          \/ ConnectCreate(t)   \/ SetCallback(t)
  \/ AskConnect(t)     \/ StartConsuming(t)  \/ FinishConsuming(t)
  \/ FinishConsumingStray(t)

-----------------------------------------------------------------------------
(* Paho's threads *)

\* The answer to a token: the thread that waits for it, if any, moves on.
Answered(pcs, w, waits, where) ==
  IF w \in Threads /\ pcs[w] = waits THEN [pcs EXCEPT ![w] = where] ELSE pcs

\* m->connect is answered; on a freed token that is undefined.
AnswerConnect(where) ==
  /\ pc' = Answered(pc, MqttClient.connector, "waiting", where)
  /\ halted' \in (IF MqttClient.connector = Freed THEN BOOLEAN ELSE {FALSE})

Closed == [MqttClient EXCEPT !.state = "idle", !.announced = FALSE,
                             !.subscribed = FALSE]

\* A CONNECT is taken.  On a client that has a session, or is getting one, it
\* only replaces m->connect.
ProcessConnect ==
  /\ MqttClient.commands # <<>>
  /\ LET command == Head(MqttClient.commands) IN
     /\ command.kind # "disconnect"
     /\ MqttClient' = [MqttClient EXCEPT
          !.state = IF @ = "idle" THEN "connecting" ELSE @,
          !.again = command.kind = "connect" /\ MqttClient.state = "idle",
          !.connector = command.by,
          !.commands = Tail(@)]
  /\ UNCHANGED <<pc, queue, halted, Events>>

\* A DISCONNECT is taken.  Without a session it is never answered; a connect in
\* progress is told that it failed.
ProcessDisconnect ==
  /\ MqttClient.commands # <<>>
  /\ LET command == Head(MqttClient.commands)
         told == Answered(pc, command.by, "awaiting", "reset")
         rest == Tail(MqttClient.commands)
     IN
     /\ command.kind = "disconnect"
     /\ \/ /\ Connected
           /\ MqttClient' = [Closed EXCEPT !.commands = rest]
           /\ pc' = told
           /\ UNCHANGED halted
        \/ /\ Connecting
           /\ MqttClient' = [Closed EXCEPT !.commands = rest, !.connector = Nobody]
           /\ pc' = Answered(told, MqttClient.connector, "waiting", "start")
           /\ halted' \in (IF MqttClient.connector = Freed THEN BOOLEAN
                            ELSE {FALSE})
        \/ /\ ~Connected /\ ~Connecting
           /\ MqttClient' = [MqttClient EXCEPT !.commands = rest]
           /\ UNCHANGED <<pc, halted>>
  /\ UNCHANGED <<queue, Events>>

\* CONNACK: the token first, then the connected callback.
Connack ==
  /\ Connecting
  /\ Len(queue) < MaxEvents
  /\ MqttClient' = [MqttClient EXCEPT !.state = "connected",
                                      !.connector = Nobody,
                                      !.announced = MqttClient.listener]
  /\ AnswerConnect("consume")
  /\ IF MqttClient.listener THEN Post([kind |-> "connected"]) ELSE UNCHANGED queue
  /\ UNCHANGED Events

\* nextOrClose: the older version is tried, unless a command of this client
\* waits already; or it is over, and m->connect is answered.
NextOrClose ==
  IF MqttClient.again /\ MqttClient.commands = <<>>
  THEN /\ MqttClient' = [Closed EXCEPT
            !.commands = << [kind |-> "reconnect", by |-> MqttClient.connector] >>]
       /\ UNCHANGED <<pc, halted>>
  ELSE /\ MqttClient' = [Closed EXCEPT !.connector = Nobody]
       /\ AnswerConnect("start")

\* The connect is refused or times out; connection_lost is not called.
ConnectFails ==
  /\ Connecting
  /\ failures < MaxFailures
  /\ failures' = failures + 1
  /\ NextOrClose
  /\ UNCHANGED <<queue, received, sent, swallowed, unreported, losses>>

\* The connection breaks.  A socket error goes through nextOrClose; a missing
\* ping answer makes Paho disconnect by itself.  connection_lost is called only
\* with its callback installed and the listener known.
ConnectionLost ==
  /\ Connected
  /\ losses < MaxLosses
  /\ losses' = losses + 1
  /\ \/ NextOrClose
     \/ /\ MqttClient.commands = <<>>
        /\ MqttClient' = Closed
        /\ UNCHANGED <<pc, halted>>
  /\ IF MqttClient.listener /\ MqttClient.callbacks = "installed"
     THEN Post([kind |-> "lost"]) /\ UNCHANGED unreported
     ELSE unreported' = TRUE /\ UNCHANGED queue
  /\ UNCHANGED <<received, sent, swallowed, failures>>

\* Variant: the lambda captures the topic and not the message.
DeliverTopicOnly ==
  /\ Connected /\ MqttClient.subscribed /\ MqttClient.callbacks # "none"
  /\ sent < MaxSent
  /\ sent' = sent + 1
  /\ Post([kind |-> "message"])
  /\ UNCHANGED <<MqttClient, pc, halted, received, swallowed, unreported,
                 failures, losses>>

\* A publication for our topic arrives.  A disabled callback acknowledges it
\* and drops it, as on_message_arrived does without a listener; before any
\* callback is installed it waits in Paho, as if it had not come.
Deliver ==
  /\ Connected /\ MqttClient.subscribed /\ MqttClient.callbacks # "none"
  /\ sent < MaxSent
  /\ sent' = sent + 1
  /\ IF MqttClient.listener /\ MqttClient.callbacks = "installed"
     THEN /\ Post([kind |-> "message", m |-> sent + 1])
          /\ UNCHANGED swallowed
     ELSE swallowed' = TRUE /\ UNCHANGED queue
  /\ UNCHANGED <<MqttClient, pc, halted, received, unreported, failures, losses>>

-----------------------------------------------------------------------------
(* The game thread *)

NextLambda(kind) ==
  /\ pc[Game] = "idle"
  /\ queue # <<>>
  /\ Head(queue).kind = kind
  /\ queue' = Tail(queue)

\* Subscribe on the current client, whichever connection this event is from;
\* a failure is shown and logged, and not tried again.
OnConnected ==
  /\ NextLambda("connected")
  /\ MqttClient' = IF Connected THEN [MqttClient EXCEPT !.subscribed = TRUE]
                   ELSE MqttClient
  /\ UNCHANGED <<pc, halted, Events>>

\* The lambda of message_arrived calls AMqttManager::OnMessage.
MessageArrived ==
  /\ NextLambda("message")
  /\ received' = Append(received, Head(queue).m)
  /\ UNCHANGED <<MqttClient, pc, halted, sent, swallowed, unreported, failures,
                 losses>>

\* OnDisconnected, up to Disconnect's stop_consuming; without a client
\* Disconnect fails at once.
OnDisconnected ==
  /\ NextLambda("lost")
  /\ IF Null THEN Goto(Game, "reconnect") /\ UNCHANGED MqttClient
             ELSE StopConsuming(Game, "closing")
  /\ UNCHANGED <<halted, Events>>

\* Whatever became of Disconnect, OnDisconnected starts another task, whatever
\* the ones before are doing.
ConnectToServer ==
  /\ pc[Game] = "reconnect"
  /\ \E t \in Tasks :
       /\ pc[t] = "unused" /\ \A u \in Tasks : u < t => pc[u] # "unused"
       /\ pc' = [pc EXCEPT ![Game] = "idle", ![t] = "start"]
  /\ UNCHANGED <<MqttClient, queue, halted, Events>>

GameStep ==
  \/ OnConnected \/ MessageArrived \/ OnDisconnected
  \/ AskDisconnect(Game) \/ Reset(Game) \/ ConnectToServer

-----------------------------------------------------------------------------

SendThread == ProcessConnect \/ ProcessDisconnect

\* A process that has ended takes no more steps.
ConnectionNext ==
  /\ ~halted
  /\ \/ \E t \in Tasks : TaskStep(t)
     \/ SendThread
     \/ Connack \/ ConnectFails \/ ConnectionLost \/ Deliver
     \/ GameStep

\* Pool threads, the game thread and Paho's send thread run, and a connect
\* attempt ends: the broker answers or Paho times it out.  Losses and messages
\* are never obliged.
ConnectionFairness ==
  /\ \A t \in Tasks : WF_connectionVars(~halted /\ TaskStep(t))
  /\ WF_connectionVars(~halted /\ GameStep)
  /\ WF_connectionVars(~halted /\ SendThread)
  /\ WF_connectionVars(~halted /\ (Connack \/ ConnectFails))

ConnectionSpec == ConnectionInit /\ [][ConnectionNext]_connectionVars /\ ConnectionFairness

-----------------------------------------------------------------------------
(* Properties *)

\* An event of this kind waits for the game thread.
Ahead(kind) == \E i \in 1 .. Len(queue) : queue[i].kind = kind

\* A command that will answer w waits for the send thread.
Queued(w) ==
  \E i \in 1 .. Len(MqttClient.commands) : MqttClient.commands[i].by = w

\* A thread waits for a token that nothing is left to answer.
Unanswered(w) ==
  /\ pc[w] \in {"waiting", "awaiting"}
  /\ ~Queued(w)
  /\ ~(/\ pc[w] = "waiting" /\ MqttClient.connector = w
       /\ Connecting \/ Connected)

\* Task t will still do something.
Working(t) == pc[t] \notin {"unused", "done"} /\ ~Unanswered(t)

\* Connected and subscribed, and the wrapper hears of messages and losses.
Online ==
  /\ Connected /\ MqttClient.subscribed
  /\ MqttClient.listener /\ MqttClient.callbacks = "installed"

\* Whenever there is no connection, someone is at work on one: a task that is
\* not stuck, or the game thread, which has a loss to handle or is in
\* OnDisconnected (and there may be stuck in Disconnect); unless a loss was
\* reported to nobody.
ReconnectUnderWay ==
  \/ halted \/ unreported
  \/ Connected
  \/ \E t \in Tasks : Working(t)
  \/ pc[Game] # "idle"
  \/ Ahead("lost")

\* A connection that was announced and has no subscription still has a
\* connected event ahead: OnConnected subscribes on the current client and is
\* not retried, so none may be spent on the wrong one without another to follow.
SubscribeUnderWay ==
  Connected /\ MqttClient.announced /\ ~MqttClient.subscribed
    => Ahead("connected")

\* Messages reach OnMessage in the order they were sent, each at most once,
\* across any number of reconnections; none is missing unless a client took it
\* while start_consuming had the callbacks disabled, or had no listener, which
\* acknowledges a message and drops it.
MessagesInOrder ==
  /\ \A i, j \in 1 .. Len(received) : i < j => received[i] < received[j]
  /\ ~swallowed =>
       \A m \in 1 .. sent :
         \/ \E i \in 1 .. Len(received) : received[i] = m
         \/ \E i \in 1 .. Len(queue) : queue[i] = [kind |-> "message", m |-> m]

\* What stands behind ReconnectUnderWay.  A task that drives the reconnection is
\* not merely at work but at a step from which it makes a new connection or
\* tries again, or waits for an attempt that is queued or in progress.
Driving(t) ==
  \/ pc[t] \in {"start", "stop", "closing", "reset", "create", "callback",
                "connect"}
  \/ pc[t] = "waiting" /\ Queued(t)
  \/ pc[t] = "waiting" /\ Connecting /\ MqttClient.connector = t

Driven ==
  \/ halted \/ unreported
  \/ Connected
  \/ \E t \in Tasks : Driving(t)
  \/ pc[Game] # "idle"
  \/ Ahead("lost")

\* What the send thread finds queued: a CONNECT only in front, and m->connect
\* set to answer no other thread than the one it answers; behind it
\* DISCONNECTs, each awaited by a thread of its own.
CommandsFit ==
  LET commands == MqttClient.commands
      Disconnects == {i \in 1 .. Len(commands) : commands[i].kind = "disconnect"}
  IN
  /\ Null => commands = <<>>
  /\ \A i \in 1 .. Len(commands) : i > 1 => i \in Disconnects
  /\ \A i \in Disconnects :
       /\ commands[i].by \in Threads /\ pc[commands[i].by] = "awaiting"
       /\ \A j \in Disconnects : commands[i].by = commands[j].by => i = j
  /\ commands # <<>> /\ 1 \notin Disconnects
       => MqttClient.connector \in {commands[1].by, Freed, Nobody}

\* Whatever takes a connection away leaves someone at work on the next one,
\* because every queued DISCONNECT is awaited by a thread that then goes on.
DriverInv == CommandsFit /\ Driven

\* The display ends up online for good, unless a thread ran into the pointer
\* another had dropped, a loss or a connection was reported to nobody, the game
\* thread stays in Disconnect, or two tasks, each replacing the client the
\* other is about to use, go on for ever.
EventuallyOnline ==
  \/ <>(halted \/ unreported \/ (Connected /\ ~MqttClient.announced))
  \/ <>[]Unanswered(Game)
  \/ []<>(\E t, u \in Tasks : t # u /\ Working(t) /\ Working(u))
  \/ <>[]Online

\* DTMqttClient.h:111 "This method is called when the client is connected."
ConnectedReported == Connected => MqttClient.announced

\* DTMqttClient.h:117 "This method is called when the connection to the server
\* is lost."
LossReported == ~unreported

\* DTMqttClient.h:21 "Lightweight client for talking to an MQTT server using
\* non-blocking": Disconnect, called on the game thread, comes back.
DisconnectReturns ==
  pc[Game] = "awaiting" ~> (pc[Game] # "awaiting" \/ halted)

=============================================================================
