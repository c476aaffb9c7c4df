--------------------------- MODULE MessageToLantern ---------------------------
(***************************************************************************)
(* The display from the broker to the sky: MqttConnection and              *)
(* SpawnPipeline in one process.  The two meet in AMqttManager::OnMessage, *)
(* which a lambda of the connection calls and which fills the queue of the *)
(* pipeline, and on the game thread, which they share: while               *)
(* OnDisconnected keeps it in Disconnect nothing ticks and no completion   *)
(* runs, and while RequestLanternData runs no lambda does.  Tasks, Paho's  *)
(* threads and the screenshot tasks go on by themselves.  Whatever ends    *)
(* the process ends both.                                                  *)
(***************************************************************************)
EXTENDS MqttConnection, SpawnPipeline

\* The bound of the pipeline leaves room for every message of the broker.
ASSUME RoomAssumption == MaxSent <= MaxMessages

VARIABLES
  forms,     \* history: the messages the broker has sent
  numbers    \* history: which of them each accepted message is

programVars == <<connectionVars, vars, forms, numbers>>

ProgramInit == ConnectionInit /\ Init /\ forms = <<>> /\ numbers = <<>>

-----------------------------------------------------------------------------

\* The broker sends a message, of any form.
BrokerSends ==
  /\ Deliver
  /\ \E m \in Forms : forms' = Append(forms, m)
  /\ UNCHANGED <<vars, numbers>>

\* AMqttManager::OnMessage is called.
ManagerReceives ==
  /\ MessageArrived
  /\ LET n == Head(queue).m IN
     /\ OnMessage(forms[n])
     /\ numbers' = IF CheckIsLanternData(forms[n]) THEN Append(numbers, n) ELSE numbers
  /\ UNCHANGED forms

\* The connection's other handlers on the game thread ...
Handle ==
  /\ GameThreadIdle
  /\ \/ OnConnected \/ OnDisconnected
     \/ AskDisconnect(Game) \/ Reset(Game) \/ ConnectToServer
  /\ UNCHANGED <<vars, forms, numbers>>

\* ... and its own threads.
Communicate ==
  /\ \/ \E t \in Tasks : TaskStep(t)
     \/ SendThread
     \/ Connack \/ ConnectFails \/ ConnectionLost
  /\ UNCHANGED <<vars, forms, numbers>>

\* The pipeline's handlers on the game thread, unless it is in OnDisconnected.
OnGameThread(step) ==
  /\ pc[Game] = "idle"
  /\ step
  /\ UNCHANGED <<connectionVars, forms, numbers>>

Completion ==
  \/ \E n \in imageRequests, outcome \in ImageOutcomes : OnResponseReceived(n, outcome)
  \/ \E k \in callbacksPending, outcome \in CallbackOutcomes :
       OnCallbackResponseReceived(k, outcome)

\* A background task of the pipeline.
Save ==
  /\ \E k \in shotsPending : SaveScreenshot(k)
  /\ UNCHANGED <<connectionVars, forms, numbers>>

ProgramNext ==
  /\ ~crashed /\ ~halted
  /\ \/ BrokerSends \/ ManagerReceives \/ Handle \/ Communicate
     \/ OnGameThread(StartSpawnDelayElapsed)
     \/ OnGameThread(TickCoolDown \/ TickRequest)
     \/ OnGameThread(FinishRequest)
     \/ OnGameThread(Completion)
     \/ OnGameThread(RemoveAllLantern \/ OperatorSpawnLantern)
     \/ Save

\* The threads of both parts run, as in the parts.
Running(step) == ~crashed /\ ~halted /\ step

ProgramFairness ==
  /\ \A t \in Tasks :
       WF_programVars(Running(TaskStep(t) /\ UNCHANGED <<vars, forms, numbers>>))
  /\ WF_programVars(Running(SendThread /\ UNCHANGED <<vars, forms, numbers>>))
  /\ WF_programVars(Running((Connack \/ ConnectFails) /\ UNCHANGED <<vars, forms, numbers>>))
  /\ WF_programVars(Running(Handle \/ ManagerReceives))
  /\ WF_programVars(Running(OnGameThread(StartSpawnDelayElapsed)))
  /\ WF_programVars(Running(OnGameThread(TickCoolDown \/ TickRequest)))
  /\ WF_programVars(Running(OnGameThread(FinishRequest)))
  /\ WF_programVars(Running(OnGameThread(Completion)))

ProgramSpec == ProgramInit /\ [][ProgramNext]_programVars /\ ProgramFairness

-----------------------------------------------------------------------------
(* Properties *)

\* The messages that wait for OnMessage.
MessagesIn(lambdas) ==
  {lambdas[i].m : i \in {j \in 1 .. Len(lambdas) : lambdas[j].kind = "message"}}

\* What is still to be shown: the lantern messages among those, and the accepted
\* messages that have no lantern yet.
Due ==
  {n \in MessagesIn(queue) : forms[n].lantern}
    \cup {numbers[k] : k \in Len(spawned) + 1 .. Len(accepted)}

\* A value of the pipeline, as the message of the broker that it is from.
Sender(n) == IF n = 0 THEN 0 ELSE numbers[n]

Shown ==
  [k \in 1 .. Len(spawned) |->
     [for |-> Sender(spawned[k].for), image |-> Sender(spawned[k].image),
      text |-> Sender(spawned[k].text)]]

Service == INSTANCE LanternService WITH
         sent <- forms, due <- Due, shown <- Shown, missed <- swallowed,
         stopped <- imagesFailed # {} \/ crashed \/ halted

\* Without operator spawns, connection and pipeline together are invisible:
\* whatever connections fail, break and come back in between, the messages that
\* are not missed become lanterns in the order in which the broker sent them.
ImplementsService == Service!Spec

\* A lantern message that the broker has sent is on its way to a lantern or has
\* become one, unless a client took a message while nobody listened.
NothingMissed ==
  ~swallowed =>
    \A n \in 1 .. Len(forms) :
      forms[n].lantern =>
        \/ n \in MessagesIn(queue)
        \/ \E k \in 1 .. Len(accepted) : numbers[k] = n

\* A lantern message that has come is shown in the end, unless an image request
\* fails, the process ends or the game thread stays in Disconnect.
HeardIsShown ==
  OperatorSpawns = 0 =>
    \A n \in 1 .. MaxSent :
      n \in Due ~> \/ \E k \in 1 .. Len(spawned) : Shown[k].for = n
                   \/ imagesFailed # {} \/ crashed \/ halted
                   \/ Unanswered(Game)

=============================================================================
