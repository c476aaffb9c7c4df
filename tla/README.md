# A TLA+ development of LanternProject

LanternProject is an Unreal installation: visitors send messages, an MQTT broker forwards them to the display,
and each message rises as a paper lantern with its text and picture. This directory holds TLA+ models of the
parts that decide *whether* a message becomes a lantern, *which* lantern, and *what* it shows; TLC configurations
that check them; and proofs, checked by TLAPS, of what matters most. Paths below are relative to
`src/Source/LanternProject/`, or, for the MQTT client, to `src/Plugins/MqttClient/Source/DTMqtt/`.

## 1. Inventory

| Component | State it keeps | Operations | What makes it correct |
|---|---|---|---|
| `AMqttManager` (`Private/Actor/MqttManager.cpp`) | `MqttMessageArray`; the fields `PId`, `Text`, `ImageURL`, `CallbackURL` of the message parsed last; the configuration | `ConnectToServer`, `OnConnected`, `OnDisconnected`, `OnMessage`, `HasMessage`, `RequestLanternData`, `RequestHTTP`, `OnResponseReceived`, `CallbackHTTP` | every accepted message is shown once, in order, with its own data; the callback names its own message; the display reconnects |
| `ALanternManager` (`Private/Actor/LanternManager.cpp`) | `LanternArray`, `bIsSpawning`, `CurrentSpawnCoolDown`, the start timer, one widget per lantern type | `BeginPlay`, `Tick`, `SpawnLantern`, `JustSpawnLantern`, `RemoveAllLantern`, `LoadLantern` | one request at a time; never more than 500 lanterns, the newest kept; the flag is never lost |
| `ACapturer` (`Private/Actor/Capturer.cpp`) | none of its own; a background task per picture | `Capture`, `ConvertTextureToBase64` | the file is named after the message that is pictured |
| `UDTMqttClient`, `FMqttAsyncTask` (`DTMqtt/DTMqttClient.cpp`, `Public/Actor/MqttManager.h`) | the shared pointer `MqttClient` | `Connect`, `Disconnect`, `Subscribe`, the callbacks `connected`, `connection_lost`, `message_arrived` | connections, losses and messages are reported; messages in order; the connection and the subscription come back |
| Paho C++ and C (`MqttCPP`, `MqttC`) | sessions, tokens, callbacks; the socket with its pending write and queued acknowledgements; `inboundMsgs`, `outboundMsgs`, `responses`, message ids | connect, disconnect, `set_callback`, `start_consuming`, `stop_consuming`, subscribe; publish, and the packet handlers of `MQTTProtocolClient.c` | third-party, but its guarantees are the display's: no acknowledgement is lost, messages keep their order, none comes twice, what is to be acknowledged is reported complete when it has been, every exchange ends |
| `ULanternWidget` (`Private/Widget/LanternWidget.cpp`) | the page, the image block, six text blocks | `InitWidget`, `Randomize`, `VerticalTextSet` | a lantern shows its own content, all of it, in reading order |
| `ULanternGameInstance` (`Private/GameInstance/LanternGameInstance.cpp`) | configuration, the open log file and its index, the save game, the window timer | `Init`, `LoadConfig`, `OpenLogFile`, `LogToFile`, `MoveToNextFile`, `Save`, `MoveWindowFunction`, `Shutdown` | the newest log lines are kept; files stay bounded; a missing configuration is reported and not dereferenced |
| `ALanternGameModeBase` | pawn types, the chosen index | `InitGame`, `ChoosePlayerStart` | pawn, limits and player start are those of one type; a bad index breaks the start only |
| `ALoginPlayerController`, `UErrorWidget` | a license request; alert and toast with a timer | `Login`, `OnLoginResponseReceived`, `ShowToastMessage`, `HideToastMessage` | a valid license travels to the level; a toast is shown for its time |
| `ALanternActor` | position, `NeighborArray` | `Tick`, overlap callbacks, `GetSeparation` | neighbours are alive and touched; one of two gives way; a lantern whose position is no longer a number takes no other with it |
| `ULanternSaveGame` | arrays of lanterns and messages, `LogFileIndex` | save and load | what is loaded is what was saved |
| `ASoundManager`, `ALanternFloat*`, `LoginWidget`, `MyGameModeBase`, RiderLink, assets | | | not modelled, section 8 |

**How they interact.** Paho's threads call `UDTMqttClient`, which posts a lambda to the game thread for each
event; the lambda calls `AMqttManager::OnMessage` and its siblings. `ALanternManager::Tick` polls `HasMessage`,
raises `bIsSpawning` and calls `RequestLanternData`, which parses the message into fields of `AMqttManager` and
either sends an HTTP request for the picture or calls `SpawnLantern` at once. The completion calls `SpawnLantern`
from the game thread, which lowers the flag and has `ACapturer` take a picture, store it from a background task
(reading `PId` then), and POST it to the callback URL. The level's Blueprint may call `SpawnLantern` and
`RemoveAllLantern` as well. `FMqttAsyncTask`s (pool threads) connect and retry; `OnDisconnected` (game thread)
disconnects and starts another task; all of them use one unprotected shared pointer. Everybody logs.
Inside Paho two threads share the socket: the receive thread reads a packet and answers it, the send thread takes one
command at a time; both write. Lanterns in the sky push each other: each move inside `Tick` has the engine
call the overlap callbacks of both lanterns before it returns. Before any of this, `Init` reads the configuration,
`Login` asks for a license and travels to the level, whose game mode picks pawn, limits and start by one index.

**What is hard.** The steps between taking a message and showing it are spread over four callbacks and three
classes, connected by one flag and four fields; completions may fail in several ways; the pointer to the MQTT
client is shared by several threads; Paho queues what it is asked, tries twice on its own, and refuses calls while a
connect is in progress; `start_consuming` opens a window in which callbacks are off; the widget is reused; the log index lives in memory and on disk; an acknowledgement waits
behind a partial write in a queue that is emptied whatever was sent of it; a lantern reads `NeighborCount`, moves, and
then divides by a count that its moves have changed; loading a sky spawns all lanterns in one place. `PROJECT.json` lists these hazards with their lines.

## 2. Modules

| Module | Models | State and actions against the code |
|---|---|---|
| `LanternDisplay` | the promise: accepted messages become lanterns one by one, in order, each from its own data, until the display possibly stops | abstract; no code of its own |
| `SpawnPipeline` | `AMqttManager`'s queue and HTTP, `ALanternManager`, `ACapturer` | variables carry the names of the members. `TickCoolDown` and `TickRequest` are the two ways through `Tick`; `RequestLanternData` is split in two at the write of `PId`, since a background task may read it there, and no other game-thread action is enabled in between; `OnResponseReceived` has one disjunct per way a completion ends |
| `MqttConnection` | `UDTMqttClient`, `FMqttAsyncTask`, the connection handlers of `AMqttManager`, and the Paho behaviour they rely on | `MqttClient` is the client the shared pointer holds, with its session, its queued commands, whom `m->connect` answers, and its callbacks; `pc[t]` is the place of a task in `DoWork`/`Connect`, `pc[Game]` that of the game thread in `OnDisconnected`/`Disconnect`; `queue` is the FIFO of posted lambdas. One action per call through the pointer, one per command the send thread takes, one per thing the receive thread learns |
| `LanternService` | what the whole program promises the senders: the messages it hears of become lanterns in the order in which the broker sent them, each with its own text and image; a message may be missed, and the display may stop | abstract; no code of its own |
| `MessageToLantern` | `MqttConnection` and `SpawnPipeline` in one process | `ManagerReceives` is the lambda of `message_arrived` *and* `AMqttManager::OnMessage` in one step; `Handle` the connection's other handlers on the game thread, `OnGameThread` the pipeline's, which wait while `OnDisconnected` blocks it in `Disconnect`, as `Handle` waits for `RequestLanternData`; `Communicate` and `Save` are the other threads. The history `forms` is what the broker sent, `numbers` which of that each accepted message is |
| `MessageDelivery` | inside one connection of Paho: publications in both directions with QoS 0 to 2, acknowledgements, message ids, one socket with partial writes | `ReadySocket` is `isReady`, `Receive` the one packet `MQTTAsync_cycle` then handles (one operator per packet handler), `WriteAvailable`, `StartPublish` and `StartPublishQoS0` what the two threads write; `WriteComplete` is `MQTTAsync_writeComplete`, which comes after a write in a step of its own (`finished`) and reports the QoS 0 publication that is flagged by then (`pendingWrite`); `Forward` and `BrokerReads` are the broker |
| `OrderedDelivery` | what MQTT promises one direction of a connection: messages are delivered in the order of their quality of service, none twice and none passed over, the end of what the sender awaits comes afterwards, and only a loss takes away what is under way | abstract; no code of its own. `MessageDelivery` implements it once for each direction |
| `LanternWidget` | `InitWidget` and the snapshot of `JustSpawnLantern` | a block holds the *set* of (message, position) characters it shows, so a stale or lost character is visible in the state |
| `LanternSky` | `ALanternActor`, `ALanternManager`'s array with `LoadLantern`, `ULanternSaveGame` | `Moved` is one move with the overlap callbacks of both lanterns; `Tick`, `SpawnLantern`, `LoadLantern` and the destructions are compositions of moves, in the code's order |
| `LogRotation` | the log files and the save game of `ULanternGameInstance` | `files` and `saved` survive a crash, `LogFileIndex` and `handle` do not |
| `Installation` | `LogRotation` composed with the rest of `ULanternGameInstance`, `ALoginPlayerController`, `ALanternGameModeBase` and `UErrorWidget` | `phase` is where the session is between the start of the process and the playing level; `TagPlayerStart` and `InitGame` are the loop of `InitGame` and what follows it. A handler that logs takes a step of `LogRotation` in the same step |

`MC*` modules hold instances for TLC, `*Proofs` modules the theorems of the module they are named after
(`InstallationProofs` those of `LogRotation` too, `MessageOrderProofs` those of `MessageDelivery` about order).

Abstractions. In `SpawnPipeline` a message is its number, and a field holds the number of the message it is from
or 0 when empty: that is all the properties tell apart. The cool-down counts ticks. A null dereference ends
the process (`crashed`); nothing in that module survives a restart, so a restart is `Init` again.

`MqttConnection`:

* The pointer is the only reference to a client, so the model keeps the client itself, and a reassignment destroys
  the one before. What a thread still does on a destroyed client (`start_consuming`'s second half) is undefined
  behaviour: a crash or any outcome of the call.
* Each call through the pointer is one step with the null check before it. A reassignment by another thread *during*
  a call would add undefined behaviour only, which is a crash, excepted by the properties, or no effect.
* Answering a token moves the waiting thread on in the same step. A token named by `m->connect` after Paho freed it
  (`Freed`) is undefined behaviour again.
* Paho's mutexes make each of its calls, and each turn of its send and receive threads, atomic. A loss found by a
  missing ping answer is one step with the internal DISCONNECT it queues.
* Subscribing takes effect at once: no SUBSCRIBE is queued, refused or lost. A message that comes before any callback
  is installed waits in Paho, as if it had not been sent.

`MessageDelivery`: packets are records of type, id, QoS and message. The broker answers as MQTT 3.1.1 obliges it to and
sends nothing twice on one connection; it forwards only while it has a free id. Sessions are clean and `Connect` makes
a new client each time, so that a loss ends every exchange on both sides. Left out here (not in `MqttConnection`) is that
Paho may first try once more with MQTT 3.1 on the same client, which keeps its commands and ids until CONNACK. A
publication of our own with QoS 0 has no id and no exchange; it is reported complete when it is written, and the broker
may never publish it. The limit on messages in flight is not reached before the ids are used up. `isReady` is modelled as it is compiled,
without OpenSSL: a socket with a pending write is not read.

`LanternWidget`: line breaks inside a block are left out.

`LanternSky`: a place is a cell of a grid, heights and speeds are left out, and a step leads to any cell the code's
direction allows, so the model has every order of meetings the geometry has, and more. A lantern whose location is
not a number overlaps nothing. Only `LanternMesh` takes part in overlaps; `BlankMeshComponent` is assumed to raise
no events. The C++ offers `SaveLanternArray` and `LoadLanternArray` to a caller it does not have; the model calls
them at the end and at the start of a session.

`LogRotation`, `Installation`: a line is a number and 100 MB are `FileSize` lines. A configuration is which of the keys
that are dereferenced it has, and its `PawnType`. Everything runs on the game thread. It is assumed that the types of
`PawnTypeArray` have a class and that the level has a lantern manager; a toast is on the screen while its border is
visible. Timers belong to the game instance and survive the travel. A line after `MaxLines` is not counted.

Definitions in the modules whose comment begins with "Variant" are mutated forms of the definition that follows.
They are used only to show that each checked property can fail.

## 3. Runs

| Run | Instance | What it shows |
|---|---|---|
| `pipeline_safety` | 3 messages of every shape, every outcome, capacity 2, cool-down 1 tick, no operator | own data, the flag: `CallbacksMatch`, `StalledIffImageFailed`, `OwnNameWhenCurrent`; and the refinement `ImplementsDisplay`, its fairness included: every accepted message is shown, in order |
| `pipeline_operator` | 3 messages with pictures, one spawn by the operator at any moment | what survives interference: no lantern has an *earlier* message's data, `LanternArray` is the newest run |
| `connection` | 2 failed attempts, 2 losses (so 3 tasks), 3 waiting events | `ReconnectUnderWay`, `SubscribeUnderWay`, and `EventuallyOnline` |
| `service` | connection and pipeline: 2 messages, each a lantern message with a picture or a foreign one, 1 loss (2 tasks), 2 waiting events, image requests that succeed, fail or end the process | the refinement `ImplementsService`: what the display hears of is shown in the order in which it was sent; `NothingMissed`: the display hears of all but what a client took while nobody listened; `HeardIsShown`: what it hears of is shown in the end |
| `loss_reported`, `connected_reported`, `disconnect_returns` | 1 loss (2 tasks) | violated: section 6 |
| `delivery` | ids 1 and 2, QoS 0 to 2, 2 messages in, 2 out and a third that uses the first one's id again (`ThirdAsFirst`), 2 partial writes, 1 loss | no acknowledgement is dropped (`NothingDropped`), every exchange of the broker goes on (`InboundGoesOn`) and is forgotten only when received (`ForgottenWhenReceived`), ours are published once and reported once, those to be acknowledged only when published (`CompletedWhenPublished`); the refinement `ImplementsDelivery`: each direction is an ordered delivery; and `ExchangesEnd`: both share the socket and no exchange waits for ever |
| `widget` | 2 types, 2 lanterns, lengths on both sides of every boundary (0, 1, 8, 9, 16, 17, 24, 25, 31, 32, 33) | `NoStaleContent`, `TextComplete` (whole, or the first 16 characters, and in reading order), `ImageShown` |
| `widget_32` | 1 lantern | violated: section 6 |
| `sky` | grid of 3 by 2, capacity 3, 6 lanterns over all sessions | `SkyListed`, `NeighborsTouch`, `PairsSettled`, `LoadedAsSaved` |
| `installation` | 9 configurations (complete, each thing missing or wrong, an empty file, no file), 4 levels, 2 pawn types, 2 toasts of 2 steps; ring of 3 files of 2 lines, 8 lines, 2 crashes, 1 open that fails | the log properties `NewestKept`, `OpenFileIsNewest`, `FilesBounded` in the composition; `OneType`, `SetupSafe`, `ToastKeepsItsTime`, `ToastEnds`, `StartupEnds`; and `LogSpec`: the installation implements `LogRotation` |

**Why the bounds are enough to be interesting.** Three messages and a capacity of two let the queue grow while a
message is in work, let the fields be overwritten for a later message, and let the array overflow. Two losses put
three tasks at work at once, which is what it takes for one to replace the client a second is about to use while a
third waits; two failures let both versions of MQTT be refused, so that a task gives up and starts again. Two ids with
three publications of our own make an id be used again, and two partial writes let one write wait while another is
begun. The third is sent only where the first two have ids and the
first has its quality of service (`ThirdAsFirst`, a constraint on what is sent and on nothing the program does): for order and
for what has no id, two in each direction are enough.
Two lanterns are what stale content needs: one to leave it and one to show it. Three lanterns in the sky are what it
takes for a move away from one to meet or leave another in the middle of `Tick`; six let the array be full, lose
its oldest, be saved and be loaded again. Eight lines turn a ring of three two-line files once and reopen a full
file. Two toasts let one replace the other or follow it after a click. The proofs (section 5) do not depend on any
bound. Two messages on one connection and across a loss are what it takes for one to overtake the other anywhere between the broker
and the sky, a foreign one among them. `MaxEvents`, the number of waiting lambdas, limits the guard of `Connack` only.

Deadlock is not checked: with bounded messages, losses and lines every model may come to rest, a crashed process
stops, and a display without messages has nothing to do.

## 4. Fairness

`SpawnPipeline`: the engine goes on ticking, its one-shot timer fires, and every HTTP request completes, with
success or failure (Unreal times requests out); hence weak fairness of each `Tick` disjunct, the timer, the
completions and the background tasks. `MqttConnection`: every pool thread, the game thread and Paho's send thread go on
running, and a connect attempt is answered or timed out by Paho (`MQTTAsync_checkTimeouts`). No fairness is assumed of
the broker's messages, of losses, or of the operator. `MessageToLantern` assumes the same, with one game thread for both:
each handler of the pipeline is fair on its own, since `Tick` is called in every frame and completions and lambdas are queued.
`EventuallyOnline` names the ways in which the code does not come back for good: a crash, a loss or a connection that
is reported to nobody, the game thread waiting in `Disconnect` for ever, and two tasks that keep replacing each
other's client. `disconnect_returns` is checked under the same fairness: its counterexample is not a thread that stops.

`MessageDelivery`: Paho's two threads go on, the socket takes in the end what is written, and the broker reads and
answers. Nobody is obliged to publish. `Installation`: the game thread goes on through the startup, its timers
advance, and a request ends in one of its ways; nothing is assumed of clicks, quits, power losses, or the window.
`LanternSky` states no liveness and no fairness.

## 5. Proofs

All proofs are checked by TLAPS for every value of the constants that satisfies the ASSUMEs.

`SpawnPipelineProofs`: `TypeCorrect`; then `PipelineCorrect`, the inductive invariant. `LanternsInOrder` is not
inductive: that the next lantern is the right one depends on which message the outstanding request or the running
handler is about, and that the fields still hold that message's data. `PipelineInv` says that the pipeline is
always in one of six phases (`Delayed`, `Ready`, `Parsing`, `Waiting`, `Stuck`, `Dead`) which fix the flag, the
request and the message in work, that the queue holds the accepted messages not yet taken (`QueueInOrder`), and
that the fields are those of the last message taken (`FieldsCurrent`). From it follow `LanternsInOrderCorrect`,
`CallbacksMatchCorrect`, `OneRequestAtATimeCorrect`, `StalledIffImageFailedCorrect`, the action property
`OwnNameCorrect`, and `DisplayImplemented`: every step is a step of `LanternDisplay` or a stutter. These are stated
for `OperatorSpawns = 0`, as the properties are: with the operator's interference they are false. What is left then is
`NoEarlierDataCorrect` and `NewestLanternsCorrect`, for any number of operator spawns, from an invariant of their own:
`DataInv` says that a field is empty or that of the last message taken, and that every lantern and every outstanding
request is that message's or an earlier one's.

`MqttConnectionProofs`: `ConnectionTypeCorrect`; `SubscribeCorrect`, inductive as it stands (a connection that is announced
posts its own connected event after it is up, and the queue is first in first out); `DriverCorrect`, then
`ReconnectCorrect`; `MessagesCorrect`. `ReconnectUnderWay` is not inductive: a task may be "at work" and yet about to
finish, and the game thread or a task in `Disconnect` goes on only when its DISCONNECT is answered. `DriverInv`
therefore says two things. `CommandsFit` describes the send thread's queue: a CONNECT only in front, with `m->connect`
answering no thread but the one that waits for it, and behind it DISCONNECTs, each awaited by a thread of its own.
`Driven` says that, without a connection, a task is at a step from which it connects or retries, or waits for an
attempt that is queued or in progress, or the game thread has a loss to handle. `MessagesCorrect` has two halves.
`MessagesInv` places the messages in the queue after those received and before those to come, which gives their order;
that none is missing is inductive once `swallowed` tells whether a client has dropped one, since every other message
is posted in the step that takes it and leaves the queue in the step that receives it. The proofs use only the ranges
of the bounds, so they hold for any number of tasks, losses and failures.

`MessageToLanternProofs`: the program as a whole. `PartsImplemented` says that every behaviour of the program is one of
`MqttConnection` and one of `SpawnPipeline`, fairness apart, hence that the safety proved of the parts holds of it; its one difficult case is
`ManagerReceives`, where the message taken from the queue must be one the broker sent (`FormsInv`). `ProgramCorrect` is the
inductive invariant: those of both parts and what connects them. `NumbersInv` says that the accepted messages are, in their
order, messages sent and received, and `AcceptedInv` that every lantern message received has been accepted.
`NothingMissedCorrect` follows from it with the second half of `MessagesCorrect`. `ServiceImplemented` is the refinement: what is
*due* is what waits in the queue of lambdas and what is accepted and has no lantern. Receiving moves a message from
the one to the other and is invisible; so is all of the reconnecting. A lantern is shown for the least message that is due, since
`MessagesInv` puts the messages waiting after those received, `NumbersInv` the accepted ones in order, and
`DisplayStep`, the refinement of the pipeline, says which accepted message comes next and what it may look like.

`MessageDeliveryProofs` and `MessageOrderProofs` prove every safety property of the delivery, for any number of ids,
messages, partial writes and losses: `TypeCorrect`, then `DroppedNever`. `writeAvailable` empties
a queue it may have sent only in part; `QueueInv` says why that is safe. An acknowledgement is queued only while a
write is pending, by the turn of the receive thread that was ready before that write began; the thread is not ready again
until the write is done, so that no second one joins it. `ExchangesCorrect` is what the rest stands on. `InboundGoesOn`
is not inductive: it says nothing of our own publications, whose packets share the queues, nor of the publication a
packet carries. `Going` says of the exchange of an id, in either direction, that it has exactly one packet under way,
counted over the queue and the socket, and for each type of packet what the sender waits for and what the receiver
has stored or passed on; `Fits` that a publication under way is the one of its exchange; `CommandsInv` that commands
have ids of their own whose exchanges are free, so that `startPublish` never replaces one. The counts are what each
write, read and flush changes by one, and a handler then moves one exchange and no other. From it: `InboundCorrect`; `ForgottenCorrect`,
as the packet that frees the broker's exchange is one sent after `messageArrived`; `CompletionCorrect`, with
`CompletionInv`: a message of ours that is to be acknowledged waits in one place at a time, and is published only with the packet under way that
reports it, however often its id is used again; and with `DirectInv` for QoS 0: its packet is the only one, it is not published while that is
under way, and it is flagged or reported only when it is no longer a command. `OrderCorrect` is the harder half for QoS 2, whose messages wait in
five places. `Cuts` says that at any time four messages separate them: what was received comes before what PUBREL
releases, that before the PUBRECs in the socket, those before the one in the queue, that before the PUBLISHes
to come; each step moves one of the four. `OutOrderCorrect` says the same of our own publications, which wait among the
commands, in the socket and, QoS 2, with the broker: three messages (`OutCuts`) separate the places of those, and
`SentFirst` has every publication in the socket come before those among the commands.

`DeliveryImplemented` is what all of this is for: each direction implements `OrderedDelivery`. The mapping
says what is *due* (the publications under way and the QoS 2 messages stored by the receiver) and what is *awaited*
(what the sender keeps until its acknowledgement: nothing of QoS 0). A step that delivers delivers the *least* due message of its quality of
service, by the order invariants: this is where none is passed over. A step that ends an exchange
ends one whose message is delivered, by `Going`. A loss empties both. All other steps, though they move
messages between queues, stores and the socket, leave what is due and what is awaited as they are.

`InstallationProofs`, first about `LogRotation` by itself: `TypeCorrect` and `OpenFileCorrect`; `BoundedCorrect`, by an invariant on which file the saved
index may name at its full size; `NewestCorrect`. `NewestKept` is far from inductive: what a file holds after the ring
has turned depends on what all others hold. `RingAt` gives each file its place by its distance from the open one: around
the ring the lines get newer, behind the lines of a closed file there are as many lines as the files from it to the open one
hold when they are full, and the file `MoveToNextFile` clears is the one farthest away. `RingInv` says so of the open file while the program runs
and of the saved index between two runs, if nothing crashed.

`LanternWidgetProofs`: `LanternInv` says that the last lantern shows what one of the cases of `InitWidget` makes of its
own texture and text, whichever widget it was. The slices of `VerticalTextSet` are then counted out for any length:
`NothingStale`, `TextCorrect`, `ImageCorrect`.

`LanternSkyProofs`: `SkyInv` says that the array lists every lantern once, that who is pushed is touched, and that the
save game says who pushes whom. A handler is a sequence of moves and the properties hold after each of them, so the
proof is about the operators first: a callback keeps neighbours touching and pairs settled, hence a move does, hence
`Tick`, spawning and removal do. `ListedCorrect`, `NeighborsCorrect`, `PairsCorrect` and `LoadedCorrect`
follow, for any grid and capacity.

Then, about the installation: `LogImplemented`, the refinement: a session exists exactly while the log runs, and each step of a
handler is a step of `LogRotation` or leaves it alone. `LogCarriedOver` then takes the theorems about the log
over to the installation without a new proof. `ToastCorrect` rests on `ToastInv`: the toast on the screen has the
one timer there is, armed when it was shown. `OneTypeCorrect` and `SetupCorrect` rest on `ModeInv`: `PlayerStart` holds the
last start of each type among those looked at, and from `InitGame` on the index is -1 or the one of the configuration.
With all three, `InstallationTypeCorrect`.

Only model-checked: the liveness properties `HeardIsShown`, `EventuallyOnline`, `ExchangesEnd`, `ToastEnds`,
`StartupEnds` and the fairness half of `ImplementsDisplay` (liveness and ENABLED are outside the prover's reach). What a recursive
definition computes for every input would need induction over data, which is out of reach too; the modules have no
RECURSIVE operator.

## 6. Where code and words disagree

* `loss_reported`: `DTMqttClient.h:117` says of the callback "This method is called when the connection to the server
  is lost." `Connect` calls `start_consuming` after the connection is up, and that first installs callbacks without
  a connection-lost handler (`async_client.cpp:872`); a loss in this window is not reported: `OnDisconnected` does not
  run and no task reconnects. What may still happen is Paho's own second attempt with MQTT 3.1 on the same client
  (`MQTTAsyncUtils.c:1584`), one only, whose failure is not reported either. `ReconnectUnderWay` shows that this, a crash and the game thread's wait below are the only ways in
  which a reconnection is forgotten. In the same window a message is acknowledged and dropped (`async_client.cpp:380`);
  `NothingMissed` shows that this and a missing listener are the only ways in which one is lost.
* `connected_reported`: `DTMqttClient.h:111` says "This method is called when the client is connected." Paho refuses
  `set_callback` while a connect is in progress, and the C++ client then resets its listener
  (`async_client.cpp:368`). A second task whose `set_callback` meets the client a first task is connecting makes that
  connection come up with nobody to tell: `OnConnected` never subscribes, the display is connected and deaf.
* `disconnect_returns`: `DTMqttClient.h:21` calls the wrapper "non-blocking". `Disconnect` waits on the game thread for
  the token of a queued DISCONNECT (`DTMqttClient.cpp:187`); when the connection has ended by the time the send thread
  takes it, Paho drops it without an answer (`MQTTAsyncUtils.c:1462`), and the display freezes.
* `widget_32`: `LanternWidget.cpp:24` says "up to 32 char"; the test is `< 32`, and a text of exactly 32 characters
  shows 16.

The models also show behaviour that no document contradicts: an image request that is only logged stops the display
(`StalledIffImageFailed`); a screenshot may be filed under a later message's `PId` (`OwnNameWhenCurrent` is what
holds); a text of 17 to 31 characters displaces its image (`ImageShown`); after a crash the ring may delete
newer lines before older ones (`NewestKept` is stated without a crash); two lanterns that meet at the same x never
give way to each other, and in a loaded sky both may (`PairsSettled`); a lantern whose last neighbour leaves while it
moves loses its location (`NeighborsTouch` shows that it takes no other with it); a QoS 0 publication of our own, which nothing here asks for,
may be reported complete while a part of it is still to be written: `m->pending_write` has room for one, and between the end of a
partial write and its `writeComplete` the send thread may begin another, which then takes its place
(`MQTTAsyncUtils.c:1455`), while the first is never reported (`CompletedWhenPublished` is what holds); a missing key, a `PawnType` or a `PlayerStartTag` outside the array
ends the process (`SetupSafe`), an empty `Config.txt` by way of the window timer, as does a license request that fails.

## 7. Plan

Done, in the order of what decides whether a message is shown, what it shows, and what surrounds it: `SpawnPipeline`,
`MqttConnection`, `LanternWidget`, `LogRotation`, `Installation` (game mode, login, toasts, with the log composed and
refined), `LanternSky` (neighbours, capacity, save game), `MessageDelivery`, `MessageToLantern` (connection and pipeline composed), and
proofs for each.

Open:

1. A lock-order module: `lock_` and Paho's mutexes (`async_client.cpp:353`).
2. The safety half of `ExchangesEnd`: a measure of what is left of an exchange that every handler decreases.

The runs stay a dozen: where a composed module or a larger instance checks a property, the run of the
part goes, and invariants and liveness of one module share a run where the instance allows.

## 8. Not modelled

Most of the repository's lines are not the program's. RiderLink (the editor's integration with an IDE, with its vendored
RPC library, logger and containers) is three fifths of them, is loaded in the editor only and takes no part in what
runs; of Paho, the parts for MQTT 5 properties, WebSockets, TLS, persistence, tracing, heap accounting and packet
encoding are either not compiled or not reached by the way the wrapper uses it. The models cover the rest, which is
why their share of all lines is small.

Of the program itself: `ASoundManager` loads one file and plays it; `ALanternFloat*` spawns decoration and moves it;
`LoginWidget` and `MyGameModeBase` are empty shells; assets are binary. The heights and speeds of lanterns are
floating-point geometry. `ReconnectToServer`, `Unsubscribe` and the saving and loading of the message array have no
caller in the C++.

Hazards and details that are known and left out:

* the order of `lock_` and Paho's mutex, the race on the wrapper's `ConnectOptions`, Paho stopping its threads with
  the last client, the flag `connect_sent`, and the wrapper's `FinishDestroy`: Paho's calls are atomic here;
* the lambdas of `FMqttAsyncTask::DoWork` capture a task that deletes itself; they only log;
* `Shutdown` deletes the file handle and keeps the pointer (`LanternGameInstance.cpp:52`); nothing is logged after it here;
* a message with neither texture nor text: `InitWidget` then only picks a page, and what the snapshot shows is what
  was left on it;
* a game that is saved twice in one session has its lanterns twice in the save game; a session here ends with one save;
* a log file that cannot be deleted (`LanternGameInstance.cpp:184`) and a save game that cannot be written (210): both calls
  succeed here;
* a level without a lantern manager, for which `InitGame` returns early (`LanternGameModeBase.cpp:55`);
* in `MessageDelivery`, Paho's second attempt on the same client after a loss;
* `Save` asks the controller to pause, which has no effect on the state that is modelled.
