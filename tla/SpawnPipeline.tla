--------------------------- MODULE SpawnPipeline ---------------------------
(***************************************************************************)
(* From an accepted MQTT message to a lantern on the screen: AMqttManager  *)
(* (the message queue, the parsed fields, the image request and the        *)
(* callback), ALanternManager (Tick, bIsSpawning, the cool-down, the       *)
(* lantern array) and ACapturer (the callback image and the screenshot     *)
(* that a background thread saves).                                        *)
(*                                                                         *)
(* Threads.  Tick, OnMessage, the timers and the HTTP completions all run  *)
(* on the game thread, one at a time.  Only the screenshot task runs on a  *)
(* background thread, and it reads PId without a lock; therefore the one   *)
(* handler that rewrites PId, RequestLanternData, is split at that write   *)
(* (RequestLanternData / FinishRequest), and no other game-thread action   *)
(* is enabled in between (CurrentMessage # 0).                             *)
(*                                                                         *)
(* Data.  The n-th accepted message is the number n.  A field copied from  *)
(* a message (its pid, text, image URL, callback URL, image) is that       *)
(* number, and 0 when it is empty: a value says which message it is from.  *)
(*                                                                         *)
(* An unhandled null dereference (a completion without a response object,  *)
(* a response that is not JSON) ends the process: crashed.  Nothing of     *)
(* this state is written to disk, so a restart begins again at Init.       *)
(***************************************************************************)
EXTENDS Integers, Sequences, FiniteSets

CONSTANTS
  Forms,             \* the shapes of message the broker or an operator sends
  MaxMessages,       \* bound: accepted messages
  MaxLanterns,       \* capacity of LanternArray (500 in the code)
  SpawnCoolDown,     \* ticks of cool-down after a message is taken
  ImageOutcomes,     \* how an image request may complete
  CallbackOutcomes,  \* how a callback POST may complete
  OperatorSpawns     \* bound: SpawnLantern calls made by the level Blueprint

\* A message: does it pass CheckIsLanternData, and which body fields it has.
Form == [lantern: BOOLEAN, pid: BOOLEAN, text: BOOLEAN, img: BOOLEAN,
         callback: BOOLEAN]

\* Completions after which OnResponseReceived spawns a lantern, those after
\* which it only logs and returns, and those on which it dereferences null.
SpawningOutcomes == {"image", "undecodable"}
SilentOutcomes   == {"failed_after_headers", "bad_status", "no_result"}
FatalOutcomes    == {"no_response", "not_json"}

ASSUME FormsAssumption == Forms \subseteq Form
ASSUME MaxMessagesAssumption == MaxMessages \in Nat
ASSUME MaxLanternsAssumption == MaxLanterns \in Nat \ {0}
ASSUME SpawnCoolDownAssumption == SpawnCoolDown \in Nat
ASSUME ImageOutcomesAssumption ==
  ImageOutcomes \subseteq SpawningOutcomes \cup SilentOutcomes \cup FatalOutcomes
ASSUME CallbackOutcomesAssumption ==
  CallbackOutcomes \subseteq {"answered"} \cup FatalOutcomes
ASSUME OperatorSpawnsAssumption == OperatorSpawns \in Nat

VARIABLES
  accepted,              \* history: the messages OnMessage queued, in order
  MqttMessageArray,      \* the queue, of numbers of accepted messages
  CurrentMessage,        \* message a running RequestLanternData popped, or 0
  PId, Text, ImageURL, CallbackURL,   \* fields of the last parsed message
  imageRequests,         \* messages whose image request is outstanding
  imagesFailed,          \* history: messages whose completion was only logged
  bIsSpawning,
  CurrentSpawnCoolDown,
  startDelay,            \* the StartSpawnDelay timer has not fired yet
  spawned,               \* history: every lantern SpawnLantern ever made
  LanternArray,          \* indices into spawned of the lanterns alive
  operatorSpawns,        \* SpawnLantern calls the Blueprint made so far
  posted,                \* history: the callback POSTs sent
  callbacksPending,      \* lanterns whose callback POST is outstanding
  shotsPending,          \* lanterns whose screenshot task has not run
  screenshots,           \* history: the files saved
  crashed

parsedFields == <<PId, Text, ImageURL, CallbackURL>>
lanternVars  == <<spawned, LanternArray, posted, callbacksPending, shotsPending>>
vars == <<accepted, MqttMessageArray, CurrentMessage, parsedFields,
          imageRequests, imagesFailed, bIsSpawning, CurrentSpawnCoolDown,
          startDelay, lanternVars, operatorSpawns, screenshots, crashed>>

\* What a data race on the buffer of PId may leave in a file name.
Torn == -1

\* The value that field f of message n is read as.
FieldOf(n, f) == IF accepted[n][f] THEN n ELSE 0

\* Messages popped from the queue so far.
Taken == Len(accepted) - Len(MqttMessageArray)

TypeOK ==
  /\ accepted \in Seq(Form)
  /\ MqttMessageArray \in Seq(Nat)
  /\ CurrentMessage \in Nat
  /\ PId \in Nat /\ Text \in Nat /\ ImageURL \in Nat /\ CallbackURL \in Nat
  /\ imageRequests \subseteq Nat
  /\ imagesFailed \subseteq Nat
  /\ bIsSpawning \in BOOLEAN
  /\ CurrentSpawnCoolDown \in 0 .. SpawnCoolDown
  /\ startDelay \in BOOLEAN
  /\ spawned \in Seq([for: Nat, image: Nat, text: Nat])
  /\ LanternArray \in Seq(Nat)
  /\ operatorSpawns \in 0 .. OperatorSpawns
  /\ posted \subseteq [url: Nat, pid: Nat, lantern: Nat]
  /\ callbacksPending \subseteq Nat
  /\ shotsPending \subseteq Nat
  /\ screenshots \subseteq [name: Nat \cup {Torn}, of: Nat]
  /\ crashed \in BOOLEAN

\* The managers after BeginPlay, with the start timer armed.
Init ==
  /\ accepted = <<>>
  /\ MqttMessageArray = <<>>
  /\ CurrentMessage = 0
  /\ PId = 0 /\ Text = 0 /\ ImageURL = 0 /\ CallbackURL = 0
  /\ imageRequests = {}
  /\ imagesFailed = {}
  /\ bIsSpawning = TRUE
  /\ CurrentSpawnCoolDown = 0
  /\ startDelay = TRUE
  /\ spawned = <<>>
  /\ LanternArray = <<>>
  /\ operatorSpawns = 0
  /\ posted = {}
  /\ callbacksPending = {}
  /\ shotsPending = {}
  /\ screenshots = {}
  /\ crashed = FALSE

\* The game thread is free to run a handler.
GameThreadIdle == ~crashed /\ CurrentMessage = 0

-----------------------------------------------------------------------------
(* AMqttManager: the queue *)

\* Variant: a message without a callback is rejected.
CheckIsLanternDataComplete(m) == m.lantern /\ m.callback

CheckIsLanternData(m) == m.lantern

\* A message reaches the game thread: queued if it is a lantern message.
OnMessage(m) ==
  /\ GameThreadIdle
  /\ Len(accepted) < MaxMessages
  /\ IF CheckIsLanternData(m)
     THEN /\ accepted' = Append(accepted, m)
          /\ MqttMessageArray' = Append(MqttMessageArray, Len(accepted) + 1)
     ELSE UNCHANGED <<accepted, MqttMessageArray>>
  /\ UNCHANGED <<CurrentMessage, parsedFields, imageRequests, bIsSpawning,
                 CurrentSpawnCoolDown, startDelay, lanternVars,
                 operatorSpawns, imagesFailed, screenshots, crashed>>

HasMessage == MqttMessageArray # <<>>

-----------------------------------------------------------------------------
(* ALanternManager: spawning *)

\* Variant: capacity checked after it is exceeded.
WithRoomLate(lanterns) == IF Len(lanterns) > MaxLanterns THEN Tail(lanterns)
                                                         ELSE lanterns

\* Capacity is enforced by dropping the oldest lantern, at exactly
\* MaxLanterns.
WithRoom(lanterns) == IF Len(lanterns) = MaxLanterns THEN Tail(lanterns)
                                                     ELSE lanterns

\* CallbackHTTP: POST the picture of lantern k to url, naming pid.
CallbackHTTP(k, url, pid) ==
  IF url = 0
  THEN UNCHANGED <<posted, callbacksPending>>
  ELSE /\ posted' = posted \cup {[url |-> url, pid |-> pid, lantern |-> k]}
       /\ callbacksPending' = callbacksPending \cup {k}

\* ACapturer::Capture: start the screenshot task, then send the callback.
Capture(k, url, pid) ==
  /\ shotsPending' = shotsPending \cup {k}
  /\ CallbackHTTP(k, url, pid)

\* Variant: the flag is not cleared after a spawn.
SpawnLanternFlagKept(n, image, text, url, pid) ==
  /\ spawned' = Append(spawned, [for |-> n, image |-> image, text |-> text])
  /\ LanternArray' = Append(WithRoom(LanternArray), Len(spawned) + 1)
  /\ Capture(Len(spawned) + 1, url, pid)
  /\ UNCHANGED bIsSpawning

\* SpawnLantern on behalf of message n, with the current callback fields.
SpawnLantern(n, image, text, url, pid) ==
  /\ spawned' = Append(spawned, [for |-> n, image |-> image, text |-> text])
  /\ LanternArray' = Append(WithRoom(LanternArray), Len(spawned) + 1)
  /\ Capture(Len(spawned) + 1, url, pid)
  /\ bIsSpawning' = FALSE

\* Variant: a looping start timer.
StartSpawnDelayLooping ==
  /\ GameThreadIdle
  /\ bIsSpawning' = FALSE
  /\ startDelay' = FALSE
  /\ UNCHANGED <<accepted, MqttMessageArray, CurrentMessage, parsedFields,
                 imageRequests, CurrentSpawnCoolDown, lanternVars,
                 operatorSpawns, imagesFailed, screenshots, crashed>>

\* The one-shot timer armed by BeginPlay opens the pipeline.
StartSpawnDelayElapsed ==
  /\ GameThreadIdle
  /\ startDelay
  /\ startDelay' = FALSE
  /\ bIsSpawning' = FALSE
  /\ UNCHANGED <<accepted, MqttMessageArray, CurrentMessage, parsedFields,
                 imageRequests, CurrentSpawnCoolDown, lanternVars,
                 operatorSpawns, imagesFailed, screenshots, crashed>>

\* Variant: the cool-down counts past zero.
TickCoolDownUnguarded ==
  /\ GameThreadIdle
  /\ ~bIsSpawning
  /\ CurrentSpawnCoolDown' = CurrentSpawnCoolDown - 1
  /\ UNCHANGED <<accepted, MqttMessageArray, CurrentMessage, parsedFields,
                 imageRequests, bIsSpawning, startDelay, lanternVars,
                 operatorSpawns, imagesFailed, screenshots, crashed>>

\* Tick while cooling down.
TickCoolDown ==
  /\ GameThreadIdle
  /\ ~bIsSpawning
  /\ CurrentSpawnCoolDown > 0
  /\ CurrentSpawnCoolDown' = CurrentSpawnCoolDown - 1
  /\ UNCHANGED <<accepted, MqttMessageArray, CurrentMessage, parsedFields,
                 imageRequests, bIsSpawning, startDelay, lanternVars,
                 operatorSpawns, imagesFailed, screenshots, crashed>>

\* Variant: the newest message is taken.
RequestNewest ==
  /\ CurrentMessage' = MqttMessageArray[Len(MqttMessageArray)]
  /\ MqttMessageArray' = SubSeq(MqttMessageArray, 1, Len(MqttMessageArray) - 1)
  /\ PId' = 0 /\ Text' = 0 /\ ImageURL' = 0 /\ CallbackURL' = 0

\* RequestLanternData up to the point where ParseMessage has cleared the
\* fields of the previous message.
RequestLanternData ==
  /\ CurrentMessage' = Head(MqttMessageArray)
  /\ MqttMessageArray' = Tail(MqttMessageArray)
  /\ PId' = 0 /\ Text' = 0 /\ ImageURL' = 0 /\ CallbackURL' = 0

\* Variant: bIsSpawning is not raised.
TickRequestFlagDown ==
  /\ GameThreadIdle
  /\ ~bIsSpawning
  /\ CurrentSpawnCoolDown = 0
  /\ HasMessage
  /\ CurrentSpawnCoolDown' = SpawnCoolDown
  /\ RequestLanternData
  /\ UNCHANGED <<accepted, imageRequests, bIsSpawning, startDelay, lanternVars,
                 operatorSpawns, imagesFailed, screenshots, crashed>>

\* Tick that takes a message: the flag and the cool-down are set first.
TickRequest ==
  /\ GameThreadIdle
  /\ ~bIsSpawning
  /\ CurrentSpawnCoolDown = 0
  /\ HasMessage
  /\ bIsSpawning' = TRUE
  /\ CurrentSpawnCoolDown' = SpawnCoolDown
  /\ RequestLanternData
  /\ UNCHANGED <<accepted, imageRequests, startDelay, lanternVars,
                 operatorSpawns, imagesFailed, screenshots, crashed>>

\* Variant: the pid is not read.
ParseMessageWithoutPId(n) ==
  IF CheckIsLanternData(accepted[n])
  THEN /\ Text' = FieldOf(n, "text")
       /\ ImageURL' = FieldOf(n, "img")
       /\ CallbackURL' = FieldOf(n, "callback")
       /\ UNCHANGED PId
  ELSE UNCHANGED parsedFields

\* ParseMessage fills the fields from message n.
ParseMessage(n) ==
  IF CheckIsLanternData(accepted[n])
  THEN /\ PId' = FieldOf(n, "pid")
       /\ Text' = FieldOf(n, "text")
       /\ ImageURL' = FieldOf(n, "img")
       /\ CallbackURL' = FieldOf(n, "callback")
  ELSE UNCHANGED parsedFields

\* The rest of RequestLanternData: fill the fields, then ask for the image,
\* or spawn at once when the message has none.
FinishRequest ==
  /\ ~crashed
  /\ CurrentMessage # 0
  /\ CurrentMessage' = 0
  /\ ParseMessage(CurrentMessage)
  /\ IF ImageURL' # 0
     THEN /\ imageRequests' = imageRequests \cup {CurrentMessage}
          /\ UNCHANGED <<lanternVars, bIsSpawning>>
     ELSE /\ SpawnLantern(CurrentMessage, 0, Text', CallbackURL', PId')
          /\ UNCHANGED imageRequests
  /\ UNCHANGED <<accepted, MqttMessageArray, CurrentSpawnCoolDown, startDelay,
                 operatorSpawns, imagesFailed, screenshots, crashed>>

\* The image request of message n completes: with the image, or with data
\* Base64ToTexture2D rejects (no texture) ...
OnImageReceived(n, outcome) ==
  /\ GameThreadIdle
  /\ outcome \in SpawningOutcomes
  /\ imageRequests' = imageRequests \ {n}
  /\ SpawnLantern(n, IF outcome = "image" THEN n ELSE 0, Text, CallbackURL, PId)
  /\ UNCHANGED <<accepted, MqttMessageArray, CurrentMessage, parsedFields,
                 CurrentSpawnCoolDown, startDelay, operatorSpawns,
                 imagesFailed, screenshots, crashed>>

\* ... with an error the handler logs, leaving bIsSpawning as it is ...
OnImageFailed(n, outcome) ==
  /\ GameThreadIdle
  /\ outcome \in SilentOutcomes
  /\ imageRequests' = imageRequests \ {n}
  /\ imagesFailed' = imagesFailed \cup {n}
  /\ UNCHANGED <<accepted, MqttMessageArray, CurrentMessage, parsedFields,
                 bIsSpawning, CurrentSpawnCoolDown, startDelay, lanternVars,
                 operatorSpawns, screenshots, crashed>>

\* ... or with no response object, or one that is not JSON.
OnImageFatal(n, outcome) ==
  /\ GameThreadIdle
  /\ outcome \in FatalOutcomes
  /\ imageRequests' = imageRequests \ {n}
  /\ crashed' = TRUE
  /\ UNCHANGED <<accepted, MqttMessageArray, CurrentMessage, parsedFields,
                 bIsSpawning, CurrentSpawnCoolDown, startDelay, lanternVars,
                 operatorSpawns, imagesFailed, screenshots>>

OnResponseReceived(n, outcome) ==
  \/ OnImageReceived(n, outcome)
  \/ OnImageFailed(n, outcome)
  \/ OnImageFatal(n, outcome)

\* The callback POST of lantern k completes; whatever the status, only a
\* line is logged, but a missing or malformed response is dereferenced.
OnCallbackResponseReceived(k, outcome) ==
  /\ GameThreadIdle
  /\ callbacksPending' = callbacksPending \ {k}
  /\ crashed' = (outcome \in FatalOutcomes)
  /\ UNCHANGED <<accepted, MqttMessageArray, CurrentMessage, parsedFields,
                 imageRequests, bIsSpawning, CurrentSpawnCoolDown, startDelay,
                 spawned, LanternArray, posted, shotsPending, operatorSpawns,
                 imagesFailed, screenshots>>

\* The operator clears the sky.
RemoveAllLantern ==
  /\ GameThreadIdle
  /\ LanternArray # <<>>
  /\ LanternArray' = <<>>
  /\ UNCHANGED <<accepted, MqttMessageArray, CurrentMessage, parsedFields,
                 imageRequests, bIsSpawning, CurrentSpawnCoolDown, startDelay,
                 spawned, posted, callbacksPending, shotsPending,
                 operatorSpawns, imagesFailed, screenshots, crashed>>

\* The level Blueprint calls SpawnLantern itself, with content of its own.
OperatorSpawnLantern ==
  /\ GameThreadIdle
  /\ operatorSpawns < OperatorSpawns
  /\ operatorSpawns' = operatorSpawns + 1
  /\ SpawnLantern(0, 0, 0, CallbackURL, PId)
  /\ UNCHANGED <<accepted, MqttMessageArray, CurrentMessage, parsedFields,
                 imageRequests, CurrentSpawnCoolDown, startDelay,
                 imagesFailed, screenshots, crashed>>

-----------------------------------------------------------------------------
(* ACapturer: the background task *)

\* What GetPId yields on the background thread: the field, or, while the
\* game thread is rewriting it, whatever the race leaves.
GetPId == {PId} \cup (IF CurrentMessage # 0 THEN {Torn} ELSE {})

\* The task of lantern k names its file only now.
SaveScreenshot(k) ==
  /\ ~crashed
  /\ shotsPending' = shotsPending \ {k}
  /\ \E name \in GetPId :
       screenshots' = screenshots \cup {[name |-> name, of |-> k]}
  /\ UNCHANGED <<accepted, MqttMessageArray, CurrentMessage, parsedFields,
                 imageRequests, bIsSpawning, CurrentSpawnCoolDown, startDelay,
                 spawned, LanternArray, posted, callbacksPending,
                 operatorSpawns, imagesFailed, crashed>>

-----------------------------------------------------------------------------

Next ==
  \/ \E m \in Forms : OnMessage(m)
  \/ StartSpawnDelayElapsed
  \/ TickCoolDown
  \/ TickRequest
  \/ FinishRequest
  \/ \E n \in imageRequests, outcome \in ImageOutcomes :
       OnResponseReceived(n, outcome)
  \/ \E k \in callbacksPending, outcome \in CallbackOutcomes :
       OnCallbackResponseReceived(k, outcome)
  \/ RemoveAllLantern
  \/ OperatorSpawnLantern
  \/ \E k \in shotsPending : SaveScreenshot(k)

\* The engine keeps ticking, fires its timers and completes every HTTP
\* request (an unanswered one times out); the task graph runs every task.
\* Nothing obliges the broker or the operator to act.
Fairness ==
  /\ WF_vars(StartSpawnDelayElapsed)
  /\ WF_vars(TickCoolDown)
  /\ WF_vars(TickRequest)
  /\ WF_vars(FinishRequest)
  /\ WF_vars(\E n \in imageRequests, outcome \in ImageOutcomes :
               OnResponseReceived(n, outcome))
  /\ WF_vars(\E k \in callbacksPending, outcome \in CallbackOutcomes :
               OnCallbackResponseReceived(k, outcome))
  /\ WF_vars(\E k \in shotsPending : SaveScreenshot(k))

Spec == Init /\ [][Next]_vars /\ Fairness

-----------------------------------------------------------------------------
(* Properties *)

\* The pipeline waits for a completion that has already come and gone: the
\* flag is up although no request is outstanding and no handler runs.
Stalled == /\ bIsSpawning /\ ~startDelay /\ ~crashed
           /\ CurrentMessage = 0 /\ imageRequests = {}

\* Without operator spawns, the k-th lantern is the k-th accepted message's,
\* with that message's text and with its image or none: the fields Tick
\* overwrites for the next message are never shown with the previous
\* message's image, no message is skipped or shown twice.
LanternsInOrder ==
  OperatorSpawns = 0 =>
    \A k \in 1 .. Len(spawned) :
      /\ k <= Len(accepted)
      /\ spawned[k].for = k
      /\ spawned[k].text = FieldOf(k, "text")
      /\ spawned[k].image \in {0, FieldOf(k, "img")}

\* Without operator spawns, a callback is sent to the URL and under the pid
\* of the very message whose lantern it pictures (CallbackHTTP reads both
\* from fields that a later message overwrites).
CallbacksMatch ==
  OperatorSpawns = 0 =>
    \A p \in posted : /\ p.url = p.lantern
                      /\ p.pid = FieldOf(p.lantern, "pid")

\* Without operator spawns, at most one image request is outstanding, and
\* only for the last message taken: RequestLanternData is never entered
\* while the completion of an earlier request can still come.
OneRequestAtATime ==
  OperatorSpawns = 0 =>
    \A n \in imageRequests : /\ n = Taken
                             /\ bIsSpawning
                             /\ imageRequests = {n}
                             /\ Len(spawned) = n - 1

\* Even with operator spawns, which let a second message be taken while the
\* image of the first is on its way, a lantern's text and its callback are its
\* own message's or a later one's, never an earlier one's.
NoEarlierData ==
  /\ \A k \in 1 .. Len(spawned) :
       spawned[k].text # 0 => spawned[k].text >= spawned[k].for
  /\ \A p \in posted : p.pid # 0 => p.pid >= spawned[p.lantern].for

\* LanternArray never exceeds its capacity and always holds a run of the most
\* recently spawned lanterns, ending with the newest: capacity drops the
\* oldest, clearing drops all.
NewestLanternsKept ==
  /\ Len(LanternArray) <= MaxLanterns
  /\ \A i \in 1 .. Len(LanternArray) :
       LanternArray[i] = Len(spawned) - Len(LanternArray) + i

\* A screenshot is never filed under an earlier message's pid; the late read
\* of PId in the background task can only make it a later one's.
NoEarlierName ==
  \A s \in screenshots : s.name > 0 => s.name >= spawned[s.of].for

\* A screenshot written while its own message is still the last one taken is
\* filed under that message's pid.
OwnNameWhenCurrent ==
  [][OperatorSpawns = 0 =>
       \A s \in screenshots' \ screenshots :
         spawned[s.of].for = Taken => s.name = FieldOf(spawned[s.of].for, "pid")
    ]_vars

\* Without operator spawns, the pipeline stands still if and only if some image
\* completion was one that OnResponseReceived merely logs: that one branch
\* leaves bIsSpawning up and nothing clears it again, and no other sequence of
\* messages, timers and completions loses the flag.
StalledIffImageFailed ==
  OperatorSpawns = 0 /\ ~crashed => (Stalled <=> imagesFailed # {})

-----------------------------------------------------------------------------
(* The invariant that carries the proofs: without operator spawns the       *)
(* pipeline is always in one of six phases, and Len(spawned) lags Taken by  *)
(* at most the one message in work.                                         *)

Delayed == /\ startDelay /\ bIsSpawning
           /\ CurrentMessage = 0 /\ imageRequests = {} /\ imagesFailed = {}
           /\ Taken = 0 /\ Len(spawned) = 0

Ready   == /\ ~startDelay /\ ~bIsSpawning
           /\ CurrentMessage = 0 /\ imageRequests = {} /\ imagesFailed = {}
           /\ Len(spawned) = Taken

\* One message in work: it is the last one taken.
InWork  == ~startDelay /\ bIsSpawning /\ Len(spawned) + 1 = Taken

Parsing == /\ InWork /\ CurrentMessage = Taken
           /\ imageRequests = {} /\ imagesFailed = {}

Waiting == /\ InWork /\ CurrentMessage = 0 /\ accepted[Taken].img
           /\ imageRequests = {Taken} /\ imagesFailed = {}

Stuck   == /\ InWork /\ CurrentMessage = 0
           /\ imageRequests = {} /\ imagesFailed = {Taken}

Dead    == /\ InWork /\ CurrentMessage = 0 /\ crashed
           /\ imageRequests = {} /\ imagesFailed = {}

\* The queue holds the accepted messages not yet taken, in order.
QueueInOrder ==
  /\ Len(MqttMessageArray) <= Len(accepted)
  /\ \A i \in 1 .. Len(MqttMessageArray) : MqttMessageArray[i] = Taken + i

\* The parsed fields are those of the last message taken, except while they
\* are being rewritten and before the first message.
Current(f) == IF CurrentMessage # 0 \/ Taken = 0 THEN 0 ELSE FieldOf(Taken, f)

FieldsCurrent == /\ PId = Current("pid")
                 /\ Text = Current("text")
                 /\ CallbackURL = Current("callback")

\* Lanterns referred to by callbacks, tasks and files exist.
ReferencesValid ==
  /\ \A p \in posted : p.lantern \in 1 .. Len(spawned)
  /\ callbacksPending \cup shotsPending \subseteq 1 .. Len(spawned)
  /\ \A s \in screenshots : s.of \in 1 .. Len(spawned)

\* The inductive invariant of the pipeline without operator spawns: the flag
\* bIsSpawning, the queue, the outstanding request and the fields always tell
\* one consistent story about one message.
PipelineInv ==
  OperatorSpawns = 0 =>
    /\ QueueInOrder
    /\ \A i \in 1 .. Len(accepted) : accepted[i].lantern
    /\ Delayed \/ Ready \/ Parsing \/ Waiting \/ Stuck \/ Dead
    /\ FieldsCurrent
    /\ ReferencesValid
    /\ LanternsInOrder /\ CallbacksMatch /\ NoEarlierName

-----------------------------------------------------------------------------
\* The pipeline shows what LanternDisplay promises.
Display == INSTANCE LanternDisplay
             WITH shown   <- spawned,
                  stopped <- imagesFailed # {} \/ crashed

\* Without operator spawns, queue, flag, cool-down and requests together are
\* invisible: the messages become lanterns in order, each from its own data,
\* and go on doing so until an image request fails or the process dies.
ImplementsDisplay == Display!Spec

=============================================================================
