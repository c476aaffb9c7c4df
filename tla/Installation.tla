----------------------------- MODULE Installation -----------------------------
(***************************************************************************)
(* From the start of the process to the playing level: ULanternGameInstance*)
(* (the configuration, the window timer, the log of LogRotation), the      *)
(* license check of ALoginPlayerController, ALanternGameModeBase, which    *)
(* chooses pawn, limits and player start by one index of the               *)
(* configuration, and the toasts of UErrorWidget.                          *)
(*                                                                         *)
(* Everything runs on the game thread.  Between a travel and BeginPlay no  *)
(* timer fires; InitGame is split into one step per player start, and      *)
(* nothing else is enabled in between.  A null dereference and an index    *)
(* out of an array end the process, which may be started again.            *)
(*                                                                         *)
(* LogRotation's steps are taken together with those that log, so that the *)
(* module implements LogRotation.  A line beyond MaxLines is not counted.  *)
(***************************************************************************)
EXTENDS LogRotation, Integers

CONSTANTS
  Configs,       \* what Config.txt may hold
  Levels,        \* of a level, Atoi of its PlayerStartTags in iteration order
  NumPawnTypes,  \* length of PawnTypeArray
  Responses,     \* how the license request may end
  ToastTime,     \* TimeToShowToastMessage, in steps of the timer
  MaxToasts      \* bound: toasts in one session

\* Whether Config.txt is there to be read, and which keys it has: any at all,
\* those of Login, those of MoveWindowFunction, those of the actors of the
\* level; and its PawnType.
Config == [read: BOOLEAN, any: BOOLEAN, license: BOOLEAN, window: BOOLEAN,
           actors: BOOLEAN, pawnType: SUBSET Int]

ASSUME ConfigsAssumption ==
  /\ Configs \subseteq Config
  /\ \A c \in Configs : \A i, j \in c.pawnType : i = j
  /\ \A c \in Configs :
       /\ c.license \/ c.window \/ c.actors \/ c.pawnType # {} => c.any
       /\ c.any => c.read
ASSUME LevelsAssumption == Levels \subseteq Seq(Int)
ASSUME NumPawnTypesAssumption == NumPawnTypes \in Nat
ASSUME ResponsesAssumption ==
  Responses \subseteq {"true", "false", "no_response", "not_json"}
ASSUME ToastAssumption == ToastTime \in Nat \ {0} /\ MaxToasts \in Nat

VARIABLES
  phase,           \* where the session is
  config,          \* ConfigMap
  windowTimer,     \* MoveWindowTimerHandle is armed
  alert,           \* an alert is on the screen; nothing ever hides it
  toast,           \* the toast on the screen, or 0
  toasts,          \* toasts shown in this session
  timers,          \* timers that will call HideToastMessage: [id, left]
  toastHandle,     \* HideToastTimerHandle: the id of a timer, or 0
  age,             \* history: steps of the timers since the toast was shown
  fatal,           \* history: what ended the process before it was started again
  level,           \* the level: its player starts, by their tags
  next,            \* the player start InitGame looks at next
  PlayerStart,     \* of each pawn type: the number of a player start, or 0
  PawnTypeIndex,
  pawn,            \* DefaultPawnClass: that of a type, or -1
  limits,          \* SetLimitLocation and SetSpawnLocation: of a type, or -1
  start            \* ChoosePlayerStart: the number of a player start, 0 for
                   \* null, or -1 for the engine's choice

toastVars == <<toast, toasts, timers, toastHandle, age>>
modeVars  == <<level, next, PlayerStart, PawnTypeIndex, pawn, limits, start>>
installationVars == <<vars, phase, config, windowTimer, alert, toastVars, fatal, modeVars>>

PawnType == 0 .. NumPawnTypes - 1
Phase == {"off", "login", "waiting", "refused", "travelling", "tagging",
          "initialized", "started", "playing"}

\* The engine is between two frames: timers fire and input is handled.
Idle == phase \in {"login", "waiting", "refused", "travelling", "playing"}

InstallationTypeOK ==
  /\ TypeOK
  /\ phase \in Phase
  /\ config \in Configs
  /\ windowTimer \in BOOLEAN /\ alert \in BOOLEAN
  /\ toast \in 0 .. toasts /\ toasts \in 0 .. MaxToasts
  /\ timers \subseteq [id: 1 .. MaxToasts, left: 1 .. ToastTime]
  /\ toastHandle \in 0 .. MaxToasts
  /\ age \in 0 .. ToastTime
  /\ fatal \in {"no", "setup", "response"}
  /\ level \in Seq(Int) /\ next \in 1 .. Len(level) + 1
  /\ PlayerStart \in [PawnType -> Nat]
  /\ PawnTypeIndex \in Int
  /\ pawn \in PawnType \cup {-1} /\ limits \in PawnType \cup {-1}
  /\ start \in Nat \cup {-1}

InstallationInit ==
  /\ Init
  /\ phase = "off"
  /\ config \in Configs
  /\ windowTimer = FALSE /\ alert = FALSE
  /\ toast = 0 /\ toasts = 0 /\ timers = {} /\ toastHandle = 0 /\ age = 0
  /\ fatal = "no"
  /\ level = <<>> /\ next = 1
  /\ PlayerStart = [i \in PawnType |-> 0]
  /\ PawnTypeIndex = -1 /\ pawn = -1 /\ limits = -1 /\ start = -1

\* A new game mode, which has found nothing yet.
NewGameMode ==
  /\ next' = 1
  /\ PlayerStart' = [i \in PawnType |-> 0]
  /\ PawnTypeIndex' = -1 /\ pawn' = -1 /\ limits' = -1 /\ start' = -1

-----------------------------------------------------------------------------
(* UErrorWidget *)

\* ShowToastMessage: the timer of the toast before is cleared.
ShowToastMessage ==
  /\ toasts < MaxToasts
  /\ toasts' = toasts + 1
  /\ toast' = toasts'
  /\ timers' = {t \in timers : t.id # toastHandle}
                 \cup {[id |-> toasts', left |-> ToastTime]}
  /\ toastHandle' = toasts'
  /\ age' = 0

\* Variant: the handle is given up and its timer goes on.
HideToastMessageTimerKept(ts) ==
  /\ timers' = ts
  /\ toastHandle' = 0
  /\ toast' = 0

\* Variant: the toast stays.
HideToastMessageStays(ts) ==
  /\ timers' = {t \in ts : t.id # toastHandle}
  /\ toastHandle' = 0
  /\ UNCHANGED toast

\* HideToastMessage, ts being the timers then.
HideToastMessage(ts) ==
  /\ timers' = {t \in ts : t.id # toastHandle}
  /\ toastHandle' = 0
  /\ toast' = 0

\* A timer fires in this step.
Due(t) == t.left = 1

\* A step of the timer manager.
TimersAdvance ==
  /\ Idle
  /\ timers # {}
  /\ age' = age + 1
  /\ LET due == {t \in timers : Due(t)}
         on  == {[t EXCEPT !.left = @ - 1] : t \in timers \ due}
     IN IF due # {} THEN HideToastMessage(on)
                    ELSE timers' = on /\ UNCHANGED <<toast, toastHandle>>
  /\ UNCHANGED <<vars, phase, config, windowTimer, alert, fatal, modeVars, toasts>>

\* OnToastBorderMouseButtonDown: only a visible toast receives it.
Click ==
  /\ Idle
  /\ toast # 0
  /\ HideToastMessage(timers)
  /\ UNCHANGED <<vars, phase, config, windowTimer, alert, fatal, modeVars, toasts, age>>

-----------------------------------------------------------------------------
(* ULanternGameInstance *)

\* LogToFile from somewhere in a handler.
LogLine ==
  IF handle = "open" /\ lines < MaxLines
  THEN LogToFile(files, LogFileIndex) /\ UNCHANGED <<saved, running, crashes>>
  ELSE UNCHANGED vars

\* The process is gone, with what was on the screen.
ProcessEnds ==
  /\ phase' = "off"
  /\ windowTimer' = FALSE /\ alert' = FALSE
  /\ toast' = 0 /\ toasts' = 0 /\ timers' = {} /\ toastHandle' = 0 /\ age' = 0
  /\ NewGameMode
  /\ UNCHANGED <<config, level>>

\* The process ends in the middle of a handler, because of the setup (its
\* configuration and level) or of a response.
Fatal(why) == Crash /\ ProcessEnds /\ fatal' = why

\* Variant: the window is moved whether or not the file was read.
StartGameWindowAlways ==
  /\ phase = "off"
  /\ crashes < MaxCrashes
  /\ GameInit
  /\ \E c \in Configs :
       /\ config' = c
       /\ windowTimer' = TRUE
       /\ alert' = FALSE
  /\ phase' = "login"
  /\ IF lines' = lines THEN ShowToastMessage ELSE UNCHANGED toastVars
  /\ fatal' = "no"
  /\ UNCHANGED modeVars

\* Init: the log is opened, with a toast when that fails, and the configuration
\* is read; the window is to be moved if there was a file, were it empty.
StartGame ==
  /\ phase = "off"
  /\ crashes < MaxCrashes
  /\ GameInit
  /\ \E c \in Configs :
       /\ config' = c
       /\ windowTimer' = c.read
       /\ alert' = FALSE
  /\ phase' = "login"
  /\ IF lines' = lines THEN ShowToastMessage ELSE UNCHANGED toastVars
  /\ fatal' = "no"
  /\ UNCHANGED modeVars

\* MoveWindowFunction, once there is a window: its keys are dereferenced.
MoveWindowFunction ==
  /\ Idle
  /\ windowTimer
  /\ IF config.window
     THEN /\ windowTimer' = FALSE
          /\ UNCHANGED <<vars, phase, config, alert, toastVars, fatal, modeVars>>
     ELSE Fatal("setup")

\* Variant: the process ends without Shutdown.
QuitAtOnce ==
  /\ Idle
  /\ running' = FALSE
  /\ UNCHANGED <<files, saved, LogFileIndex, handle, lines, crashes, failures>>
  /\ ProcessEnds
  /\ fatal' = "no"

\* Shutdown.
Quit == Idle /\ Shutdown /\ ProcessEnds /\ fatal' = "no"

PowerLoss == phase # "off" /\ Fatal("no")

\* Whatever else logs, and Save called by the level.
LogOrSave ==
  /\ phase = "playing"
  /\ Log \/ SaveGame
  /\ UNCHANGED <<phase, config, windowTimer, alert, toastVars, fatal, modeVars>>

\* Whatever shows a toast in the level: AMqttManager, when the connection fails
\* or is lost.
LevelToast ==
  /\ phase = "playing"
  /\ ShowToastMessage
  /\ UNCHANGED <<vars, phase, config, windowTimer, alert, fatal, modeVars>>

-----------------------------------------------------------------------------
(* ALoginPlayerController *)

\* Login: an alert if ConfigMap is empty; its keys are dereferenced.
Login ==
  /\ phase = "login"
  /\ \/ /\ ~config.any
        /\ LogLine
        /\ alert' = TRUE
        /\ phase' = "refused"
        /\ UNCHANGED <<config, windowTimer, toastVars, fatal, modeVars>>
     \/ /\ config.any /\ config.license
        /\ phase' = "waiting"
        /\ UNCHANGED <<vars, config, windowTimer, alert, toastVars, fatal, modeVars>>
     \/ /\ config.any /\ ~config.license
        /\ Fatal("setup")

\* OnLoginResponseReceived: the response and its JSON are dereferenced.
OnLoginResponseReceived(response) ==
  /\ phase = "waiting"
  /\ \/ /\ response = "true"
        /\ LogLine
        /\ phase' = "travelling"
        /\ UNCHANGED <<config, windowTimer, alert, toastVars, fatal, modeVars>>
     \/ /\ response = "false"
        /\ LogLine
        /\ alert' = TRUE
        /\ phase' = "refused"
        /\ UNCHANGED <<config, windowTimer, toastVars, fatal, modeVars>>
     \/ /\ response \in {"no_response", "not_json"}
        /\ Fatal("response")

-----------------------------------------------------------------------------
(* ALanternGameModeBase *)

\* The level is loaded, with a game mode of its own.
Travel ==
  /\ phase = "travelling"
  /\ phase' = "tagging"
  /\ level' \in Levels
  /\ NewGameMode
  /\ UNCHANGED <<vars, config, windowTimer, alert, toastVars, fatal>>

\* Variant: a start that is passed over is looked at again.
FollowingFitting(k) == IF level[k] \in PawnType THEN k + 1 ELSE k

\* The player start looked at after k.
Following(k) == k + 1

\* Variant: an index equal to the length passes.
TooLargeByOne(i) == i > NumPawnTypes

\* The one check of an index: against the length of PawnTypeArray.
TooLarge(i) == i >= NumPawnTypes

\* InitGame, for the next player start: one whose tag names no type is logged
\* and passed over, a negative tag is outside the array.
TagPlayerStart ==
  /\ phase = "tagging"
  /\ next <= Len(level)
  /\ \/ /\ TooLarge(level[next])
        /\ LogLine
        /\ UNCHANGED PlayerStart
     \/ /\ level[next] \in PawnType
        /\ PlayerStart' = [PlayerStart EXCEPT ![level[next]] = next]
        /\ UNCHANGED vars
  /\ next' = Following(next)
  /\ UNCHANGED <<phase, config, windowTimer, alert, toastVars, fatal, level,
                 PawnTypeIndex, pawn, limits, start>>

TagPlayerStartFatal ==
  /\ phase = "tagging"
  /\ next <= Len(level)
  /\ level[next] < 0
  /\ Fatal("setup")

\* The rest of InitGame.
InitGame ==
  /\ phase = "tagging"
  /\ next > Len(level)
  /\ phase' = "initialized"
  /\ \/ /\ NumPawnTypes = 0
        /\ UNCHANGED <<vars, PawnTypeIndex, pawn, limits>>
     \/ /\ NumPawnTypes > 0 /\ config.pawnType = {}
        /\ LogLine
        /\ UNCHANGED <<PawnTypeIndex, pawn, limits>>
     \/ /\ NumPawnTypes > 0
        /\ \E i \in config.pawnType :
             /\ i >= 0
             /\ PawnTypeIndex' = i
             /\ LogLine
             /\ IF TooLarge(i)
                THEN UNCHANGED <<pawn, limits>>
                ELSE pawn' = i /\ limits' = i
  /\ UNCHANGED <<config, windowTimer, alert, toastVars, fatal, level, next,
                 PlayerStart, start>>

InitGameFatal ==
  /\ phase = "tagging"
  /\ next > Len(level)
  /\ NumPawnTypes > 0
  /\ \E i \in config.pawnType : i < 0
  /\ Fatal("setup")

\* Variant: the engine's choice is not asked for.
ChoosePlayerStartFirst ==
  /\ phase = "initialized"
  /\ phase' = "started"
  /\ \/ /\ NumPawnTypes = 0
        /\ start' = -1
        /\ UNCHANGED vars
     \/ /\ NumPawnTypes > 0
        /\ start' = PlayerStart[0]
        /\ UNCHANGED vars
  /\ UNCHANGED <<config, windowTimer, alert, toastVars, fatal, level, next,
                 PlayerStart, PawnTypeIndex, pawn, limits>>

\* ChoosePlayerStart: whatever index InitGame left is used, -1 excepted; a type
\* without a player start is logged and gives null.
ChoosePlayerStart ==
  /\ phase = "initialized"
  /\ phase' = "started"
  /\ \/ /\ NumPawnTypes = 0 \/ PawnTypeIndex = -1
        /\ start' = -1
        /\ UNCHANGED vars
     \/ /\ PawnTypeIndex \in PawnType
        /\ start' = PlayerStart[PawnTypeIndex]
        /\ IF start' = 0 THEN LogLine ELSE UNCHANGED vars
  /\ UNCHANGED <<config, windowTimer, alert, toastVars, fatal, level, next,
                 PlayerStart, PawnTypeIndex, pawn, limits>>

ChoosePlayerStartFatal ==
  /\ phase = "initialized"
  /\ NumPawnTypes > 0
  /\ PawnTypeIndex \notin PawnType \cup {-1}
  /\ Fatal("setup")

\* BeginPlay of the level's actors, which dereference their keys.
BeginPlay ==
  /\ phase = "started"
  /\ IF config.actors
     THEN /\ phase' = "playing"
          /\ UNCHANGED <<vars, config, windowTimer, alert, toastVars, fatal, modeVars>>
     ELSE Fatal("setup")

-----------------------------------------------------------------------------

InstallationNext ==
  \/ StartGame \/ Quit \/ PowerLoss
  \/ TimersAdvance \/ Click \/ MoveWindowFunction
  \/ Login
  \/ \E response \in Responses : OnLoginResponseReceived(response)
  \/ Travel \/ TagPlayerStart \/ TagPlayerStartFatal \/ InitGame \/ InitGameFatal
  \/ ChoosePlayerStart \/ ChoosePlayerStartFatal \/ BeginPlay
  \/ LogOrSave \/ LevelToast

\* The game thread goes on, its timers with it, and a request ends.
InstallationFairness ==
  /\ WF_installationVars(Login)
  /\ WF_installationVars(\E response \in Responses : OnLoginResponseReceived(response))
  /\ WF_installationVars(Travel)
  /\ WF_installationVars(TagPlayerStart \/ TagPlayerStartFatal)
  /\ WF_installationVars(InitGame \/ InitGameFatal)
  /\ WF_installationVars(ChoosePlayerStart \/ ChoosePlayerStartFatal)
  /\ WF_installationVars(BeginPlay)
  /\ WF_installationVars(TimersAdvance)

InstallationSpec ==
  InstallationInit /\ [][InstallationNext]_installationVars /\ InstallationFairness

-----------------------------------------------------------------------------
(* Properties *)

\* The display plays with the pawn, the limits and the player start of one type:
\* the last player start tagged with it, null if there is none, and all three
\* left to the engine and the level when the configuration names no type.
OneType ==
  phase = "playing" =>
    /\ limits = pawn
    /\ IF pawn = -1
       THEN start = -1
       ELSE LET tagged == {k \in 1 .. Len(level) : level[k] = pawn} IN
            /\ config.pawnType = {pawn}
            /\ IF tagged = {} THEN start = 0
                              ELSE start \in tagged /\ \A k \in tagged : k <= start

\* The process is ended by its setup only if Config.txt was read and lacks a key
\* (an empty one lacks all) or names a type that does not exist, or the level
\* has a negative tag; without the file there is an alert and nothing is
\* dereferenced, neither by Login nor by MoveWindowFunction.
SetupSafe ==
  fatal = "setup" =>
    /\ config.read
    /\ \/ ~config.license \/ ~config.window \/ ~config.actors
       \/ config.pawnType \ PawnType # {}
       \/ \E k \in 1 .. Len(level) : level[k] < 0

\* A toast that is hidden by a timer has been on the screen for its time: no
\* timer of an earlier toast, clicked away or replaced, hides a later one.
ToastKeepsItsTime ==
  [][toast # 0 /\ toast' = 0 /\ age' = age + 1 => age' = ToastTime]_installationVars

\* Every toast is hidden or replaced.
ToastEnds == \A n \in 1 .. MaxToasts : toast = n ~> toast # n

\* Every start of the process ends in the playing level, in an alert, or in its
\* end.
StartupEnds == phase = "login" ~> phase \in {"playing", "refused", "off"}

\* Whatever the handlers do, the log is handled as LogRotation says, which
\* carries its theorems over.
LogSpec == Spec

=============================================================================
