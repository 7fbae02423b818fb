---------------------------- MODULE GameService ----------------------------
(***************************************************************************)
(* One game service: the KTANE process it supervises, the monitor that     *)
(* polls it, and the handlers of the commands a session sends.  The        *)
(* process itself is external and kept to the scenes the code reads.       *)
(***************************************************************************)
EXTENDS Naturals

CONSTANT MaxTime  \* bound: steps of game time on the bomb's timer

ASSUME TimeConstant == MaxTime \in Nat \ {0}

VARIABLES
  \* the game process
  process,          \* its scene, or "dead"
  paused,           \* game speed 0
  timer,            \* game time left
  \* the service
  serving,          \* FALSE once the service itself has died
  supervisor,       \* "waiting" for the process to be ready, or "watching" it
  monitored,        \* state of the GameStateMonitor
  first_lights_off, \* its events
  first_lights_on,
  ready_state,      \* TRUE is ReadyState.ready
  expected_death,
  configuring       \* a configure_game handler waits for the current first_lights_off

processVars == <<process, paused, timer>>
monitorVars == <<supervisor, monitored, first_lights_off, first_lights_on, ready_state, expected_death>>
gameVars    == <<processVars, serving, monitorVars, configuring>>

\* "unknown": starting; "over": PostGame and Transitioning, which the code treats alike.
GameState == {"unknown", "main_menu", "lights_off", "lights_on", "over"}
Commands  == {"pause_game", "unpause_game", "advance_game_time", "get_bomb_state"}

GameTypeOK ==
  /\ process \in GameState \cup {"dead"} /\ paused \in BOOLEAN /\ timer \in 0..MaxTime
  /\ serving \in BOOLEAN
  /\ supervisor \in {"waiting", "watching"} /\ monitored \in GameState
  /\ {first_lights_off, first_lights_on, ready_state, expected_death, configuring} \subseteq BOOLEAN

\* A game matchmaking may offer: in the main menu, and ready.
GameInit ==
  /\ process = "main_menu" /\ paused = FALSE /\ timer = MaxTime
  /\ serving = TRUE
  /\ supervisor = "watching" /\ monitored = "main_menu"
  /\ first_lights_off = FALSE /\ first_lights_on = FALSE
  /\ ready_state = TRUE /\ expected_death = FALSE
  /\ configuring = FALSE
-----------------------------------------------------------------------------
(***************************************************************************)
(* The process.                                                            *)
(***************************************************************************)
Scene(from, to) ==
  /\ process = from /\ process' = to
  /\ UNCHANGED <<paused, timer, serving, monitorVars, configuring>>

\* The speed and the timer of the next process are those of a new one.
Dies == process' = "dead" /\ paused' = FALSE /\ timer' = MaxTime

Boot        == Scene("unknown", "main_menu")
LightsGoOn  == ~paused /\ Scene("lights_off", "lights_on")
TimeRunsOut == ~paused /\ Scene("lights_on", "over")

\* The process exits by itself, after its last scene or at any other time.
Exit ==
  /\ process # "dead" /\ Dies
  /\ UNCHANGED <<serving, monitorVars, configuring>>
-----------------------------------------------------------------------------
(***************************************************************************)
(* Monitor and supervisor.                                                 *)
(***************************************************************************)

\* One poll.  A process that is starting does not answer; the first main menu makes the
\* supervisor set the ready state and start its death monitor.
MonitorPoll ==
  /\ serving /\ process \notin {"dead", "unknown"}
  /\ monitored' = process
  /\ first_lights_off' = (first_lights_off \/ process = "lights_off")
  /\ first_lights_on' = (first_lights_on \/ process = "lights_on")
  /\ IF process = "main_menu"
     THEN supervisor' = "watching" /\ (ready_state' = (supervisor = "waiting" \/ ready_state))
     ELSE UNCHANGED <<supervisor, ready_state>>
  /\ UNCHANGED <<processVars, serving, expected_death, configuring>>

is_expected_death ==
  monitored \in {"over", "unknown"} /\ first_lights_on /\ supervisor = "watching"

\* The death monitor raises GameProcessDiedError, and the supervisor starts the next
\* process.  The events are new ones: a handler that waits for an old one waits on.
Restart ==
  /\ serving /\ supervisor = "watching" /\ process = "dead"
  /\ ready_state' = (ready_state /\ (is_expected_death \/ expected_death))
  /\ monitored' = "unknown" /\ first_lights_off' = FALSE /\ first_lights_on' = FALSE
  /\ expected_death' = FALSE
  /\ process' = "unknown" /\ supervisor' = "waiting"
  /\ configuring' = FALSE
  /\ UNCHANGED <<paused, timer, serving>>

ServiceDies ==
  /\ serving /\ serving' = FALSE /\ Dies
  /\ UNCHANGED <<monitorVars, configuring>>
-----------------------------------------------------------------------------
(***************************************************************************)
(* Handlers.  Answers(command) is what may come back at once: an answer,   *)
(* an HTTPStatusError, another transport error, or nothing until the       *)
(* timeout of the RPC.                                                     *)
(***************************************************************************)
Answers(command) ==
  {answer \in {"ok", "status", "transport", "timeout"} :
     \/ ~serving /\ answer = "timeout"
     \/ /\ serving /\ process \in {"dead", "unknown"}
        /\ answer = IF command = "get_bomb_state" THEN "status" ELSE "transport"
     \/ serving /\ process \in {"lights_off", "lights_on"} /\ answer = "ok"
     \/ /\ serving /\ process \in {"main_menu", "over"}
        /\ \/ answer = "status" /\ (command = "get_bomb_state" => process = "main_menu")
           \/ answer = "ok" /\ command \in {"pause_game", "unpause_game"}
           \/ answer = "ok" /\ command = "get_bomb_state" /\ process = "over"}

\* Variant: time can be advanced past its end.
HandlePastEnd(command) ==
  /\ paused' = CASE command = "pause_game" -> TRUE
                 [] command = "unpause_game" -> FALSE
                 [] OTHER -> paused
  /\ timer' = IF command = "advance_game_time" THEN timer - 1 ELSE timer
  /\ UNCHANGED process
  /\ UNCHANGED <<serving, monitorVars, configuring>>

\* What an accepted command does: time stands still after advance_game_time as before.
Handle(command) ==
  /\ paused' = CASE command = "pause_game" -> TRUE
                 [] command = "unpause_game" -> FALSE
                 [] OTHER -> paused
  /\ IF command = "advance_game_time"
     THEN /\ timer' = timer - 1
          /\ process' = IF timer = 1 THEN "over" ELSE process
     ELSE UNCHANGED <<timer, process>>
  /\ UNCHANGED <<serving, monitorVars, configuring>>

\* What the bomb says when it is read.
BombNow == IF process = "over" THEN "over" ELSE "running"

\* configure_game up to its wait for the lights.
StartMission ==
  /\ process' = "lights_off" /\ paused' = FALSE /\ timer' = MaxTime
  /\ configuring' = TRUE
  /\ UNCHANGED <<serving, monitorVars>>

\* Variant: the process is terminated in every state.
StopAlways ==
  /\ serving
  /\ expected_death' = TRUE /\ Dies
  /\ UNCHANGED <<serving, supervisor, monitored, first_lights_off, first_lights_on,
                 ready_state, configuring>>

\* stop_game: a game that is not ready is being restarted and left alone.
StopGame ==
  /\ serving
  /\ IF ready_state
     THEN expected_death' = TRUE /\ Dies
     ELSE UNCHANGED <<expected_death, processVars>>
  /\ UNCHANGED <<serving, supervisor, monitored, first_lights_off, first_lights_on,
                 ready_state, configuring>>
=============================================================================
