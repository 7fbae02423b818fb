-------------------------- MODULE ExperimentRunner --------------------------
(***************************************************************************)
(* One experiment: the runner with its watchers, the game service and the  *)
(* players.  The players are kept to what the runner and the game see of   *)
(* them (PlayerService has the rest).  A watcher reads heartbeats that may *)
(* be old; a heartbeat and the poll that reads it are one step here, at    *)
(* any time, so that what is seen is a state the service has been in.      *)
(***************************************************************************)
EXTENDS GameService, FiniteSets

CONSTANTS
  Experiments,  \* [style, roles, feedback] of the experiments that may be run
  Troubles,     \* what may go wrong, see below
  MaxTroubles   \* bound: troubles of one experiment

(***************************************************************************)
(*   "slow"     an RPC or a wait runs into its timeout                     *)
(*   "lost"     the stop of a player or of the game is not answered        *)
(*   "crash"    the game process exits, after its last scene or before     *)
(*   "service"  the game service dies                                      *)
(*   "player"   a player dies                                              *)
(*   "flap"     a heartbeat is missed although the service lives           *)
(*   "force"    the EM stops the experiment                                *)
(*   "late"     game time is to be advanced after the end, which the       *)
(*              watcher does not show yet                                  *)
(*   "hung"     a wait of the game watcher reaches the maximum duration    *)
(***************************************************************************)
AllTroubles == {"slow", "lost", "crash", "service", "player", "flap", "force", "late", "hung"}

ASSUME RunnerConstants ==
  /\ Experiments \subseteq [style : {"sync", "async"},
                            roles : {{"defuser"}, {"defuser", "expert"}}, feedback : BOOLEAN]
  /\ Troubles \subseteq AllTroubles
  /\ MaxTroubles \in Nat

VARIABLES
  \* the players, by role
  player,        \* what each is at, or "dead"
  passing,       \* roles whose forward_pass is in flight
  told,          \* the stop each acted on, NotTold, or Ignored
  \* the runner
  experiment,
  state,         \* ExperimentState
  at,            \* where run_experiment is
  tasks,         \* roles with a task in the task group run_experiment waits for
  stop_event,    \* what stop_all_players sends
  client_crashed,
  cancelled,     \* cancellation: "no", "pending", or "due" at the next await
  escaped,       \* an exception has left the exception handler
  \* its watchers
  game_crash,    \* is_hard_crash of the game watcher
  awaiting,      \* what monitor_game_states_loop waits for
  good_game_over,
  seen_waiting,  \* roles last seen waiting for a turn
  player_crash,  \* roles whose watcher says is_hard_crash
  first_waiting, \* roles ever seen waiting for a turn
  is_stopping,   \* roles ever seen stopping
  met            \* troubles met so far

playerVars == <<player, passing, told>>
runnerVars == <<state, at, tasks, stop_event, client_crashed, cancelled, escaped>>
watchVars  == <<game_crash, awaiting, good_game_over,
                seen_waiting, player_crash, first_waiting, is_stopping>>
vars == <<gameVars, playerVars, runnerVars, watchVars, experiment, met>>

Roles == experiment.roles
Role  == {"defuser", "expert"}
-----------------------------------------------------------------------------
ExperimentState == {"initialising", "running", "post_game", "cleanup", "done"}

\* PlayerState as the runner tells it apart; "busy" is every state of a turn or of a
\* configuration that has not ended well.
PlayerState == {"idle", "busy", "waiting_for_turn", "reflecting", "stopping"}
NotTold == [crash |-> FALSE, bomb |-> "not_told"]
Ignored == [crash |-> FALSE, bomb |-> "ignored"]
Stops   == [crash : BOOLEAN, bomb : {"not_told", "ignored", "none", "running", "over"}]

SetupSteps == {"configure_defuser", "configure_expert", "configure_game", "configuring_game",
               "lights_off", "pause", "players_ready", "unpause", "first_lights_on", "pause_again"}
LoopSteps  == {"loop", "bomb_before", "defuser", "defuser_turn", "refresh", "advance", "expert",
               "expert_turn", "bomb_after", "let_run", "players"}
PostSteps  == {"post_game", "defuser_waits", "expert_waits", "bomb_for_reflection", "reflections",
               "final_bomb", "send_stops", "stop_players"}
Body       == SetupSteps \cup LoopSteps \cup PostSteps
CleanSteps == {"stop_game", "stop_defuser", "stop_expert", "done"}

TypeOK ==
  /\ GameTypeOK
  /\ experiment \in Experiments
  /\ player \in [Role -> PlayerState \cup {"dead"}] /\ passing \subseteq Roles
  /\ told \in [Role -> Stops]
  /\ state \in ExperimentState
  /\ at \in Body \cup CleanSteps /\ tasks \subseteq Roles /\ stop_event \in Stops
  /\ {client_crashed, escaped, game_crash, good_game_over} \subseteq BOOLEAN
  /\ cancelled \in {"no", "pending", "due"}
  /\ awaiting \in {"lights_off", "lights_on", "game_over", "nothing"}
  /\ seen_waiting \subseteq Roles /\ player_crash \subseteq Roles
  /\ first_waiting \subseteq Roles /\ is_stopping \subseteq Roles
  /\ met \subseteq Troubles

\* A session with free services, its monitors running.
Init ==
  /\ GameInit
  /\ experiment \in Experiments
  /\ player = [r \in Role |-> "idle"] /\ passing = {} /\ told = [r \in Role |-> NotTold]
  /\ state = "initialising" /\ at = "configure_defuser" /\ tasks = {}
  /\ stop_event = NotTold
  /\ client_crashed = FALSE /\ cancelled = "no" /\ escaped = FALSE
  /\ game_crash = FALSE /\ awaiting = "lights_off" /\ good_game_over = FALSE
  /\ seen_waiting = {} /\ player_crash = {} /\ first_waiting = {} /\ is_stopping = {}
  /\ met = {}

-----------------------------------------------------------------------------
(***************************************************************************)
(* Conditions and the ways a step of run_experiment ends.                  *)
(***************************************************************************)
is_hard_crash      == game_crash \/ player_crash # {} \/ client_crashed
is_experiment_over == good_game_over \/ is_hard_crash

\* Each of these troubles strikes once at most.
Meet(t) ==
  /\ t \in Troubles \ met /\ Cardinality(met) < MaxTroubles
  /\ met' = met \cup {t}

\* Timeouts strike at any time and do not count towards the bound; those of single RPCs
\* and waits that follow another trouble are not recorded.
RunsInto(t) ==
  /\ t \in Troubles
  /\ met' = IF t = "slow" /\ met # {} THEN met ELSE met \cup {t}

\* The body goes on from this step.  A task whose await was over when the cancellation
\* came resumes once before it is cancelled.
From(step) ==
  /\ at = step /\ cancelled # "due"
  /\ cancelled' = IF cancelled = "pending" THEN "due" ELSE cancelled

GoTo(step) == at' = step /\ UNCHANGED <<state, client_crashed, escaped>>

\* Variant: the handler knows the errors of httpx only.
RaiseTimeouts(error) ==
  /\ at' = "stop_game" /\ state' = "cleanup"
  /\ client_crashed' = (client_crashed \/ error \in {"cancelled", "status"})
  /\ escaped' = (escaped \/ error \notin {"cancelled", "status"})

\* experiment_exception_handler and the start of cleanup_experiment: a cancellation, a
\* TimeoutError or an HTTPStatusError is swallowed, any other goes on after the cleanup.
Raise(error) ==
  /\ at' = "stop_game" /\ state' = "cleanup"
  /\ client_crashed' = (client_crashed \/ error \notin {"transport", "value"})
  /\ escaped' = (escaped \/ error \in {"transport", "value"})

\* guard_step, and the try of the sync loop.
Guard(error, step) ==
  IF error = "timeout"
  THEN Raise(error)
  ELSE at' = step /\ client_crashed' = TRUE /\ UNCHANGED <<state, escaped>>

\* One RPC to the game outside any guard.
Ask(from, command, to) ==
  /\ From(from)
  /\ \/ "ok" \in Answers(command) /\ Handle(command) /\ GoTo(to) /\ UNCHANGED met
     \/ \E error \in Answers(command) \ {"ok"} : Raise(error) /\ UNCHANGED <<gameVars, met>>
     \/ RunsInto("slow") /\ Raise("timeout") /\ (Handle(command) \/ UNCHANGED gameVars)
  /\ UNCHANGED <<tasks, stop_event, playerVars, watchVars, experiment>>

\* A step without an RPC.
Move(from, to) ==
  /\ From(from) /\ GoTo(to)
  /\ UNCHANGED <<tasks, stop_event, gameVars, playerVars, watchVars, experiment, met>>
-----------------------------------------------------------------------------
(***************************************************************************)
(* configure_services and synchronize_services.                            *)
(***************************************************************************)

\* configure_for_experiment of one player: it answers, it fails, or it is dead.
ConfigurePlayer(r, from, to) ==
  /\ From(from)
  /\ \/ r \notin Roles /\ GoTo(to) /\ UNCHANGED <<player, met>>
     \/ r \in Roles /\ player[r] = "idle"
        /\ player' = [player EXCEPT ![r] = "waiting_for_turn"] /\ GoTo(to) /\ UNCHANGED met
     \/ r \in Roles /\ player[r] = "dead" /\ Raise("timeout") /\ UNCHANGED <<player, met>>
     \/ r \in Roles /\ player[r] = "idle" /\ RunsInto("slow")
        /\ player' = [player EXCEPT ![r] = "busy"] /\ Raise("timeout")
  /\ UNCHANGED <<tasks, stop_event, passing, told, gameVars, watchVars, experiment>>

\* configure_game up to its wait.  The game rejects it outside the main menu.
ConfigureGame ==
  /\ From("configure_game")
  /\ \/ ~serving /\ Raise("timeout") /\ UNCHANGED gameVars
     \/ serving /\ monitored # "main_menu" /\ Raise("status") /\ UNCHANGED gameVars
     \/ serving /\ monitored = "main_menu" /\ process = "main_menu"
        /\ StartMission /\ GoTo("configuring_game")
     \/ serving /\ monitored = "main_menu" /\ process # "main_menu"
        /\ Raise(IF process \in {"dead", "unknown"} THEN "transport" ELSE "status")
        /\ UNCHANGED gameVars
  /\ UNCHANGED <<tasks, stop_event, playerVars, watchVars, experiment, met>>

\* The handler has seen the lights go off and stops the time, whether or not the runner
\* still waits for its answer.
LightsAreOff ==
  /\ serving /\ configuring /\ first_lights_off
  /\ configuring' = FALSE
  /\ paused' = (paused \/ process \in {"lights_off", "lights_on"})
  /\ UNCHANGED <<process, timer, serving, monitorVars>>
  /\ IF at = "configuring_game"
     THEN /\ From("configuring_game")
          /\ IF process \in {"dead", "unknown"} THEN Raise("transport") ELSE GoTo("lights_off")
     ELSE UNCHANGED <<at, state, client_crashed, cancelled, escaped>>
  /\ UNCHANGED <<tasks, stop_event, playerVars, watchVars, experiment, met>>

LightsOffSeen == awaiting # "lights_off" /\ Move("lights_off", "pause")

Pause ==
  /\ From("pause")
  /\ \/ /\ "ok" \in Answers("pause_game") /\ Handle("pause_game")
        /\ at' = "players_ready" /\ state' = "running"
        /\ UNCHANGED <<client_crashed, escaped, met>>
     \/ \E error \in Answers("pause_game") \ {"ok"} : Raise(error) /\ UNCHANGED <<gameVars, met>>
     \/ RunsInto("slow") /\ Raise("timeout") /\ (Handle("pause_game") \/ UNCHANGED gameVars)
  /\ UNCHANGED <<tasks, stop_event, playerVars, watchVars, experiment>>

PlayersReady == Roles \subseteq first_waiting /\ Move("players_ready", "unpause")
Unpause      == Ask("unpause", "unpause_game", "first_lights_on")
LightsOnSeen == awaiting \in {"game_over", "nothing"} /\ Move("first_lights_on", "pause_again")

\* Variant: the game is not paused again.
NoPauseAgain == Move("pause_again", IF experiment.style = "sync" THEN "loop" ELSE "let_run")
PauseAgain   ==
  Ask("pause_again", "pause_game", IF experiment.style = "sync" THEN "loop" ELSE "let_run")

\* Variant: forward_pass swallows its timeout, as send_reflection_request does.
TimeOutSwallowed ==
  /\ at \in {"defuser_turn", "expert_turn"}
  /\ From(at) /\ RunsInto("slow") /\ GoTo(IF at = "defuser_turn" THEN "refresh" ELSE "loop")
  /\ UNCHANGED <<tasks, stop_event, gameVars, playerVars, watchVars, experiment>>

\* An RPC or a wait with a timeout takes too long.
TimeOut ==
  /\ at \in {"configuring_game", "lights_off", "players_ready", "defuser_turn", "expert_turn"}
  /\ From(at) /\ RunsInto("slow") /\ Raise("timeout")
  /\ UNCHANGED <<tasks, stop_event, gameVars, playerVars, watchVars, experiment>>
-----------------------------------------------------------------------------
(***************************************************************************)
(* Forward passes, and the loop of a sync experiment.                      *)
(***************************************************************************)

\* The player's end of a forward pass.
BeginTurn(r) ==
  /\ player' = [player EXCEPT ![r] = "busy"]
  /\ passing' = passing \cup {r}

AfterStep == IF experiment.feedback THEN "bomb_after" ELSE "loop"
TurnOf(r) == IF r = "defuser" THEN "defuser_turn" ELSE "expert_turn"

\* The runner calls for the turn of r and waits for it, or passes on if all is over.
Turn(r, over) ==
  /\ From(r)
  /\ \/ is_experiment_over /\ GoTo(over) /\ UNCHANGED <<player, passing>>
     \/ /\ ~is_experiment_over
        /\ \/ player[r] = "waiting_for_turn" /\ BeginTurn(r) /\ GoTo(TurnOf(r))
           \/ player[r] = "dead" /\ Raise("timeout") /\ UNCHANGED <<player, passing>>
           \/ player[r] \notin {"waiting_for_turn", "dead"} /\ Guard("status", AfterStep)
              /\ UNCHANGED <<player, passing>>
  /\ UNCHANGED <<tasks, stop_event, told, gameVars, watchVars, experiment, met>>

\* The turn ends; the action of a defuser may end the game.
FinishTurn(r) ==
  /\ r \in passing /\ player[r] # "dead"
  /\ passing' = passing \ {r}
  /\ player' = IF player[r] = "busy" THEN [player EXCEPT ![r] = "waiting_for_turn"] ELSE player
  /\ \/ UNCHANGED process
     \/ r = "defuser" /\ process = "lights_on" /\ process' = "over"
  /\ UNCHANGED <<paused, timer, serving, monitorVars, configuring>>
  /\ IF at = TurnOf(r)
     THEN From(at) /\ GoTo(IF r = "defuser" THEN "refresh" ELSE AfterStep)
     ELSE UNCHANGED <<at, state, client_crashed, cancelled, escaped>>
  /\ UNCHANGED <<tasks, stop_event, told, watchVars, experiment, met>>

\* It ends with an error of the game, which the guard of a sync step or of a player
\* loop takes for a crashed client.  The player stays as it is.
TurnFails ==
  /\ "defuser" \in passing /\ player["defuser"] # "dead"
  /\ process \in {"dead", "unknown", "main_menu"}
  /\ passing' = passing \ {"defuser"}
  /\ \/ at = "defuser_turn" /\ From(at) /\ Guard("status", AfterStep)
     \/ at = "players" /\ From(at) /\ Guard("status", "players")
     \/ at \notin {"defuser_turn", "players"}
        /\ UNCHANGED <<at, state, client_crashed, cancelled, escaped>>
  /\ UNCHANGED <<tasks, stop_event, player, told, gameVars, watchVars, experiment, met>>

Loop ==
  Move("loop", IF is_experiment_over THEN "post_game"
               ELSE IF experiment.feedback THEN "bomb_before" ELSE "defuser")

\* get_bomb_state for the feedback, and the feedback itself.
AskForFeedback(from, to) ==
  /\ From(from)
  /\ \/ /\ "ok" \in Answers("get_bomb_state")
        /\ IF from = "bomb_after" /\ \E r \in Roles : player[r] = "dead"
           THEN Raise("timeout") ELSE GoTo(to)
        /\ UNCHANGED met
     \/ \E error \in Answers("get_bomb_state") \ {"ok"} : Guard(error, "loop") /\ UNCHANGED met
     \/ RunsInto("slow") /\ Raise("timeout")
  /\ UNCHANGED <<tasks, stop_event, gameVars, playerVars, watchVars, experiment>>

\* advance_game_time, if the game is not seen to be over.
Advance ==
  /\ From("advance")
  /\ \/ is_experiment_over /\ GoTo("expert") /\ UNCHANGED <<gameVars, met>>
     \/ /\ ~is_experiment_over /\ "ok" \in Answers("advance_game_time")
        /\ Handle("advance_game_time") /\ GoTo("expert") /\ UNCHANGED met
     \/ /\ ~is_experiment_over
        /\ \E error \in Answers("advance_game_time") \ {"ok"} : Guard(error, AfterStep)
        /\ IF process = "over" THEN RunsInto("late") ELSE UNCHANGED met
        /\ UNCHANGED gameVars
     \/ /\ ~is_experiment_over /\ RunsInto("slow") /\ Raise("timeout")
        /\ UNCHANGED gameVars
  /\ UNCHANGED <<tasks, stop_event, playerVars, watchVars, experiment>>

DefuserTurn == Turn("defuser", "refresh")
ExpertTurn  ==
  IF "expert" \in Roles THEN Turn("expert", AfterStep)
                        ELSE Move("expert", AfterStep)

\* The state is read anew, or the heartbeat has nothing new; the game's end is an event
\* of the watcher's loop and not set by this read.
Refresh == Move("refresh", "advance")
-----------------------------------------------------------------------------
(***************************************************************************)
(* The loop of an async experiment.                                        *)
(***************************************************************************)
LetRun ==
  /\ From("let_run")
  /\ \/ /\ "ok" \in Answers("unpause_game") /\ Handle("unpause_game")
        /\ GoTo("players") /\ tasks' = Roles /\ UNCHANGED met
     \/ /\ \E error \in Answers("unpause_game") \ {"ok"} : Raise(error)
        /\ UNCHANGED <<gameVars, tasks, met>>
     \/ /\ RunsInto("slow") /\ Raise("timeout") /\ (Handle("unpause_game") \/ UNCHANGED gameVars)
        /\ UNCHANGED tasks
  /\ UNCHANGED <<stop_event, playerVars, watchVars, experiment>>

\* run_player_loop of r between two turns.
PlayerLoop(r) ==
  /\ r \in tasks \ passing
  /\ From("players")
  /\ \/ /\ is_experiment_over /\ tasks' = tasks \ {r}
        /\ GoTo(at) /\ UNCHANGED <<player, passing, met>>
     \/ /\ ~is_experiment_over
        /\ \/ player[r] = "waiting_for_turn" /\ BeginTurn(r) /\ GoTo(at)
           \/ player[r] = "dead" /\ Raise("timeout") /\ UNCHANGED <<player, passing>>
           \/ player[r] \notin {"waiting_for_turn", "dead"} /\ Guard("status", at)
              /\ UNCHANGED <<player, passing>>
        /\ UNCHANGED <<tasks, met>>
  /\ UNCHANGED <<stop_event, told, gameVars, watchVars, experiment>>

\* A turn in a player loop takes too long.
LoopTimesOut ==
  /\ at = "players" /\ tasks \cap passing # {}
  /\ From(at) /\ RunsInto("slow") /\ Raise("timeout")
  /\ UNCHANGED <<tasks, stop_event, gameVars, playerVars, watchVars, experiment>>

\* game_over_event is set: the loops are cancelled, turns in flight stay with the players.
EndLoops ==
  /\ awaiting = "nothing"
  /\ From("players") /\ GoTo("post_game") /\ tasks' = {}
  /\ UNCHANGED <<stop_event, gameVars, playerVars, watchVars, experiment, met>>
-----------------------------------------------------------------------------
(***************************************************************************)
(* After the game: reflection and stop_all_players.                        *)
(***************************************************************************)
PostGame ==
  /\ From("post_game")
  /\ IF is_hard_crash THEN at' = "stop_game" /\ state' = "cleanup"
                      ELSE at' = "defuser_waits" /\ state' = "post_game"
  /\ UNCHANGED <<client_crashed, escaped>>
  /\ UNCHANGED <<tasks, stop_event, gameVars, playerVars, watchVars, experiment, met>>

\* send_reflection_request up to the bomb: each player has been seen waiting for its
\* turn.  A TimeoutError ends the reflection only.
WaitForPlayer(r, from, to) ==
  /\ From(from)
  /\ \/ (r \notin Roles \/ r \in seen_waiting) /\ GoTo(to) /\ UNCHANGED met
     \/ r = "defuser" /\ player_crash # {} /\ GoTo("final_bomb") /\ UNCHANGED met
     \/ r \in Roles /\ RunsInto("slow") /\ GoTo("final_bomb")
  /\ UNCHANGED <<tasks, stop_event, gameVars, playerVars, watchVars, experiment>>

\* The reflections of the players that are waiting begin; the other requests are rejected.
\* A bomb that is still running has no message to reflect on: ValueError.
AskToReflect ==
  /\ From("bomb_for_reflection")
  /\ \/ /\ "ok" \in Answers("get_bomb_state") /\ BombNow = "over"
        /\ tasks' = {r \in Roles : player[r] = "waiting_for_turn"}
        /\ player' = [r \in Role |-> IF r \in tasks' THEN "reflecting" ELSE player[r]]
        /\ GoTo("reflections") /\ UNCHANGED met
     \/ /\ "ok" \in Answers("get_bomb_state") /\ BombNow # "over"
        /\ Raise("value") /\ UNCHANGED <<tasks, player, met>>
     \/ /\ "ok" \notin Answers("get_bomb_state")
        /\ GoTo("final_bomb") /\ UNCHANGED <<tasks, player, met>>
     \/ /\ RunsInto("slow") /\ GoTo("final_bomb") /\ UNCHANGED <<tasks, player>>
  /\ UNCHANGED <<stop_event, passing, told, gameVars, watchVars, experiment>>

FinishReflection(r) ==
  /\ player[r] = "reflecting"
  /\ player' = [player EXCEPT ![r] = "waiting_for_turn"]
  /\ tasks' = IF at = "reflections" THEN tasks \ {r} ELSE tasks
  /\ UNCHANGED <<state, at, stop_event, client_crashed, cancelled, escaped>>
  /\ UNCHANGED <<passing, told, gameVars, watchVars, experiment, met>>

\* Both have answered, or an RPC has timed out, which PlayerClient swallows.
EndReflections ==
  /\ From("reflections") /\ GoTo("final_bomb") /\ tasks' = {}
  /\ \/ tasks = {} /\ UNCHANGED met
     \/ "slow" \in Troubles /\ met' = met \cup {"slow"}
  /\ UNCHANGED <<stop_event, gameVars, playerVars, watchVars, experiment>>

\* Variant: a bomb that cannot be read is left out, as in send_reflection_request.
FinalBombOrNone ==
  /\ From("final_bomb") /\ GoTo("send_stops")
  /\ stop_event' = [crash |-> is_hard_crash,
                    bomb  |-> IF "ok" \in Answers("get_bomb_state") THEN BombNow ELSE "none"]
  /\ UNCHANGED <<tasks, gameVars, playerVars, watchVars, experiment, met>>

FinalBomb ==
  /\ From("final_bomb")
  /\ \/ /\ is_hard_crash /\ stop_event' = [crash |-> TRUE, bomb |-> "none"]
        /\ GoTo("send_stops") /\ UNCHANGED met
     \/ /\ ~is_hard_crash /\ "ok" \in Answers("get_bomb_state")
        /\ stop_event' = [crash |-> FALSE, bomb |-> BombNow]
        /\ GoTo("send_stops") /\ UNCHANGED met
     \/ /\ ~is_hard_crash /\ "ok" \notin Answers("get_bomb_state")
        /\ \E error \in Answers("get_bomb_state") : Raise(error)
        /\ UNCHANGED <<stop_event, met>>
     \/ /\ ~is_hard_crash /\ RunsInto("slow") /\ Raise("timeout") /\ UNCHANGED stop_event
  /\ UNCHANGED <<tasks, gameVars, playerVars, watchVars, experiment>>

\* One flag for both players, read when the bomb has answered.
SendStops ==
  /\ From("send_stops") /\ GoTo("stop_players")
  /\ tasks' = Roles /\ stop_event' = [stop_event EXCEPT !.crash = is_hard_crash]
  /\ UNCHANGED <<gameVars, playerVars, watchVars, experiment, met>>

\* stop_player of r: one that is stopping or reflecting accepts and does nothing.
Stop(r, event) ==
  /\ told' = CASE player[r] \in {"stopping", "dead"} -> told
               [] player[r] = "reflecting" -> [told EXCEPT ![r] = Ignored]
               [] OTHER -> [told EXCEPT ![r] = event]
  /\ player' = IF player[r] \in {"stopping", "reflecting", "dead"}
               THEN player ELSE [player EXCEPT ![r] = "stopping"]

\* Variant: each task reads the flag when it sends.
StopWithFreshFlag(r) ==
  /\ r \in tasks /\ From("stop_players") /\ GoTo(at)
  /\ Stop(r, [stop_event EXCEPT !.crash = is_hard_crash]) /\ tasks' = tasks \ {r}
  /\ UNCHANGED <<stop_event, passing, gameVars, watchVars, experiment, met>>

StopPlayer(r) ==
  /\ r \in tasks /\ From("stop_players")
  /\ \/ /\ player[r] # "dead" /\ Stop(r, stop_event)
        /\ GoTo(at) /\ tasks' = tasks \ {r} /\ UNCHANGED met
     \/ /\ player[r] = "dead" /\ Raise("timeout") /\ UNCHANGED <<player, told, tasks, met>>
     \/ /\ Meet("lost") /\ Raise("timeout") /\ UNCHANGED tasks
        /\ (Stop(r, stop_event) \/ UNCHANGED <<player, told>>)
  /\ UNCHANGED <<stop_event, passing, gameVars, watchVars, experiment>>

EndBody ==
  /\ tasks = {} /\ From("stop_players")
  /\ at' = "stop_game" /\ state' = "cleanup"
  /\ UNCHANGED <<client_crashed, escaped>>
  /\ UNCHANGED <<tasks, stop_event, gameVars, playerVars, watchVars, experiment, met>>
-----------------------------------------------------------------------------
(***************************************************************************)
(* cleanup_experiment, shielded from cancellation.                         *)
(***************************************************************************)
EndGame ==
  /\ at = "stop_game" /\ at' = "stop_defuser"
  /\ \/ StopGame /\ UNCHANGED met
     \/ ~serving /\ UNCHANGED <<gameVars, met>>
     \/ Meet("lost") /\ UNCHANGED gameVars
  /\ UNCHANGED <<state, tasks, stop_event, client_crashed, cancelled, escaped>>
  /\ UNCHANGED <<playerVars, watchVars, experiment>>

\* Variant: the players are left to stop_all_players.
CleanupWithoutStop(r, from, to) ==
  /\ at = from /\ at' = to
  /\ state' = IF to = "done" THEN "done" ELSE state
  /\ UNCHANGED <<tasks, stop_event, client_crashed, cancelled, escaped>>
  /\ UNCHANGED <<playerVars, gameVars, watchVars, experiment, met>>

\* _try_stop_player: no timeout leaves it.
TryStopPlayer(r, from, to) ==
  /\ at = from /\ at' = to
  /\ state' = IF to = "done" THEN "done" ELSE state
  /\ \/ /\ IF r \in Roles \ is_stopping
           THEN Stop(r, [crash |-> is_hard_crash, bomb |-> "none"])
           ELSE UNCHANGED <<player, told>>
        /\ UNCHANGED met
     \/ r \in Roles \ is_stopping /\ Meet("lost") /\ UNCHANGED <<player, told>>
  /\ UNCHANGED <<tasks, stop_event, client_crashed, cancelled, escaped>>
  /\ UNCHANGED <<passing, gameVars, watchVars, experiment>>
-----------------------------------------------------------------------------
(***************************************************************************)
(* Cancellation.                                                           *)
(***************************************************************************)

\* Session.force_stop_experiment, which does nothing once the state is past running.
ForceStop ==
  /\ state \in {"initialising", "running"} /\ Meet("force")
  /\ state' = "cleanup" /\ client_crashed' = TRUE
  /\ cancelled' = IF cancelled = "due" THEN "due" ELSE "pending"
  /\ UNCHANGED <<at, tasks, stop_event, escaped, gameVars, playerVars, watchVars, experiment>>

\* Variant: only the wait for the end of the game is limited.
GivesUpOnGameOver ==
  /\ at \in Body /\ awaiting = "game_over" /\ "hung" \notin met
  /\ RunsInto("hung")
  /\ escaped' = TRUE /\ cancelled' = "due"
  /\ UNCHANGED <<state, at, tasks, stop_event, client_crashed>>
  /\ UNCHANGED <<gameVars, playerVars, watchVars, experiment>>

\* A wait of monitor_game_states_loop reaches its end: the TimeoutError cancels the body
\* and goes on when the monitors are left, outside the handler.  (Not during cleanup,
\* which lasts far less than that.)
MonitorGivesUp ==
  /\ at \in Body /\ awaiting # "nothing" /\ "hung" \notin met
  /\ RunsInto("hung")
  /\ escaped' = TRUE /\ cancelled' = "due"
  /\ UNCHANGED <<state, at, tasks, stop_event, client_crashed>>
  /\ UNCHANGED <<gameVars, playerVars, watchVars, experiment>>

Cancel ==
  /\ at \in Body /\ cancelled # "no"
  /\ Raise("cancelled") /\ cancelled' = "due" /\ tasks' = {}
  /\ UNCHANGED <<stop_event, gameVars, playerVars, watchVars, experiment, met>>
-----------------------------------------------------------------------------
(***************************************************************************)
(* The watchers, and what happens to the services.                         *)
(***************************************************************************)
PollGame ==
  /\ at # "done"
  /\ game_crash' = (~serving \/ ~ready_state)
  /\ UNCHANGED <<awaiting, good_game_over, seen_waiting, player_crash, first_waiting, is_stopping>>
  /\ UNCHANGED <<runnerVars, gameVars, playerVars, experiment, met>>

\* monitor_game_states_loop looks at the state the last poll has left, while the body may
\* wait for what it finds.
WatchGame ==
  /\ at \in Body /\ "hung" \notin met
  /\ \/ /\ awaiting = "lights_off" /\ monitored = "lights_off"
        /\ awaiting' = "lights_on" /\ UNCHANGED good_game_over
     \/ /\ awaiting = "lights_on" /\ monitored = "lights_on"
        /\ awaiting' = "game_over" /\ UNCHANGED good_game_over
     \/ /\ awaiting = "game_over" /\ (game_crash \/ monitored = "over")
        /\ awaiting' = "nothing" /\ good_game_over' = ~game_crash
  /\ UNCHANGED <<game_crash, seen_waiting, player_crash, first_waiting, is_stopping>>
  /\ UNCHANGED <<runnerVars, gameVars, playerVars, experiment, met>>

PollPlayer(r) ==
  /\ at # "done"
  /\ IF player[r] = "dead"
     THEN /\ player_crash' = player_crash \cup {r}
          /\ UNCHANGED <<seen_waiting, first_waiting, is_stopping>>
     ELSE LET Seen(S) == {x \in {r} : player[r] \in S}
          IN /\ player_crash' = player_crash \ {r}
             /\ seen_waiting' = (seen_waiting \ {r}) \cup Seen({"waiting_for_turn"})
             /\ first_waiting' = first_waiting \cup Seen({"waiting_for_turn"})
             /\ is_stopping' = is_stopping \cup Seen({"stopping", "reflecting"})
  /\ UNCHANGED <<game_crash, awaiting, good_game_over>>
  /\ UNCHANGED <<runnerVars, gameVars, playerVars, experiment, met>>

\* A heartbeat is missing although the service lives.
MissHeartbeat ==
  /\ at # "done" /\ Meet("flap")
  /\ \/ game_crash' = TRUE /\ UNCHANGED player_crash
     \/ \E r \in Roles : player_crash' = player_crash \cup {r} /\ UNCHANGED game_crash
  /\ UNCHANGED <<awaiting, good_game_over, seen_waiting, first_waiting, is_stopping>>
  /\ UNCHANGED <<runnerVars, gameVars, playerVars, experiment>>

PlayerDies(r) ==
  /\ at # "done" /\ player[r] # "dead" /\ Meet("player")
  /\ player' = [player EXCEPT ![r] = "dead"] /\ passing' = passing \ {r}
  /\ UNCHANGED <<told, runnerVars, gameVars, watchVars, experiment>>

OnlyGame == UNCHANGED <<playerVars, runnerVars, watchVars, experiment>>

Configure ==
  \/ ConfigurePlayer("defuser", "configure_defuser", "configure_expert")
  \/ ConfigurePlayer("expert", "configure_expert", "configure_game")
  \/ ConfigureGame \/ LightsOffSeen \/ Pause \/ PlayersReady \/ Unpause \/ LightsOnSeen
  \/ PauseAgain \/ TimeOut

SyncLoop ==
  \/ Loop \/ AskForFeedback("bomb_before", "defuser") \/ DefuserTurn \/ Refresh \/ Advance
  \/ ExpertTurn \/ AskForFeedback("bomb_after", "loop")

AsyncLoop == LetRun \/ LoopTimesOut \/ \E r \in Roles : PlayerLoop(r)

AfterGame ==
  \/ PostGame
  \/ WaitForPlayer("defuser", "defuser_waits", "expert_waits")
  \/ WaitForPlayer("expert", "expert_waits", "bomb_for_reflection")
  \/ AskToReflect \/ EndReflections \/ FinalBomb \/ SendStops \/ EndBody
  \/ \E r \in Roles : StopPlayer(r)

Cleanup ==
  \/ EndGame
  \/ TryStopPlayer("defuser", "stop_defuser", "stop_expert")
  \/ TryStopPlayer("expert", "stop_expert", "done")

Runner == Configure \/ SyncLoop \/ AsyncLoop \/ AfterGame \/ Cleanup

\* A timer takes minutes, a setup that goes on seconds: it does not run out before the loop.
Service ==
  \/ /\ Boot \/ LightsGoOn \/ (at \notin SetupSteps /\ TimeRunsOut) \/ MonitorPoll \/ Restart
     /\ OnlyGame /\ UNCHANGED met
  \/ Exit /\ at # "done" /\ OnlyGame /\ Meet("crash")
  \/ ServiceDies /\ at # "done" /\ OnlyGame /\ Meet("service")
  \/ LightsAreOff \/ TurnFails
  \/ \E r \in Roles : at # "done" /\ (FinishTurn(r) \/ FinishReflection(r) \/ PlayerDies(r))

Watchers == PollGame \/ WatchGame \/ MissHeartbeat \/ \E r \in Roles : PollPlayer(r)

Next == Runner \/ EndLoops \/ Service \/ Watchers \/ ForceStop \/ MonitorGivesUp \/ Cancel

Spec == Init /\ [][Next]_vars

\* Every RPC and every wait with a timeout ends, a wait of the watcher ends with the
\* maximum duration, and a cancellation is delivered.  Of the game and the players
\* nothing is assumed.
RunnerFairness ==
  /\ WF_vars(Runner) /\ WF_vars(EndLoops) /\ WF_vars(MonitorGivesUp) /\ WF_vars(Cancel)

\* The game process starts, and its service keeps polling.
GameFairness ==
  /\ WF_vars(Boot /\ OnlyGame /\ UNCHANGED met)
  /\ WF_vars(MonitorPoll /\ OnlyGame /\ UNCHANGED met)
  /\ WF_vars(Restart /\ OnlyGame /\ UNCHANGED met)

FairSpec == Spec /\ RunnerFairness /\ GameFairness
-----------------------------------------------------------------------------
\* r has acted on a stop: the end of its record.
Told(r) == told[r] \notin {NotTold, Ignored}

\* In a sync experiment no turn is taken while the game's time runs, whatever happens to
\* services and RPCs: the lights come on unpaused, and the runner pauses again first.
PausedInTurns ==
  experiment.style = "sync" /\ passing # {} /\ process = "lights_on" => paused

\* The players of a sync experiment take turns: a turn that outlives its RPC is never
\* joined by that of the other player.
OneTurnAtATime == experiment.style = "sync" => Cardinality(passing) <= 1

\* A record without a hard crash has the bomb of a game that was played to its end, or a
\* watcher has seen a crash that was over when the players were told, or the player
\* reflected for too long to take the first stop.
PlayedOut ==
  \A r \in Roles : Told(r) /\ ~told[r].crash =>
    told[r].bomb = "over" \/ met \cap {"flap", "crash", "slow"} # {}

\* The records of both players agree on the hard crash, unless a stop was lost, the
\* watchers changed their mind between the two stops of a cleanup, or a service or player
\* died when one of the two had been left to the cleanup by a long reflection.
RecordsAgree ==
  Told("defuser") /\ Told("expert")
    /\ told["defuser"].crash # told["expert"].crash
    => \/ met \cap {"lost", "flap", "crash"} # {}
       \/ "slow" \in met /\ met \cap {"service", "player"} # {}

\* When the session is over every player that lives has been told to stop, unless its
\* stop was lost, it was reflecting at the time, or its watcher took that for stopping.
EveryoneIsTold ==
  at = "done" =>
    \A r \in Roles \ is_stopping :
      Told(r) \/ told[r] = Ignored \/ player[r] = "dead" \/ "lost" \in met

\* No timeout, no lost answer and no death of a service takes the EM down with the
\* experiment.  Three troubles do: the game process exits and its transport fails, a missed
\* heartbeat ends a game whose bomb then has no message to reflect on, a wait of the
\* watcher reaches the maximum duration.
ManagerSurvives == escaped => met \cap {"crash", "hung", "flap"} # {}

\* Every experiment is cleaned up, whatever its services do.
RunnerEnds == <>(state = "done")

\* After the session its game is ready for the next one, unless its service has died, the
\* stop of the game was lost, or the process died while it was starting.
GameReturns ==
  (at = "done") ~> \/ process = "main_menu" /\ monitored = "main_menu" /\ ready_state
                   \/ ~serving
                   \/ process = "dead" /\ supervisor = "waiting" /\ ready_state
                   \/ "lost" \in met
=============================================================================
