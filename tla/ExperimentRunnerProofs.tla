------------------------ MODULE ExperimentRunnerProofs ------------------------
(***************************************************************************)
(* What holds of every experiment, whatever its players, its game time and *)
(* its troubles: how turns are taken, which errors can reach the EM, and   *)
(* what the players' records say of the end.                               *)
(***************************************************************************)
EXTENDS ExperimentRunner, FiniteSetTheorems, TLAPS

Sync == experiment.style = "sync"
-----------------------------------------------------------------------------
(* Turns. *)

\* A turn in flight is the one the runner waits for, or the runner has given up.
OneAtWork ==
  Sync => /\ at \notin {"let_run", "players"}
          /\ \E r \in Role : /\ passing \subseteq {r}
                             /\ passing # {} => at = TurnOf(r) \/ at \in CleanSteps

\* From the loop on the game stands still while it has time to lose.
TimeStands ==
  Sync /\ (at \in LoopSteps \/ passing # {}) /\ process \in {"lights_off", "lights_on"} => paused

TurnInv == OneAtWork /\ TimeStands

\* Until the loop no turn is asked for, and the last step before it pauses the game again.
LEMMA SetupKeepsTurns == TurnInv /\ Configure => TurnInv'
<1> SUFFICES ASSUME TurnInv, Configure PROVE TurnInv'
  OBVIOUS
<1> USE DEF TurnInv, OneAtWork, TimeStands, Sync, Role, TurnOf, CleanSteps, LoopSteps, From, GoTo,
            Move, Raise, playerVars, watchVars, gameVars, processVars
<1>1. ASSUME NEW r, NEW from \in {"configure_defuser", "configure_expert"},
             NEW to \in {"configure_expert", "configure_game"}, ConfigurePlayer(r, from, to)
      PROVE  TurnInv'
  BY <1>1 DEF ConfigurePlayer
<1>2. CASE ConfigureGame
  BY <1>2 DEF ConfigureGame
<1>3. CASE LightsOffSeen \/ Pause \/ PlayersReady
  BY <1>3 DEF LightsOffSeen, Pause, PlayersReady
<1>4. CASE Unpause \/ LightsOnSeen
  BY <1>4 DEF Unpause, Ask, LightsOnSeen
<1>5. CASE PauseAgain
  BY <1>5 DEF PauseAgain, Ask, Handle
<1>6. CASE TimeOut
  BY <1>6 DEF TimeOut
<1> QED  BY <1>1, <1>2, <1>3, <1>4, <1>5, <1>6 DEF Configure

\* The game stands still before an advance and after it.
LEMMA Advancing ==
  Handle("advance_game_time") => paused' = paused /\ process' \in {process, "over"}
<1> SUFFICES ASSUME Handle("advance_game_time")
             PROVE  paused' = paused /\ process' \in {process, "over"}
  OBVIOUS
<1>1. process' \in {process, "over"}
  BY DEF Handle
<1>2. paused' = paused
  BY Zenon DEF Handle
<1> QED  BY <1>1, <1>2

\* A turn is asked for when no other is in flight: the loop waits for each, or gives up.
LEMMA LoopKeepsTurns == TurnInv /\ (SyncLoop \/ AsyncLoop \/ EndLoops) => TurnInv'
<1> SUFFICES ASSUME TurnInv, SyncLoop \/ AsyncLoop \/ EndLoops PROVE TurnInv'
  OBVIOUS
<1> USE DEF TurnInv, OneAtWork, TimeStands, Sync, Role, TurnOf, CleanSteps, LoopSteps, From, GoTo,
            Move, Raise, Guard, AfterStep, playerVars, watchVars, gameVars, processVars
<1>1. CASE Loop \/ Refresh
  BY <1>1 DEF Loop, Refresh
<1>2. ASSUME NEW from \in {"bomb_before", "bomb_after"}, NEW to \in {"defuser", "loop"},
             AskForFeedback(from, to)
      PROVE  TurnInv'
  BY <1>2 DEF AskForFeedback
<1>3. ASSUME NEW r \in Role, NEW over \in {"refresh", "loop", "bomb_after"}, Turn(r, over)
      PROVE  TurnInv'
  BY <1>3 DEF Turn, BeginTurn
<1>4. CASE Advance
  BY <1>4, Advancing DEF Advance
<1>5. CASE AsyncLoop \/ EndLoops
  BY <1>5 DEF AsyncLoop, LetRun, LoopTimesOut, PlayerLoop, EndLoops
<1> QED  BY <1>1, <1>2, <1>3, <1>4, <1>5 DEF SyncLoop, DefuserTurn, ExpertTurn

\* After the loop no turn is asked for any more.
LEMMA EndKeepsTurns == TurnInv /\ (AfterGame \/ Cleanup) => TurnInv'
<1> SUFFICES ASSUME TurnInv, AfterGame \/ Cleanup PROVE TurnInv'
  OBVIOUS
<1> USE DEF TurnInv, OneAtWork, TimeStands, Sync, Role, TurnOf, CleanSteps, LoopSteps, From, GoTo,
            Raise, playerVars, watchVars, gameVars, processVars
<1>1. CASE PostGame \/ EndReflections \/ SendStops \/ EndBody
  BY <1>1 DEF PostGame, EndReflections, SendStops, EndBody
<1>2. ASSUME NEW r, NEW from \in {"defuser_waits", "expert_waits"},
             NEW to \in {"expert_waits", "bomb_for_reflection"}, WaitForPlayer(r, from, to)
      PROVE  TurnInv'
  BY <1>2 DEF WaitForPlayer
<1>3. CASE AskToReflect \/ FinalBomb
  BY <1>3 DEF AskToReflect, FinalBomb
<1>4. ASSUME NEW r, StopPlayer(r) PROVE TurnInv'
  BY <1>4 DEF StopPlayer
<1>5. CASE EndGame
  BY <1>5 DEF EndGame, StopGame, Dies
<1>6. ASSUME NEW r, NEW from \in CleanSteps, NEW to \in {"stop_expert", "done"},
             TryStopPlayer(r, from, to)
      PROVE  TurnInv'
  BY <1>6 DEF TryStopPlayer
<1> QED  BY <1>1, <1>2, <1>3, <1>4, <1>5, <1>6 DEF AfterGame, Cleanup

\* Outside the runner turns only end, and no game that has time to lose is unpaused.
LEMMA ServicesKeepTurns ==
  TurnInv /\ (Service \/ Watchers \/ ForceStop \/ MonitorGivesUp \/ Cancel) => TurnInv'
<1> SUFFICES ASSUME TurnInv, Service \/ Watchers \/ ForceStop \/ MonitorGivesUp \/ Cancel
             PROVE  TurnInv'
  OBVIOUS
<1> USE DEF TurnInv, OneAtWork, TimeStands, Sync, Role, TurnOf, CleanSteps, LoopSteps, From, GoTo,
            Raise, playerVars, watchVars, runnerVars, gameVars, processVars, OnlyGame
<1>1. CASE (Boot \/ LightsGoOn \/ TimeRunsOut \/ MonitorPoll \/ Restart) /\ OnlyGame
  BY <1>1 DEF Boot, LightsGoOn, TimeRunsOut, Scene, MonitorPoll, Restart
<1>2. CASE (Exit \/ ServiceDies) /\ OnlyGame
  BY <1>2 DEF Exit, ServiceDies, Dies
<1>3. CASE LightsAreOff
  BY <1>3 DEF LightsAreOff
<1>4. CASE TurnFails
  BY <1>4 DEF TurnFails, Guard, AfterStep
<1>5. ASSUME NEW r \in Roles, FinishTurn(r) PROVE TurnInv'
  BY <1>5 DEF FinishTurn, AfterStep
<1>6. ASSUME NEW r \in Roles, FinishReflection(r) \/ PlayerDies(r) PROVE TurnInv'
  BY <1>6 DEF FinishReflection, PlayerDies
<1>7. CASE Watchers
  BY <1>7 DEF Watchers, PollGame, WatchGame, MissHeartbeat, PollPlayer
<1>8. CASE ForceStop \/ MonitorGivesUp \/ Cancel
  BY <1>8 DEF ForceStop, MonitorGivesUp, Cancel, Body, SetupSteps, PostSteps
<1> QED  BY <1>1, <1>2, <1>3, <1>4, <1>5, <1>6, <1>7, <1>8 DEF Service

\* Every step keeps the turns in order.
LEMMA TurnStep == TurnInv /\ [Next]_vars => TurnInv'
<1>1. TurnInv /\ UNCHANGED vars => TurnInv'
  <2> SUFFICES ASSUME TurnInv, UNCHANGED vars PROVE TurnInv'
    OBVIOUS
  <2>1. UNCHANGED <<at, passing, process, paused, experiment>>
    BY DEF vars, gameVars, processVars, playerVars, runnerVars
  <2> QED
    BY <2>1 DEF TurnInv, OneAtWork, TimeStands, Sync, Role, TurnOf, CleanSteps, LoopSteps
<1> QED  BY <1>1, SetupKeepsTurns, LoopKeepsTurns, EndKeepsTurns, ServicesKeepTurns
         DEF Next, Runner

LEMMA TurnsAreKept == Spec => []TurnInv
<1>1. Init => TurnInv
  BY DEF Init, TurnInv, OneAtWork, TimeStands, Sync, Role, LoopSteps
<1> QED  BY <1>1, TurnStep, PTL DEF Spec

\* No turn of a sync experiment is joined by that of the other player, whatever times out
\* or dies and however often: the runner leaves its body before it gives up on a turn.
THEOREM OneAtATime == Spec => []OneTurnAtATime
<1>1. TurnInv => OneTurnAtATime
  <2> SUFFICES ASSUME TurnInv, Sync PROVE Cardinality(passing) <= 1
    BY DEF OneTurnAtATime, Sync
  <2>1. PICK r \in Role : passing \subseteq {r}
    BY DEF TurnInv, OneAtWork
  <2>2. passing = {} \/ passing = {r}
    BY <2>1
  <2> QED  BY <2>2, FS_EmptySet, FS_Singleton
<1> QED  BY <1>1, TurnsAreKept, PTL

\* No turn of a sync experiment runs against the clock: only the setup lets time run, and
\* it stops it before the loop.
THEOREM PausedTheorem == Spec => []PausedInTurns
<1>1. TurnInv => PausedInTurns
  BY DEF TurnInv, TimeStands, PausedInTurns, Sync
<1> QED  BY <1>1, TurnsAreKept, PTL
-----------------------------------------------------------------------------
(* Errors that reach the EM. *)

Excused == "crash" \in met \/ "flap" \in met
Hung    == "hung" \in met
Over    == process = "over" \/ ~serving \/ Excused
InPost  == at \in PostSteps \ {"post_game"}

PlayersOK ==
  /\ experiment \in Experiments /\ player \in [Role -> PlayerState \cup {"dead"}]
  /\ player_crash \subseteq Role
  /\ \A r \in player_crash : player[r] = "dead" \/ "flap" \in met

\* Until the cleanup a process is lost with its service, or it has exited by itself.
LossIsCrash ==
  at \in Body /\ serving =>
    /\ process \in {"dead", "unknown"} \/ ~ready_state => "crash" \in met
    /\ monitored = "over" => process = "over" \/ "crash" \in met

\* The body goes on after the game only when the game is over or will not answer.
OverIsOver ==
  at \in Body =>
    /\ game_crash => ~serving \/ Excused
    /\ good_game_over \/ awaiting = "nothing" => Over
    /\ at = "post_game" => Over \/ player_crash # {} \/ client_crashed
    /\ InPost => Over

ErrorInv == PlayersOK /\ LossIsCrash /\ OverIsOver /\ (escaped => Excused \/ Hung)

(***************************************************************************)
(* Most steps leave the watchers alone, and the game but for its end; they *)
(* pass an error on or go one step further.                                *)
(***************************************************************************)
PlayersStay ==
  /\ experiment' = experiment /\ player_crash' = player_crash /\ met \subseteq met'
  /\ player' \in [Role -> PlayerState \cup {"dead"}]
  /\ \A r \in Role : player[r] = "dead" => player'[r] = "dead"

Untouched ==
  /\ UNCHANGED <<serving, ready_state, monitored>>
  /\ UNCHANGED <<game_crash, awaiting, good_game_over>>

GameStays ==
  at' \in Body =>
    /\ at \in Body /\ Untouched
    /\ \/ process' = process
       \/ process \notin {"dead", "unknown"} /\ process' = "over"

GoesOn ==
  /\ client_crashed => client_crashed'
  /\ escaped' => escaped \/ Excused' \/ Hung'
  /\ at' = "post_game" => at = "post_game" \/ is_experiment_over \/ awaiting = "nothing"
  /\ InPost' => InPost \/ (at = "post_game" /\ ~is_hard_crash)

\* A step that moves no one to where errors are told apart keeps what is known of them.
LEMMA QuietStep ==
  ASSUME ErrorInv, PlayersStay, GameStays, GoesOn
  PROVE  ErrorInv'
<1>1. Excused => Excused'
  BY DEF PlayersStay, Excused
<1>2. PlayersOK'
  BY DEF ErrorInv, PlayersOK, PlayersStay
<1>3. LossIsCrash'
  BY DEF ErrorInv, LossIsCrash, GameStays, Untouched, PlayersStay
<1>4. ASSUME at' \in Body PROVE Over => Over'
  BY <1>1, <1>4 DEF GameStays, Untouched, Over
<1>5. OverIsOver'
  <2> SUFFICES ASSUME at' \in Body
               PROVE  /\ game_crash' => ~serving' \/ Excused'
                      /\ (good_game_over \/ awaiting = "nothing")' => Over'
                      /\ at' = "post_game" => Over' \/ player_crash' # {} \/ client_crashed'
                      /\ InPost' => Over'
    BY DEF OverIsOver
  <2>1. /\ at \in Body
        /\ UNCHANGED <<serving, game_crash, awaiting, good_game_over, player_crash>>
    BY DEF GameStays, Untouched, PlayersStay
  <2>2. /\ game_crash => ~serving \/ Excused
        /\ good_game_over \/ awaiting = "nothing" => Over
        /\ at = "post_game" => Over \/ player_crash # {} \/ client_crashed
        /\ InPost => Over
    BY <2>1 DEF ErrorInv, OverIsOver
  <2>3. game_crash => Over
    BY <2>2 DEF Over
  <2>4. at' = "post_game" => Over' \/ player_crash' # {} \/ client_crashed'
    BY <1>4, <2>1, <2>2, <2>3 DEF GoesOn, is_experiment_over, is_hard_crash
  <2>5. InPost' => Over'
    BY <1>4, <2>1, <2>2, <2>3 DEF GoesOn, is_hard_crash
  <2> QED  BY <1>1, <1>4, <2>1, <2>2, <2>4, <2>5
<1>6. escaped' => Excused' \/ Hung'
  BY <1>1 DEF ErrorInv, GoesOn, PlayersStay, Hung
<1> QED  BY <1>2, <1>3, <1>5, <1>6 DEF ErrorInv

\* Pausing changes the speed and nothing else.
LEMMA Pausing ==
  \A command \in {"pause_game", "unpause_game"} :
    Handle(command) => UNCHANGED <<serving, ready_state, monitored>> /\ UNCHANGED process
  BY DEF Handle, monitorVars

\* The roles of an experiment.
LEMMA RolesAreRoles == ErrorInv => Roles \subseteq Role
  BY RunnerConstants DEF ErrorInv, PlayersOK, Roles, Role

\* The players move alone.
LEMMA Still == UNCHANGED <<gameVars, watchVars>> => Untouched /\ UNCHANGED <<process, player_crash>>
  BY Zenon DEF gameVars, processVars, monitorVars, watchVars, Untouched

\* What is known of the services comes from the watchers.
LEMMA WatchersStill ==
  UNCHANGED watchVars =>
    UNCHANGED <<game_crash, awaiting, good_game_over>> /\ UNCHANGED player_crash
  BY Zenon DEF watchVars

LEMMA Meeting == \A t : Meet(t) \/ RunsInto(t) => met \subseteq met'
  BY DEF Meet, RunsInto

\* Only an error the handler does not know leaves it.
LEMMA Raising ==
  ASSUME NEW error, Raise(error)
  PROVE  /\ at' = "stop_game" /\ (client_crashed => client_crashed')
         /\ escaped' => escaped \/ error \in {"transport", "value"}
  BY Zenon DEF Raise

LEMMA Guarding ==
  ASSUME NEW error, NEW step, Guard(error, step)
  PROVE  /\ at' \in {"stop_game", step} /\ (client_crashed => client_crashed')
         /\ escaped' => escaped
<1>1. CASE error = "timeout"
  BY <1>1, Raising DEF Guard
<1>2. CASE error # "timeout"
  BY <1>2 DEF Guard
<1> QED  BY <1>1, <1>2

\* A transport error comes of a process that has exited.
LEMMA LostByCrash ==
  ASSUME ErrorInv, at \in Body, serving, process \in {"dead", "unknown"}
  PROVE  Excused
  BY DEF ErrorInv, LossIsCrash, Excused

\* A rise in met keeps what excuses.
LEMMA StillExcused == Excused /\ met \subseteq met' => Excused'
  BY DEF Excused

\* The errors of the setup.
LEMMA SetupKeepsErrors == ErrorInv /\ Configure => ErrorInv'
<1> SUFFICES ASSUME ErrorInv, Configure PROVE ErrorInv'
  OBVIOUS
<1>0. Roles \subseteq Role /\ player \in [Role -> PlayerState \cup {"dead"}]
  BY RolesAreRoles DEF ErrorInv, PlayersOK
<1> USE Still, WatchersStill DEF From, GoTo, playerVars
<1>1. ASSUME NEW r \in Role, NEW from \in {"configure_defuser", "configure_expert"},
             NEW to \in {"configure_expert", "configure_game"}, ConfigurePlayer(r, from, to)
      PROVE  ErrorInv'
  <2>1. PlayersStay
    BY <1>0, <1>1, Meeting DEF ConfigurePlayer, PlayerState, PlayersStay
  <2>2. GameStays
    <3>1. at' \in Body => at \in Body
      BY <1>1, Raising, Guarding DEF ConfigurePlayer, Body, SetupSteps, LoopSteps, PostSteps
    <3>2. Untouched /\ process' = process
      BY <1>1 DEF ConfigurePlayer
    <3> QED  BY <3>1, <3>2 DEF GameStays
  <2>3. GoesOn
    BY <1>1, Raising, Guarding DEF ConfigurePlayer, GoesOn, InPost, PostSteps
  <2> QED  BY <2>1, <2>2, <2>3, QuietStep
<1>2. CASE ConfigureGame /\ at' = "configuring_game"
  <2>1. /\ at = "configure_game" /\ monitored = "main_menu" /\ process = "main_menu"
        /\ process' = "lights_off"
    BY <1>2, Raising DEF ConfigureGame, StartMission
  <2>2. Untouched
    BY <1>2 DEF ConfigureGame, StartMission, Untouched, monitorVars
  <2>3. met' = met /\ escaped' = escaped
    BY <1>2, Raising DEF ConfigureGame
  <2>4. at' \notin PostSteps /\ at \in Body
    BY <1>2, <2>1 DEF PostSteps, Body, SetupSteps
  <2>5. PlayersOK'
    BY <1>2 DEF ConfigureGame, ErrorInv, PlayersOK
  <2>6. LossIsCrash'
    BY <2>1, <2>2, <2>3, <2>4 DEF ErrorInv, LossIsCrash, Untouched
  <2>7. OverIsOver'
    BY <1>2, <2>1, <2>2, <2>3, <2>4
       DEF ErrorInv, OverIsOver, Over, InPost, Excused, Untouched, PostSteps
  <2> QED  BY <2>3, <2>5, <2>6, <2>7 DEF ErrorInv, Excused, Hung
<1>3. CASE ConfigureGame /\ at' # "configuring_game"
  <2>1. PlayersStay
    BY <1>0, <1>3, Meeting DEF ConfigureGame, PlayersStay
  <2>2. GameStays
    <3>1. at' \in Body => at \in Body
      BY <1>3, Raising, Guarding DEF ConfigureGame, Body, SetupSteps, LoopSteps, PostSteps
    <3>2. Untouched /\ process' = process
      BY <1>3 DEF ConfigureGame
    <3> QED  BY <3>1, <3>2 DEF GameStays
  <2>3. GoesOn
    BY <1>3, Raising, Guarding, LostByCrash, StillExcused DEF ConfigureGame, Body, SetupSteps,
      GoesOn, InPost, PostSteps
  <2> QED  BY <2>1, <2>2, <2>3, QuietStep
<1>4. CASE LightsOffSeen \/ PlayersReady \/ LightsOnSeen \/ TimeOut
  <2>1. PlayersStay
    BY <1>0, <1>4, Meeting DEF Move, LightsOffSeen, PlayersReady, LightsOnSeen, TimeOut,
      PlayersStay
  <2>2. GameStays
    <3>1. at' \in Body => at \in Body
      BY <1>4, Raising, Guarding DEF Move, LightsOffSeen, PlayersReady, LightsOnSeen, TimeOut,
        Body, SetupSteps, LoopSteps, PostSteps
    <3>2. Untouched /\ process' = process
      BY <1>4 DEF Move, LightsOffSeen, PlayersReady, LightsOnSeen, TimeOut
    <3> QED  BY <3>1, <3>2 DEF GameStays
  <2>3. GoesOn
    BY <1>4, Raising, Guarding DEF Move, LightsOffSeen, PlayersReady, LightsOnSeen, TimeOut,
      GoesOn, InPost, PostSteps
  <2> QED  BY <2>1, <2>2, <2>3, QuietStep
<1>5. CASE Pause
  <2>1. PlayersStay
    BY <1>0, <1>5, Meeting, Pausing DEF Pause, PlayersStay
  <2>2. GameStays
    <3>1. at' \in Body => at \in Body
      BY <1>5, Raising, Guarding DEF Pause, Body, SetupSteps, LoopSteps, PostSteps
    <3>2. Untouched /\ process' = process
      BY <1>5, Pausing DEF Pause, Untouched
    <3> QED  BY <3>1, <3>2 DEF GameStays
  <2>3. GoesOn
    BY <1>5, Raising, Guarding, LostByCrash, StillExcused DEF Pause, Answers, Body, SetupSteps,
      GoesOn, InPost, PostSteps
  <2> QED  BY <2>1, <2>2, <2>3, QuietStep
<1>6. CASE Unpause \/ PauseAgain
  <2>1. PlayersStay
    BY <1>0, <1>6, Meeting, Pausing DEF Unpause, PauseAgain, Ask, PlayersStay
  <2>2. GameStays
    <3>1. at' \in Body => at \in Body
      BY <1>6, Raising, Guarding DEF Unpause, PauseAgain, Ask, Body, SetupSteps, LoopSteps,
        PostSteps
    <3>2. Untouched /\ process' = process
      BY <1>6, Pausing DEF Unpause, PauseAgain, Ask, Untouched
    <3> QED  BY <3>1, <3>2 DEF GameStays
  <2>3. GoesOn
    BY <1>6, Raising, Guarding, LostByCrash, StillExcused DEF Unpause, PauseAgain, Ask, Answers,
      Body, SetupSteps, GoesOn, InPost, PostSteps
  <2> QED  BY <2>1, <2>2, <2>3, QuietStep
<1> QED  BY <1>0, <1>1, <1>2, <1>3, <1>4, <1>5, <1>6 DEF Configure, Role

\* The errors of the loops.
LEMMA LoopKeepsErrors == ErrorInv /\ (SyncLoop \/ AsyncLoop \/ EndLoops) => ErrorInv'
<1> SUFFICES ASSUME ErrorInv, (SyncLoop \/ AsyncLoop \/ EndLoops) PROVE ErrorInv'
  OBVIOUS
<1>0. Roles \subseteq Role /\ player \in [Role -> PlayerState \cup {"dead"}]
  BY RolesAreRoles DEF ErrorInv, PlayersOK
<1> USE Still, WatchersStill DEF From, GoTo, playerVars
<1>1. CASE Loop \/ Refresh \/ Move("expert", AfterStep)
  <2>1. PlayersStay
    BY <1>0, <1>1, Meeting DEF Loop, Refresh, AfterStep, Move, PlayersStay
  <2>2. GameStays
    <3>1. at' \in Body => at \in Body
      BY <1>1, Raising, Guarding DEF Loop, Refresh, AfterStep, Move, Body, SetupSteps,
        LoopSteps, PostSteps
    <3>2. Untouched /\ process' = process
      BY <1>1 DEF Loop, Refresh, AfterStep, Move
    <3> QED  BY <3>1, <3>2 DEF GameStays
  <2>3. GoesOn
    BY <1>1, Raising, Guarding DEF Loop, Refresh, AfterStep, Move, GoesOn, InPost, PostSteps
  <2> QED  BY <2>1, <2>2, <2>3, QuietStep
<1>2. ASSUME NEW from \in {"bomb_before", "bomb_after"}, NEW to \in {"defuser", "loop"},
             AskForFeedback(from, to)
      PROVE  ErrorInv'
  <2>1. PlayersStay
    BY <1>0, <1>2, Meeting DEF AskForFeedback, PlayersStay
  <2>2. GameStays
    <3>1. at' \in Body => at \in Body
      BY <1>2, Raising, Guarding DEF AskForFeedback, Body, SetupSteps, LoopSteps, PostSteps
    <3>2. Untouched /\ process' = process
      BY <1>2 DEF AskForFeedback
    <3> QED  BY <3>1, <3>2 DEF GameStays
  <2>3. GoesOn
    BY <1>2, Raising, Guarding DEF AskForFeedback, GoesOn, InPost, PostSteps
  <2> QED  BY <2>1, <2>2, <2>3, QuietStep
<1>3. ASSUME NEW r \in Role, NEW over \in {"refresh", "loop", "bomb_after"}, Turn(r, over)
      PROVE  ErrorInv'
  <2>1. PlayersStay
    BY <1>0, <1>3, Meeting DEF Turn, BeginTurn, TurnOf, AfterStep, Role, PlayerState, PlayersStay
  <2>2. GameStays
    <3>1. at' \in Body => at \in Body
      BY <1>3, Raising, Guarding DEF Turn, BeginTurn, TurnOf, AfterStep, Role, Body, SetupSteps,
        LoopSteps, PostSteps
    <3>2. Untouched /\ process' = process
      BY <1>3 DEF Turn, BeginTurn, TurnOf, AfterStep, Role
    <3> QED  BY <3>1, <3>2 DEF GameStays
  <2>3. GoesOn
    BY <1>3, Raising, Guarding DEF Turn, BeginTurn, TurnOf, AfterStep, Role, GoesOn, InPost,
      PostSteps
  <2> QED  BY <2>1, <2>2, <2>3, QuietStep
<1>4. CASE Advance
  <2>1. PlayersStay
    BY <1>0, <1>4, Meeting DEF Advance, PlayersStay
  <2>2. GameStays
    <3>1. at' \in Body => at \in Body
      BY <1>4 DEF Advance, Body, LoopSteps
    <3>2. ASSUME Handle("advance_game_time"), "ok" \in Answers("advance_game_time")
          PROVE  /\ UNCHANGED <<serving, ready_state, monitored>>
                 /\ process' \in {process, "over"} /\ process \notin {"dead", "unknown"}
      BY <3>2, Advancing DEF Handle, Answers, monitorVars
    <3> QED  BY <1>4, <3>1, <3>2 DEF Advance, GameStays, Untouched
  <2>3. GoesOn
    BY <1>4, Raising, Guarding DEF Advance, AfterStep, GoesOn, InPost, PostSteps
  <2> QED  BY <2>1, <2>2, <2>3, QuietStep
<1>5. CASE LetRun
  <2>1. PlayersStay
    BY <1>0, <1>5, Meeting, Pausing DEF LetRun, PlayersStay
  <2>2. GameStays
    <3>1. at' \in Body => at \in Body
      BY <1>5, Raising, Guarding DEF LetRun, Body, SetupSteps, LoopSteps, PostSteps
    <3>2. Untouched /\ process' = process
      BY <1>5, Pausing DEF LetRun, Untouched
    <3> QED  BY <3>1, <3>2 DEF GameStays
  <2>3. GoesOn
    BY <1>5, Raising, Guarding, LostByCrash, StillExcused DEF LetRun, Answers, Body, SetupSteps,
      LoopSteps, GoesOn, InPost, PostSteps
  <2> QED  BY <2>1, <2>2, <2>3, QuietStep
<1>6. ASSUME NEW r \in Role, PlayerLoop(r) PROVE ErrorInv'
  <2>1. PlayersStay
    BY <1>0, <1>6, Meeting DEF PlayerLoop, BeginTurn, PlayerState, PlayersStay
  <2>2. GameStays
    <3>1. at' \in Body => at \in Body
      BY <1>6, Raising, Guarding DEF PlayerLoop, BeginTurn, Body, SetupSteps, LoopSteps, PostSteps
    <3>2. Untouched /\ process' = process
      BY <1>6 DEF PlayerLoop, BeginTurn
    <3> QED  BY <3>1, <3>2 DEF GameStays
  <2>3. GoesOn
    BY <1>6, Raising, Guarding DEF PlayerLoop, BeginTurn, GoesOn, InPost, PostSteps
  <2> QED  BY <2>1, <2>2, <2>3, QuietStep
<1>7. CASE LoopTimesOut \/ EndLoops
  <2>1. PlayersStay
    BY <1>0, <1>7, Meeting DEF LoopTimesOut, EndLoops, PlayersStay
  <2>2. GameStays
    <3>1. at' \in Body => at \in Body
      BY <1>7, Raising, Guarding DEF LoopTimesOut, EndLoops, Body, SetupSteps, LoopSteps,
        PostSteps
    <3>2. Untouched /\ process' = process
      BY <1>7 DEF LoopTimesOut, EndLoops
    <3> QED  BY <3>1, <3>2 DEF GameStays
  <2>3. GoesOn
    BY <1>7, Raising, Guarding DEF LoopTimesOut, EndLoops, GoesOn, InPost, PostSteps
  <2> QED  BY <2>1, <2>2, <2>3, QuietStep
<1> QED  BY <1>0, <1>1, <1>2, <1>3, <1>4, <1>5, <1>6, <1>7 DEF SyncLoop, AsyncLoop, DefuserTurn,
    ExpertTurn, AfterStep, Role

\* What follows the game comes after its end.
LEMMA OverInPost == ErrorInv /\ InPost => Over
  BY DEF ErrorInv, OverIsOver, InPost, Body, PostSteps

\* A stop revives nobody.
LEMMA Stopping ==
  ASSUME NEW r \in Role, NEW event, Stop(r, event),
         player \in [Role -> PlayerState \cup {"dead"}]
  PROVE  /\ player' \in [Role -> PlayerState \cup {"dead"}]
         /\ \A q \in Role : player[q] = "dead" => player'[q] = "dead"
<1>1. player' = player \/ (player[r] # "dead" /\ player' = [player EXCEPT ![r] = "stopping"])
  BY DEF Stop
<1> QED  BY <1>1 DEF PlayerState

\* The errors of the stops and of the cleanup.
LEMMA EndKeepsErrors == ErrorInv /\ (AfterGame \/ Cleanup) => ErrorInv'
<1> SUFFICES ASSUME ErrorInv, (AfterGame \/ Cleanup) PROVE ErrorInv'
  OBVIOUS
<1>0. Roles \subseteq Role /\ player \in [Role -> PlayerState \cup {"dead"}]
  BY RolesAreRoles DEF ErrorInv, PlayersOK
<1> USE Still, WatchersStill DEF From, GoTo, playerVars
<1>1. CASE PostGame
  <2>1. PlayersStay
    BY <1>0, <1>1, Meeting DEF PostGame, PlayersStay
  <2>2. GameStays
    <3>1. at' \in Body => at \in Body
      BY <1>1, Raising, Guarding DEF PostGame, Body, SetupSteps, LoopSteps, PostSteps
    <3>2. Untouched /\ process' = process
      BY <1>1 DEF PostGame
    <3> QED  BY <3>1, <3>2 DEF GameStays
  <2>3. GoesOn
    BY <1>1, Raising, Guarding DEF PostGame, GoesOn, InPost, PostSteps
  <2> QED  BY <2>1, <2>2, <2>3, QuietStep
<1>2. CASE EndReflections \/ SendStops \/ EndBody
  <2>1. PlayersStay
    BY <1>0, <1>2, Meeting DEF EndReflections, SendStops, EndBody, PlayersStay
  <2>2. GameStays
    <3>1. at' \in Body => at \in Body
      BY <1>2, Raising, Guarding DEF EndReflections, SendStops, EndBody, Body, SetupSteps,
        LoopSteps, PostSteps
    <3>2. Untouched /\ process' = process
      BY <1>2 DEF EndReflections, SendStops, EndBody
    <3> QED  BY <3>1, <3>2 DEF GameStays
  <2>3. GoesOn
    BY <1>2, Raising, Guarding DEF EndReflections, SendStops, EndBody, GoesOn, InPost, PostSteps
  <2> QED  BY <2>1, <2>2, <2>3, QuietStep
<1>3. ASSUME NEW r, NEW from \in {"defuser_waits", "expert_waits"},
             NEW to \in {"expert_waits", "bomb_for_reflection"}, WaitForPlayer(r, from, to)
      PROVE  ErrorInv'
  <2>1. PlayersStay
    BY <1>0, <1>3, Meeting DEF WaitForPlayer, PlayersStay
  <2>2. GameStays
    <3>1. at' \in Body => at \in Body
      BY <1>3, Raising, Guarding DEF WaitForPlayer, Body, SetupSteps, LoopSteps, PostSteps
    <3>2. Untouched /\ process' = process
      BY <1>3 DEF WaitForPlayer
    <3> QED  BY <3>1, <3>2 DEF GameStays
  <2>3. GoesOn
    BY <1>3, Raising, Guarding DEF WaitForPlayer, GoesOn, InPost, PostSteps
  <2> QED  BY <2>1, <2>2, <2>3, QuietStep
<1>4. CASE AskToReflect
  <2>1. PlayersStay
    BY <1>0, <1>4, Meeting DEF AskToReflect, PlayerState, PlayersStay
  <2>2. GameStays
    <3>1. at' \in Body => at \in Body
      BY <1>4, Raising, Guarding DEF AskToReflect, Body, SetupSteps, LoopSteps, PostSteps
    <3>2. Untouched /\ process' = process
      BY <1>4 DEF AskToReflect
    <3> QED  BY <3>1, <3>2 DEF GameStays
  <2>3. GoesOn
    BY <1>4, Raising, Guarding, OverInPost, StillExcused DEF AskToReflect, Answers, BombNow,
      Over, GoesOn, InPost, PostSteps
  <2> QED  BY <2>1, <2>2, <2>3, QuietStep
<1>5. CASE FinalBomb
  <2>1. PlayersStay
    BY <1>0, <1>5, Meeting DEF FinalBomb, PlayersStay
  <2>2. GameStays
    <3>1. at' \in Body => at \in Body
      BY <1>5, Raising, Guarding DEF FinalBomb, Body, SetupSteps, LoopSteps, PostSteps
    <3>2. Untouched /\ process' = process
      BY <1>5 DEF FinalBomb
    <3> QED  BY <3>1, <3>2 DEF GameStays
  <2>3. GoesOn
    BY <1>5, Raising, Guarding DEF FinalBomb, Answers, GoesOn, InPost, PostSteps
  <2> QED  BY <2>1, <2>2, <2>3, QuietStep
<1>6. ASSUME NEW r \in Role, StopPlayer(r) PROVE ErrorInv'
  <2>1. PlayersStay
    BY <1>0, <1>6, Meeting, Stopping DEF StopPlayer, PlayersStay
  <2>2. GameStays
    <3>1. at' \in Body => at \in Body
      BY <1>6, Raising, Guarding DEF StopPlayer, Body, SetupSteps, LoopSteps, PostSteps
    <3>2. Untouched /\ process' = process
      BY <1>6 DEF StopPlayer
    <3> QED  BY <3>1, <3>2 DEF GameStays
  <2>3. GoesOn
    BY <1>6, Raising, Guarding DEF StopPlayer, GoesOn, InPost, PostSteps
  <2> QED  BY <2>1, <2>2, <2>3, QuietStep
<1>7. CASE EndGame
  <2>1. PlayersStay
    BY <1>0, <1>7, Meeting DEF EndGame, PlayersStay
  <2>2. GameStays
    <3> QED  BY <1>7 DEF EndGame, GameStays, Body, SetupSteps, LoopSteps, PostSteps, CleanSteps
  <2>3. GoesOn
    BY <1>7, Raising, Guarding DEF EndGame, GoesOn, InPost, PostSteps
  <2> QED  BY <2>1, <2>2, <2>3, QuietStep
<1>8. ASSUME NEW r \in Role, NEW from \in CleanSteps, NEW to \in {"stop_expert", "done"},
             TryStopPlayer(r, from, to)
      PROVE  ErrorInv'
  <2>1. PlayersStay
    BY <1>0, <1>8, Meeting, Stopping DEF TryStopPlayer, PlayersStay
  <2>2. GameStays
    <3> QED  BY <1>8 DEF TryStopPlayer, GameStays, Body, SetupSteps, LoopSteps, PostSteps,
        CleanSteps
  <2>3. GoesOn
    BY <1>8, Raising, Guarding DEF TryStopPlayer, GoesOn, InPost, PostSteps
  <2> QED  BY <2>1, <2>2, <2>3, QuietStep
<1> QED  BY <1>0, <1>1, <1>2, <1>3, <1>4, <1>5, <1>6, <1>7, <1>8 DEF AfterGame, Cleanup, Role,
    CleanSteps

\* The game moves by itself, its process is lost, or its service is.
LEMMA GameStep ==
  ASSUME ErrorInv, OnlyGame, met \subseteq met', LossIsCrash',
         at \in Body /\ ~serving => ~serving',
         at \in Body /\ Over => Over'
  PROVE  ErrorInv'
<1>1. Excused => Excused'
  BY StillExcused
<1>2. /\ UNCHANGED <<player, experiment, at>> /\ UNCHANGED player_crash
      /\ UNCHANGED <<game_crash, awaiting, good_game_over>>
      /\ UNCHANGED client_crashed /\ UNCHANGED escaped
  BY Zenon DEF OnlyGame, playerVars, runnerVars, watchVars
<1>3. PlayersOK'
  BY <1>2 DEF ErrorInv, PlayersOK
<1>4. OverIsOver'
  BY <1>1, <1>2 DEF ErrorInv, OverIsOver, InPost
<1> QED  BY <1>1, <1>2, <1>3, <1>4 DEF ErrorInv, Hung

\* What the game and its process do.
LEMMA GameKeepsErrors ==
  ErrorInv /\ OnlyGame
    /\ \/ (Boot \/ LightsGoOn \/ TimeRunsOut \/ MonitorPoll \/ Restart) /\ UNCHANGED met
       \/ Exit /\ Meet("crash")
       \/ ServiceDies /\ Meet("service")
    => ErrorInv'
<1> SUFFICES ASSUME ErrorInv, OnlyGame,
                    \/ /\ Boot \/ LightsGoOn \/ TimeRunsOut \/ MonitorPoll \/ Restart
                       /\ UNCHANGED met
                    \/ Exit /\ Meet("crash")
                    \/ ServiceDies /\ Meet("service")
             PROVE  ErrorInv'
  OBVIOUS
<1>1. at' = at
  BY Zenon DEF OnlyGame, runnerVars
<1>2. LossIsCrash
  BY DEF ErrorInv
<1> USE DEF LossIsCrash, Over, Excused
<1>3. CASE (Boot \/ LightsGoOn \/ TimeRunsOut) /\ UNCHANGED met
  <2>1. UNCHANGED <<serving, ready_state, monitored>>
    BY <1>3 DEF Boot, LightsGoOn, TimeRunsOut, Scene, monitorVars
  <2>2. \/ process = "unknown" /\ process' = "main_menu"
        \/ process = "lights_off" /\ process' = "lights_on"
        \/ process = "lights_on" /\ process' = "over"
    BY <1>3 DEF Boot, LightsGoOn, TimeRunsOut, Scene
  <2> QED  BY <1>1, <1>2, <1>3, <2>1, <2>2, GameStep
<1>4. CASE MonitorPoll /\ UNCHANGED met
  <2>1. UNCHANGED <<process, serving>> /\ monitored' = process /\ process \notin {"dead", "unknown"}
    BY <1>4 DEF MonitorPoll, processVars
  <2>2. ready_state => ready_state'
    BY <1>4 DEF MonitorPoll
  <2> QED  BY <1>1, <1>2, <1>4, <2>1, <2>2, GameStep
<1>5. CASE Restart /\ UNCHANGED met
  <2>1. serving /\ UNCHANGED serving /\ process = "dead" /\ process' = "unknown"
        /\ monitored' = "unknown"
    BY <1>5 DEF Restart
  <2> QED  BY <1>1, <1>2, <1>5, <2>1, GameStep
<1>6. CASE Exit /\ Meet("crash")
  <2>1. UNCHANGED serving /\ met' = met \cup {"crash"}
    BY <1>6 DEF Exit, Meet
  <2> QED  BY <1>1, <1>2, <2>1, GameStep
<1>7. CASE ServiceDies /\ Meet("service")
  <2>1. ~serving' /\ met' = met \cup {"service"}
    BY <1>7 DEF ServiceDies, Meet
  <2> QED  BY <1>1, <1>2, <2>1, GameStep
<1> QED  BY <1>3, <1>4, <1>5, <1>6, <1>7

\* What the watchers see.
LEMMA WatchersKeepErrors == ErrorInv /\ Watchers => ErrorInv'
<1> SUFFICES ASSUME ErrorInv, Watchers PROVE ErrorInv'
  OBVIOUS
<1>1. /\ UNCHANGED <<process, serving, ready_state, monitored>>
      /\ UNCHANGED <<player, experiment, at>> /\ UNCHANGED <<client_crashed, escaped>>
  BY Still, Zenon DEF Watchers, PollGame, WatchGame, MissHeartbeat, PollPlayer,
     runnerVars, playerVars, gameVars, processVars, monitorVars
<1>2. met \subseteq met'
  BY Meeting DEF Watchers, PollGame, WatchGame, MissHeartbeat, PollPlayer
<1>3. (Excused => Excused') /\ LossIsCrash' /\ (Over => Over')
  <2>1. Excused => Excused'
    BY <1>2, StillExcused
  <2>2. LossIsCrash'
    BY <1>1, <1>2 DEF ErrorInv, LossIsCrash
  <2>3. Over => Over'
    BY <1>1, <2>1 DEF Over
  <2> QED  BY <2>1, <2>2, <2>3
<1>4. escaped' => Excused' \/ Hung'
  BY <1>1, <1>2, <1>3 DEF ErrorInv, Hung
<1>5. PlayersOK' /\ OverIsOver' => ErrorInv'
  BY <1>3, <1>4 DEF ErrorInv
<1>6. PlayersOK /\ OverIsOver /\ LossIsCrash
  BY DEF ErrorInv
<1>7. CASE PollGame
  <2>1. game_crash' => ~serving \/ ~ready_state
    BY <1>7 DEF PollGame
  <2>2. UNCHANGED <<awaiting, good_game_over>> /\ UNCHANGED player_crash
    BY <1>7 DEF PollGame
  <2>3. PlayersOK'
    BY <1>1, <1>2, <1>6, <2>2 DEF PlayersOK
  <2>4. at \in Body /\ game_crash' => ~serving \/ Excused
    BY <1>6, <2>1 DEF LossIsCrash, Excused
  <2>5. OverIsOver'
    BY <1>1, <1>3, <1>6, <2>2, <2>4 DEF OverIsOver, InPost
  <2> QED  BY <1>5, <2>3, <2>5
<1>8. CASE WatchGame
  <2>1. UNCHANGED game_crash /\ UNCHANGED player_crash
    BY <1>8 DEF WatchGame
  <2>2. PlayersOK'
    BY <1>1, <1>2, <1>6, <2>1 DEF PlayersOK
  <2>3. \/ awaiting' # "nothing" /\ good_game_over' = good_game_over
        \/ game_crash /\ awaiting' = "nothing" /\ ~good_game_over'
        \/ monitored = "over" /\ ~game_crash
    BY <1>8 DEF WatchGame
  <2>4. at \in Body /\ (good_game_over' \/ awaiting' = "nothing") => Over
    BY <1>6, <2>3 DEF OverIsOver, LossIsCrash, Over, Excused
  <2>5. OverIsOver'
    BY <1>1, <1>3, <1>6, <2>1, <2>4 DEF OverIsOver, InPost
  <2> QED  BY <1>5, <2>2, <2>5
<1>9. CASE MissHeartbeat
  <2>1. "flap" \in met'
    BY <1>9 DEF MissHeartbeat, Meet
  <2>2. player_crash' \subseteq Role
    BY <1>6, <1>9, RolesAreRoles DEF MissHeartbeat, PlayersOK
  <2>3. PlayersOK'
    BY <1>1, <1>6, <2>1, <2>2 DEF PlayersOK
  <2>4. Excused' /\ Over'
    BY <2>1 DEF Excused, Over
  <2> QED  BY <1>5, <2>3, <2>4 DEF OverIsOver
<1>10. ASSUME NEW r \in Role, PollPlayer(r) PROVE ErrorInv'
  <2>1. UNCHANGED <<game_crash, awaiting, good_game_over>>
    BY <1>10 DEF PollPlayer
  <2>2. \/ player[r] = "dead" /\ player_crash' = player_crash \cup {r}
        \/ player[r] # "dead" /\ player_crash' = player_crash \ {r}
    BY <1>10 DEF PollPlayer
  <2>3. PlayersOK'
    BY <1>1, <1>2, <1>6, <2>2 DEF PlayersOK
  <2>4. player_crash # {} => player_crash' # {} \/ Excused
    BY <1>6, <2>2 DEF PlayersOK, Excused
  <2>5. OverIsOver'
    BY <1>1, <1>3, <1>6, <2>1, <2>4 DEF OverIsOver, InPost, Over
  <2> QED  BY <1>5, <2>3, <2>5
<1> QED
  BY <1>7, <1>8, <1>9, <1>10, RolesAreRoles DEF Watchers

\* What the services do.
LEMMA ServicesKeepErrors ==
  ErrorInv /\ (Service \/ ForceStop \/ MonitorGivesUp \/ Cancel) => ErrorInv'
<1> SUFFICES ASSUME ErrorInv, (Service \/ ForceStop \/ MonitorGivesUp \/ Cancel) PROVE ErrorInv'
  OBVIOUS
<1>0. Roles \subseteq Role /\ player \in [Role -> PlayerState \cup {"dead"}]
  BY RolesAreRoles DEF ErrorInv, PlayersOK
<1> USE Still, WatchersStill DEF From, GoTo, playerVars
<1>1. CASE LightsAreOff
  <2>1. PlayersStay
    BY <1>0, <1>1, Meeting DEF LightsAreOff, PlayersStay
  <2>2. GameStays
    <3>1. at' \in Body => at \in Body
      BY <1>1, Raising, Guarding DEF LightsAreOff, Body, SetupSteps, LoopSteps, PostSteps
    <3>2. Untouched /\ process' = process
      BY <1>1  DEF LightsAreOff, Untouched, monitorVars
    <3> QED  BY <3>1, <3>2 DEF GameStays
  <2>3. GoesOn
    BY <1>1, Raising, Guarding, LostByCrash, StillExcused DEF LightsAreOff, Body, SetupSteps,
      GoesOn, InPost, PostSteps
  <2> QED  BY <2>1, <2>2, <2>3, QuietStep
<1>2. CASE TurnFails
  <2>1. PlayersStay
    BY <1>0, <1>2, Meeting DEF TurnFails, AfterStep, PlayersStay
  <2>2. GameStays
    <3>1. at' \in Body => at \in Body
      BY <1>2, Raising, Guarding DEF TurnFails, AfterStep, Body, SetupSteps, LoopSteps, PostSteps
    <3>2. Untouched /\ process' = process
      BY <1>2 DEF TurnFails, AfterStep
    <3> QED  BY <3>1, <3>2 DEF GameStays
  <2>3. GoesOn
    BY <1>2, Raising, Guarding DEF TurnFails, AfterStep, GoesOn, InPost, PostSteps
  <2> QED  BY <2>1, <2>2, <2>3, QuietStep
<1>3. ASSUME NEW r \in Role, FinishReflection(r) \/ PlayerDies(r) PROVE ErrorInv'
  <2>1. PlayersStay
    BY <1>0, <1>3, Meeting DEF FinishReflection, PlayerDies, runnerVars, PlayerState, PlayersStay
  <2>2. GameStays
    <3>1. at' \in Body => at \in Body
      BY <1>3, Raising, Guarding DEF FinishReflection, PlayerDies, runnerVars, Body, SetupSteps,
        LoopSteps, PostSteps
    <3>2. Untouched /\ process' = process
      BY <1>3 DEF FinishReflection, PlayerDies, runnerVars
    <3> QED  BY <3>1, <3>2 DEF GameStays
  <2>3. GoesOn
    BY <1>3, Raising, Guarding DEF FinishReflection, PlayerDies, runnerVars, GoesOn, InPost,
      PostSteps
  <2> QED  BY <2>1, <2>2, <2>3, QuietStep
<1>4. CASE ForceStop
  <2>1. PlayersStay
    BY <1>0, <1>4, Meeting DEF ForceStop, PlayersStay
  <2>2. GameStays
    <3>1. at' \in Body => at \in Body
      BY <1>4, Raising, Guarding DEF ForceStop, Body, SetupSteps, LoopSteps, PostSteps
    <3>2. Untouched /\ process' = process
      BY <1>4 DEF ForceStop
    <3> QED  BY <3>1, <3>2 DEF GameStays
  <2>3. GoesOn
    BY <1>4, Raising, Guarding DEF ForceStop, GoesOn, InPost, PostSteps
  <2> QED  BY <2>1, <2>2, <2>3, QuietStep
<1>5. CASE MonitorGivesUp
  <2>1. PlayersStay
    BY <1>0, <1>5, Meeting DEF MonitorGivesUp, PlayersStay
  <2>2. GameStays
    <3>1. at' \in Body => at \in Body
      BY <1>5, Raising, Guarding DEF MonitorGivesUp, Body, SetupSteps, LoopSteps, PostSteps
    <3>2. Untouched /\ process' = process
      BY <1>5 DEF MonitorGivesUp
    <3> QED  BY <3>1, <3>2 DEF GameStays
  <2>3. GoesOn
    BY <1>5, Raising, Guarding DEF MonitorGivesUp, RunsInto, Hung, GoesOn, InPost, PostSteps
  <2> QED  BY <2>1, <2>2, <2>3, QuietStep
<1>6. CASE Cancel
  <2>1. PlayersStay
    BY <1>0, <1>6, Meeting DEF Cancel, PlayersStay
  <2>2. GameStays
    <3>1. at' \in Body => at \in Body
      BY <1>6, Raising, Guarding DEF Cancel, Body, SetupSteps, LoopSteps, PostSteps
    <3>2. Untouched /\ process' = process
      BY <1>6 DEF Cancel
    <3> QED  BY <3>1, <3>2 DEF GameStays
  <2>3. GoesOn
    BY <1>6, Raising, Guarding DEF Cancel, GoesOn, InPost, PostSteps
  <2> QED  BY <2>1, <2>2, <2>3, QuietStep
<1>7. ASSUME NEW r \in Role, FinishTurn(r) PROVE ErrorInv'
  <2>1. PlayersStay
    BY <1>0, <1>7, Meeting DEF FinishTurn, PlayerState, PlayersStay
  <2>2. GameStays
    BY <1>7 DEF FinishTurn, TurnOf, AfterStep, Role, GameStays, Untouched, monitorVars, Body,
      LoopSteps
  <2>3. GoesOn
    BY <1>7, Raising, Guarding DEF FinishTurn, TurnOf, AfterStep, Role, GoesOn, InPost, PostSteps
  <2> QED  BY <2>1, <2>2, <2>3, QuietStep
<1> QED  BY <1>0, <1>1, <1>2, <1>3, <1>4, <1>5, <1>6, <1>7, GameKeepsErrors
         DEF Service

\* Every step keeps what is known of the errors.
LEMMA ErrorStep == ErrorInv /\ [Next]_vars => ErrorInv'
<1>1. ErrorInv /\ UNCHANGED vars => ErrorInv'
  <2> SUFFICES ASSUME ErrorInv, UNCHANGED vars PROVE ErrorInv'
    OBVIOUS
  <2>1. UNCHANGED <<gameVars, watchVars>> /\ UNCHANGED <<playerVars, runnerVars, experiment, met>>
    BY Zenon DEF vars
  <2>2. UNCHANGED <<player, at>> /\ UNCHANGED <<client_crashed, escaped>>
    BY <2>1, Zenon DEF playerVars, runnerVars
  <2>3. PlayersStay
    BY <2>1, <2>2, Still DEF PlayersStay, ErrorInv, PlayersOK
  <2>4. GameStays
    BY <2>1, <2>2, Still DEF GameStays
  <2>5. GoesOn
    BY <2>2 DEF GoesOn, InPost
  <2> QED  BY <2>3, <2>4, <2>5, QuietStep
<1> QED  BY <1>1, SetupKeepsErrors, LoopKeepsErrors, EndKeepsErrors, ServicesKeepErrors,
            WatchersKeepErrors DEF Next, Runner

\* Nothing has gone wrong yet.
LEMMA ErrorInit == Init => ErrorInv
BY DEF Init, GameInit, ErrorInv, PlayersOK, LossIsCrash, OverIsOver, InPost, PostSteps, Role,
       PlayerState

\* An exception that leaves the handler, and takes the EM down with the experiment, is due to a
\* game process that exited, a missed heartbeat or a wait that reached the maximum duration;
\* timeouts, lost answers, deaths of services and force stops never do it, in any number.
THEOREM ManagerSafe == Spec => []ManagerSurvives
<1>1. ErrorInv => ManagerSurvives
  BY DEF ErrorInv, Excused, Hung, ManagerSurvives
<1> QED  BY <1>1, ErrorInit, ErrorStep, PTL DEF Spec
-----------------------------------------------------------------------------
(* Records. *)

\* What excuses a disagreement: a stop that was lost, a watcher that changed its mind, or a death
\* after a reflection that took too long.
Slow  == "slow" \in met
Lapse == Excused \/ "lost" \in met
Fault == Slow /\ ("service" \in met \/ "player" \in met)

\* A hard crash is seen, or a watcher may have changed its mind.
Sure == is_hard_crash \/ Excused

\* Players that take no more stops, and records that end without a hard crash.
Gone(r)  == player[r] \in {"stopping", "dead"}
AllGone  == \A r \in Roles : Gone(r)
Clear(r) == Told(r) /\ ~told[r].crash

\* What EveryoneIsTold says of r.
Reached(r) ==
  r \in Roles =>
    r \in is_stopping \/ Told(r) \/ told[r] = Ignored \/ player[r] = "dead" \/ "lost" \in met

\* What the watchers see has its cause, and a loss that is over was one of the process.
EvidenceInv ==
  /\ ~serving => "service" \in met
  /\ \A r \in Role : player[r] = "dead" => "player" \in met
  /\ serving => /\ ready_state \/ "crash" \in met
                /\ process = "dead" => expected_death \/ "crash" \in met
  /\ game_crash => ~serving \/ Excused

\* The body gets past the game because the game is over, and then no cancellation is under way.
WayInv ==
  /\ at \in Body \cup CleanSteps
  /\ cancelled \in {"no", "pending", "due"}
  /\ at \in Body /\ cancelled = "pending" => client_crashed
  /\ good_game_over => awaiting = "nothing"
  /\ at = "post_game" => awaiting = "nothing" \/ Sure
  /\ InPost => /\ state = "post_game"
               /\ (awaiting = "nothing" /\ cancelled = "no") \/ Excused
  /\ at \in CleanSteps => state \notin {"initialising", "running"}

\* What the players are about to be told.
StopInv ==
  /\ stop_event \in Stops
  /\ at \in {"send_stops", "stop_players"} => stop_event.bomb \in {"none", "running", "over"}
  /\ at = "send_stops" => stop_event.bomb = "over" \/ Sure
  /\ at = "stop_players" =>
       /\ stop_event.crash \/ stop_event.bomb = "over" \/ Excused
       /\ client_crashed => stop_event.crash
       /\ stop_event.crash => Sure

\* What they have been told: all the same by the body, what the watchers show by the cleanup.
ToldInv ==
  /\ told \in [Role -> Stops]
  /\ at \in Body \ {"stop_players"} => \A r \in Role : told[r] = NotTold
  /\ \A r \in Role :
       /\ player[r] = "stopping" => Told(r)
       /\ Told(r) => r \in Roles /\ Gone(r)
       /\ Told(r) /\ at = "stop_players" => r \notin tasks /\ told[r].crash = stop_event.crash
       /\ Told(r) /\ told[r].crash => Sure
       /\ Clear(r) => told[r].bomb = "over" \/ Excused \/ Slow

\* Who the body leaves to the cleanup: no one, if nothing but the end of the game ended it, but for
\* a player that reflects for too long.
LeftInv ==
  /\ \A r \in Role : player[r] = "reflecting" =>
       (at = "reflections" /\ r \in tasks) \/ client_crashed \/ Slow
  /\ at = "stop_players" => \A r \in Roles \ tasks : Gone(r) \/ client_crashed \/ Slow
  /\ at \in CleanSteps => AllGone \/ Sure \/ Slow
  /\ \A q \in Role : Clear(q) =>
       /\ at \in CleanSteps => AllGone \/ Slow \/ Lapse
       /\ client_crashed => AllGone \/ Lapse
       /\ \A r \in Role : Told(r) /\ told[r].crash => Lapse \/ Fault

\* How far the cleanup has got.
ReachedInv ==
  /\ at \in {"stop_expert", "done"} => Reached("defuser")
  /\ at = "done" => Reached("expert")

RecordInv == WayInv /\ StopInv /\ ToldInv /\ LeftInv /\ ReachedInv

(***************************************************************************)
(* Most steps tell nobody to stop: the players go on with their turns, the *)
(* service keeps its process, and the body stays where it is, goes on      *)
(* before the stops are sent, or passes an error on.                       *)
(***************************************************************************)
Able   == {"idle", "busy", "waiting_for_turn", "reflecting"}
Early  == SetupSteps \cup LoopSteps
Middle == {"defuser_waits", "expert_waits", "bomb_for_reflection", "final_bomb"}

Plain ==
  /\ UNCHANGED <<told, experiment, watchVars>>
  /\ met \subseteq met' /\ (client_crashed => client_crashed')
  /\ \A r \in Role : player'[r] = player[r] \/ (player[r] \in Able /\ player'[r] \in Able)

GamePlain ==
  /\ UNCHANGED <<serving, ready_state, expected_death>>
  /\ process' = "dead" => process = "dead"

\* No stop is composed and no one begins to reflect.
Quiet == /\ UNCHANGED stop_event
         /\ \A r \in Role : player'[r] = "reflecting" => player[r] = "reflecting"

\* Where a step takes the runner: it stays, leaves the body by an error or a cancellation, ends
\* the game, begins what follows it, or moves within one of the three parts.
Stays  == UNCHANGED <<at, state, tasks, cancelled>> /\ UNCHANGED client_crashed
Leaves ==
  /\ at \in Body \ {"reflections", "stop_players"} /\ at' = "stop_game" /\ state' = "cleanup"
  /\ client_crashed' \/ Excused' \/ Sure
Ends   ==
  /\ awaiting = "nothing" \/ good_game_over \/ Sure
  /\ at \in Early /\ at' = "post_game" /\ cancelled' # "pending"
Begins ==
  /\ ~is_hard_crash /\ cancelled # "due" /\ (cancelled = "no" => cancelled' = "no")
  /\ at = "post_game" /\ at' = "defuser_waits" /\ state' = "post_game"
Moves  ==
  \/ Stays
  \/ at \in Early /\ at' \in Early /\ cancelled' # "pending"
  \/ /\ at \in Middle /\ at' \in Middle /\ UNCHANGED state
     /\ cancelled' # "pending" /\ (cancelled = "no" => cancelled' = "no")
  \/ Leaves \/ Ends \/ Begins

\* What has been met stays met.
LEMMA MetStays ==
  ASSUME met \subseteq met'
  PROVE  (Excused => Excused') /\ (Slow => Slow') /\ (Lapse => Lapse') /\ (Fault => Fault')
BY DEF Excused, Slow, Lapse, Fault

\* The watchers' variables, one by one.
LEMMA WatchersSame ==
  ASSUME UNCHANGED watchVars
  PROVE  /\ UNCHANGED <<awaiting, player_crash, seen_waiting, first_waiting, is_stopping>>
         /\ UNCHANGED game_crash /\ UNCHANGED good_game_over
BY Zenon DEF watchVars

\* What a plain step leaves as it was.
LEMMA PlainFacts ==
  ASSUME ErrorInv, EvidenceInv, Plain, GamePlain
  PROVE  /\ (Excused => Excused') /\ (Slow => Slow') /\ (Lapse => Lapse') /\ (Fault => Fault')
         /\ UNCHANGED <<awaiting, is_stopping>> /\ UNCHANGED good_game_over
         /\ UNCHANGED <<told, experiment>> /\ Roles' = Roles
         /\ (Sure => Sure') /\ (client_crashed' \/ Excused' => Sure')
         /\ EvidenceInv'
         /\ \A r \in Role : /\ Told(r)' = Told(r) /\ Clear(r)' = Clear(r) /\ Gone(r)' = Gone(r)
                            /\ player'[r] = "stopping" <=> player[r] = "stopping"
                            /\ player'[r] = "dead" <=> player[r] = "dead"
         /\ AllGone => AllGone'
<1>1. (Excused => Excused') /\ (Slow => Slow') /\ (Lapse => Lapse') /\ (Fault => Fault')
  BY MetStays DEF Plain
<1>2. /\ UNCHANGED <<awaiting, player_crash, is_stopping>>
      /\ UNCHANGED game_crash /\ UNCHANGED good_game_over
  BY WatchersSame DEF Plain
<1>3. UNCHANGED <<told, experiment>> /\ Roles' = Roles
  BY DEF Plain, Roles
<1>4. (Sure => Sure') /\ (client_crashed' \/ Excused' => Sure')
  BY <1>1, <1>2 DEF Plain, Sure, is_hard_crash
<1>5. EvidenceInv'
  BY <1>1, <1>2 DEF EvidenceInv, Plain, GamePlain, Able
<1>6. \A r \in Role : /\ Told(r)' = Told(r) /\ Clear(r)' = Clear(r) /\ Gone(r)' = Gone(r)
                      /\ player'[r] = "stopping" <=> player[r] = "stopping"
                      /\ player'[r] = "dead" <=> player[r] = "dead"
  BY <1>3 DEF Plain, Able, Told, Clear, Gone
<1>7. AllGone => AllGone'
  BY <1>3, <1>6, RolesAreRoles DEF AllGone
<1> QED  BY <1>1, <1>2, <1>3, <1>4, <1>5, <1>6, <1>7

\* A step that ends nobody's game and stops no player keeps the records.
LEMMA PlainStep ==
  ASSUME ErrorInv, EvidenceInv, RecordInv, Plain, Quiet, GamePlain, Moves,
         cancelled' \in {"no", "pending", "due"}
  PROVE  EvidenceInv' /\ RecordInv'
<1>1. /\ (Excused => Excused') /\ (Slow => Slow') /\ (Lapse => Lapse') /\ (Fault => Fault')
      /\ (Sure => Sure') /\ (client_crashed' \/ Excused' => Sure')
  BY PlainFacts
<1>2. UNCHANGED <<awaiting, is_stopping>> /\ UNCHANGED good_game_over
  BY PlainFacts
<1>3. UNCHANGED <<told, stop_event, experiment>> /\ Roles' = Roles
  BY PlainFacts DEF Quiet
<1>4. EvidenceInv' /\ (AllGone => AllGone')
  BY PlainFacts
<1>5. \A r \in Role : /\ Told(r)' = Told(r) /\ Clear(r)' = Clear(r) /\ Gone(r)' = Gone(r)
                      /\ player'[r] = "reflecting" => player[r] = "reflecting"
                      /\ player'[r] = "stopping" <=> player[r] = "stopping"
                      /\ player'[r] = "dead" <=> player[r] = "dead"
  BY PlainFacts DEF Quiet
<1>6. WayInv'
  BY <1>1, <1>2 DEF RecordInv, WayInv, Sure, is_hard_crash, Moves, Stays, Leaves, Ends, Begins,
       Plain, Early, Middle, InPost, Body, SetupSteps,
     LoopSteps, PostSteps, CleanSteps
<1>7. StopInv'
  BY <1>1, <1>3 DEF RecordInv, StopInv, Moves, Stays, Leaves, Ends, Begins, Early, Middle,
       SetupSteps, LoopSteps
<1>8. ToldInv'
  BY <1>1, <1>3, <1>5 DEF RecordInv, ToldInv, Moves, Stays, Leaves, Ends, Begins, Early, Middle,
       Body, SetupSteps,
     LoopSteps, PostSteps
<1>9. LeftInv'
  <2>1. at \in Body \ {"stop_players"} => \A r \in Role : ~Clear(r)
    BY DEF RecordInv, ToldInv, Clear, Told
  <2>3. \A r \in Role : player'[r] = "reflecting" =>
          (at' = "reflections" /\ r \in tasks') \/ client_crashed' \/ Slow'
    BY <1>1, <1>5 DEF RecordInv, LeftInv, Moves, Stays, Leaves, Ends, Begins, Plain, Early,
         Middle, SetupSteps, LoopSteps
  <2>4. at' = "stop_players" => \A r \in Roles' \ tasks' : Gone(r)' \/ client_crashed' \/ Slow'
    BY <1>1, <1>3, <1>5, RolesAreRoles
       DEF RecordInv, LeftInv, Moves, Stays, Leaves, Ends, Begins, Plain, Early, Middle,
            SetupSteps, LoopSteps
  <2>5. at' \in CleanSteps => AllGone' \/ Sure' \/ Slow'
    BY <1>1, <1>4 DEF RecordInv, LeftInv, Moves, Stays, Leaves, Ends, Begins, Early, Middle,
         SetupSteps, LoopSteps,
       CleanSteps
  <2>6. ASSUME NEW q \in Role, Clear(q)'
        PROVE  /\ at' \in CleanSteps => AllGone' \/ Slow' \/ Lapse'
               /\ client_crashed' => AllGone' \/ Lapse'
               /\ \A r \in Role : Told(r)' /\ told'[r].crash => Lapse' \/ Fault'
    <3>1. Clear(q) /\ at \notin Body \ {"stop_players"}
             /\ at \notin Body \ {"reflections", "stop_players"}
      BY <1>5, <2>1, <2>6
    <3>2. UNCHANGED at /\ UNCHANGED client_crashed
      <4>1. at \notin Early /\ at \notin Middle /\ ~Leaves /\ ~Ends /\ ~Begins
        BY <3>1 DEF Early, Middle, Body, SetupSteps, LoopSteps, PostSteps, Leaves, Ends, Begins
      <4>2. Stays
        BY <4>1, Zenon DEF Moves
      <4> QED  BY <4>2, Zenon DEF Stays
    <3> QED  BY <1>1, <1>3, <1>4, <1>5, <3>1, <3>2 DEF RecordInv, LeftInv
  <2> QED  BY <2>3, <2>4, <2>5, <2>6 DEF LeftInv
<1>10. ReachedInv'
  BY <1>1, <1>2, <1>3, <1>5 DEF RecordInv, ReachedInv, Reached, Moves, Stays, Leaves, Ends,
       Begins, Plain, Role, Early, Middle,
     SetupSteps, LoopSteps
<1> QED  BY <1>4, <1>6, <1>7, <1>8, <1>9, <1>10 DEF RecordInv

\* An error is swallowed and marks the experiment, or it is one of the game's.
LEMMA RaisingTells ==
  ASSUME NEW error, Raise(error)
  PROVE  /\ at' = "stop_game" /\ state' = "cleanup" /\ (client_crashed => client_crashed')
         /\ client_crashed' \/ error \in {"transport", "value"}
BY Zenon DEF Raise

\* A call that fails marks the experiment, or the game was lost.
LEMMA GuardingTells ==
  ASSUME NEW error, NEW step, Guard(error, step)
  PROVE  /\ client_crashed'
         /\ at' = step \/ (at' = "stop_game" /\ state' = "cleanup")
<1>1. CASE error = "timeout"
  BY <1>1, RaisingTells DEF Guard
<1>2. CASE error # "timeout"
  BY <1>2, Zenon DEF Guard
<1> QED  BY <1>1, <1>2

\* The game does nothing.
LEMMA GameSame == UNCHANGED gameVars => GamePlain
BY DEF gameVars, processVars, monitorVars, GamePlain

\* A command to the game ends no process.
LEMMA HandlingPlain ==
  ASSUME NEW command \in Commands, Handle(command)
  PROVE  GamePlain
BY DEF Handle, GamePlain, monitorVars

\* A task that resumes once more before it is cancelled.
LEMMA Resuming ==
  ASSUME RecordInv, NEW step, From(step)
  PROVE  /\ at = step /\ cancelled # "due"
         /\ cancelled' \in {"no", "due"} /\ (cancelled = "no" => cancelled' = "no")
BY DEF From, RecordInv, WayInv


\* Nobody is told to stop before the game is over: the setup.
LEMMA SetupKeepsRecords ==
  ErrorInv /\ EvidenceInv /\ RecordInv /\ Configure => EvidenceInv' /\ RecordInv'
<1> SUFFICES ASSUME ErrorInv, EvidenceInv, RecordInv, Configure
             PROVE  EvidenceInv' /\ RecordInv'
  OBVIOUS
<1>0. /\ Roles \subseteq Role /\ player \in [Role -> PlayerState \cup {"dead"}]
      /\ cancelled \in {"no", "pending", "due"}
  BY RolesAreRoles DEF ErrorInv, PlayersOK, RecordInv, WayInv
<1> USE DEF GoTo, playerVars
<1>1. ASSUME NEW r \in Role, NEW from \in {"configure_defuser", "configure_expert"},
             NEW to \in {"configure_expert", "configure_game"}, ConfigurePlayer(r, from, to)
      PROVE  EvidenceInv' /\ RecordInv'
  <2>1. Plain /\ Quiet
    BY <1>0, <1>1, Meeting, Resuming, RaisingTells, GuardingTells
       DEF ConfigurePlayer, Plain, Quiet, Able
  <2>2. GamePlain
    BY <1>1, GameSame DEF ConfigurePlayer
  <2>3. Moves
    BY <1>1, Resuming, RaisingTells, GuardingTells, LostByCrash, StillExcused
       DEF ConfigurePlayer, Moves, Stays, Leaves, Early, Middle, Body, SetupSteps, LoopSteps,
         PostSteps
  <2>4. cancelled' \in {"no", "pending", "due"}
    BY <1>0, <1>1, Resuming DEF ConfigurePlayer
  <2> QED  BY <2>1, <2>2, <2>3, <2>4, PlainStep
<1>2. CASE ConfigureGame
  <2>1. Plain /\ Quiet
    BY <1>0, <1>2, Meeting, Resuming, RaisingTells, GuardingTells
       DEF ConfigureGame, Plain, Quiet, Able
  <2>2. GamePlain
    BY <1>2, GameSame DEF ConfigureGame, StartMission, GamePlain, monitorVars
  <2>3. Moves
    BY <1>2, Resuming, RaisingTells, GuardingTells, LostByCrash, StillExcused
       DEF ConfigureGame, Moves, Stays, Leaves, Early, Middle, Body, SetupSteps, LoopSteps,
         PostSteps
  <2>4. cancelled' \in {"no", "pending", "due"}
    BY <1>0, <1>2, Resuming DEF ConfigureGame
  <2> QED  BY <2>1, <2>2, <2>3, <2>4, PlainStep
<1>3. CASE LightsOffSeen \/ PlayersReady \/ LightsOnSeen \/ TimeOut
  <2>1. Plain /\ Quiet
    BY <1>0, <1>3, Meeting, Resuming, RaisingTells, GuardingTells
       DEF Move, LightsOffSeen, PlayersReady, LightsOnSeen, TimeOut, Plain, Quiet, Able
  <2>2. GamePlain
    BY <1>3, GameSame DEF Move, LightsOffSeen, PlayersReady, LightsOnSeen, TimeOut
  <2>3. Moves
    BY <1>3, Resuming, RaisingTells, GuardingTells, LostByCrash, StillExcused
       DEF Move, LightsOffSeen, PlayersReady, LightsOnSeen, TimeOut, Moves, Stays, Leaves, Early,
         Middle, Body, SetupSteps, LoopSteps, PostSteps
  <2>4. cancelled' \in {"no", "pending", "due"}
    BY <1>0, <1>3, Resuming DEF Move, LightsOffSeen, PlayersReady, LightsOnSeen, TimeOut
  <2> QED  BY <2>1, <2>2, <2>3, <2>4, PlainStep
<1>4. CASE Pause
  <2>1. Plain /\ Quiet
    BY <1>0, <1>4, Meeting, Resuming, RaisingTells, GuardingTells DEF Pause, Plain, Quiet, Able
  <2>2. GamePlain
    BY <1>4, GameSame, HandlingPlain DEF Pause, Commands
  <2>3. Moves
    BY <1>4, Resuming, RaisingTells, GuardingTells, LostByCrash, StillExcused
       DEF Pause, Moves, Stays, Leaves, Early, Middle, Body, SetupSteps, LoopSteps, PostSteps,
         Answers
  <2>4. cancelled' \in {"no", "pending", "due"}
    BY <1>0, <1>4, Resuming DEF Pause
  <2> QED  BY <2>1, <2>2, <2>3, <2>4, PlainStep
<1>5. CASE Unpause \/ PauseAgain
  <2>1. Plain /\ Quiet
    BY <1>0, <1>5, Meeting, Resuming, RaisingTells, GuardingTells
       DEF Unpause, PauseAgain, Ask, Plain, Quiet, Able
  <2>2. GamePlain
    BY <1>5, GameSame, HandlingPlain DEF Unpause, PauseAgain, Ask, Commands
  <2>3. Moves
    BY <1>5, Resuming, RaisingTells, GuardingTells, LostByCrash, StillExcused
       DEF Unpause, PauseAgain, Ask, Moves, Stays, Leaves, Early, Middle, Body, SetupSteps,
         LoopSteps, PostSteps, Answers
  <2>4. cancelled' \in {"no", "pending", "due"}
    BY <1>0, <1>5, Resuming DEF Unpause, PauseAgain, Ask
  <2> QED  BY <2>1, <2>2, <2>3, <2>4, PlainStep
<1> QED  BY <1>0, <1>1, <1>2, <1>3, <1>4, <1>5 DEF Configure, Role

\* Nor by the loops, which the game leaves when it is over or will not answer.
LEMMA LoopKeepsRecords ==
  ErrorInv /\ EvidenceInv /\ RecordInv /\ (SyncLoop \/ AsyncLoop \/ EndLoops)
    => EvidenceInv' /\ RecordInv'
<1> SUFFICES ASSUME ErrorInv, EvidenceInv, RecordInv, (SyncLoop \/ AsyncLoop \/ EndLoops)
             PROVE  EvidenceInv' /\ RecordInv'
  OBVIOUS
<1>0. /\ Roles \subseteq Role /\ player \in [Role -> PlayerState \cup {"dead"}]
      /\ cancelled \in {"no", "pending", "due"}
  BY RolesAreRoles DEF ErrorInv, PlayersOK, RecordInv, WayInv
<1> USE DEF GoTo, playerVars
<1>1. CASE Refresh \/ Move("expert", AfterStep)
  <2>1. Plain /\ Quiet
    BY <1>0, <1>1, Meeting, Resuming, RaisingTells, GuardingTells
       DEF Refresh, AfterStep, Move, Plain, Quiet, Able
  <2>2. GamePlain
    BY <1>1, GameSame DEF Refresh, AfterStep, Move
  <2>3. Moves
    BY <1>1, Resuming, RaisingTells, GuardingTells, LostByCrash, StillExcused
       DEF Refresh, AfterStep, Move, Moves, Stays, Leaves, Early, Middle, Body, SetupSteps,
         LoopSteps, PostSteps
  <2>4. cancelled' \in {"no", "pending", "due"}
    BY <1>0, <1>1, Resuming DEF Refresh, AfterStep, Move
  <2> QED  BY <2>1, <2>2, <2>3, <2>4, PlainStep
<1>2. ASSUME NEW from \in {"bomb_before", "bomb_after"}, NEW to \in {"defuser", "loop"},
             AskForFeedback(from, to)
      PROVE  EvidenceInv' /\ RecordInv'
  <2>1. Plain /\ Quiet
    BY <1>0, <1>2, Meeting, Resuming, RaisingTells, GuardingTells
       DEF AskForFeedback, Plain, Quiet, Able
  <2>2. GamePlain
    BY <1>2, GameSame DEF AskForFeedback
  <2>3. Moves
    BY <1>2, Resuming, RaisingTells, GuardingTells, LostByCrash, StillExcused
       DEF AskForFeedback, Moves, Stays, Leaves, Early, Middle, Body, SetupSteps, LoopSteps,
         PostSteps
  <2>4. cancelled' \in {"no", "pending", "due"}
    BY <1>0, <1>2, Resuming DEF AskForFeedback
  <2> QED  BY <2>1, <2>2, <2>3, <2>4, PlainStep
<1>3. ASSUME NEW r \in Role, NEW over \in {"refresh", "loop", "bomb_after"}, Turn(r, over)
      PROVE  EvidenceInv' /\ RecordInv'
  <2>1. Plain /\ Quiet
    BY <1>0, <1>3, Meeting, Resuming, RaisingTells, GuardingTells
       DEF Turn, BeginTurn, TurnOf, AfterStep, Role, Plain, Quiet, Able
  <2>2. GamePlain
    BY <1>3, GameSame DEF Turn, BeginTurn, TurnOf, AfterStep, Role
  <2>3. Moves
    BY <1>3, Resuming, RaisingTells, GuardingTells, LostByCrash, StillExcused
       DEF Turn, BeginTurn, TurnOf, AfterStep, Role, Moves, Stays, Leaves, Early, Middle, Body,
         SetupSteps, LoopSteps, PostSteps
  <2>4. cancelled' \in {"no", "pending", "due"}
    BY <1>0, <1>3, Resuming DEF Turn, BeginTurn, TurnOf, AfterStep, Role
  <2> QED  BY <2>1, <2>2, <2>3, <2>4, PlainStep
<1>4. CASE Advance
  <2>1. Plain /\ Quiet
    BY <1>0, <1>4, Meeting, Resuming, RaisingTells, GuardingTells
       DEF Advance, AfterStep, Plain, Quiet, Able
  <2>2. GamePlain
    BY <1>4, GameSame, HandlingPlain DEF Advance, AfterStep, Commands
  <2>3. Moves
    BY <1>4, Resuming, RaisingTells, GuardingTells, LostByCrash, StillExcused
       DEF Advance, AfterStep, Moves, Stays, Leaves, Early, Middle, Body, SetupSteps, LoopSteps,
         PostSteps
  <2>4. cancelled' \in {"no", "pending", "due"}
    BY <1>0, <1>4, Resuming DEF Advance, AfterStep
  <2> QED  BY <2>1, <2>2, <2>3, <2>4, PlainStep
<1>5. CASE LetRun
  <2>1. Plain /\ Quiet
    BY <1>0, <1>5, Meeting, Resuming, RaisingTells, GuardingTells DEF LetRun, Plain, Quiet, Able
  <2>2. GamePlain
    BY <1>5, GameSame, HandlingPlain DEF LetRun, Commands
  <2>3. Moves
    BY <1>5, Resuming, RaisingTells, GuardingTells, LostByCrash, StillExcused
       DEF LetRun, Moves, Stays, Leaves, Early, Middle, Body, SetupSteps, LoopSteps, PostSteps,
         Answers
  <2>4. cancelled' \in {"no", "pending", "due"}
    BY <1>0, <1>5, Resuming DEF LetRun
  <2> QED  BY <2>1, <2>2, <2>3, <2>4, PlainStep
<1>6. ASSUME NEW r \in Role, PlayerLoop(r)
      PROVE  EvidenceInv' /\ RecordInv'
  <2>1. Plain /\ Quiet
    BY <1>0, <1>6, Meeting, Resuming, RaisingTells, GuardingTells
       DEF PlayerLoop, BeginTurn, Plain, Quiet, Able
  <2>2. GamePlain
    BY <1>6, GameSame DEF PlayerLoop, BeginTurn
  <2>3. Moves
    BY <1>6, Resuming, RaisingTells, GuardingTells, LostByCrash, StillExcused
       DEF PlayerLoop, BeginTurn, Moves, Stays, Leaves, Early, Middle, Body, SetupSteps,
         LoopSteps, PostSteps
  <2>4. cancelled' \in {"no", "pending", "due"}
    BY <1>0, <1>6, Resuming DEF PlayerLoop, BeginTurn
  <2> QED  BY <2>1, <2>2, <2>3, <2>4, PlainStep
<1>7. CASE LoopTimesOut
  <2>1. Plain /\ Quiet
    BY <1>0, <1>7, Meeting, Resuming, RaisingTells, GuardingTells
       DEF LoopTimesOut, Plain, Quiet, Able
  <2>2. GamePlain
    BY <1>7, GameSame DEF LoopTimesOut
  <2>3. Moves
    BY <1>7, Resuming, RaisingTells, GuardingTells, LostByCrash, StillExcused
       DEF LoopTimesOut, Moves, Stays, Leaves, Early, Middle, Body, SetupSteps, LoopSteps,
         PostSteps
  <2>4. cancelled' \in {"no", "pending", "due"}
    BY <1>0, <1>7, Resuming DEF LoopTimesOut
  <2> QED  BY <2>1, <2>2, <2>3, <2>4, PlainStep
<1>8. CASE Loop
  <2>1. Plain /\ Quiet
    BY <1>0, <1>8, Meeting, Resuming, RaisingTells, GuardingTells
       DEF Loop, Move, Plain, Quiet, Able
  <2>2. GamePlain
    BY <1>8, GameSame DEF Loop, Move
  <2>3. Moves
    BY <1>8, Resuming, RaisingTells, GuardingTells, LostByCrash, StillExcused
       DEF Loop, Move, Moves, Stays, Leaves, Early, Middle, Body, SetupSteps, LoopSteps,
         PostSteps, Ends, Sure, is_experiment_over
  <2>4. cancelled' \in {"no", "pending", "due"}
    BY <1>0, <1>8, Resuming DEF Loop, Move
  <2> QED  BY <2>1, <2>2, <2>3, <2>4, PlainStep
<1>9. CASE EndLoops
  <2>1. Plain /\ Quiet
    BY <1>0, <1>9, Meeting, Resuming, RaisingTells, GuardingTells DEF EndLoops, Plain, Quiet, Able
  <2>2. GamePlain
    BY <1>9, GameSame DEF EndLoops
  <2>3. Moves
    BY <1>9, Resuming, RaisingTells, GuardingTells, LostByCrash, StillExcused
       DEF EndLoops, Moves, Stays, Leaves, Early, Middle, Body, SetupSteps, LoopSteps, PostSteps,
         Ends
  <2>4. cancelled' \in {"no", "pending", "due"}
    BY <1>0, <1>9, Resuming DEF EndLoops
  <2> QED  BY <2>1, <2>2, <2>3, <2>4, PlainStep
<1> QED  BY <1>0, <1>1, <1>2, <1>3, <1>4, <1>5, <1>6, <1>7, <1>8, <1>9 DEF SyncLoop, AsyncLoop,
     DefuserTurn,
  ExpertTurn, AfterStep, Role


\* Nor by the services.
LEMMA TurnsKeepRecords ==
  /\ ErrorInv /\ EvidenceInv /\ RecordInv
  /\ LightsAreOff \/ TurnFails \/ \E r \in Roles : FinishTurn(r)
  => EvidenceInv' /\ RecordInv'
<1> SUFFICES ASSUME ErrorInv, EvidenceInv, RecordInv,
                    LightsAreOff \/ TurnFails \/ \E r \in Roles : FinishTurn(r)
             PROVE  EvidenceInv' /\ RecordInv'
  OBVIOUS
<1>0. /\ Roles \subseteq Role /\ player \in [Role -> PlayerState \cup {"dead"}]
      /\ cancelled \in {"no", "pending", "due"}
  BY RolesAreRoles DEF ErrorInv, PlayersOK, RecordInv, WayInv
<1> USE DEF GoTo, playerVars
<1>1. CASE LightsAreOff
  <2>1. Plain /\ Quiet
    BY <1>0, <1>1, Meeting, Resuming, RaisingTells, GuardingTells
       DEF LightsAreOff, Plain, Quiet, Able
  <2>2. GamePlain
    BY <1>1, GameSame DEF LightsAreOff, GamePlain, monitorVars
  <2>3. Moves
    BY <1>1, Resuming, RaisingTells, GuardingTells, LostByCrash, StillExcused
       DEF LightsAreOff, Moves, Stays, Leaves, Early, Middle, Body, SetupSteps, LoopSteps,
         PostSteps
  <2>4. cancelled' \in {"no", "pending", "due"}
    BY <1>0, <1>1, Resuming DEF LightsAreOff
  <2> QED  BY <2>1, <2>2, <2>3, <2>4, PlainStep
<1>2. CASE TurnFails
  <2>1. Plain /\ Quiet
    BY <1>0, <1>2, Meeting, Resuming, RaisingTells, GuardingTells
       DEF TurnFails, AfterStep, Plain, Quiet, Able
  <2>2. GamePlain
    BY <1>2, GameSame DEF TurnFails, AfterStep
  <2>3. Moves
    BY <1>2, Resuming, RaisingTells, GuardingTells, LostByCrash, StillExcused
       DEF TurnFails, AfterStep, Moves, Stays, Leaves, Early, Middle, Body, SetupSteps,
         LoopSteps, PostSteps
  <2>4. cancelled' \in {"no", "pending", "due"}
    BY <1>0, <1>2, Resuming DEF TurnFails, AfterStep
  <2> QED  BY <2>1, <2>2, <2>3, <2>4, PlainStep
<1>3. ASSUME NEW r \in Role, FinishTurn(r)
      PROVE  EvidenceInv' /\ RecordInv'
  <2>1. Plain /\ Quiet
    BY <1>0, <1>3, Meeting, Resuming, RaisingTells, GuardingTells
       DEF FinishTurn, TurnOf, AfterStep, Role, Plain, Quiet, Able
  <2>2. GamePlain
    BY <1>3, GameSame DEF FinishTurn, TurnOf, AfterStep, Role, GamePlain, monitorVars
  <2>3. Moves
    BY <1>3, Resuming, RaisingTells, GuardingTells, LostByCrash, StillExcused
       DEF FinishTurn, TurnOf, AfterStep, Role, Moves, Stays, Leaves, Early, Middle, Body,
         SetupSteps, LoopSteps, PostSteps
  <2>4. cancelled' \in {"no", "pending", "due"}
    BY <1>0, <1>3, Resuming DEF FinishTurn, TurnOf, AfterStep, Role
  <2> QED  BY <2>1, <2>2, <2>3, <2>4, PlainStep
<1> QED  BY <1>0, <1>1, <1>2, <1>3 DEF Role

\* Until the stops are sent nobody has been told, whatever the reflections do.
LEMMA PostStep ==
  ASSUME ErrorInv, EvidenceInv, RecordInv, Plain, GamePlain,
         InPost, at # "stop_players", InPost', UNCHANGED state,
         cancelled' \in {"no", "due"}, cancelled = "no" => cancelled' = "no",
         StopInv',
         \A r \in Role : player'[r] = "reflecting" =>
           (at' = "reflections" /\ r \in tasks') \/ client_crashed' \/ Slow',
         at' = "stop_players" => Roles \subseteq tasks'
  PROVE  EvidenceInv' /\ RecordInv'
<1>1. (Excused => Excused') /\ EvidenceInv' /\ Roles' = Roles
      /\ UNCHANGED <<awaiting, told>> /\ UNCHANGED good_game_over
  BY PlainFacts
<1>2. at \in Body \ {"stop_players"} /\ at' \in Body /\ at' \notin CleanSteps
      /\ at' # "post_game"
  BY DEF InPost, Body, PostSteps, CleanSteps
<1>3. \A r \in Role : told[r] = NotTold /\ ~Told(r)' /\ ~Clear(r)' /\ player'[r] # "stopping"
  BY <1>1, <1>2, PlainFacts DEF RecordInv, ToldInv, Told, Clear
<1>4. WayInv'
  BY <1>1, <1>2 DEF RecordInv, WayInv
<1>5. ToldInv'
  BY <1>1, <1>3 DEF RecordInv, ToldInv
<1>6. LeftInv'
  BY <1>1, <1>2, <1>3 DEF LeftInv
<1>7. ReachedInv'
  BY <1>2 DEF ReachedInv, CleanSteps
<1> QED  BY <1>1, <1>4, <1>5, <1>6, <1>7 DEF RecordInv

\* The players that are asked to reflect are those whose answer is waited for.
LEMMA ReflectionKeepsRecords ==
  ErrorInv /\ EvidenceInv /\ RecordInv
    /\ ((AskToReflect /\ at' = "reflections") \/ EndReflections)
    => EvidenceInv' /\ RecordInv'
<1> SUFFICES ASSUME ErrorInv, EvidenceInv, RecordInv,
                    (AskToReflect /\ at' = "reflections") \/ EndReflections
             PROVE  EvidenceInv' /\ RecordInv'
  OBVIOUS
<1>0. Roles \subseteq Role /\ player \in [Role -> PlayerState \cup {"dead"}]
  BY RolesAreRoles DEF ErrorInv, PlayersOK
<1> USE DEF GoTo, playerVars
<1>1. CASE AskToReflect /\ at' = "reflections"
  <2>1. /\ at = "bomb_for_reflection" /\ cancelled' \in {"no", "due"}
        /\ (cancelled = "no" => cancelled' = "no")
    BY <1>1, Resuming DEF AskToReflect
  <2>2. /\ player' = [r \in Role |-> IF r \in tasks' THEN "reflecting" ELSE player[r]]
        /\ tasks' = {r \in Roles : player[r] = "waiting_for_turn"}
        /\ UNCHANGED <<state, stop_event>> /\ UNCHANGED client_crashed /\ UNCHANGED met
    BY <1>1, RaisingTells DEF AskToReflect
  <2>3. Plain
    BY <1>0, <1>1, <2>2 DEF AskToReflect, Plain, Able
  <2>4. GamePlain
    BY <1>1, GameSame DEF AskToReflect
  <2>5. StopInv'
    BY <1>1, <2>2 DEF RecordInv, StopInv
  <2>6. \A r \in Role : player'[r] = "reflecting" => r \in tasks' \/ client_crashed' \/ Slow'
    BY <2>1, <2>2 DEF RecordInv, LeftInv, Slow
  <2> QED  BY <1>1, <2>1, <2>2, <2>3, <2>4, <2>5, <2>6, PostStep DEF InPost, PostSteps
<1>2. CASE EndReflections
  <2>1. /\ at = "reflections" /\ at' = "final_bomb" /\ cancelled' \in {"no", "due"}
        /\ (cancelled = "no" => cancelled' = "no")
        /\ UNCHANGED <<state, stop_event, player>> /\ UNCHANGED client_crashed
        /\ met \subseteq met' /\ (tasks = {} \/ "slow" \in met')
    BY <1>2, Resuming DEF EndReflections
  <2>2. Plain
    BY <1>0, <1>2, <2>1 DEF EndReflections, Plain
  <2>3. GamePlain
    BY <1>2, GameSame DEF EndReflections
  <2>4. StopInv'
    BY <2>1 DEF RecordInv, StopInv
  <2>5. \A r \in Role : player'[r] = "reflecting" => client_crashed' \/ Slow'
    BY <2>1 DEF RecordInv, LeftInv, Slow
  <2> QED  BY <2>1, <2>2, <2>3, <2>4, <2>5, PostStep DEF InPost, PostSteps
<1> QED  BY <1>1, <1>2

\* A player that has reflected is free to be stopped.
LEMMA FinishedReflection ==
  ASSUME ErrorInv, EvidenceInv, RecordInv, NEW q \in Roles, FinishReflection(q)
  PROVE  EvidenceInv' /\ RecordInv'
<1>0. Roles \subseteq Role /\ player \in [Role -> PlayerState \cup {"dead"}]
  BY RolesAreRoles DEF ErrorInv, PlayersOK
<1>1. /\ UNCHANGED <<state, at, stop_event, cancelled, told, experiment, met>>
      /\ UNCHANGED client_crashed /\ UNCHANGED gameVars /\ UNCHANGED watchVars
      /\ player' = [player EXCEPT ![q] = "waiting_for_turn"] /\ player[q] = "reflecting"
      /\ tasks' = IF at = "reflections" THEN tasks \ {q} ELSE tasks
  BY DEF FinishReflection
<1>2. Plain /\ GamePlain
  BY <1>0, <1>1, GameSame DEF Plain, Able
<1>3. /\ (Slow => Slow') /\ (Lapse => Lapse') /\ (Fault => Fault') /\ (Excused => Excused')
      /\ UNCHANGED <<awaiting, is_stopping>> /\ UNCHANGED good_game_over /\ Roles' = Roles
      /\ (Sure => Sure') /\ EvidenceInv' /\ (AllGone => AllGone')
  BY <1>2, PlainFacts
<1>4. \A r \in Role : /\ Told(r)' = Told(r) /\ Clear(r)' = Clear(r) /\ Gone(r)' = Gone(r)
                      /\ player'[r] = "stopping" <=> player[r] = "stopping"
                      /\ player'[r] = "dead" <=> player[r] = "dead"
  BY <1>2, PlainFacts
<1>5. WayInv'
  BY <1>1, <1>3 DEF RecordInv, WayInv, InPost
<1>6. StopInv'
  BY <1>1, <1>3 DEF RecordInv, StopInv
<1>7. ToldInv'
  BY <1>1, <1>3, <1>4 DEF RecordInv, ToldInv
<1>8. LeftInv'
  BY <1>0, <1>1, <1>3, <1>4 DEF RecordInv, LeftInv
<1>9. ReachedInv'
  BY <1>1, <1>3, <1>4 DEF RecordInv, ReachedInv, Reached, Role
<1> QED  BY <1>3, <1>5, <1>6, <1>7, <1>8, <1>9 DEF RecordInv

\* Errors after the game, and the waits for a reflection.
LEMMA EndKeepsRecords ==
  ErrorInv /\ EvidenceInv /\ RecordInv /\ (PostGame \/ (AskToReflect /\ at' # "reflections")
                    \/ (FinalBomb /\ at' # "send_stops")
                    \/ WaitForPlayer("defuser", "defuser_waits", "expert_waits")
                    \/ WaitForPlayer("expert", "expert_waits", "bomb_for_reflection"))
                      => EvidenceInv' /\ RecordInv'
<1> SUFFICES ASSUME ErrorInv, EvidenceInv, RecordInv,
                    (PostGame \/ (AskToReflect /\ at' # "reflections")
                    \/ (FinalBomb /\ at' # "send_stops")
                    \/ WaitForPlayer("defuser", "defuser_waits", "expert_waits")
                    \/ WaitForPlayer("expert", "expert_waits", "bomb_for_reflection"))
             PROVE  EvidenceInv' /\ RecordInv'
  OBVIOUS
<1>0. /\ Roles \subseteq Role /\ player \in [Role -> PlayerState \cup {"dead"}]
      /\ cancelled \in {"no", "pending", "due"}
  BY RolesAreRoles DEF ErrorInv, PlayersOK, RecordInv, WayInv
<1> USE DEF GoTo, playerVars
<1>1. CASE PostGame
  <2>1. Plain /\ Quiet
    BY <1>0, <1>1, Meeting, Resuming, RaisingTells, GuardingTells DEF PostGame, Plain, Quiet, Able
  <2>2. GamePlain
    BY <1>1, GameSame DEF PostGame
  <2>3. Moves
    BY <1>1, Resuming, RaisingTells, GuardingTells, LostByCrash, StillExcused
       DEF PostGame, Moves, Stays, Leaves, Early, Middle, Body, SetupSteps, LoopSteps, PostSteps,
         Begins, Sure
  <2>4. cancelled' \in {"no", "pending", "due"}
    BY <1>0, <1>1, Resuming DEF PostGame
  <2> QED  BY <2>1, <2>2, <2>3, <2>4, PlainStep
<1>2. CASE AskToReflect /\ at' # "reflections"
  <2>1. Plain /\ Quiet
    BY <1>0, <1>2, Meeting, Resuming, RaisingTells, GuardingTells, OverInPost
       DEF AskToReflect, Plain, Quiet, Able
  <2>2. GamePlain
    BY <1>2, GameSame DEF AskToReflect
  <2>3. Moves
    BY <1>2, Resuming, RaisingTells, GuardingTells, OverInPost, LostByCrash, StillExcused
       DEF AskToReflect, Moves, Stays, Leaves, Early, Middle, Body, SetupSteps, LoopSteps,
         PostSteps, Answers, BombNow, InPost, Over
  <2>4. cancelled' \in {"no", "pending", "due"}
    BY <1>0, <1>2, Resuming DEF AskToReflect
  <2> QED  BY <2>1, <2>2, <2>3, <2>4, PlainStep
<1>3. CASE FinalBomb /\ at' # "send_stops"
  <2>1. Plain /\ Quiet
    BY <1>0, <1>3, Meeting, Resuming, RaisingTells, GuardingTells
       DEF FinalBomb, Plain, Quiet, Able
  <2>2. GamePlain
    BY <1>3, GameSame DEF FinalBomb
  <2>3. Moves
    BY <1>3, Resuming, RaisingTells, GuardingTells, LostByCrash, StillExcused
       DEF FinalBomb, Moves, Stays, Leaves, Early, Middle, Body, SetupSteps, LoopSteps,
         PostSteps, Answers
  <2>4. cancelled' \in {"no", "pending", "due"}
    BY <1>0, <1>3, Resuming DEF FinalBomb
  <2> QED  BY <2>1, <2>2, <2>3, <2>4, PlainStep
<1>4. ASSUME NEW r, NEW from \in {"defuser_waits", "expert_waits"},
             NEW to \in {"expert_waits", "bomb_for_reflection"}, WaitForPlayer(r, from, to)
      PROVE  EvidenceInv' /\ RecordInv'
  <2>1. Plain /\ Quiet
    BY <1>0, <1>4, Meeting, Resuming, RaisingTells, GuardingTells
       DEF WaitForPlayer, Plain, Quiet, Able
  <2>2. GamePlain
    BY <1>4, GameSame DEF WaitForPlayer
  <2>3. Moves
    BY <1>4, Resuming, RaisingTells, GuardingTells, LostByCrash, StillExcused
       DEF WaitForPlayer, Moves, Stays, Leaves, Early, Middle, Body, SetupSteps, LoopSteps,
         PostSteps
  <2>4. cancelled' \in {"no", "pending", "due"}
    BY <1>0, <1>4, Resuming DEF WaitForPlayer
  <2> QED  BY <2>1, <2>2, <2>3, <2>4, PlainStep
<1> QED  BY <1>0, <1>1, <1>2, <1>3, <1>4 DEF Role

\* What a stop does to the player it reaches.
LEMMA StopTells ==
  ASSUME NEW q, NEW event, Stop(q, event)
  PROVE  \/ player[q] \in {"stopping", "dead"} /\ UNCHANGED <<player, told>>
         \/ player[q] = "reflecting" /\ told' = [told EXCEPT ![q] = Ignored] /\ UNCHANGED player
         \/ /\ player[q] \notin {"stopping", "dead", "reflecting"}
            /\ told' = [told EXCEPT ![q] = event] /\ player' = [player EXCEPT ![q] = "stopping"]
<1>1. CASE player[q] \in {"stopping", "dead"}
  <2>1. told' = told
    BY <1>1, Zenon DEF Stop
  <2> QED  BY <1>1, <2>1 DEF Stop
<1>2. CASE player[q] = "reflecting"
  <2>1. player[q] \notin {"stopping", "dead"}
    BY <1>2
  <2>2. told' = [told EXCEPT ![q] = Ignored]
    BY <1>2, <2>1, Zenon DEF Stop
  <2> QED  BY <1>2, <2>2 DEF Stop
<1>3. CASE player[q] \notin {"stopping", "dead", "reflecting"}
  <2>1. player[q] \notin {"stopping", "dead"} /\ player[q] # "reflecting"
    BY <1>3
  <2>2. told' = [told EXCEPT ![q] = event]
    BY <2>1, Zenon DEF Stop
  <2> QED  BY <1>3, <2>2 DEF Stop
<1> QED  BY <1>1, <1>2, <1>3

\* The stop says what was last known of the bomb and of the services.
LEMMA SendingKeepsRecords ==
  ErrorInv /\ EvidenceInv /\ RecordInv /\ ((FinalBomb /\ at' = "send_stops") \/ SendStops)
    => EvidenceInv' /\ RecordInv'
<1> SUFFICES ASSUME ErrorInv, EvidenceInv, RecordInv,
                    (FinalBomb /\ at' = "send_stops") \/ SendStops
             PROVE  EvidenceInv' /\ RecordInv'
  OBVIOUS
<1>1. /\ \/ at = "final_bomb" /\ at' = "send_stops"
         \/ at = "send_stops" /\ at' = "stop_players"
      /\ cancelled' \in {"no", "due"} /\ (cancelled = "no" => cancelled' = "no")
      /\ UNCHANGED <<state, player, told, experiment, met>> /\ UNCHANGED client_crashed
      /\ UNCHANGED gameVars /\ UNCHANGED watchVars
  BY Resuming, RaisingTells DEF FinalBomb, SendStops, GoTo, playerVars
<1>2. Plain /\ GamePlain
  BY <1>1, GameSame DEF Plain
<1>3. /\ (Sure => Sure') /\ (Excused => Excused') /\ (is_hard_crash \/ Excused => Sure)
      /\ Roles' = Roles
      /\ (client_crashed => is_hard_crash)
  BY <1>2, PlainFacts DEF Sure, is_hard_crash
<1>4. is_hard_crash \in BOOLEAN
  BY DEF is_hard_crash
<1>5. StopInv'
  <2>1. CASE FinalBomb /\ at' = "send_stops"
    <3>1. InPost
      BY <1>1, <2>1 DEF InPost, PostSteps
    <3>2. \/ is_hard_crash /\ stop_event' = [crash |-> TRUE, bomb |-> "none"]
          \/ /\ "ok" \in Answers("get_bomb_state")
             /\ stop_event' = [crash |-> FALSE, bomb |-> BombNow]
      BY <2>1, RaisingTells DEF FinalBomb
    <3>3. "ok" \in Answers("get_bomb_state") => BombNow = "over" \/ Excused
      BY <3>1, OverInPost DEF Answers, BombNow, Over
    <3>4. BombNow \in {"running", "over"}
      BY DEF BombNow
    <3>5. /\ stop_event' \in Stops /\ stop_event'.bomb \in {"none", "running", "over"}
          /\ stop_event'.bomb = "over" \/ is_hard_crash \/ Excused
      <4>1. CASE is_hard_crash /\ stop_event' = [crash |-> TRUE, bomb |-> "none"]
        BY <4>1 DEF Stops
      <4>2. CASE "ok" \in Answers("get_bomb_state")
                 /\ stop_event' = [crash |-> FALSE, bomb |-> BombNow]
        <5>1. stop_event'.bomb = BombNow
          BY <4>2
        <5>2. stop_event' \in Stops
          BY <3>4, <4>2 DEF Stops
        <5> QED  BY <3>3, <3>4, <4>2, <5>1, <5>2
      <4> QED  BY <3>2, <4>1, <4>2, Zenon
    <3>6. stop_event'.bomb = "over" \/ Sure'
      BY <1>3, <3>5
    <3> QED  BY <2>1, <3>5, <3>6 DEF StopInv
  <2>2. CASE SendStops
    <3>0. stop_event' = [stop_event EXCEPT !.crash = is_hard_crash]
      BY <2>2, Zenon DEF SendStops
    <3>1. at = "send_stops" /\ at' = "stop_players"
      BY <2>2 DEF SendStops, From, GoTo
    <3>2. /\ stop_event \in Stops /\ stop_event.bomb \in {"none", "running", "over"}
          /\ stop_event.bomb = "over" \/ Sure
      BY <3>1 DEF RecordInv, StopInv
    <3>3. /\ stop_event' \in Stops /\ stop_event'.bomb = stop_event.bomb
          /\ stop_event'.crash = is_hard_crash
      BY <1>4, <3>0, <3>2 DEF Stops
    <3> QED  BY <1>1, <1>3, <3>1, <3>2, <3>3 DEF StopInv, Sure
  <2> QED  BY <1>1, <2>1, <2>2
<1>6. \A r \in Role : player'[r] = "reflecting" => client_crashed' \/ Slow'
  BY <1>1 DEF RecordInv, LeftInv, Slow
<1>7. at' = "stop_players" => Roles \subseteq tasks'
  BY <1>1 DEF SendStops, FinalBomb
<1> QED  BY <1>1, <1>2, <1>5, <1>6, <1>7, PostStep DEF InPost, PostSteps

\* A stop is told the same to every player it reaches, and none is left when all have answered.
LEMMA StopKeepsRecords ==
  ASSUME ErrorInv, EvidenceInv, RecordInv, NEW q \in Role, q \in Roles, StopPlayer(q)
  PROVE  EvidenceInv' /\ RecordInv'
<1>0. /\ Roles \subseteq Role /\ player \in [Role -> PlayerState \cup {"dead"}]
      /\ told \in [Role -> Stops] /\ stop_event \in Stops
  BY RolesAreRoles DEF ErrorInv, PlayersOK, RecordInv, ToldInv, StopInv
<1>1. /\ at = "stop_players" /\ q \in tasks /\ cancelled' \in {"no", "due"}
      /\ (cancelled = "no" => cancelled' = "no") /\ InPost
      /\ UNCHANGED <<stop_event, experiment>> /\ UNCHANGED gameVars /\ UNCHANGED watchVars
      /\ met \subseteq met' /\ (client_crashed => client_crashed')
  BY Resuming, RaisingTells, Meeting DEF StopPlayer, InPost, PostSteps, GoTo
<1>2. \/ UNCHANGED <<player, told>>
      \/ player[q] = "reflecting" /\ told' = [told EXCEPT ![q] = Ignored] /\ UNCHANGED player
      \/ /\ player[q] \notin {"stopping", "dead", "reflecting"}
         /\ told' = [told EXCEPT ![q] = stop_event]
         /\ player' = [player EXCEPT ![q] = "stopping"]
  BY StopTells DEF StopPlayer
<1>3. /\ (Slow => Slow') /\ (Lapse => Lapse') /\ (Fault => Fault') /\ (Excused => Excused')
      /\ UNCHANGED <<awaiting, is_stopping, player_crash>> /\ UNCHANGED good_game_over
      /\ UNCHANGED game_crash /\ Roles' = Roles
  BY <1>1, MetStays, WatchersSame DEF Roles
<1>4. \A r \in Role : (player'[r] = "dead" <=> player[r] = "dead")
                      /\ (player'[r] = "reflecting" <=> player[r] = "reflecting")
                      /\ (Gone(r) => Gone(r)')
  BY <1>0, <1>2 DEF Gone, PlayerState
<1>5. (Sure => Sure') /\ (client_crashed' \/ Excused' => Sure')
  BY <1>1, <1>3 DEF Sure, is_hard_crash
<1>6. EvidenceInv'
  <2>1. GamePlain
    BY <1>1, GameSame
  <2> QED  BY <1>1, <1>3, <1>4, <2>1 DEF EvidenceInv, GamePlain
<1>7. /\ stop_event.bomb \in {"none", "running", "over"}
      /\ stop_event.crash \/ stop_event.bomb = "over" \/ Excused
      /\ (client_crashed => stop_event.crash) /\ (stop_event.crash => Sure)
  BY <1>1 DEF RecordInv, StopInv
<1>8. \A r \in Role :
        /\ player'[r] = "stopping" => Told(r)'
        /\ Told(r)' => r \in Roles /\ Gone(r)' /\ told'[r].crash = stop_event.crash
        /\ Told(r)' => Told(r) \/ r = q
        /\ Clear(r)' => told'[r].bomb = "over" \/ Excused' \/ Slow'
  <2>1. \A r \in Role :
          /\ player[r] = "stopping" => Told(r)
          /\ Told(r) => r \in Roles /\ Gone(r) /\ told[r].crash = stop_event.crash
          /\ Clear(r) => told[r].bomb = "over" \/ Excused \/ Slow
    BY <1>1 DEF RecordInv, ToldInv
  <2>2. CASE UNCHANGED <<player, told>>
    BY <1>3, <2>1, <2>2 DEF Told, Gone, Clear
  <2>3. CASE player[q] = "reflecting" /\ told' = [told EXCEPT ![q] = Ignored] /\ UNCHANGED player
    BY <1>0, <1>3, <2>1, <2>3 DEF Told, Gone, Clear
  <2>4. CASE /\ player[q] \notin {"stopping", "dead", "reflecting"}
             /\ told' = [told EXCEPT ![q] = stop_event]
             /\ player' = [player EXCEPT ![q] = "stopping"]
    <3>1. stop_event # NotTold /\ stop_event # Ignored
      BY <1>7 DEF NotTold, Ignored
    <3> QED  BY <1>0, <1>3, <1>7, <2>1, <2>4, <3>1 DEF Told, Gone, Clear
  <2> QED  BY <1>2, <2>2, <2>3, <2>4
<1>9. told' \in [Role -> Stops]
  <2>1. Ignored \in Stops
    BY DEF Ignored, Stops
  <2> QED  BY <1>0, <1>2, <2>1
<1>10. CASE at' = "stop_players"
  <2>1. UNCHANGED <<state, met>> /\ UNCHANGED client_crashed /\ tasks' = tasks \ {q}
        /\ Stop(q, stop_event) /\ player[q] # "dead"
    BY <1>10, RaisingTells DEF StopPlayer, GoTo
  <2>2. WayInv'
    BY <1>1, <1>3, <1>10, <2>1 DEF RecordInv, WayInv, InPost, CleanSteps
  <2>3. StopInv'
    BY <1>1, <1>3, <1>5, <1>10, <2>1 DEF RecordInv, StopInv
  <2>4. \A r \in Role : Told(r)' => r \notin tasks'
    BY <1>1, <1>8, <2>1, StopTells DEF RecordInv, ToldInv, Told
  <2>5. ToldInv'
    BY <1>1, <1>3, <1>5, <1>7, <1>8, <1>9, <1>10, <2>4 DEF ToldInv
  <2>6. Gone(q)' \/ client_crashed' \/ Slow'
    <3>1. player[q] = "reflecting" => client_crashed \/ Slow
      BY <1>1 DEF RecordInv, LeftInv
    <3>2. player[q] # "reflecting" => Gone(q)'
      BY <1>0, <2>1, StopTells DEF Gone
    <3> QED  BY <1>1, <1>3, <3>1, <3>2
  <2>7. LeftInv'
    <3>1. \A r \in Role : player'[r] = "reflecting" => client_crashed' \/ Slow'
      BY <1>1, <1>3, <1>4 DEF RecordInv, LeftInv
    <3>2. \A r \in Roles' \ tasks' : Gone(r)' \/ client_crashed' \/ Slow'
      BY <1>0, <1>1, <1>3, <1>4, <2>1, <2>6 DEF RecordInv, LeftInv
    <3>3. \A p \in Role : Clear(p)' => ~client_crashed' /\ ~stop_event.crash
      BY <1>7, <1>8, <2>1 DEF Clear
    <3> QED  BY <1>8, <1>10, <3>1, <3>2, <3>3 DEF LeftInv, CleanSteps
  <2> QED  BY <1>6, <1>10, <2>2, <2>3, <2>5, <2>7 DEF RecordInv, ReachedInv
<1>11. CASE at' # "stop_players"
  <2>1. /\ at' = "stop_game" /\ state' = "cleanup" /\ client_crashed'
        /\ \/ player[q] = "dead" /\ UNCHANGED <<player, told>>
           \/ "lost" \in met'
    BY <1>1, <1>11, RaisingTells DEF StopPlayer, GoTo, Meet
  <2>2. Sure' /\ ("lost" \in met' => Lapse')
    BY <1>5, <2>1 DEF Lapse
  <2>3. WayInv'
    BY <1>1, <1>3, <2>1 DEF RecordInv, WayInv, InPost, PostSteps, Body, SetupSteps, LoopSteps,
     CleanSteps
  <2>4. StopInv'
    BY <1>0, <1>1, <2>1 DEF StopInv
  <2>5. ToldInv'
    <3>1. at' \notin Body
      BY <2>1 DEF Body, SetupSteps, LoopSteps, PostSteps
    <3>2. \A r \in Role : Told(r)' => r \in Roles'
      BY <1>3, <1>8
    <3> QED  BY <1>8, <1>9, <1>11, <2>2, <3>1, <3>2 DEF ToldInv
  <2>6. ASSUME NEW p \in Role, Clear(p)' PROVE AllGone' \/ Lapse'
    <3>1. CASE player[q] = "dead" /\ UNCHANGED <<player, told>>
      <4>1. Told(p) /\ p \in Roles /\ Gone(p) /\ p # q
        BY <1>1, <2>6, <3>1 DEF RecordInv, ToldInv, Clear, Told
      <4> QED  BY <1>0, <1>3, <3>1, <4>1 DEF AllGone, Gone, Role
    <3> QED  BY <2>1, <2>2, <3>1
  <2>7. LeftInv'
    <3>1. \A p \in Role : Clear(p)' => ~stop_event.crash
      BY <1>8 DEF Clear
    <3> QED  BY <1>8, <2>1, <2>2, <2>6, <3>1 DEF LeftInv
  <2> QED  BY <1>6, <2>1, <2>3, <2>4, <2>5, <2>7 DEF RecordInv, ReachedInv
<1> QED  BY <1>10, <1>11

\* The body ends when every player that could take the stop has taken it.
LEMMA EndBodyKeepsRecords ==
  ErrorInv /\ EvidenceInv /\ RecordInv /\ EndBody => EvidenceInv' /\ RecordInv'
<1> SUFFICES ASSUME ErrorInv, EvidenceInv, RecordInv, EndBody
             PROVE  EvidenceInv' /\ RecordInv'
  OBVIOUS
<1>0. Roles \subseteq Role
  BY RolesAreRoles
<1>1. /\ at = "stop_players" /\ at' = "stop_game" /\ tasks = {} /\ state' = "cleanup"
      /\ cancelled' \in {"no", "due"}
      /\ UNCHANGED <<player, told, experiment, met>> /\ UNCHANGED client_crashed
      /\ UNCHANGED gameVars /\ UNCHANGED watchVars
  BY Resuming DEF EndBody, playerVars
<1>2. Plain /\ GamePlain
  BY <1>1, GameSame DEF Plain
<1>3. /\ (Slow => Slow') /\ (Lapse => Lapse') /\ (Fault => Fault') /\ (Excused => Excused')
      /\ UNCHANGED <<awaiting, is_stopping>> /\ UNCHANGED good_game_over /\ Roles' = Roles
      /\ (Sure => Sure') /\ (client_crashed => Sure') /\ EvidenceInv' /\ (AllGone => AllGone')
  BY <1>1, <1>2, PlainFacts
<1>4. \A r \in Role : Told(r)' = Told(r) /\ Clear(r)' = Clear(r) /\ Gone(r)' = Gone(r)
  BY <1>2, PlainFacts
<1>5. AllGone \/ client_crashed \/ Slow
  BY <1>1 DEF RecordInv, LeftInv, AllGone
<1>6. \A r \in Role : Told(r) => told[r].crash = stop_event.crash
  BY <1>1 DEF RecordInv, ToldInv
<1>7. \A r \in Role : Clear(r) => ~client_crashed /\ ~stop_event.crash
  BY <1>1, <1>6 DEF RecordInv, StopInv, Clear
<1>8. WayInv'
  BY <1>1, <1>3 DEF RecordInv, WayInv, InPost, PostSteps, Body, SetupSteps, LoopSteps,
     CleanSteps
<1>9. StopInv'
  BY <1>1 DEF RecordInv, StopInv, EndBody
<1>10. at' \notin Body
  BY <1>1 DEF Body, SetupSteps, LoopSteps, PostSteps
<1>11. ToldInv'
  BY <1>1, <1>3, <1>4, <1>10 DEF RecordInv, ToldInv
<1>12. LeftInv'
  <2>1. \A r \in Role : player'[r] = "reflecting" => client_crashed' \/ Slow'
    BY <1>1, <1>3 DEF RecordInv, LeftInv
  <2> QED  BY <1>1, <1>3, <1>4, <1>5, <1>6, <1>7, <2>1 DEF LeftInv
<1> QED  BY <1>1, <1>3, <1>8, <1>9, <1>11, <1>12 DEF RecordInv, ReachedInv

\* A hard crash is of the client, or of a service that is gone.
LEMMA CrashIsFault ==
  ASSUME ErrorInv, EvidenceInv, is_hard_crash, ~client_crashed, Slow
  PROVE  Lapse \/ Fault
BY DEF ErrorInv, PlayersOK, EvidenceInv, is_hard_crash, Slow, Lapse, Fault, Excused

\* The cleanup tells those that are left what the watchers show by then.
LEMMA TryStopKeepsRecords ==
  ASSUME ErrorInv, EvidenceInv, RecordInv, NEW q \in Role, NEW from, NEW to,
         TryStopPlayer(q, from, to),
         \/ q = "defuser" /\ from = "stop_defuser" /\ to = "stop_expert"
         \/ q = "expert" /\ from = "stop_expert" /\ to = "done"
  PROVE  EvidenceInv' /\ RecordInv'
<1> DEFINE event == [crash |-> is_hard_crash, bomb |-> "none"]
<1>0. /\ Roles \subseteq Role /\ player \in [Role -> PlayerState \cup {"dead"}]
      /\ told \in [Role -> Stops]
  BY RolesAreRoles DEF ErrorInv, PlayersOK, RecordInv, ToldInv
<1>1. /\ at = from /\ at' = to /\ at \in CleanSteps /\ at' \in CleanSteps /\ at' \notin Body
      /\ UNCHANGED <<tasks, stop_event, cancelled, experiment>> /\ UNCHANGED client_crashed
      /\ UNCHANGED gameVars /\ UNCHANGED watchVars /\ met \subseteq met'
      /\ state' \in {state, "done"}
  BY Meeting DEF TryStopPlayer, CleanSteps, Body, SetupSteps, LoopSteps, PostSteps
<1>2. \/ /\ UNCHANGED <<player, told>>
         /\ q \in Roles =>
              q \in is_stopping \/ player[q] \in {"stopping", "dead"} \/ "lost" \in met'
      \/ player[q] = "reflecting" /\ told' = [told EXCEPT ![q] = Ignored] /\ UNCHANGED player
      \/ /\ player[q] \notin {"stopping", "dead", "reflecting"} /\ q \in Roles
         /\ told' = [told EXCEPT ![q] = event] /\ player' = [player EXCEPT ![q] = "stopping"]
  <2>1. CASE q \in Roles \ is_stopping /\ Stop(q, event)
    BY <2>1, StopTells
  <2>2. CASE UNCHANGED <<player, told>> /\ (q \in Roles => q \in is_stopping \/ "lost" \in met')
    BY <2>2
  <2> QED  BY <2>1, <2>2 DEF TryStopPlayer, Meet
<1>3. /\ (Slow => Slow') /\ (Lapse => Lapse') /\ (Fault => Fault') /\ (Excused => Excused')
      /\ UNCHANGED <<awaiting, is_stopping, player_crash>> /\ UNCHANGED good_game_over
      /\ UNCHANGED game_crash /\ Roles' = Roles
  BY <1>1, MetStays, WatchersSame DEF Roles
<1>4. \A r \in Role : (player'[r] = "dead" <=> player[r] = "dead")
                      /\ (player'[r] = "reflecting" <=> player[r] = "reflecting")
                      /\ (Gone(r) => Gone(r)')
  BY <1>0, <1>2 DEF Gone, PlayerState
<1>5. (Sure => Sure') /\ (AllGone => AllGone') /\ (is_hard_crash \/ Excused => Sure)
  BY <1>0, <1>1, <1>3, <1>4 DEF Sure, is_hard_crash, AllGone
<1>6. EvidenceInv'
  <2>1. GamePlain
    BY <1>1, GameSame
  <2> QED  BY <1>1, <1>3, <1>4, <2>1 DEF EvidenceInv, GamePlain
<1>7. /\ event \in Stops /\ event # NotTold /\ event # Ignored /\ event.bomb = "none"
      /\ (event.crash <=> is_hard_crash)
  BY DEF Stops, NotTold, Ignored, is_hard_crash
<1> HIDE DEF event
<1>8. Ignored \in Stops /\ told' \in [Role -> Stops]
  <2>1. Ignored \in Stops
    BY DEF Ignored, Stops
  <2> QED  BY <1>0, <1>2, <1>7, <2>1
<1>9. \/ \A r \in Role : Told(r)' => Told(r) /\ told'[r] = told[r]
      \/ /\ ~Gone(q) /\ q \in Roles /\ Told(q)' /\ told'[q] = event
         /\ \A r \in Role \ {q} : (Told(r)' <=> Told(r)) /\ told'[r] = told[r]
  <2>1. CASE UNCHANGED <<player, told>>
    BY <2>1 DEF Told
  <2>2. CASE player[q] = "reflecting" /\ told' = [told EXCEPT ![q] = Ignored] /\ UNCHANGED player
    BY <1>0, <2>2 DEF Told
  <2>3. CASE /\ player[q] \notin {"stopping", "dead", "reflecting"} /\ q \in Roles
             /\ told' = [told EXCEPT ![q] = event] /\ player' = [player EXCEPT ![q] = "stopping"]
    BY <1>0, <1>7, <2>3 DEF Told, Gone
  <2> QED  BY <1>2, <2>1, <2>2, <2>3
<1>10. ~Gone(q) /\ q \in Roles => Sure \/ Slow
  BY <1>1 DEF RecordInv, LeftInv, AllGone
<1>11. WayInv'
  BY <1>1, <1>3 DEF RecordInv, WayInv, InPost, Body, PostSteps, CleanSteps
<1>12. StopInv'
  BY <1>1 DEF RecordInv, StopInv, CleanSteps
<1>13. \A r \in Role :
         /\ player'[r] = "stopping" => Told(r)'
         /\ Told(r)' => r \in Roles /\ Gone(r)'
  <2>1. \A r \in Role : (player[r] = "stopping" => Told(r)) /\ (Told(r) => r \in Roles /\ Gone(r))
    BY DEF RecordInv, ToldInv
  <2>2. CASE UNCHANGED <<player, told>>
    BY <2>1, <2>2 DEF Told, Gone
  <2>3. CASE player[q] = "reflecting" /\ told' = [told EXCEPT ![q] = Ignored] /\ UNCHANGED player
    BY <1>0, <2>1, <2>3 DEF Told, Gone
  <2>4. CASE /\ player[q] \notin {"stopping", "dead", "reflecting"} /\ q \in Roles
             /\ told' = [told EXCEPT ![q] = event] /\ player' = [player EXCEPT ![q] = "stopping"]
    BY <1>0, <1>7, <2>1, <2>4 DEF Told, Gone
  <2> QED  BY <1>2, <2>2, <2>3, <2>4
<1>14. ToldInv'
  <2>1. ASSUME NEW r \in Role, Told(r)'
        PROVE  /\ told'[r].crash => Sure'
               /\ Clear(r)' => told'[r].bomb = "over" \/ Excused' \/ Slow'
    <3>1. CASE Told(r) /\ told'[r] = told[r]
      BY <1>3, <1>5, <3>1 DEF RecordInv, ToldInv, Clear
    <3>2. CASE r = q /\ ~Gone(q) /\ q \in Roles /\ told'[q] = event
      BY <1>3, <1>5, <1>7, <1>10, <3>2 DEF Clear, Sure
    <3> QED  BY <1>9, <2>1, <3>1, <3>2
  <2> QED  BY <1>1, <1>3, <1>8, <1>13, <2>1 DEF ToldInv, Body, PostSteps, Clear
<1>15. LeftInv'
  <2>1. \A p \in Role : Clear(p) =>
          /\ AllGone \/ Slow \/ Lapse
          /\ client_crashed => AllGone \/ Lapse
          /\ \A r \in Role : Told(r) /\ told[r].crash => Lapse \/ Fault
    BY <1>1 DEF RecordInv, LeftInv
  <2>2. ASSUME NEW p \in Role, Clear(p)'
        PROVE  /\ AllGone' \/ Slow' \/ Lapse'
               /\ client_crashed' => AllGone' \/ Lapse'
    <3>1. CASE Told(p) /\ told'[p] = told[p]
      BY <1>1, <1>3, <1>5, <2>1, <2>2, <3>1 DEF Clear
    <3>2. CASE p = q /\ ~Gone(q) /\ q \in Roles /\ told'[q] = event
      BY <1>1, <1>3, <1>7, <1>10, <2>2, <3>2 DEF Clear, Sure, Lapse, is_hard_crash
    <3> QED  BY <1>9, <2>2, <3>1, <3>2 DEF Clear
  <2>3. ASSUME NEW p \in Role, Clear(p)', NEW r \in Role, Told(r)', told'[r].crash
        PROVE  Lapse' \/ Fault'
    <3>0. p # r
      BY <2>3 DEF Clear
    <3>1. CASE Told(p) /\ told'[p] = told[p] /\ Told(r) /\ told'[r] = told[r]
      BY <1>3, <2>1, <2>3, <3>1 DEF Clear
    <3>2. CASE r = q /\ ~Gone(q) /\ q \in Roles /\ told'[q] = event /\ Told(p) /\ told'[p] = told[p]
      <4>1. Clear(p) /\ is_hard_crash /\ ~AllGone
        BY <1>7, <2>3, <3>2 DEF Clear, AllGone
      <4>2. Lapse \/ (Slow /\ ~client_crashed)
        BY <2>1, <4>1
      <4> QED  BY <1>3, <4>1, <4>2, CrashIsFault
    <3>3. CASE p = q /\ ~Gone(q) /\ q \in Roles /\ told'[q] = event /\ Told(r) /\ told'[r] = told[r]
      <4>1. Sure /\ ~is_hard_crash
        BY <1>7, <2>3, <3>3 DEF RecordInv, ToldInv, Clear
      <4> QED  BY <1>3, <4>1 DEF Sure, Lapse
    <3> QED  BY <1>9, <2>3, <3>0, <3>1, <3>2, <3>3 DEF Clear
  <2>4. \A r \in Role : player'[r] = "reflecting" => client_crashed' \/ Slow'
    BY <1>1, <1>3, <1>4 DEF RecordInv, LeftInv, CleanSteps
  <2>5. AllGone' \/ Sure' \/ Slow'
    BY <1>1, <1>3, <1>5 DEF RecordInv, LeftInv
  <2> QED  BY <1>1, <2>2, <2>3, <2>4, <2>5 DEF LeftInv, CleanSteps
<1>16. ReachedInv'
  <2>1. Reached(q)'
    BY <1>0, <1>1, <1>2, <1>3, <1>7 DEF Reached, Told, RecordInv, ToldInv
  <2>2. from = "stop_expert" => Reached("defuser")'
    <3>1. from = "stop_expert" => Reached("defuser") /\ q # "defuser"
      BY <1>1 DEF RecordInv, ReachedInv
    <3>2. from = "stop_expert" => told'["defuser"] = told["defuser"]
      BY <1>0, <1>2, <3>1 DEF Role
    <3> QED  BY <1>1, <1>3, <1>4, <3>1, <3>2 DEF Reached, Told, Role
  <2> QED  BY <1>1, <2>1, <2>2 DEF ReachedInv
<1> QED  BY <1>6, <1>11, <1>12, <1>14, <1>15, <1>16 DEF RecordInv

\* A cancellation leaves the body at once, and not between the two stops of a game that is over.
LEMMA CancelKeepsRecords ==
  ErrorInv /\ EvidenceInv /\ RecordInv /\ (ForceStop \/ MonitorGivesUp \/ Cancel)
    => EvidenceInv' /\ RecordInv'
<1> SUFFICES ASSUME ErrorInv, EvidenceInv, RecordInv, ForceStop \/ MonitorGivesUp \/ Cancel
             PROVE  EvidenceInv' /\ RecordInv'
  OBVIOUS
<1>1. /\ UNCHANGED <<player, told, experiment, stop_event>>
      /\ UNCHANGED gameVars /\ UNCHANGED watchVars /\ met \subseteq met'
      /\ (client_crashed => client_crashed')
  BY Meeting, RaisingTells DEF ForceStop, MonitorGivesUp, Cancel, playerVars
<1>2. Plain /\ GamePlain
  BY <1>1, GameSame DEF Plain
<1>3. /\ (Slow => Slow') /\ (Lapse => Lapse') /\ (Fault => Fault') /\ (Excused => Excused')
      /\ UNCHANGED <<awaiting, is_stopping>> /\ UNCHANGED good_game_over /\ Roles' = Roles
      /\ (Sure => Sure') /\ (client_crashed' => Sure') /\ EvidenceInv' /\ (AllGone => AllGone')
  BY <1>2, PlainFacts
<1>4. \A r \in Role : Told(r)' = Told(r) /\ Clear(r)' = Clear(r) /\ Gone(r)' = Gone(r)
  BY <1>2, PlainFacts
<1>5. CASE ForceStop
  <2>1. /\ state \in {"initialising", "running"} /\ state' = "cleanup" /\ client_crashed'
        /\ cancelled' \in {"pending", "due"} /\ UNCHANGED <<at, tasks>>
    BY <1>5 DEF ForceStop
  <2>2. ~InPost /\ at \notin CleanSteps
    BY <2>1 DEF RecordInv, WayInv
  <2>3. at \notin {"send_stops", "stop_players"}
    BY <2>2 DEF InPost, PostSteps
  <2>4. WayInv'
    BY <1>3, <2>1, <2>2 DEF RecordInv, WayInv, InPost
  <2>5. StopInv'
    BY <1>1, <2>1, <2>3 DEF RecordInv, StopInv
  <2>6. ToldInv'
    BY <1>1, <1>3, <1>4, <2>1 DEF RecordInv, ToldInv
  <2>7. \A r \in Role : ~Told(r)
    BY <2>2, <2>3 DEF RecordInv, WayInv, ToldInv, Told
  <2>8. LeftInv'
    BY <1>4, <2>1, <2>2, <2>3, <2>7 DEF LeftInv, Clear
  <2>9. ReachedInv'
    BY <2>1, <2>2 DEF ReachedInv, CleanSteps
  <2> QED  BY <1>3, <2>4, <2>5, <2>6, <2>8, <2>9 DEF RecordInv
<1>6. CASE MonitorGivesUp
  <2>1. /\ UNCHANGED <<at, state, tasks>> /\ UNCHANGED client_crashed /\ cancelled' = "due"
        /\ awaiting # "nothing"
    BY <1>6 DEF MonitorGivesUp
  <2>2. WayInv'
    BY <1>3, <2>1 DEF RecordInv, WayInv, InPost
  <2>3. StopInv'
    BY <1>1, <1>3, <2>1 DEF RecordInv, StopInv
  <2>4. ToldInv'
    BY <1>1, <1>3, <1>4, <2>1 DEF RecordInv, ToldInv
  <2>5. LeftInv'
    BY <1>1, <1>3, <1>4, <2>1, RolesAreRoles DEF RecordInv, LeftInv
  <2>6. ReachedInv'
    BY <2>1, <1>6 DEF ReachedInv, MonitorGivesUp, Body, SetupSteps, LoopSteps, PostSteps
  <2> QED  BY <1>3, <2>2, <2>3, <2>4, <2>5, <2>6 DEF RecordInv
<1>7. CASE Cancel
  <2>1. /\ at \in Body /\ at' = "stop_game" /\ state' = "cleanup" /\ client_crashed'
        /\ cancelled' = "due" /\ cancelled # "no" /\ at' \notin Body
    BY <1>7, RaisingTells DEF Cancel, Body, SetupSteps, LoopSteps, PostSteps
  <2>2. WayInv'
    BY <1>3, <2>1 DEF RecordInv, WayInv, InPost, Body, CleanSteps
  <2>3. StopInv'
    BY <1>1, <2>1 DEF RecordInv, StopInv
  <2>4. ToldInv'
    BY <1>1, <1>3, <1>4, <2>1 DEF RecordInv, ToldInv
  <2>5. ASSUME NEW r \in Role, Told(r) PROVE Lapse'
    <3>1. at = "stop_players"
      BY <2>1, <2>5 DEF RecordInv, ToldInv, Told
    <3>2. InPost
      BY <3>1 DEF InPost, PostSteps
    <3> QED  BY <1>3, <2>1, <3>2 DEF RecordInv, WayInv, Lapse
  <2>6. LeftInv'
    BY <1>3, <1>4, <2>1, <2>5 DEF LeftInv, Clear
  <2> QED  BY <1>3, <2>1, <2>2, <2>3, <2>4, <2>6 DEF RecordInv, ReachedInv
<1> QED  BY <1>5, <1>6, <1>7

(***************************************************************************)
(* Beside the runner: the game and its process, the watchers, a player     *)
(* that dies.                                                              *)
(***************************************************************************)
LEMMA AsideStep ==
  ASSUME ErrorInv, RecordInv, EvidenceInv', met \subseteq met', Sure => Sure',
         UNCHANGED <<told, stop_event, experiment, tasks, cancelled, state>>,
         UNCHANGED client_crashed, is_stopping \subseteq is_stopping',
         at' = at \/ (at = "stop_game" /\ at' = "stop_defuser"),
         \A r \in Role : player'[r] \in {player[r], "dead"},
         awaiting = "nothing" => awaiting' = "nothing",
         good_game_over' => good_game_over \/ awaiting' = "nothing"
  PROVE  RecordInv'
<1>1. /\ (Slow => Slow') /\ (Lapse => Lapse') /\ (Fault => Fault') /\ (Excused => Excused')
      /\ Roles' = Roles /\ Roles \subseteq Role
  BY MetStays, RolesAreRoles DEF Roles
<1>2. \A r \in Role : Told(r)' = Told(r) /\ Clear(r)' = Clear(r) /\ (Gone(r) => Gone(r)')
  BY DEF Told, Clear, Gone
<1>3. AllGone => AllGone'
  BY <1>1, <1>2 DEF AllGone
<1>4. WayInv'
  BY <1>1 DEF RecordInv, WayInv, InPost, Body, SetupSteps, LoopSteps, PostSteps, CleanSteps
<1>5. StopInv'
  BY <1>1 DEF RecordInv, StopInv
<1>6. ToldInv'
  BY <1>1, <1>2 DEF RecordInv, ToldInv, Body, SetupSteps, LoopSteps, PostSteps
<1>7. LeftInv'
  BY <1>1, <1>2, <1>3 DEF RecordInv, LeftInv, CleanSteps
<1>8. ReachedInv'
  BY <1>1, <1>2 DEF RecordInv, ReachedInv, Reached, Role
<1> QED  BY <1>4, <1>5, <1>6, <1>7, <1>8 DEF RecordInv

\* A process that the service has not stopped itself is lost by a crash, and a service that was
\* seen to have lost it has died or lost it so.
LEMMA GameKeepsEvidence ==
  ASSUME EvidenceInv, UNCHANGED player, UNCHANGED game_crash, met \subseteq met',
         \/ (Boot \/ LightsGoOn \/ TimeRunsOut \/ MonitorPoll \/ Restart) /\ UNCHANGED met
         \/ Exit /\ "crash" \in met'
         \/ ServiceDies /\ "service" \in met'
         \/ StopGame
         \/ UNCHANGED gameVars
  PROVE  EvidenceInv'
<1>1. Excused => Excused'
  BY MetStays
<1> USE DEF EvidenceInv
<1>2. CASE Boot \/ LightsGoOn \/ TimeRunsOut
  BY <1>1, <1>2 DEF Boot, LightsGoOn, TimeRunsOut, Scene, monitorVars
<1>3. CASE MonitorPoll
  <2>1. /\ UNCHANGED <<process, serving, expected_death>> /\ (ready_state => ready_state')
    BY <1>3 DEF MonitorPoll, processVars
  <2> QED  BY <1>1, <2>1
<1>4. CASE Restart
  <2>1. /\ serving /\ UNCHANGED serving /\ process = "dead" /\ process' = "unknown"
        /\ (ready_state /\ expected_death => ready_state')
    BY <1>4 DEF Restart
  <2> QED  BY <1>1, <2>1
<1>5. CASE Exit /\ "crash" \in met'
  BY <1>1, <1>5 DEF Exit, monitorVars
<1>6. CASE ServiceDies /\ "service" \in met'
  BY <1>1, <1>6 DEF ServiceDies
<1>7. CASE StopGame
  <2>1. UNCHANGED <<serving, ready_state>> /\ (expected_death' \/ UNCHANGED process)
    BY <1>7 DEF StopGame, processVars
  <2>2. expected_death => expected_death'
    BY <1>7 DEF StopGame
  <2> QED  BY <1>1, <2>1, <2>2
<1>8. CASE UNCHANGED gameVars
  <2>1. GamePlain
    BY <1>8, GameSame
  <2> QED  BY <1>1, <2>1 DEF GamePlain
<1> QED  BY <1>2, <1>3, <1>4, <1>5, <1>6, <1>7, <1>8

\* Nor does what the game does by itself change what was told.
LEMMA GameKeepsRecords ==
  ErrorInv /\ EvidenceInv /\ RecordInv
    /\ \/ OnlyGame /\ (Boot \/ LightsGoOn \/ TimeRunsOut \/ MonitorPoll \/ Restart) /\ UNCHANGED met
       \/ OnlyGame /\ Exit /\ Meet("crash")
       \/ OnlyGame /\ ServiceDies /\ Meet("service")
       \/ EndGame
    => EvidenceInv' /\ RecordInv'
<1> SUFFICES ASSUME ErrorInv, EvidenceInv, RecordInv,
                    \/ OnlyGame /\ (Boot \/ LightsGoOn \/ TimeRunsOut \/ MonitorPoll \/ Restart)
                       /\ UNCHANGED met
                    \/ OnlyGame /\ Exit /\ Meet("crash")
                    \/ OnlyGame /\ ServiceDies /\ Meet("service")
                    \/ EndGame
             PROVE  EvidenceInv' /\ RecordInv'
  OBVIOUS
<1>1. met \subseteq met'
  BY Meeting DEF EndGame
<1>2. /\ UNCHANGED <<player, told, experiment, tasks, stop_event, cancelled, state>>
      /\ UNCHANGED client_crashed /\ UNCHANGED watchVars
  <2>1. CASE OnlyGame
    BY <2>1, Zenon DEF OnlyGame, playerVars, runnerVars
  <2>2. CASE EndGame
    BY <2>2, Zenon DEF EndGame, playerVars
  <2> QED  BY <2>1, <2>2
<1>3. at' = at \/ (at = "stop_game" /\ at' = "stop_defuser")
  BY Zenon DEF OnlyGame, runnerVars, EndGame
<1>4. /\ UNCHANGED <<awaiting, player_crash, is_stopping>>
      /\ UNCHANGED game_crash /\ UNCHANGED good_game_over
  BY <1>2, WatchersSame
<1>5. EvidenceInv'
  BY <1>1, <1>2, <1>4, GameKeepsEvidence DEF EndGame, Meet
<1>6. Sure => Sure'
  BY <1>1, <1>2, <1>4, MetStays DEF Sure, is_hard_crash
<1> QED  BY <1>1, <1>2, <1>3, <1>4, <1>5, <1>6, AsideStep

\* What a watcher has seen of a service that is gone it sees again.
LEMMA WatchersKeepRecords ==
  ErrorInv /\ EvidenceInv /\ RecordInv /\ Watchers => EvidenceInv' /\ RecordInv'
<1> SUFFICES ASSUME ErrorInv, EvidenceInv, RecordInv, Watchers PROVE EvidenceInv' /\ RecordInv'
  OBVIOUS
<1>1. /\ UNCHANGED <<player, told, experiment, tasks, stop_event, cancelled, state, at>>
      /\ UNCHANGED client_crashed /\ UNCHANGED gameVars
  BY Zenon DEF Watchers, PollGame, WatchGame, MissHeartbeat, PollPlayer, runnerVars, playerVars
<1>2. met \subseteq met'
  BY Meeting DEF Watchers, PollGame, WatchGame, MissHeartbeat, PollPlayer
<1>3. GamePlain /\ (Excused => Excused')
  BY <1>1, <1>2, GameSame, MetStays
<1>4. (game_crash' => ~serving \/ Excused') => EvidenceInv'
  BY <1>1, <1>2, <1>3 DEF EvidenceInv, GamePlain
<1>5. ASSUME EvidenceInv', is_stopping \subseteq is_stopping', is_hard_crash => Sure',
             awaiting = "nothing" => awaiting' = "nothing",
             good_game_over' => good_game_over \/ awaiting' = "nothing"
      PROVE  EvidenceInv' /\ RecordInv'
  <2>1. Sure => Sure'
    BY <1>3, <1>5 DEF Sure
  <2> QED  BY <1>1, <1>2, <1>5, <2>1, AsideStep
<1>6. (game_crash' \/ client_crashed \/ Excused' => Sure') /\ (player_crash' # {} => Sure')
  BY <1>1 DEF Sure, is_hard_crash
<1>7. CASE PollGame
  <2>1. /\ UNCHANGED <<awaiting, player_crash, is_stopping>> /\ UNCHANGED good_game_over
        /\ (game_crash' <=> ~serving \/ ~ready_state)
    BY <1>7 DEF PollGame
  <2>2. game_crash' => ~serving \/ Excused'
    BY <1>3, <2>1 DEF EvidenceInv, Excused
  <2>3. is_hard_crash => Sure'
    BY <1>3, <1>6, <2>1 DEF EvidenceInv, is_hard_crash
  <2> QED  BY <1>4, <1>5, <2>1, <2>2, <2>3
<1>8. CASE WatchGame
  <2>1. /\ UNCHANGED <<player_crash, is_stopping>> /\ UNCHANGED game_crash
        /\ awaiting # "nothing" /\ (good_game_over' => good_game_over \/ awaiting' = "nothing")
    BY <1>8 DEF WatchGame
  <2>2. game_crash' => ~serving \/ Excused'
    BY <1>3, <2>1 DEF EvidenceInv
  <2>3. is_hard_crash => Sure'
    BY <1>6, <2>1 DEF is_hard_crash
  <2> QED  BY <1>4, <1>5, <2>1, <2>2, <2>3
<1>9. CASE MissHeartbeat
  <2>1. UNCHANGED <<awaiting, is_stopping>> /\ UNCHANGED good_game_over /\ "flap" \in met'
    BY <1>9 DEF MissHeartbeat, Meet
  <2>2. Excused'
    BY <2>1 DEF Excused
  <2> QED  BY <1>4, <1>5, <1>6, <2>1, <2>2
<1>10. ASSUME NEW r \in Roles, PollPlayer(r) PROVE EvidenceInv' /\ RecordInv'
  <2>1. /\ UNCHANGED awaiting /\ UNCHANGED game_crash /\ UNCHANGED good_game_over
        /\ is_stopping \subseteq is_stopping'
    BY <1>10 DEF PollPlayer
  <2>2. \/ player[r] = "dead" /\ player_crash' = player_crash \cup {r}
        \/ player[r] # "dead" /\ player_crash' = player_crash \ {r}
    BY <1>10 DEF PollPlayer
  <2>3. player_crash # {} => player_crash' # {} \/ Excused
    BY <2>2 DEF ErrorInv, PlayersOK, Excused
  <2>4. game_crash' => ~serving \/ Excused'
    BY <1>3, <2>1 DEF EvidenceInv
  <2>5. is_hard_crash => Sure'
    BY <1>3, <1>6, <2>1, <2>3 DEF is_hard_crash
  <2> QED  BY <1>4, <1>5, <2>1, <2>4, <2>5
<1> QED  BY <1>7, <1>8, <1>9, <1>10 DEF Watchers

\* A player that dies takes its record with it.
LEMMA DeathKeepsRecords ==
  ASSUME ErrorInv, EvidenceInv, RecordInv, NEW q \in Roles, PlayerDies(q)
  PROVE  EvidenceInv' /\ RecordInv'
<1>0. Roles \subseteq Role /\ player \in [Role -> PlayerState \cup {"dead"}]
  BY RolesAreRoles DEF ErrorInv, PlayersOK
<1>1. /\ UNCHANGED <<told, experiment, tasks, stop_event, cancelled, state, at>>
      /\ UNCHANGED client_crashed /\ UNCHANGED gameVars /\ UNCHANGED watchVars
  BY Zenon DEF PlayerDies, runnerVars
<1>2. met' = met \cup {"player"} /\ player' = [player EXCEPT ![q] = "dead"]
  BY DEF PlayerDies, Meet
<1>3. /\ UNCHANGED <<awaiting, player_crash, is_stopping>>
      /\ UNCHANGED game_crash /\ UNCHANGED good_game_over
  BY <1>1, WatchersSame
<1>4. GamePlain /\ (Excused => Excused')
  BY <1>1, <1>2, GameSame, MetStays
<1>5. EvidenceInv'
  BY <1>0, <1>2, <1>3, <1>4 DEF EvidenceInv, GamePlain
<1>6. Sure => Sure'
  BY <1>1, <1>3, <1>4 DEF Sure, is_hard_crash
<1> QED  BY <1>0, <1>1, <1>2, <1>3, <1>5, <1>6, AsideStep

\* Every step keeps the records in agreement.
LEMMA RecordStep == ErrorInv /\ EvidenceInv /\ RecordInv /\ [Next]_vars
  => EvidenceInv' /\ RecordInv'
<1> SUFFICES ASSUME ErrorInv, EvidenceInv, RecordInv, [Next]_vars PROVE EvidenceInv' /\ RecordInv'
  OBVIOUS
<1>0. Roles \subseteq Role
  BY RolesAreRoles
<1>1. CASE UNCHANGED vars
  <2>1. /\ UNCHANGED <<player, told, experiment, tasks, stop_event, cancelled, state, at, met>>
        /\ UNCHANGED client_crashed /\ UNCHANGED gameVars /\ UNCHANGED watchVars
    BY <1>1, Zenon DEF vars, playerVars, runnerVars
  <2>2. Plain /\ GamePlain
    BY <2>1, GameSame DEF Plain
  <2>3. Quiet /\ Stays
    BY <2>1 DEF Quiet, Stays
  <2> QED  BY <2>1, <2>2, <2>3, PlainStep DEF Moves, RecordInv, WayInv
<1>2. CASE Configure \/ SyncLoop \/ AsyncLoop \/ EndLoops
  BY <1>2, SetupKeepsRecords, LoopKeepsRecords
<1>3. CASE AfterGame
  <2>1. ASSUME NEW r \in Roles, StopPlayer(r) PROVE EvidenceInv' /\ RecordInv'
    BY <1>0, <2>1, StopKeepsRecords
  <2> QED  BY <1>3, <2>1, EndKeepsRecords, ReflectionKeepsRecords, SendingKeepsRecords,
              EndBodyKeepsRecords DEF AfterGame
<1>4. CASE Cleanup
  BY <1>4, GameKeepsRecords, TryStopKeepsRecords DEF Cleanup, Role
<1>5. CASE Service
  <2>1. ASSUME NEW r \in Roles, FinishReflection(r) \/ PlayerDies(r)
        PROVE  EvidenceInv' /\ RecordInv'
    BY <2>1, FinishedReflection, DeathKeepsRecords
  <2> QED  BY <1>5, <2>1, GameKeepsRecords, TurnsKeepRecords DEF Service
<1>6. CASE Watchers \/ ForceStop \/ MonitorGivesUp \/ Cancel
  BY <1>6, WatchersKeepRecords, CancelKeepsRecords
<1> QED  BY <1>1, <1>2, <1>3, <1>4, <1>5, <1>6 DEF Next, Runner

\* The three parts of the argument, from the first state on.
LEMMA RecordsAreKept == Spec => [](ErrorInv /\ EvidenceInv /\ RecordInv)
<1>1. ASSUME Init PROVE ErrorInv /\ EvidenceInv /\ RecordInv
  <2>1. EvidenceInv
    BY <1>1 DEF Init, GameInit, EvidenceInv, Role
  <2>2. \A r \in Role : told[r] = NotTold /\ player[r] = "idle" /\ ~Told(r) /\ ~Clear(r)
    BY <1>1 DEF Init, Role, Told, Clear
  <2>3. at = "configure_defuser"
    BY <1>1 DEF Init
  <2>4. WayInv
    BY <1>1, <2>3 DEF Init, WayInv, InPost, Body, SetupSteps, PostSteps, CleanSteps
  <2>5. StopInv /\ ToldInv
    BY <1>1, <2>2, <2>3 DEF Init, StopInv, ToldInv, NotTold, Stops
  <2>6. LeftInv /\ ReachedInv
    BY <2>2, <2>3 DEF LeftInv, ReachedInv, CleanSteps
  <2> QED  BY <1>1, <2>1, <2>4, <2>5, <2>6, ErrorInit DEF RecordInv
<1>2. ErrorInv /\ EvidenceInv /\ RecordInv /\ [Next]_vars => (ErrorInv /\ EvidenceInv /\ RecordInv)'
  BY ErrorStep, RecordStep
<1> QED  BY <1>1, <1>2, PTL DEF Spec

\* A record without a hard crash has the bomb of a game played to its end, in any number of
\* troubles: the watchers' evidence of a service that is gone lasts, so that a stop sent or repeated
\* later does not say less than what ended the game.
THEOREM RecordsPlayedOut == Spec => []PlayedOut
<1>1. ErrorInv /\ RecordInv => PlayedOut
  BY RolesAreRoles DEF RecordInv, ToldInv, PlayedOut, Clear, Excused, Slow
<1> QED  BY <1>1, RecordsAreKept, PTL

\* The two records of a pair differ on the hard crash only where an answer was lost, the watchers
\* changed their mind, or a death fell between the two stops of a cleanup that a long reflection
\* had left a player to.
THEOREM RecordsTheorem == Spec => []RecordsAgree
<1>1. ErrorInv /\ RecordInv => RecordsAgree
  <2> SUFFICES ASSUME ErrorInv, RecordInv, Told("defuser"), Told("expert"),
                      told["defuser"].crash # told["expert"].crash
               PROVE  Lapse \/ Fault
    BY DEF RecordsAgree, Lapse, Fault, Excused, Slow
  <2>1. told["defuser"].crash \in BOOLEAN /\ told["expert"].crash \in BOOLEAN
    BY DEF RecordInv, ToldInv, Stops, Role
  <2> QED  BY <2>1 DEF RecordInv, LeftInv, Clear, Role
<1> QED  BY <1>1, RecordsAreKept, PTL

\* No player that lives is left without a stop, by whatever way the body was left: the cleanup
\* asks each one again, and the stop of a player that has taken one is nothing.
THEOREM AllAreTold == Spec => []EveryoneIsTold
<1>1. ErrorInv /\ RecordInv => EveryoneIsTold
  BY RolesAreRoles DEF RecordInv, ReachedInv, Reached, EveryoneIsTold, Role
<1> QED  BY <1>1, RecordsAreKept, PTL
=============================================================================
