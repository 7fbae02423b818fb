--------------------------- MODULE PlayerService ---------------------------
(***************************************************************************)
(* One player service and the sessions that use it, one after the other.   *)
(* Every RPC command has a subscriber of its own, so that configure,       *)
(* forward_pass, reflection and stop run concurrently and interleave at    *)
(* every await, together with the background task of a stop.  They share   *)
(* the player's state, the recorder and the message handler.  The runner   *)
(* of a session is kept to the RPCs it sends to this player, what it waits *)
(* for, and what its watcher of the player has seen.                       *)
(***************************************************************************)
EXTENDS Naturals

CONSTANTS
  MaxSessions,  \* bound: sessions the player takes part in
  MaxTurns,     \* bound: forward passes that the sessions ask for between them
  MaxStops,     \* bound: background tasks of a stop at a time
  Troubles      \* what may go wrong around the player, see below

(***************************************************************************)
(*   "skip"        the session fails before it configures this player      *)
(*   "configure", "turn", "reflection"                                     *)
(*                 the runner goes on while that handler is still running, *)
(*                 after a timeout or a force stop                         *)
(*   "recovery"    the model raises in a reflection what no strategy of    *)
(*                 the exception recovery handles                          *)
(*   "bomb_state"  get_bomb_state fails when the players are to be stopped *)
(*   "peer"        a turn of the other player outlives its RPC and its     *)
(*                 session, and its message comes in the next one          *)
(*   "missed"      no poll of the watcher falls between the heartbeat sent *)
(*                 by a stop and the next periodic one, or the cleanup     *)
(***************************************************************************)
ASSUME PlayerConstants ==
  /\ MaxSessions \in Nat /\ MaxTurns \in Nat /\ MaxStops \in Nat \ {0}
  /\ Troubles \subseteq {"skip", "configure", "turn", "reflection", "recovery", "bomb_state", "peer",
                          "missed"}

VARIABLES
  \* PlayerService and its heartbeat
  state,        \* PlayerState
  beat,         \* the state in the last heartbeat
  alive,        \* FALSE once an exception has left a background task
  \* what the handlers share
  experiment,   \* session of protocol and experiment_instance, 0 before the first
  provenance,   \* session of the recorder's provenance, 0 if None
  steps,        \* step_records: the <<session, turn>> each step was made in
  channel,      \* session of the message handler, 0 if None
  subscriber,   \* session whose messages the player is subscribed to, 0 if none
  inbox,        \* _unpulled_messages: the session each was made in
  feedback,     \* _unpulled_feedback: the session of the turn each is about
  \* handlers in flight
  configuring,  \* configure_for_experiment
  turn,         \* forward_pass
  reflecting,   \* the session perform_reflection works for, 0 if none
  tasks,        \* [1..MaxStops -> a _stop_player_async task or NoTask]
  \* files on disk
  disk,         \* player records: [session |-> i, steps |-> the steps in it]
  \* the runner of the current session
  session,      \* number of the current session, 0 before the first
  run,          \* where its runner is
  asked,        \* forward passes asked for so far, those of earlier sessions included
  is_stopping,  \* the event of its watcher: the player was seen stopping
  met           \* the troubles met so far

handlerVars == <<configuring, turn, reflecting, tasks>>
recordVars  == <<experiment, provenance, steps, disk>>
messageVars == <<channel, subscriber, inbox, feedback>>
runVars     == <<session, run, asked, is_stopping, met>>
vars == <<state, beat, alive, handlerVars, recordVars, messageVars, runVars>>

Sessions == 1..MaxSessions
StepIds  == Sessions \X (0..MaxTurns)   \* number 0 is the reflection
Record   == [session : Sessions, steps : SUBSET StepIds]
-----------------------------------------------------------------------------
\* The part of PlayerState that counts as stopping in the order of the enumeration,
\* reflecting included.
Stopping == {"stopping", "reflecting", "uploading", "cleanup"}
PlayerState == Stopping \cup
  {"idle", "configuring_experiment", "waiting_for_turn", "waiting_for_observation",
   "preparing_agent_input", "waiting_for_action", "performing_action"}

Nothing == [session |-> 0, at |-> "none"]
NoTurn  == [session |-> 0, number |-> 0, at |-> "none"]
NoTask  == [at |-> "none", record |-> [session |-> 0, steps |-> {}]]

ConfigureStep == {"recorder", "subscriber"}
TurnStep      == {"observation", "input", "model", "dispatch"}
TaskStep      == {"spawned", "saving", "unsubscribing"}

\* The runner: before the configure RPC, waiting for an answer, between turns, ...
RunStep == {"none", "configure", "configuring", "sync", "play", "playing", "reflect", "reflecting",
            "stop", "stopped", "cleanup", "done"}

Init ==
  /\ state = "idle" /\ beat = "idle" /\ alive = TRUE
  /\ experiment = 0 /\ provenance = 0 /\ steps = {}
  /\ channel = 0 /\ subscriber = 0 /\ inbox = {} /\ feedback = {}
  /\ configuring = Nothing /\ turn = NoTurn /\ reflecting = 0
  /\ tasks = [t \in 1..MaxStops |-> NoTask]
  /\ disk = {}
  /\ session = 0 /\ run = "none" /\ asked = 0 /\ is_stopping = FALSE
  /\ met = {}
-----------------------------------------------------------------------------
(***************************************************************************)
(* configure_for_experiment.                                               *)
(***************************************************************************)

\* The RPC of the runner and the handler up to the recorder, which may start a W&B
\* run in a thread.  A player that is not idle rejects it, and the session cleans up.
BeginConfigure ==
  /\ alive /\ run = "configure" /\ configuring = Nothing
  /\ IF state # "idle"
     THEN /\ run' = "cleanup"
          /\ UNCHANGED <<state, configuring, experiment, provenance>>
     ELSE /\ run' = "configuring"
          /\ state' = "configuring_experiment"
          /\ experiment' = session /\ provenance' = session
          /\ configuring' = [session |-> session, at |-> "recorder"]
  /\ UNCHANGED <<beat, alive, steps, disk, messageVars, turn, reflecting, tasks,
                 session, asked, is_stopping, met>>

\* Variant: the message handler is left out.
ConfigureWithoutHandler ==
  /\ alive /\ configuring.at = "recorder"
  /\ configuring' = [session |-> experiment, at |-> "subscriber"]
  /\ UNCHANGED <<state, beat, alive, turn, reflecting, tasks, recordVars, messageVars, runVars>>

\* Manual, conversation, dispatcher and message handler, up to starting the subscriber.
ConfigureComponents ==
  /\ alive /\ configuring.at = "recorder"
  /\ channel' = experiment
  /\ configuring' = [session |-> experiment, at |-> "subscriber"]
  /\ UNCHANGED <<state, beat, alive, turn, reflecting, tasks, recordVars,
                 subscriber, inbox, feedback, runVars>>

\* The manual, the recorder or the subscriber fails: no answer is sent, and the player
\* stays as it is.
ConfigureFails ==
  /\ alive /\ configuring # Nothing
  /\ configuring' = Nothing
  /\ UNCHANGED <<state, beat, alive, turn, reflecting, tasks, recordVars, messageVars, runVars>>

\* The subscriber runs (one that is running already is kept), and the runner, if it
\* still waits, has its answer.
FinishConfigure ==
  /\ alive /\ configuring.at = "subscriber"
  /\ subscriber' = IF subscriber = 0 THEN configuring.session ELSE subscriber
  /\ state' = "waiting_for_turn"
  /\ configuring' = Nothing
  /\ run' = IF run = "configuring" /\ session = configuring.session THEN "sync" ELSE run
  /\ UNCHANGED <<beat, alive, turn, reflecting, tasks, recordVars, channel, inbox, feedback,
                 session, asked, is_stopping, met>>
-----------------------------------------------------------------------------
(***************************************************************************)
(* forward_pass.                                                           *)
(***************************************************************************)

\* The message handler hands out all it holds, and forgets it.
PullMessages == inbox' = {} /\ feedback' = {}

\* The RPC and the handler up to its first await.  A defuser asks the game for an
\* observation; an expert pulls its messages and goes on to the model.
ForwardPass ==
  /\ alive /\ run = "play" /\ turn = NoTurn /\ asked < MaxTurns
  /\ asked' = asked + 1
  /\ IF state # "waiting_for_turn"
     THEN run' = "cleanup" /\ UNCHANGED <<state, turn, inbox, feedback>>
     ELSE /\ run' = "playing"
          /\ \/ /\ state' = "waiting_for_observation"
                /\ turn' = [session |-> session, number |-> asked', at |-> "observation"]
                /\ UNCHANGED <<inbox, feedback>>
             \/ /\ state' = "waiting_for_action"
                /\ turn' = [session |-> session, number |-> asked', at |-> "model"]
                /\ PullMessages
  /\ UNCHANGED <<beat, alive, configuring, reflecting, tasks, recordVars,
                 channel, subscriber, session, is_stopping, met>>

\* The handler goes from one await to the next ...
TurnGoesOn(from, next, at) ==
  /\ alive /\ turn.at = from
  /\ state' = next
  /\ turn' = [turn EXCEPT !.at = at]
  /\ UNCHANGED <<beat, alive, configuring, reflecting, tasks, recordVars,
                 channel, subscriber, runVars>>

\* ... or ends, and the runner, if it still waits, has its answer.
EndTurn(next) ==
  /\ turn' = NoTurn
  /\ run' = IF run = "playing" /\ session = turn.session THEN next ELSE run
  /\ UNCHANGED <<beat, alive, configuring, reflecting, tasks, experiment, provenance, disk,
                 channel, subscriber, inbox, session, asked, is_stopping, met>>

\* The observation arrives, messages are pulled and the input is prepared.
Observe == TurnGoesOn("observation", "preparing_agent_input", "input") /\ PullMessages

\* The observation is stored and the model is called.
AskModel == TurnGoesOn("input", "waiting_for_action", "model") /\ UNCHANGED <<inbox, feedback>>

\* The model has answered: a message goes out on the channel of the message handler,
\* an action to the game.
Dispatch ==
  TurnGoesOn("model", "performing_action", "dispatch") /\ UNCHANGED <<inbox, feedback>>

\* The bomb has detonated: the turn is skipped.
SkipTurn ==
  /\ alive /\ turn.at = "observation"
  /\ state' = "waiting_for_turn"
  /\ EndTurn("play")
  /\ UNCHANGED <<steps, feedback>>

\* The game does not answer, the input cannot be built, no recovery strategy handles the
\* exception of the model, or there is no channel for a message: the handler ends in the
\* state it was in, and the runner takes it for a crashed client.
TurnFails ==
  /\ alive /\ turn # NoTurn
  /\ \/ UNCHANGED state
     \/ turn.at = "model" /\ channel = 0 /\ state' = "performing_action"
  /\ EndTurn("cleanup")
  /\ UNCHANGED <<steps, feedback>>

\* Errors of the turn, where the player is to be told of them, wait beside the messages
\* for its next pull.
GenerateFeedbacks == feedback' \in {feedback, feedback \cup {turn.session}}

\* Feedback is generated and the step is tracked.
FinishTurn ==
  /\ alive /\ turn.at = "dispatch"
  /\ state' = "waiting_for_turn"
  /\ GenerateFeedbacks
  /\ steps' = steps \cup {<<turn.session, turn.number>>}
  /\ EndTurn("play")
-----------------------------------------------------------------------------
(***************************************************************************)
(* perform_reflection.                                                     *)
(***************************************************************************)
Reflection ==
  /\ alive /\ run = "reflect" /\ reflecting = 0
  /\ IF state # "waiting_for_turn"
     THEN run' = "stop" /\ UNCHANGED <<state, reflecting>>
     ELSE run' = "reflecting" /\ state' = "reflecting" /\ reflecting' = session
  /\ UNCHANGED <<beat, alive, configuring, turn, tasks, recordVars, messageVars,
                 session, asked, is_stopping, met>>

EndReflection ==
  /\ alive /\ reflecting # 0
  /\ reflecting' = 0
  /\ run' = IF run = "reflecting" /\ session = reflecting THEN "stop" ELSE run
  /\ UNCHANGED <<beat, alive, configuring, turn, tasks, experiment, provenance, disk,
                 messageVars, session, asked, is_stopping>>

FinishReflection ==
  /\ EndReflection
  /\ steps' = steps \cup {<<reflecting, 0>>}
  /\ state' = "waiting_for_turn"
  /\ UNCHANGED met

\* The exception leaves the player reflecting; the runner goes on without a reflection.
ReflectionFails ==
  /\ EndReflection
  /\ "recovery" \in Troubles /\ met' = met \cup {"recovery"}
  /\ UNCHANGED <<state, steps>>
-----------------------------------------------------------------------------
(***************************************************************************)
(* stop_player and _stop_player_async.                                     *)
(***************************************************************************)

\* Variant: the state waits for the periodic heartbeat.
StopWithoutHeartbeat ==
  IF state \in Stopping
  THEN UNCHANGED <<state, beat, tasks>>
  ELSE /\ state' = "stopping" /\ UNCHANGED beat
       /\ \E t \in 1..MaxStops :
            /\ tasks[t] = NoTask
            /\ tasks' = [tasks EXCEPT ![t] = [NoTask EXCEPT !.at = "spawned"]]

\* The handler of a stop.  A player at or past stopping accepts it and does nothing;
\* otherwise its state goes out in a heartbeat and a background task is spawned.
StopPlayer ==
  IF state \in Stopping
  THEN UNCHANGED <<state, beat, tasks>>
  ELSE /\ state' = "stopping" /\ beat' = "stopping"
       /\ \E t \in 1..MaxStops :
            /\ tasks[t] = NoTask
            /\ tasks' = [tasks EXCEPT ![t] = [NoTask EXCEPT !.at = "spawned"]]

\* stop_all_players sends the stop, and sleeps for longer than the watcher's interval.
StopAfterGame ==
  /\ alive /\ run = "stop"
  /\ StopPlayer
  /\ run' = "stopped"
  /\ UNCHANGED <<alive, configuring, turn, reflecting, recordVars, messageVars,
                 session, asked, is_stopping, met>>

\* Variant: cleanup leaves the players to stop_all_players.
CleanupWithoutStop ==
  /\ alive /\ run = "cleanup"
  /\ run' = "done"
  /\ UNCHANGED <<state, beat, alive, handlerVars, recordVars, messageVars,
                 session, asked, is_stopping, met>>

\* cleanup_experiment sends it unless the watcher has seen the player stopping.
StopInCleanup ==
  /\ alive /\ run = "cleanup"
  /\ IF is_stopping THEN UNCHANGED <<state, beat, tasks>> ELSE StopPlayer
  /\ run' = "done"
  /\ UNCHANGED <<alive, configuring, turn, reflecting, recordVars, messageVars,
                 session, asked, is_stopping, met>>

\* Variant: only the messages of the other player are cleared.
ResetWithoutFeedback ==
  /\ state' = "idle"
  /\ channel' = 0 /\ inbox' = {} /\ UNCHANGED feedback
  /\ steps' = {} /\ provenance' = 0

\* The mutable state a reset clears; experiment keeps the last one.
Reset ==
  /\ state' = "idle"
  /\ channel' = 0 /\ inbox' = {} /\ feedback' = {}
  /\ steps' = {} /\ provenance' = 0

\* The task begins.  Without any experiment so far there is nothing to save; without
\* a provenance the assertion of build_player_record ends the task and the process.
BeginStop(t) ==
  /\ alive /\ tasks[t].at = "spawned"
  /\ \/ /\ experiment = 0
        /\ Reset
        /\ tasks' = [tasks EXCEPT ![t] = NoTask]
        /\ UNCHANGED alive
     \/ /\ experiment # 0 /\ provenance # 0
        /\ state' = "uploading"
        /\ tasks' = [tasks EXCEPT ![t] = [at |-> "saving",
                                          record |-> [session |-> experiment, steps |-> steps]]]
        /\ UNCHANGED <<alive, channel, inbox, feedback, steps, provenance>>
     \/ /\ experiment # 0 /\ provenance = 0
        /\ state' = "uploading"
        /\ alive' = FALSE
        /\ UNCHANGED <<tasks, channel, inbox, feedback, steps, provenance>>
  /\ UNCHANGED <<beat, configuring, turn, reflecting, experiment, disk, subscriber, runVars>>

\* The record is written by a thread, unless it has no steps; the file is named by the
\* attempt and the player.
SaveRecord(t) ==
  /\ alive /\ tasks[t].at = "saving"
  /\ LET r == tasks[t].record
     IN disk' = IF r.steps = {} THEN disk ELSE {d \in disk : d.session # r.session} \cup {r}
  /\ tasks' = [tasks EXCEPT ![t] = [NoTask EXCEPT !.at = "unsubscribing"]]
  /\ UNCHANGED <<state, beat, alive, configuring, turn, reflecting, experiment, provenance,
                 steps, messageVars, runVars>>

\* Variant: the upload is not awaited.
FinishEarly(t) ==
  /\ alive /\ tasks[t].at \in {"saving", "unsubscribing"}
  /\ subscriber' = 0
  /\ Reset
  /\ tasks' = [tasks EXCEPT ![t] = NoTask]
  /\ UNCHANGED <<beat, alive, configuring, turn, reflecting, experiment, disk, runVars>>

\* The subscriber has stopped, and the player is reset.
FinishStop(t) ==
  /\ alive /\ tasks[t].at = "unsubscribing"
  /\ subscriber' = 0
  /\ Reset
  /\ tasks' = [tasks EXCEPT ![t] = NoTask]
  /\ UNCHANGED <<beat, alive, configuring, turn, reflecting, experiment, disk, runVars>>
-----------------------------------------------------------------------------
(***************************************************************************)
(* Messages, heartbeats and the rest of the runner.                        *)
(***************************************************************************)

\* The watcher of the current session has seen what the last heartbeat tells it.
Polled == run \in {"none", "done"} \/ is_stopping \/ beat \notin Stopping

\* The other player of session i publishes on the channel of the session it is in by
\* then.  It sends what a turn of i has made, be it a late one, or of a turn it was asked
\* for in a session before.
HandleNewMessage(i) ==
  /\ alive /\ subscriber = i
  /\ \/ inbox' = inbox \cup {i} /\ UNCHANGED met
     \/ /\ "peer" \in Troubles /\ met' = met \cup {"peer"}
        /\ \E j \in 1..(i - 1) : inbox' = inbox \cup {j}
  /\ UNCHANGED <<state, beat, alive, handlerVars, recordVars, channel, subscriber, feedback,
                 session, run, asked, is_stopping>>

\* The periodic heartbeat.  Heartbeats are three seconds apart and polls one, so that
\* only the one sent by a stop may be overwritten before the watcher has polled it.
SendHeartbeat ==
  /\ alive
  /\ LET missed == {x \in {"missed"} : ~Polled}
     IN missed \subseteq Troubles /\ met' = met \cup missed
  /\ beat' = state
  /\ UNCHANGED <<state, alive, handlerVars, recordVars, messageVars,
                 session, run, asked, is_stopping>>

\* PlayerStateWatcher, once a second while the session lasts.
UpdateServiceState ==
  /\ run \notin {"none", "done"}
  /\ beat \in Stopping
  /\ is_stopping' = TRUE
  /\ UNCHANGED <<state, beat, alive, handlerVars, recordVars, messageVars,
                 session, run, asked, met>>

\* The EM gives the player to a new session once its heartbeat says idle.
StartSession ==
  /\ run \in {"none", "done"} /\ session < MaxSessions
  /\ alive /\ beat = "idle"
  /\ session' = session + 1
  /\ is_stopping' = FALSE
  /\ run' = "configure"
  /\ UNCHANGED <<state, beat, alive, handlerVars, recordVars, messageVars, asked, met>>

\* The runner moves on by itself, meeting these troubles on the way.
RunnerMoves(from, to, troubles) ==
  /\ run = from /\ run' = to
  /\ troubles \subseteq Troubles /\ met' = met \cup troubles
  /\ UNCHANGED <<state, beat, alive, handlerVars, recordVars, messageVars,
                 session, asked, is_stopping>>

\* It stops waiting for an answer: the handler has ended without one, or is still at work.
Abandon ==
  \/ configuring = Nothing /\ RunnerMoves("configuring", "cleanup", {})
  \/ configuring # Nothing /\ RunnerMoves("configuring", "cleanup", {"configure"})
  \/ RunnerMoves("playing", "cleanup", {"turn"})
  \/ RunnerMoves("reflecting", "stop", {"reflection"})

\* It starts the game once the watcher has seen every player waiting for its turn.
SynchronizeServices == beat = "waiting_for_turn" /\ RunnerMoves("sync", "play", {})

\* Another client of the session crashes between two RPCs to this player.
OtherClientCrashes ==
  \/ RunnerMoves("configure", "cleanup", {"skip"})
  \/ RunnerMoves("sync", "cleanup", {})
  \/ RunnerMoves("play", "cleanup", {})

\* The game is over; in async mode this cuts off the RPC of a turn in flight.  The runner
\* waits for the watcher to see the player waiting for its turn, which a heartbeat sent
\* before that turn also tells it.  After a minute it goes on to stop the players, as it
\* does when there is no bomb state to reflect on.
GameOver ==
  \/ beat = "waiting_for_turn" /\ RunnerMoves("play", "reflect", {})
  \/ beat = "waiting_for_turn" /\ RunnerMoves("playing", "reflect", {"turn"})
  \/ RunnerMoves("play", "stop", {})
  \/ RunnerMoves("playing", "stop", {"turn"})

\* The bomb state that goes with the stop cannot be had: the exception ends the body.
NoBombState == RunnerMoves("stop", "cleanup", {"bomb_state"})

\* After the sleep of stop_all_players, which starts with the RPC of the stop, the
\* watcher has polled, unless the answer took most of it.
AfterStop ==
  \/ Polled /\ RunnerMoves("stopped", "cleanup", {})
  \/ ~Polled /\ RunnerMoves("stopped", "cleanup", {"missed"})

\* A dead player answers nothing, and the runner times out.
PlayerIsDead ==
  /\ ~alive /\ run \notin {"none", "done"}
  /\ run' = "done"
  /\ UNCHANGED <<state, beat, alive, handlerVars, recordVars, messageVars,
                 session, asked, is_stopping, met>>
-----------------------------------------------------------------------------
Configure == BeginConfigure \/ ConfigureComponents \/ ConfigureFails \/ FinishConfigure
Turn      == ForwardPass \/ Observe \/ AskModel \/ Dispatch \/ SkipTurn \/ TurnFails \/ FinishTurn
Reflect   == Reflection \/ FinishReflection \/ ReflectionFails
Stop      == \/ StopAfterGame \/ StopInCleanup
             \/ \E t \in 1..MaxStops : BeginStop(t) \/ SaveRecord(t) \/ FinishStop(t)
Runner    == \/ StartSession \/ Abandon \/ SynchronizeServices \/ OtherClientCrashes \/ GameOver
             \/ NoBombState \/ AfterStop \/ PlayerIsDead

Next == \/ Configure \/ Turn \/ Reflect \/ Stop \/ Runner
        \/ SendHeartbeat \/ UpdateServiceState
        \/ \E i \in Sessions : HandleNewMessage(i)

Spec == Init /\ [][Next]_vars

\* The sets the variables range over.
TypeOK ==
  /\ state \in PlayerState /\ beat \in PlayerState /\ alive \in BOOLEAN
  /\ experiment \in 0..MaxSessions /\ provenance \in 0..MaxSessions
  /\ channel \in 0..MaxSessions /\ subscriber \in 0..MaxSessions
  /\ steps \subseteq StepIds /\ disk \subseteq Record
  /\ inbox \subseteq Sessions /\ feedback \subseteq Sessions
  /\ configuring \in [session : Sessions, at : ConfigureStep] \cup {Nothing}
  /\ turn \in [session : Sessions, number : 1..MaxTurns, at : TurnStep] \cup {NoTurn}
  /\ reflecting \in 0..MaxSessions
  /\ tasks \in [1..MaxStops -> [at : TaskStep \cup {"none"},
                                record : Record \cup {NoTask.record}]]
  /\ session \in 0..MaxSessions /\ run \in RunStep /\ asked \in 0..MaxTurns
  /\ is_stopping \in BOOLEAN
  /\ met \subseteq Troubles

\* No handler and no background task is at work.
Quiet == /\ configuring = Nothing /\ turn = NoTurn /\ reflecting = 0
         /\ \A t \in 1..MaxStops : tasks[t] = NoTask

Spared(troubles) == met \cap troubles = {}

\* A player is subscribed to the session its message handler is configured for, whatever
\* handlers of earlier sessions are still at work; and what it has not read of the other
\* player was made in that session, unless a turn of the other player outlived its own.
OwnInbox ==
  \A i \in Sessions :
    channel = i => subscriber \in {0, i} /\ (Spared({"peer"}) => inbox \subseteq {i})

\* The feedback it has not read is about turns of that session, unless a turn of its own
\* outlived its RPC: that one tells the session the player is in by then.
OwnFeedback ==
  \A i \in Sessions : channel = i /\ Spared({"turn"}) => feedback \subseteq {i}

\* Sessions follow each other on one player, and handlers come late; still, its next pull
\* of messages brings those of the session it is configured for, from either buffer.
OwnMessagesOnly == OwnInbox /\ OwnFeedback

\* What makes OwnInbox inductive.  A configuration in flight is the only one, and the
\* player is not subscribed and has no message unread until it ends.
ConfiguresUnsubscribed ==
  configuring # Nothing =>
    /\ experiment = configuring.session /\ subscriber = 0 /\ inbox = {}
    /\ configuring.at = "subscriber" => channel \in {0, experiment}

\* Nor is a player that takes a configuration; and no player is before its first.
IdleIsUnsubscribed ==
  /\ state = "idle" => subscriber = 0 /\ inbox = {}
  /\ experiment = 0 => subscriber = 0

\* A runner at work belongs to a session.
RunHasSession == run # "none" => session \in Sessions

\* The inductive invariant that the theorems on players start from: a subscription begins
\* from nothing.
InductiveInv ==
  /\ TypeOK /\ RunHasSession
  /\ ConfiguresUnsubscribed /\ IdleIsUnsubscribed /\ OwnInbox

\* The assertions of build_player_record hold ("Must configure experiment before
\* building"): one that fails takes the process down.
BuildsConfigured == alive
SurvivesStops == Spared({"skip", "configure", "turn", "missed"}) => BuildsConfigured

\* After a session the player is idle again (docs/understand/runtime-services.md: a
\* session "returns healthy services to the idle pool during cleanup").
HealthyIsReturned == alive /\ run \in {"none", "done"} /\ Quiet => state = "idle"
ReturnedUnlessOutlived ==
  Spared({"configure", "turn", "reflection", "recovery", "bomb_state"}) => HealthyIsReturned

\* What the recorder forgets is on disk: a reset never races ahead of the upload.
StepsReachDisk ==
  [][Spared({"turn"}) => \A s \in steps \ steps' : \E d \in disk : s \in d.steps]_vars

\* A turn that acts, acts in the session it was asked for.
ActsInOwnSession ==
  [][Spared({"turn"}) /\ turn.at = "model" /\ turn'.at = "dispatch" => channel = turn.session]_vars
=============================================================================
