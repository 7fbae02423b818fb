------------------------ MODULE PlayerServiceProofs ------------------------
(***************************************************************************)
(* Proofs for any number of sessions, turns and stops: that a player is    *)
(* subscribed to no session but the one it is configured for, whatever     *)
(* handlers of earlier sessions are still at work; and, for behaviours     *)
(* that meet none of the troubles each property names, that its unread     *)
(* messages and feedback are of that session, its steps reach the disk,    *)
(* its turns act at home, its stops find a record and it is idle again.    *)
(* InductiveInv, defined beside the properties, is preserved by each       *)
(* action; one lemma per group of handlers.                                *)
(***************************************************************************)
EXTENDS PlayerService, TLAPS

\* The part of the invariant that is about subscriptions and messages.
Subscription == ConfiguresUnsubscribed /\ IdleIsUnsubscribed /\ OwnInbox
-----------------------------------------------------------------------------
(***************************************************************************)
(* Facts used by several steps.                                            *)
(***************************************************************************)

\* A configuration in flight, a turn in flight and a task at work are well-formed records
\* of a session.
LEMMA InFlight ==
  ASSUME InductiveInv
  PROVE  /\ configuring # Nothing => /\ configuring.session \in Sessions
                                     /\ configuring.at \in ConfigureStep
                                     /\ experiment \in Sessions
         /\ configuring.at # "none" => configuring # Nothing
         /\ turn # NoTurn => /\ turn.session \in Sessions
                             /\ turn.number \in 1..MaxTurns
                             /\ turn.at \in TurnStep
         /\ turn.at # "none" => turn # NoTurn
<1>1. configuring # Nothing => /\ configuring.session \in Sessions
                               /\ configuring.at \in ConfigureStep
  BY DEF InductiveInv, TypeOK
<1>2. configuring # Nothing => experiment \in Sessions
  BY <1>1 DEF InductiveInv, ConfiguresUnsubscribed
<1>3. configuring.at # "none" => configuring # Nothing
  BY DEF Nothing
<1>4. turn # NoTurn => /\ turn.session \in Sessions
                       /\ turn.number \in 1..MaxTurns
                       /\ turn.at \in TurnStep
  BY DEF InductiveInv, TypeOK
<1>5. turn.at # "none" => turn # NoTurn
  BY DEF NoTurn
<1> QED BY <1>1, <1>2, <1>3, <1>4, <1>5

\* A step that leaves the subscription alone, may leave the idle state but not enter it,
\* and may read messages, keeps the subscription part.
LEMMA ReadingKeeps ==
  ASSUME Subscription,
         UNCHANGED <<experiment, channel, subscriber, configuring>>,
         state' = "idle" => state = "idle",
         inbox' \subseteq inbox, met \subseteq met'
  PROVE  Subscription'
<1>1. ConfiguresUnsubscribed'
  BY DEF Subscription, ConfiguresUnsubscribed
<1>2. IdleIsUnsubscribed'
  BY DEF Subscription, IdleIsUnsubscribed
<1>3. OwnInbox'
  BY DEF Subscription, OwnInbox, Spared
<1> QED BY <1>1, <1>2, <1>3 DEF Subscription
-----------------------------------------------------------------------------
(***************************************************************************)
(* The initial state.                                                      *)
(***************************************************************************)
\* A player starts without an experiment, a subscription or a message.
LEMMA InitEstablishes == Init => InductiveInv
<1> SUFFICES ASSUME Init PROVE InductiveInv
  OBVIOUS
<1>1. TypeOK
  <2>1. tasks \in [1..MaxStops -> [at : TaskStep \cup {"none"},
                                   record : Record \cup {NoTask.record}]]
    BY DEF Init, NoTask
  <2>2. 0 \in 0..MaxSessions /\ 0 \in 0..MaxTurns
    BY PlayerConstants
  <2>3. state \in PlayerState /\ beat \in PlayerState /\ run \in RunStep
    BY DEF Init, PlayerState, RunStep
  <2> QED BY <2>1, <2>2, <2>3 DEF Init, TypeOK
<1>2. RunHasSession
  BY DEF Init, RunHasSession
<1>3. Subscription
  BY DEF Init, Subscription, ConfiguresUnsubscribed, IdleIsUnsubscribed, OwnInbox,
         Sessions
<1> QED BY <1>1, <1>2, <1>3 DEF InductiveInv, Subscription
-----------------------------------------------------------------------------
(***************************************************************************)
(* configure_for_experiment.                                               *)
(***************************************************************************)
\* A configuration begins on a player that is idle, and so not subscribed; it subscribes
\* at its end, from nothing.
LEMMA ConfigureStepKeeps == InductiveInv /\ Configure => InductiveInv'
<1> SUFFICES ASSUME InductiveInv, Configure PROVE InductiveInv'
  OBVIOUS
<1> USE DEF InductiveInv
<1>1. CASE BeginConfigure /\ state # "idle"
  <2>1. /\ UNCHANGED <<state, experiment, channel, subscriber, inbox, feedback, configuring>>
        /\ run' = "cleanup" /\ run = "configure" /\ met' = met
    BY <1>1 DEF BeginConfigure, messageVars
  <2>2. TypeOK'
    BY <1>1, <2>1 DEF BeginConfigure, TypeOK, messageVars, RunStep
  <2>3. RunHasSession'
    BY <1>1, <2>1 DEF BeginConfigure, RunHasSession
  <2>4. Subscription'
    BY <2>1, ReadingKeeps DEF Subscription
  <2> QED BY <2>2, <2>3, <2>4 DEF Subscription
<1>2. CASE BeginConfigure /\ state = "idle"
  <2>1. session \in Sessions
    BY <1>2 DEF BeginConfigure, RunHasSession
  <2>2. /\ experiment' = session /\ provenance' = session
        /\ state' = "configuring_experiment" /\ run' = "configuring"
        /\ configuring' = [session |-> session, at |-> "recorder"]
        /\ UNCHANGED <<beat, alive, steps, disk, channel, subscriber, inbox, feedback, turn, reflecting,
                       tasks, session, asked, is_stopping, met>>
    BY <1>2 DEF BeginConfigure, messageVars
  <2>3. subscriber = 0 /\ inbox = {}
    BY <1>2 DEF IdleIsUnsubscribed
  <2>4. TypeOK'
    <3>1. session \in 0..MaxSessions
      BY DEF TypeOK
    <3> QED BY <2>1, <2>2, <3>1 DEF TypeOK, PlayerState, RunStep, ConfigureStep
  <2>5. RunHasSession'
    BY <2>1, <2>2 DEF RunHasSession
  <2>6. ConfiguresUnsubscribed'
    BY <2>2, <2>3 DEF ConfiguresUnsubscribed
  <2>7. IdleIsUnsubscribed'
    BY <2>2, <2>3 DEF IdleIsUnsubscribed
  <2>8. OwnInbox'
    BY <2>2, <2>3 DEF OwnInbox, Spared
  <2> QED BY <2>4, <2>5, <2>6, <2>7, <2>8
<1>3. CASE ConfigureComponents
  <2>1. /\ configuring # Nothing /\ experiment \in Sessions
        /\ experiment = configuring.session /\ subscriber = 0 /\ inbox = {}
    BY <1>3, InFlight DEF ConfigureComponents, ConfiguresUnsubscribed
  <2>2. /\ channel' = experiment
        /\ configuring' = [session |-> experiment, at |-> "subscriber"]
        /\ UNCHANGED <<state, beat, alive, turn, reflecting, tasks, experiment, provenance, steps,
                       disk, subscriber, inbox, feedback, session, run, asked, is_stopping, met>>
    BY <1>3 DEF ConfigureComponents, recordVars, runVars
  <2>3. TypeOK'
    BY <2>1, <2>2 DEF TypeOK, ConfigureStep
  <2>4. RunHasSession'
    BY <2>2 DEF RunHasSession
  <2>5. ConfiguresUnsubscribed'
    BY <2>1, <2>2 DEF ConfiguresUnsubscribed
  <2>6. IdleIsUnsubscribed'
    BY <2>1, <2>2 DEF IdleIsUnsubscribed
  <2>7. OwnInbox'
    BY <2>1, <2>2 DEF OwnInbox, Spared
  <2> QED BY <2>3, <2>4, <2>5, <2>6, <2>7
<1>4. CASE ConfigureFails
  <2>1. /\ configuring' = Nothing
        /\ UNCHANGED <<state, beat, alive, turn, reflecting, tasks, experiment, provenance, steps,
                       disk, channel, subscriber, inbox, feedback, session, run, asked, is_stopping, met>>
    BY <1>4 DEF ConfigureFails, recordVars, messageVars, runVars
  <2>2. TypeOK'
    BY <2>1 DEF TypeOK
  <2>3. RunHasSession' /\ IdleIsUnsubscribed' /\ OwnInbox'
    BY <2>1 DEF RunHasSession, IdleIsUnsubscribed, OwnInbox, Spared
  <2>4. ConfiguresUnsubscribed'
    BY <2>1 DEF ConfiguresUnsubscribed
  <2> QED BY <2>2, <2>3, <2>4
<1>5. CASE FinishConfigure
  <2>1. /\ configuring # Nothing /\ experiment \in Sessions /\ configuring.at = "subscriber"
        /\ experiment = configuring.session /\ subscriber = 0 /\ inbox = {}
        /\ channel \in {0, experiment}
    BY <1>5, InFlight DEF FinishConfigure, ConfiguresUnsubscribed
  <2>2. /\ subscriber' = experiment /\ state' = "waiting_for_turn" /\ configuring' = Nothing
        /\ run' = IF run = "configuring" /\ session = configuring.session THEN "sync" ELSE run
        /\ UNCHANGED <<beat, alive, turn, reflecting, tasks, experiment, provenance, steps,
                       disk, channel, inbox, feedback, session, asked, is_stopping, met>>
    BY <1>5, <2>1 DEF FinishConfigure, recordVars
  <2>3. TypeOK'
    BY <2>1, <2>2 DEF TypeOK, PlayerState, RunStep
  <2>4. RunHasSession'
    BY <2>2 DEF RunHasSession
  <2>5. ConfiguresUnsubscribed'
    BY <2>2 DEF ConfiguresUnsubscribed
  <2>6. IdleIsUnsubscribed'
    BY <2>1, <2>2 DEF IdleIsUnsubscribed, Sessions
  <2>7. OwnInbox'
    <3>1. 0 \notin Sessions
      BY DEF Sessions
    <3> QED BY <2>1, <2>2, <3>1 DEF OwnInbox, Spared
  <2> QED BY <2>3, <2>4, <2>5, <2>6, <2>7
<1> QED BY <1>1, <1>2, <1>3, <1>4, <1>5 DEF Configure
-----------------------------------------------------------------------------
(***************************************************************************)
(* forward_pass and perform_reflection.                                    *)
(***************************************************************************)
\* A turn reads messages and tracks a step of its session; it never makes the player idle.
LEMMA TurnKeeps == InductiveInv /\ Turn => InductiveInv'
<1> SUFFICES ASSUME InductiveInv, Turn PROVE InductiveInv'
  OBVIOUS
<1> USE DEF InductiveInv
<1>1. /\ UNCHANGED <<beat, alive, configuring, reflecting, tasks, experiment, provenance, disk,
                     channel, subscriber, session, is_stopping, met>>
      /\ inbox' \subseteq inbox
      /\ feedback' \subseteq feedback \/ (turn # NoTurn /\ feedback' = feedback \cup {turn.session})
      /\ steps' \in {steps, steps \cup {<<turn.session, turn.number>>}}
      /\ turn = NoTurn => steps' = steps
      /\ asked' = asked \/ (asked < MaxTurns /\ asked' = asked + 1)
  <2>1. CASE ForwardPass
    BY <2>1 DEF ForwardPass, PullMessages, recordVars
  <2>2. CASE Observe \/ AskModel \/ Dispatch
    BY <2>2 DEF Observe, AskModel, Dispatch, TurnGoesOn, PullMessages, recordVars, runVars
  <2>3. CASE SkipTurn \/ TurnFails
    BY <2>3 DEF SkipTurn, TurnFails, EndTurn
  <2>4. CASE FinishTurn
    <3>1. turn # NoTurn
      BY <2>4 DEF FinishTurn, NoTurn
    <3> QED BY <2>4, <3>1 DEF FinishTurn, EndTurn, GenerateFeedbacks
  <2> QED BY <2>1, <2>2, <2>3, <2>4 DEF Turn
<1>2. state' \in PlayerState /\ (state' = "idle" => state = "idle")
  BY DEF Turn, ForwardPass, Observe, AskModel, Dispatch, SkipTurn, TurnFails, FinishTurn,
         TurnGoesOn, EndTurn, TypeOK, PlayerState
<1>3. run' \in RunStep /\ (run' # "none" => run # "none")
  BY DEF Turn, ForwardPass, Observe, AskModel, Dispatch, SkipTurn, TurnFails, FinishTurn,
         TurnGoesOn, EndTurn, TypeOK, RunStep, runVars
<1>4. asked' \in 0..MaxTurns
    BY <1>1, PlayerConstants DEF TypeOK
<1>5. turn' \in [session : Sessions, number : 1..MaxTurns, at : TurnStep] \cup {NoTurn}
  <2>1. CASE ForwardPass
    <3>1. session \in Sessions
      BY <2>1 DEF ForwardPass, RunHasSession
    <3>2. asked < MaxTurns => asked + 1 \in 1..MaxTurns
      BY PlayerConstants DEF TypeOK
    <3>3. turn' = turn \/ \E a \in TurnStep :
                            turn' = [session |-> session, number |-> asked + 1, at |-> a]
      BY <2>1 DEF ForwardPass, TurnStep
    <3>4. asked < MaxTurns
      BY <2>1 DEF ForwardPass
    <3> QED BY <3>1, <3>2, <3>3, <3>4 DEF TypeOK
  <2>2. CASE Observe \/ AskModel \/ Dispatch
    <3>1. turn # NoTurn
      BY <2>2, InFlight DEF Observe, AskModel, Dispatch, TurnGoesOn
    <3>2. \E a \in TurnStep : turn' = [turn EXCEPT !.at = a]
      BY <2>2 DEF Observe, AskModel, Dispatch, TurnGoesOn, TurnStep
    <3> QED BY <3>1, <3>2 DEF TypeOK
  <2>3. CASE SkipTurn \/ TurnFails \/ FinishTurn
    BY <2>3 DEF SkipTurn, TurnFails, FinishTurn, EndTurn
  <2> QED BY <2>1, <2>2, <2>3 DEF Turn
<1>6. steps' \subseteq StepIds
  <2>1. turn # NoTurn => <<turn.session, turn.number>> \in StepIds
    BY InFlight, PlayerConstants DEF StepIds
  <2> QED BY <1>1, <2>1 DEF TypeOK
<1>7. TypeOK'
  <2>1. feedback' \subseteq Sessions
    BY <1>1, InFlight DEF TypeOK
  <2> QED BY <1>1, <1>2, <1>3, <1>4, <1>5, <1>6, <2>1 DEF TypeOK
<1>8. RunHasSession'
  BY <1>1, <1>3 DEF RunHasSession
<1>9. Subscription'
  BY <1>1, <1>2, ReadingKeeps DEF Subscription
<1> QED BY <1>7, <1>8, <1>9 DEF Subscription

\* A reflection leaves the messages alone.
LEMMA ReflectKeeps == InductiveInv /\ Reflect => InductiveInv'
<1> SUFFICES ASSUME InductiveInv, Reflect PROVE InductiveInv'
  OBVIOUS
<1> USE DEF InductiveInv
<1>1. /\ UNCHANGED <<beat, alive, configuring, turn, tasks, experiment, provenance, disk,
                     channel, subscriber, inbox, feedback, session, asked, is_stopping>>
      /\ met \subseteq met'
  BY DEF Reflect, Reflection, FinishReflection, ReflectionFails, EndReflection, recordVars,
         messageVars
<1>2. state' \in PlayerState /\ (state' = "idle" => state = "idle")
  BY DEF Reflect, Reflection, FinishReflection, ReflectionFails, EndReflection, TypeOK,
         PlayerState, Stopping
<1>3. run' \in RunStep /\ (run' # "none" => run # "none")
  BY DEF Reflect, Reflection, FinishReflection, ReflectionFails, EndReflection, TypeOK, RunStep
<1>4. reflecting' \in 0..MaxSessions /\ met' \subseteq Troubles
  <2>1. 0 \in 0..MaxSessions
    BY PlayerConstants
  <2>2. /\ reflecting' \in {0, session, reflecting}
        /\ met' = met \/ ("recovery" \in Troubles /\ met' = met \cup {"recovery"})
    BY DEF Reflect, Reflection, FinishReflection, ReflectionFails, EndReflection
  <2> QED BY <2>1, <2>2 DEF TypeOK
<1>5. steps' \subseteq StepIds
  <2>1. reflecting # 0 => reflecting \in Sessions
    BY PlayerConstants DEF TypeOK, Sessions
  <2>2. reflecting # 0 => <<reflecting, 0>> \in StepIds
    BY <2>1, PlayerConstants DEF StepIds
  <2>3. steps' = steps \/ (steps' = steps \cup {<<reflecting, 0>>} /\ reflecting # 0)
    BY DEF Reflect, Reflection, FinishReflection, ReflectionFails, EndReflection, recordVars
  <2> QED BY <2>2, <2>3 DEF TypeOK
<1>6. TypeOK'
  BY <1>1, <1>2, <1>3, <1>4, <1>5 DEF TypeOK
<1>7. RunHasSession'
  BY <1>1, <1>3 DEF RunHasSession
<1>8. Subscription'
  BY <1>1, <1>2, ReadingKeeps DEF Subscription
<1> QED BY <1>6, <1>7, <1>8 DEF Subscription
-----------------------------------------------------------------------------
(***************************************************************************)
(* stop_player and its background task.                                    *)
(***************************************************************************)
\* A stop makes the player idle only after it has unsubscribed it, or before the first
\* experiment, and every reset takes the unread messages away.
LEMMA StopKeeps == InductiveInv /\ Stop => InductiveInv'
<1> SUFFICES ASSUME InductiveInv, Stop PROVE InductiveInv'
  OBVIOUS
<1> USE DEF InductiveInv
<1>1. CASE StopAfterGame \/ StopInCleanup
  <2>1. /\ UNCHANGED <<alive, configuring, turn, reflecting, experiment, provenance, steps, disk,
                       channel, subscriber, inbox, feedback, session, asked, is_stopping, met>>
        /\ state' \in {state, "stopping"} /\ beat' \in {beat, "stopping"}
        /\ run' \in {"stopped", "done"} /\ run # "none"
    BY <1>1 DEF StopAfterGame, StopInCleanup, StopPlayer, recordVars, messageVars
  <2>2. tasks' \in [1..MaxStops -> [at : TaskStep \cup {"none"},
                                    record : Record \cup {NoTask.record}]]
    <3>1. tasks' = tasks \/ \E t \in 1..MaxStops :
                              tasks' = [tasks EXCEPT ![t] = [NoTask EXCEPT !.at = "spawned"]]
      BY <1>1 DEF StopAfterGame, StopInCleanup, StopPlayer
    <3>2. [NoTask EXCEPT !.at = "spawned"] \in [at : TaskStep \cup {"none"},
                                                record : Record \cup {NoTask.record}]
      BY DEF NoTask, TaskStep
    <3> QED BY <3>1, <3>2 DEF TypeOK
  <2>3. TypeOK'
    BY <2>1, <2>2 DEF TypeOK, PlayerState, Stopping, RunStep
  <2>4. RunHasSession'
    BY <2>1 DEF RunHasSession
  <2>5. Subscription'
    BY <2>1, ReadingKeeps DEF Subscription
  <2> QED BY <2>3, <2>4, <2>5 DEF Subscription
<1>2. ASSUME NEW t \in 1..MaxStops, BeginStop(t) PROVE InductiveInv'
  <2>1. UNCHANGED <<beat, configuring, turn, reflecting, experiment, disk, subscriber,
                    session, run, asked, is_stopping, met>>
    BY <1>2 DEF BeginStop, runVars
  <2>2. RunHasSession'
    BY <2>1 DEF RunHasSession
  <2>3. CASE experiment = 0
    <3>1. /\ state' = "idle" /\ channel' = 0 /\ inbox' = {} /\ feedback' = {} /\ steps' = {} /\ provenance' = 0
          /\ tasks' = [tasks EXCEPT ![t] = NoTask] /\ UNCHANGED alive
      BY <1>2, <2>3 DEF BeginStop, Reset
    <3>2. subscriber = 0
      BY <2>3 DEF IdleIsUnsubscribed
    <3>3. TypeOK'
      <4>1. 0 \in 0..MaxSessions
        BY PlayerConstants
      <4>2. NoTask \in [at : TaskStep \cup {"none"}, record : Record \cup {NoTask.record}]
        BY DEF NoTask
      <4> QED BY <2>1, <3>1, <4>1, <4>2 DEF TypeOK, PlayerState
    <3>4. ConfiguresUnsubscribed'
      BY <2>1, <3>1 DEF ConfiguresUnsubscribed
    <3>5. IdleIsUnsubscribed'
      BY <2>1, <3>1, <3>2 DEF IdleIsUnsubscribed
    <3>6. OwnInbox'
      BY <3>1 DEF OwnInbox, Sessions
    <3> QED BY <2>2, <3>3, <3>4, <3>5, <3>6
  <2>4. CASE experiment # 0
    <3>1. /\ state' = "uploading" /\ alive' \in BOOLEAN
          /\ UNCHANGED <<channel, inbox, feedback, steps, provenance>>
          /\ \/ tasks' = tasks
             \/ tasks' = [tasks EXCEPT ![t] = [at |-> "saving",
                                               record |-> [session |-> experiment, steps |-> steps]]]
      BY <1>2, <2>4 DEF BeginStop, TypeOK
    <3>2. [session |-> experiment, steps |-> steps] \in Record
      <4>1. experiment \in Sessions
        BY <2>4, PlayerConstants DEF TypeOK, Sessions
      <4> QED BY <4>1 DEF TypeOK, Record
    <3>3. TypeOK'
      BY <2>1, <3>1, <3>2 DEF TypeOK, PlayerState, Stopping, TaskStep
    <3>4. Subscription'
      BY <2>1, <3>1, ReadingKeeps DEF Subscription
    <3> QED BY <2>2, <3>3, <3>4 DEF Subscription
  <2> QED BY <2>3, <2>4
<1>3. ASSUME NEW t \in 1..MaxStops, SaveRecord(t) PROVE InductiveInv'
  <2> DEFINE r == tasks[t].record
  <2>1. /\ UNCHANGED <<state, beat, alive, configuring, turn, reflecting, experiment, provenance,
                       steps, channel, subscriber, inbox, feedback, session, run, asked, is_stopping, met>>
        /\ disk' = IF r.steps = {} THEN disk ELSE {d \in disk : d.session # r.session} \cup {r}
        /\ tasks' = [tasks EXCEPT ![t] = [NoTask EXCEPT !.at = "unsubscribing"]]
    BY <1>3 DEF SaveRecord, messageVars, runVars
  <2>2. r \in Record \/ r.steps = {}
    BY DEF TypeOK, NoTask
  <2>3. TypeOK'
    <3>1. [NoTask EXCEPT !.at = "unsubscribing"] \in [at : TaskStep \cup {"none"},
                                                      record : Record \cup {NoTask.record}]
      BY DEF NoTask, TaskStep
    <3>2. disk' \subseteq Record
      BY <2>1, <2>2 DEF TypeOK
    <3> QED BY <2>1, <3>1, <3>2 DEF TypeOK
  <2>4. RunHasSession'
    BY <2>1 DEF RunHasSession
  <2>5. Subscription'
    BY <2>1, ReadingKeeps DEF Subscription
  <2> QED BY <2>3, <2>4, <2>5 DEF Subscription
<1>4. ASSUME NEW t \in 1..MaxStops, FinishStop(t) PROVE InductiveInv'
  <2>1. /\ state' = "idle" /\ channel' = 0 /\ inbox' = {} /\ feedback' = {} /\ steps' = {} /\ provenance' = 0
        /\ subscriber' = 0 /\ tasks' = [tasks EXCEPT ![t] = NoTask]
        /\ UNCHANGED <<beat, alive, configuring, turn, reflecting, experiment, disk,
                       session, run, asked, is_stopping, met>>
    BY <1>4 DEF FinishStop, Reset, runVars
  <2>2. TypeOK'
    <3>1. 0 \in 0..MaxSessions
      BY PlayerConstants
    <3>2. NoTask \in [at : TaskStep \cup {"none"}, record : Record \cup {NoTask.record}]
      BY DEF NoTask
    <3> QED BY <2>1, <3>1, <3>2 DEF TypeOK, PlayerState
  <2>3. RunHasSession'
    BY <2>1 DEF RunHasSession
  <2>4. ConfiguresUnsubscribed'
    BY <2>1 DEF ConfiguresUnsubscribed
  <2>5. IdleIsUnsubscribed'
    BY <2>1 DEF IdleIsUnsubscribed
  <2>6. OwnInbox'
    BY <2>1 DEF OwnInbox, Spared
  <2> QED BY <2>2, <2>3, <2>4, <2>5, <2>6
<1> QED BY <1>1, <1>2, <1>3, <1>4 DEF Stop
-----------------------------------------------------------------------------
(***************************************************************************)
(* The runner, heartbeats and messages.                                    *)
(***************************************************************************)
\* The runner changes nothing of the player by moving on.
LEMMA RunnerKeeps == InductiveInv /\ Runner => InductiveInv'
<1> SUFFICES ASSUME InductiveInv, Runner PROVE InductiveInv'
  OBVIOUS
<1> USE DEF InductiveInv
<1>1. UNCHANGED <<state, beat, alive, configuring, turn, reflecting, tasks, experiment, provenance,
                  steps, disk, channel, subscriber, inbox, feedback>>
  BY DEF Runner, StartSession, Abandon, SynchronizeServices, OtherClientCrashes, GameOver,
         NoBombState, AfterStop, PlayerIsDead, RunnerMoves, handlerVars, recordVars, messageVars
<1>2. CASE StartSession
  <2>1. /\ session' = session + 1 /\ session < MaxSessions /\ asked' = asked
        /\ is_stopping' = FALSE /\ run' = "configure" /\ met' = met
    BY <1>2 DEF StartSession
  <2>2. session' \in 0..MaxSessions /\ session' \in Sessions
    BY <2>1, PlayerConstants DEF TypeOK, Sessions
  <2>3. TypeOK'
    BY <1>1, <2>1, <2>2 DEF TypeOK, RunStep
  <2>4. RunHasSession'
    BY <2>2 DEF RunHasSession
  <2>5. Subscription'
    BY <1>1, <2>1, ReadingKeeps DEF Subscription
  <2> QED BY <2>3, <2>4, <2>5 DEF Subscription
<1>3. CASE ~StartSession
  <2>1. /\ UNCHANGED <<session, asked, is_stopping>>
        /\ run' \in RunStep /\ run # "none" /\ met' \subseteq Troubles /\ met \subseteq met'
    BY <1>3 DEF Runner, Abandon, SynchronizeServices, OtherClientCrashes, GameOver,
         NoBombState, AfterStop, PlayerIsDead, RunnerMoves, TypeOK, RunStep
  <2>2. TypeOK'
    BY <1>1, <2>1 DEF TypeOK
  <2>3. RunHasSession'
    BY <2>1 DEF RunHasSession
  <2>4. Subscription'
    BY <1>1, <2>1, ReadingKeeps DEF Subscription
  <2> QED BY <2>2, <2>3, <2>4 DEF Subscription
<1> QED BY <1>2, <1>3

\* A message arrives only while the player is subscribed to the session it is published for,
\* which it is neither when idle nor while it is being configured.
LEMMA MessageKeeps ==
  ASSUME InductiveInv, NEW i \in Sessions, HandleNewMessage(i)
  PROVE  InductiveInv'
<1> USE DEF InductiveInv
<1>1. /\ subscriber = i /\ i # 0 /\ met' \subseteq Troubles /\ met \subseteq met'
      /\ \E j \in Sessions : inbox' = inbox \cup {j} /\ (j = i \/ "peer" \in met')
      /\ UNCHANGED <<state, beat, alive, configuring, turn, reflecting, tasks, experiment,
                     provenance, steps, disk, channel, subscriber, feedback, session, run, asked,
                     is_stopping>>
  <2>1. \A j \in 1..(i - 1) : j \in Sessions
    BY PlayerConstants DEF Sessions
  <2>2. i # 0
    BY DEF Sessions
  <2> QED BY <2>1, <2>2 DEF HandleNewMessage, handlerVars, recordVars, TypeOK
<1>2. TypeOK'
  BY <1>1 DEF TypeOK
<1>3. RunHasSession'
  BY <1>1 DEF RunHasSession
<1>4. ConfiguresUnsubscribed'
  BY <1>1 DEF ConfiguresUnsubscribed
<1>5. IdleIsUnsubscribed'
  BY <1>1 DEF IdleIsUnsubscribed
<1>6. OwnInbox'
  BY <1>1 DEF OwnInbox, Spared
<1> QED BY <1>2, <1>3, <1>4, <1>5, <1>6

\* A heartbeat tells the state, and the watcher reads it.
LEMMA BeatKeeps == InductiveInv /\ (SendHeartbeat \/ UpdateServiceState) => InductiveInv'
<1> SUFFICES ASSUME InductiveInv, SendHeartbeat \/ UpdateServiceState PROVE InductiveInv'
  OBVIOUS
<1> USE DEF InductiveInv
<1>1. /\ UNCHANGED <<state, alive, configuring, turn, reflecting, tasks, experiment, provenance,
                     steps, disk, channel, subscriber, inbox, feedback, session, run, asked>>
      /\ beat' \in {beat, state} /\ is_stopping' \in BOOLEAN /\ met' \subseteq Troubles
      /\ met \subseteq met'
  BY DEF SendHeartbeat, UpdateServiceState, handlerVars, recordVars, messageVars, TypeOK
<1>2. TypeOK'
  BY <1>1 DEF TypeOK
<1>3. RunHasSession'
  BY <1>1 DEF RunHasSession
<1>4. Subscription'
  BY <1>1, ReadingKeeps DEF Subscription
<1> QED BY <1>2, <1>3, <1>4 DEF Subscription
-----------------------------------------------------------------------------
(***************************************************************************)
(* The theorems.                                                           *)
(***************************************************************************)
\* Every step of the player, its handlers and its runner preserves the invariant.
LEMMA StepKeeps == InductiveInv /\ [Next]_vars => InductiveInv'
<1> SUFFICES ASSUME InductiveInv, [Next]_vars PROVE InductiveInv'
  OBVIOUS
<1>1. CASE UNCHANGED vars
  <2>1. UNCHANGED <<state, beat, alive, configuring, turn, reflecting, tasks, experiment,
                    provenance, steps, disk, channel, subscriber, inbox, feedback, session, run, asked,
                    is_stopping, met>>
    BY <1>1 DEF vars, handlerVars, recordVars, messageVars, runVars
  <2> QED BY <2>1 DEF InductiveInv, TypeOK, RunHasSession, ConfiguresUnsubscribed,
                      IdleIsUnsubscribed, OwnInbox, Spared
<1>2. CASE Next
  BY <1>2, ConfigureStepKeeps, TurnKeeps, ReflectKeeps, StopKeeps, RunnerKeeps, MessageKeeps,
     BeatKeeps
  DEF Next
<1> QED BY <1>1, <1>2

\* The inductive invariant holds in every behaviour of a player, whatever the numbers of
\* sessions, turns and stops, and whatever troubles are met.
THEOREM PlayerInvariance == Spec => []InductiveInv
<1>1. Init => InductiveInv
  BY InitEstablishes
<1>2. InductiveInv /\ [Next]_vars => InductiveInv'
  BY StepKeeps
<1> QED BY <1>1, <1>2, PTL DEF Spec

\* The variables of a player keep their types.
THEOREM PlayerTypeCorrect == Spec => []TypeOK
<1>1. InductiveInv => TypeOK
  BY DEF InductiveInv
<1> QED BY <1>1, PlayerInvariance, PTL

-----------------------------------------------------------------------------
(***************************************************************************)
(* The life of a session: what its handlers have done when they are        *)
(* waited for.  A forward pass that outlives its RPC breaks all of this,   *)
(* so that everything here is said of behaviours that have met none.       *)
(***************************************************************************)

\* Where a runner may be before it has asked for a reflection, and where it may be while the
\* configuration of its own session stands.
Before  == {"configure", "configuring", "sync", "play", "playing", "reflect"}
Working == {"configuring", "sync", "play", "playing", "reflect", "reflecting", "stop"}

Busy(t) == tasks[t] # NoTask
Stopped == \E t \in 1..MaxStops : Busy(t)
InTime  == alive /\ Spared({"turn"})

\* One stop is at work at a time: the next is sent to a player that has been reset, or that has
\* not heeded the last.
OneTask == \A t, u \in 1..MaxStops : Busy(t) /\ Busy(u) => t = u

\* While it is, no turn and no reflection is, and no session begins.
TaskAlone ==
  Stopped => /\ turn = NoTurn /\ reflecting = 0
             /\ run \in {"stopped", "cleanup", "done"} /\ state # "idle" /\ beat # "idle"
             /\ run # "done" => configuring = Nothing /\ state \in Stopping

\* A turn ends within its RPC; a reflection and a configuration may outlive theirs.
HandlersWaited ==
  /\ turn # NoTurn => run = "playing" /\ turn.session = session
  /\ reflecting # 0 => /\ state = "reflecting" /\ configuring = Nothing
                       /\ run \in {"reflecting", "stop", "stopped", "cleanup", "done"}
  /\ run \in (Working \ {"configuring"}) \cup {"stopped"} => configuring = Nothing
  /\ run = "configuring" => configuring = Nothing \/ configuring.session = session

\* What a configuration has set stands until the stop.
Configured ==
  /\ run \in Working => experiment = session /\ provenance = session /\ state # "idle"
  /\ run \in Working \ {"configuring"} => channel = session
  /\ run = "configuring" /\ configuring.at = "subscriber" => channel = session

\* What the heartbeats and the watcher of a session can have said so far.
Seen ==
  /\ run \in {"play", "playing", "reflect", "reflecting", "stop"} => beat # "idle"
  /\ run \in Before => ~is_stopping /\ beat \notin Stopping /\ state \notin Stopping
  /\ state \in Stopping => beat # "idle" /\ (Stopped \/ state = "reflecting")

\* The record a stop writes has all the steps the player has tracked by the time it is reset.
StepsKept ==
  /\ steps # {} \/ reflecting # 0 => experiment # 0
  /\ \A t \in 1..MaxStops :
       /\ tasks[t].at = "saving" => tasks[t].record = [session |-> experiment, steps |-> steps]
       /\ tasks[t].at = "unsubscribing" => \A s \in steps : \E d \in disk : s \in d.steps

FlightInv ==
  InTime => OneTask /\ TaskAlone /\ HandlersWaited /\ Configured /\ Seen /\ StepsKept

\* What happens beside the handlers and the runner.
Aside == SendHeartbeat \/ UpdateServiceState \/ \E i \in Sessions : HandleNewMessage(i)

\* A configuration that is taken finds no stop at work; one that comes late changes the state of a
\* player only.
LEMMA ConfigureInFlight == InductiveInv /\ FlightInv /\ Configure => FlightInv'
<1> SUFFICES ASSUME InductiveInv, FlightInv, Configure, InTime'
             PROVE  OneTask' /\ TaskAlone' /\ HandlersWaited' /\ Configured' /\ Seen' /\ StepsKept'
  BY DEF FlightInv
<1> USE DEF Configure, BeginConfigure, ConfigureComponents, ConfigureFails, FinishConfigure,
        recordVars, messageVars, runVars, Busy, Stopped, Stopping
<1>1. InTime /\ OneTask /\ TaskAlone /\ HandlersWaited /\ Configured /\ Seen /\ StepsKept
  BY DEF FlightInv, InTime, Spared
<1>2. OneTask' /\ Stopped' = Stopped
  BY <1>1 DEF OneTask
<1>3. TaskAlone'
  BY <1>1, InFlight DEF InTime, Spared, HandlersWaited, TaskAlone, Working, Before
<1>4. HandlersWaited'
  BY <1>1, InFlight
  DEF InTime, Spared, HandlersWaited, Configured, Seen, Working, NoTurn, Nothing, InductiveInv,
      TypeOK
<1>5. Configured'
  BY <1>1, InFlight
  DEF InTime, Spared, HandlersWaited, TaskAlone, Configured, Working, Nothing, RunHasSession,
      InductiveInv
<1>6. Seen'
  BY <1>1, InFlight
  DEF InTime, Spared, HandlersWaited, TaskAlone, Configured, Seen, Before, Working, Nothing
<1>7. StepsKept'
  <2>1. steps' # {} \/ reflecting' # 0 => experiment' # 0
    BY <1>1, InFlight
    DEF InTime, Spared, HandlersWaited, Configured, StepsKept, Working, NoTurn, Nothing,
        RunHasSession, Sessions, InductiveInv
  <2>2. Stopped => UNCHANGED <<experiment, steps, disk>>
    BY <1>1, InFlight DEF TaskAlone, NoTurn
  <2>3. \A t \in 1..MaxStops : tasks[t].at # "none" => Stopped
    BY DEF NoTask
  <2> QED  BY <1>1, <2>1, <2>2, <2>3 DEF StepsKept
<1> QED  BY <1>2, <1>3, <1>4, <1>5, <1>6, <1>7

\* A turn is the runner's, and keeps what it finds.
LEMMA TurnInFlight == InductiveInv /\ FlightInv /\ Turn => FlightInv'
<1> SUFFICES ASSUME InductiveInv, FlightInv, Turn, InTime'
             PROVE  OneTask' /\ TaskAlone' /\ HandlersWaited' /\ Configured' /\ Seen' /\ StepsKept'
  BY DEF FlightInv
<1> USE DEF Turn, ForwardPass, Observe, AskModel, Dispatch, SkipTurn, TurnFails, FinishTurn,
            TurnGoesOn, EndTurn, recordVars, messageVars, runVars, Busy, Stopped, Stopping
<1>1. InTime /\ OneTask /\ TaskAlone /\ HandlersWaited /\ Configured /\ Seen /\ StepsKept
  BY DEF FlightInv, InTime, Spared
<1>2. OneTask' /\ Stopped' = Stopped
  BY <1>1 DEF OneTask
<1>3. TaskAlone'
  BY <1>1, InFlight DEF InTime, Spared, HandlersWaited, TaskAlone, Working, Before
<1>4. HandlersWaited'
  BY <1>1, InFlight
  DEF InTime, Spared, HandlersWaited, Configured, Seen, Working, NoTurn, Nothing, InductiveInv,
      TypeOK
<1>5. Configured'
  BY <1>1, InFlight
  DEF InTime, Spared, HandlersWaited, TaskAlone, Configured, Working, Nothing, RunHasSession,
      InductiveInv
<1>6. Seen'
  BY <1>1, InFlight
  DEF InTime, Spared, HandlersWaited, TaskAlone, Configured, Seen, Before, Working, Nothing
<1>7. StepsKept'
  <2>1. steps' # {} \/ reflecting' # 0 => experiment' # 0
    BY <1>1, InFlight
    DEF InTime, Spared, HandlersWaited, Configured, StepsKept, Working, NoTurn, Nothing,
        RunHasSession, Sessions, InductiveInv
  <2>2. Stopped => UNCHANGED <<experiment, steps, disk>>
    BY <1>1, InFlight DEF TaskAlone, NoTurn
  <2>3. \A t \in 1..MaxStops : tasks[t].at # "none" => Stopped
    BY DEF NoTask
  <2> QED  BY <1>1, <2>1, <2>2, <2>3 DEF StepsKept
<1> QED  BY <1>2, <1>3, <1>4, <1>5, <1>6, <1>7

\* A reflection begins where no stop is at work, and none begins before it ends.
LEMMA ReflectInFlight == InductiveInv /\ FlightInv /\ Reflect => FlightInv'
<1> SUFFICES ASSUME InductiveInv, FlightInv, Reflect, InTime'
             PROVE  OneTask' /\ TaskAlone' /\ HandlersWaited' /\ Configured' /\ Seen' /\ StepsKept'
  BY DEF FlightInv
<1> USE DEF Reflect, Reflection, FinishReflection, ReflectionFails, EndReflection,
        recordVars, messageVars, Busy, Stopped, Stopping
<1>1. InTime /\ OneTask /\ TaskAlone /\ HandlersWaited /\ Configured /\ Seen /\ StepsKept
  BY DEF FlightInv, InTime, Spared
<1>2. OneTask' /\ Stopped' = Stopped
  BY <1>1 DEF OneTask
<1>3. TaskAlone'
  BY <1>1, InFlight DEF InTime, Spared, HandlersWaited, TaskAlone, Working, Before
<1>4. HandlersWaited'
  BY <1>1, InFlight
  DEF InTime, Spared, HandlersWaited, Configured, Seen, Working, NoTurn, Nothing, InductiveInv,
      TypeOK
<1>5. Configured'
  BY <1>1, InFlight
  DEF InTime, Spared, HandlersWaited, TaskAlone, Configured, Working, Nothing, RunHasSession,
      InductiveInv
<1>6. Seen'
  BY <1>1, InFlight
  DEF InTime, Spared, HandlersWaited, TaskAlone, Configured, Seen, Before, Working, Nothing
<1>7. StepsKept'
  <2>1. steps' # {} \/ reflecting' # 0 => experiment' # 0
    BY <1>1, InFlight
    DEF InTime, Spared, HandlersWaited, Configured, StepsKept, Working, NoTurn, Nothing,
        RunHasSession, Sessions, InductiveInv
  <2>2. Stopped => UNCHANGED <<experiment, steps, disk>>
    BY <1>1, InFlight DEF TaskAlone, NoTurn
  <2>3. \A t \in 1..MaxStops : tasks[t].at # "none" => Stopped
    BY DEF NoTask
  <2> QED  BY <1>1, <2>1, <2>2, <2>3 DEF StepsKept
<1> QED  BY <1>2, <1>3, <1>4, <1>5, <1>6, <1>7

\* A runner that gives up goes to the cleanup, or on to the stop; a session begins on a player that
\* is idle or has not said otherwise.
LEMMA RunnerInFlight == InductiveInv /\ FlightInv /\ Runner => FlightInv'
<1> SUFFICES ASSUME InductiveInv, FlightInv, Runner, InTime'
             PROVE  OneTask' /\ TaskAlone' /\ HandlersWaited' /\ Configured' /\ Seen' /\ StepsKept'
  BY DEF FlightInv
<1> USE DEF Runner, StartSession, Abandon, SynchronizeServices, OtherClientCrashes, GameOver,
            NoBombState, AfterStop, PlayerIsDead, RunnerMoves, handlerVars, recordVars,
            messageVars, Busy, Stopped, Stopping
<1>1. InTime /\ OneTask /\ TaskAlone /\ HandlersWaited /\ Configured /\ Seen /\ StepsKept
  BY DEF FlightInv, InTime, Spared
<1>2. OneTask' /\ Stopped' = Stopped
  BY <1>1 DEF OneTask
<1>3. TaskAlone'
  BY <1>1, InFlight DEF InTime, Spared, HandlersWaited, TaskAlone, Working, Before
<1>4. HandlersWaited'
  BY <1>1, InFlight
  DEF InTime, Spared, HandlersWaited, Configured, Seen, Working, NoTurn, Nothing, InductiveInv,
      TypeOK
<1>5. Configured'
  BY <1>1, InFlight
  DEF InTime, Spared, HandlersWaited, TaskAlone, Configured, Working, Nothing, RunHasSession,
      InductiveInv
<1>6. Seen'
  BY <1>1, InFlight
  DEF InTime, Spared, HandlersWaited, TaskAlone, Configured, Seen, Before, Working, Nothing
<1>7. StepsKept'
  <2>1. steps' # {} \/ reflecting' # 0 => experiment' # 0
    BY <1>1, InFlight
    DEF InTime, Spared, HandlersWaited, Configured, StepsKept, Working, NoTurn, Nothing,
        RunHasSession, Sessions, InductiveInv
  <2>2. Stopped => UNCHANGED <<experiment, steps, disk>>
    BY <1>1, InFlight DEF TaskAlone, NoTurn
  <2>3. \A t \in 1..MaxStops : tasks[t].at # "none" => Stopped
    BY DEF NoTask
  <2> QED  BY <1>1, <2>1, <2>2, <2>3 DEF StepsKept
<1> QED  BY <1>2, <1>3, <1>4, <1>5, <1>6, <1>7

\* A heartbeat tells the state, the watcher reads it, and messages change nothing here.
LEMMA AsideInFlight == InductiveInv /\ FlightInv /\ Aside => FlightInv'
<1> SUFFICES ASSUME InductiveInv, FlightInv, Aside, InTime'
             PROVE  OneTask' /\ TaskAlone' /\ HandlersWaited' /\ Configured' /\ Seen' /\ StepsKept'
  BY DEF FlightInv
<1> USE DEF Aside, SendHeartbeat, UpdateServiceState, HandleNewMessage,
        handlerVars, recordVars, messageVars, runVars, Busy, Stopped, Stopping
<1>1. InTime /\ OneTask /\ TaskAlone /\ HandlersWaited /\ Configured /\ Seen /\ StepsKept
  BY DEF FlightInv, InTime, Spared
<1>2. OneTask' /\ Stopped' = Stopped
  BY <1>1 DEF OneTask
<1>3. TaskAlone'
  BY <1>1, InFlight DEF InTime, Spared, HandlersWaited, TaskAlone, Working, Before
<1>4. HandlersWaited'
  BY <1>1, InFlight
  DEF InTime, Spared, HandlersWaited, Configured, Seen, Working, NoTurn, Nothing, InductiveInv,
      TypeOK
<1>5. Configured'
  BY <1>1, InFlight
  DEF InTime, Spared, HandlersWaited, TaskAlone, Configured, Working, Nothing, RunHasSession,
      InductiveInv
<1>6. Seen'
  BY <1>1, InFlight
  DEF InTime, Spared, HandlersWaited, TaskAlone, Configured, Seen, Before, Working, Nothing
<1>7. StepsKept'
  <2>1. steps' # {} \/ reflecting' # 0 => experiment' # 0
    BY <1>1, InFlight
    DEF InTime, Spared, HandlersWaited, Configured, StepsKept, Working, NoTurn, Nothing,
        RunHasSession, Sessions, InductiveInv
  <2>2. Stopped => UNCHANGED <<experiment, steps, disk>>
    BY <1>1, InFlight DEF TaskAlone, NoTurn
  <2>3. \A t \in 1..MaxStops : tasks[t].at # "none" => Stopped
    BY DEF NoTask
  <2> QED  BY <1>1, <2>1, <2>2, <2>3 DEF StepsKept
<1> QED  BY <1>2, <1>3, <1>4, <1>5, <1>6, <1>7
\* A stop begins on a player that has no other at work, writes the steps as they are, and ends
\* with nothing to forget that it has not written.
LEMMA StopInFlight == InductiveInv /\ FlightInv /\ Stop => FlightInv'
<1> SUFFICES ASSUME InductiveInv, FlightInv, Stop, InTime'
             PROVE  OneTask' /\ TaskAlone' /\ HandlersWaited' /\ Configured' /\ Seen' /\ StepsKept'
  BY DEF FlightInv
<1> USE DEF Busy, Stopped, Stopping
<1>1. InTime /\ OneTask /\ TaskAlone /\ HandlersWaited /\ Configured /\ Seen /\ StepsKept
  BY DEF FlightInv, InTime, Spared, Stop, StopAfterGame, StopInCleanup, BeginStop, SaveRecord,
         FinishStop, runVars
<1>2. tasks \in [1..MaxStops -> [at : TaskStep \cup {"none"}, record : Record \cup {NoTask.record}]]
  BY DEF InductiveInv, TypeOK
<1>3. CASE StopAfterGame \/ StopInCleanup
  <2>1. /\ UNCHANGED <<configuring, turn, reflecting, experiment, provenance, steps, disk, channel,
                       session, is_stopping>>
        /\ \/ run = "stop" /\ run' = "stopped"
           \/ run = "cleanup" /\ run' = "done"
    BY <1>3 DEF StopAfterGame, StopInCleanup, recordVars, messageVars
  <2>2. CASE UNCHANGED <<state, beat, tasks>>
    <3>1. OneTask' /\ TaskAlone' /\ HandlersWaited'
      BY <1>1, <2>1, <2>2 DEF OneTask, TaskAlone, HandlersWaited, Working
    <3>2. Configured' /\ Seen' /\ StepsKept'
      BY <1>1, <2>1, <2>2 DEF Configured, Seen, StepsKept, Working, Before
    <3> QED  BY <3>1, <3>2
  <2>3. ASSUME NEW t \in 1..MaxStops, tasks[t] = NoTask, state \notin Stopping,
               state' = "stopping", beat' = "stopping",
               tasks' = [tasks EXCEPT ![t] = [NoTask EXCEPT !.at = "spawned"]]
        PROVE  OneTask' /\ TaskAlone' /\ HandlersWaited' /\ Configured' /\ Seen' /\ StepsKept'
    <3>1. ~Stopped /\ turn = NoTurn /\ reflecting = 0
      BY <1>1, <2>1, <2>3 DEF TaskAlone, HandlersWaited
    <3>2. /\ tasks'[t].at = "spawned" /\ tasks'[t] # NoTask
          /\ \A u \in 1..MaxStops : u # t => tasks'[u] = NoTask
      BY <1>2, <2>3, <3>1 DEF NoTask
    <3>3. OneTask' /\ StepsKept'
      BY <1>1, <2>1, <3>2 DEF OneTask, StepsKept, NoTask
    <3>4. TaskAlone' /\ HandlersWaited'
      BY <1>1, <2>1, <2>3, <3>1 DEF TaskAlone, HandlersWaited, Working
    <3>5. Configured' /\ Seen'
      BY <1>1, <2>1, <2>3, <3>2 DEF Configured, Seen, Working, Before
    <3> QED  BY <3>3, <3>4, <3>5
  <2> QED  BY <1>3, <2>2, <2>3 DEF StopAfterGame, StopInCleanup, StopPlayer
<1>4. ASSUME NEW t \in 1..MaxStops, BeginStop(t) \/ SaveRecord(t) \/ FinishStop(t)
      PROVE  OneTask' /\ TaskAlone' /\ HandlersWaited' /\ Configured' /\ Seen' /\ StepsKept'
  <2>1. /\ UNCHANGED <<beat, configuring, turn, reflecting, experiment, session, run, is_stopping>>
        /\ tasks[t].at # "none" /\ tasks[t] # NoTask
    BY <1>4 DEF BeginStop, SaveRecord, FinishStop, runVars, NoTask
  <2>2. /\ turn = NoTurn /\ reflecting = 0 /\ run \in {"stopped", "cleanup", "done"}
        /\ beat # "idle" /\ \A u \in 1..MaxStops : u # t => tasks[u] = NoTask
    BY <1>1, <2>1 DEF OneTask, TaskAlone
  <2>3. \/ tasks'[t] = [at |-> "saving", record |-> [session |-> experiment, steps |-> steps]]
           /\ state' = "uploading" /\ UNCHANGED <<provenance, steps, channel>>
        \/ SaveRecord(t) /\ tasks'[t] = [NoTask EXCEPT !.at = "unsubscribing"]
           /\ UNCHANGED <<state, provenance, steps, channel>>
        \/ tasks' = [tasks EXCEPT ![t] = NoTask] /\ state' = "idle" /\ steps' = {}
    <3>1. CASE BeginStop(t)
      <4>1. alive' # FALSE
        BY DEF InTime
      <4> QED  BY <1>2, <3>1, <4>1 DEF BeginStop, Reset
    <3>2. CASE SaveRecord(t)
      BY <1>2, <3>2 DEF SaveRecord, messageVars
    <3>3. CASE FinishStop(t)
      BY <3>3 DEF FinishStop, Reset
    <3> QED  BY <1>4, <3>1, <3>2, <3>3
  <2>4. \A u \in 1..MaxStops : u # t => tasks'[u] = tasks[u]
    BY <1>2, <1>4 DEF BeginStop, SaveRecord, FinishStop
  <2>5. ASSUME state' \in {state, "uploading"}, UNCHANGED <<provenance, steps, channel>>,
               tasks'[t].at \in {"saving", "unsubscribing"},
               tasks'[t].at = "saving" =>
                 tasks'[t].record = [session |-> experiment, steps |-> steps],
               tasks'[t].at = "unsubscribing" => \A s \in steps : \E d \in disk' : s \in d.steps
        PROVE  OneTask' /\ TaskAlone' /\ HandlersWaited' /\ Configured' /\ Seen' /\ StepsKept'
    <3>1. tasks'[t] # NoTask
      BY <2>5 DEF NoTask
    <3>2. OneTask' /\ TaskAlone' /\ HandlersWaited'
      BY <1>1, <2>1, <2>2, <2>4, <2>5, <3>1 DEF OneTask, TaskAlone, HandlersWaited, Working
    <3>3. Configured' /\ Seen'
      BY <1>1, <2>1, <2>2, <2>4, <2>5, <3>1 DEF Configured, Seen, Working, Before, TaskAlone
    <3>4. StepsKept'
      BY <1>1, <2>1, <2>2, <2>4, <2>5 DEF StepsKept, NoTask
    <3> QED  BY <3>2, <3>3, <3>4
  <2>6. CASE tasks' = [tasks EXCEPT ![t] = NoTask] /\ state' = "idle" /\ steps' = {}
    <3>1. \A u \in 1..MaxStops : tasks'[u] = NoTask
      BY <1>2, <2>2, <2>6
    <3>2. OneTask' /\ TaskAlone' /\ HandlersWaited'
      BY <1>1, <2>1, <2>2, <2>6, <3>1 DEF OneTask, TaskAlone, HandlersWaited, Working
    <3>3. Configured' /\ Seen'
      BY <1>1, <2>1, <2>2, <2>6, <3>1 DEF Configured, Seen, Working, Before
    <3>4. StepsKept'
      BY <2>1, <2>2, <2>6, <3>1 DEF StepsKept, NoTask
    <3> QED  BY <3>2, <3>3, <3>4
  <2>7. ASSUME SaveRecord(t), NEW s \in steps PROVE \E d \in disk' : s \in d.steps
    <3>1. /\ tasks[t].record = [session |-> experiment, steps |-> steps]
          /\ s \in tasks[t].record.steps /\ tasks[t].record.steps # {}
      BY <1>1, <2>7 DEF SaveRecord, StepsKept
    <3>2. tasks[t].record \in disk'
      BY <2>7, <3>1 DEF SaveRecord
    <3> QED  BY <3>1, <3>2
  <2> QED  BY <2>3, <2>5, <2>6, <2>7 DEF NoTask
<1> QED  BY <1>3, <1>4 DEF Stop
\* Every step keeps it, once it begins.
LEMMA FlightStep == InductiveInv /\ FlightInv /\ [Next]_vars => FlightInv'
<1> SUFFICES ASSUME InductiveInv, FlightInv, [Next]_vars PROVE FlightInv'
  OBVIOUS
<1>1. CASE UNCHANGED vars
  BY <1>1
  DEF vars, handlerVars, recordVars, messageVars, runVars, FlightInv, InTime, Spared, OneTask,
      TaskAlone, HandlersWaited, Configured, Seen, StepsKept, Busy, Stopped
<1>2. CASE Next
  BY <1>2, ConfigureInFlight, TurnInFlight, ReflectInFlight, StopInFlight, RunnerInFlight,
     AsideInFlight DEF Next, Aside
<1> QED  BY <1>1, <1>2

\* From the first state on.
LEMMA FlightsAreKept == Spec => [](InductiveInv /\ FlightInv)
<1>1. Init => FlightInv
  BY DEF Init, FlightInv, OneTask, TaskAlone, HandlersWaited, Configured, Seen, StepsKept, Busy,
         Stopped, Working, Before, Stopping, NoTask
<1>2. FlightInv /\ InductiveInv /\ [Next]_vars => FlightInv'
  BY FlightStep
<1> QED  BY <1>1, <1>2, PlayerInvariance, PTL DEF Spec

\* The second buffer.  A turn in flight is one of the session the player is configured for, so
\* that the feedback it leaves is too; a player that is idle or being configured has none.
FeedbackInv ==
  Spared({"turn"}) =>
    /\ state = "idle" \/ configuring # Nothing => feedback = {}
    /\ channel # 0 => feedback \subseteq {channel}

\* A step that leaves the buffer as it is, reads it or clears it, and configures and resets no
\* player, keeps this.
LEMMA UntoldKeeps ==
  ASSUME FeedbackInv, met \subseteq met', feedback' \subseteq feedback,
         UNCHANGED <<configuring, channel>>,
         state' = "idle" => state = "idle"
  PROVE  FeedbackInv'
BY DEF FeedbackInv, Spared

\* Configurations begin and end with nothing unread, a turn tells the session it is made in, and a
\* reset clears all.
LEMMA FeedbackStep == InductiveInv /\ FlightInv /\ FeedbackInv /\ [Next]_vars => FeedbackInv'
<1> SUFFICES ASSUME InductiveInv, FlightInv, FeedbackInv, [Next]_vars PROVE FeedbackInv'
  OBVIOUS
<1>1. CASE UNCHANGED vars
  BY <1>1, UntoldKeeps DEF vars, handlerVars, messageVars, runVars
<1>2. CASE Configure
  <2>1. met' = met /\ feedback' = feedback
    BY <1>2 DEF Configure, BeginConfigure, ConfigureComponents, ConfigureFails, FinishConfigure,
                messageVars, runVars
  <2>2. /\ configuring' # Nothing => configuring # Nothing \/ state = "idle"
        /\ state' = "idle" => state = "idle"
        /\ channel' = channel \/ configuring # Nothing
    BY <1>2, InFlight
    DEF Configure, BeginConfigure, ConfigureComponents, ConfigureFails, FinishConfigure,
        messageVars
  <2> QED BY <2>1, <2>2 DEF FeedbackInv, Spared
<1>3. CASE FinishTurn
  <2> SUFFICES ASSUME Spared({"turn"})
               PROVE  /\ state' # "idle" /\ configuring' = Nothing
                      /\ channel' # 0 => feedback' \subseteq {channel'}
    BY <1>3 DEF FeedbackInv, Spared, FinishTurn, EndTurn
  <2>1. HandlersWaited /\ Configured /\ turn # NoTurn
    BY <1>3 DEF FlightInv, InTime, FinishTurn, NoTurn
  <2>2. turn.session = session /\ channel = session /\ configuring = Nothing
    BY <2>1 DEF HandlersWaited, Configured, Working
  <2> QED BY <1>3, <2>2 DEF FinishTurn, EndTurn, GenerateFeedbacks, FeedbackInv
<1>4. CASE Turn /\ ~FinishTurn
  BY <1>4, UntoldKeeps
  DEF Turn, ForwardPass, Observe, AskModel, Dispatch, SkipTurn, TurnFails, TurnGoesOn, EndTurn,
      PullMessages, runVars
<1>5. CASE Reflect
  BY <1>5, UntoldKeeps
  DEF Reflect, Reflection, FinishReflection, ReflectionFails, EndReflection, messageVars
<1>6. CASE StopAfterGame \/ StopInCleanup
  BY <1>6, UntoldKeeps DEF StopAfterGame, StopInCleanup, StopPlayer, messageVars
<1>7. ASSUME NEW t \in 1..MaxStops, BeginStop(t) \/ SaveRecord(t) \/ FinishStop(t)
      PROVE  FeedbackInv'
  <2>1. CASE Reset
    BY <2>1 DEF Reset, FeedbackInv
  <2>2. CASE ~Reset
    BY <1>7, <2>2, UntoldKeeps DEF BeginStop, SaveRecord, FinishStop, messageVars, runVars
  <2> QED BY <2>1, <2>2
<1>8. CASE Runner
  BY <1>8, UntoldKeeps
  DEF Runner, StartSession, Abandon, SynchronizeServices, OtherClientCrashes, GameOver,
      NoBombState, AfterStop, PlayerIsDead, RunnerMoves, handlerVars, messageVars
<1>9. CASE Aside
  BY <1>9, UntoldKeeps
  DEF Aside, SendHeartbeat, UpdateServiceState, HandleNewMessage, handlerVars, messageVars
<1> QED BY <1>1, <1>2, <1>3, <1>4, <1>5, <1>6, <1>7, <1>8, <1>9 DEF Next, Stop, Aside

\* What a player has not read is of the session its message handler is configured for: the other
\* player's messages unless a turn of that player outlived its session, the feedback unless a turn
\* of its own outlived its RPC; and it is subscribed to no other session, whatever handlers of
\* earlier ones are still at work.
THEOREM ReadsOwnMessages == Spec => []OwnMessagesOnly
<1>1. Init => FeedbackInv
  BY DEF Init, FeedbackInv
<1>2. InductiveInv /\ FlightInv /\ FeedbackInv /\ [Next]_vars => FeedbackInv'
  BY FeedbackStep
<1>3. InductiveInv /\ FeedbackInv => OwnMessagesOnly
  <2>1. 0 \notin Sessions
    BY DEF Sessions
  <2> QED BY <2>1 DEF InductiveInv, FeedbackInv, OwnMessagesOnly, OwnFeedback
<1> QED BY <1>1, <1>2, <1>3, FlightsAreKept, PTL DEF Spec

\* A step that the recorder forgets is in a record on disk: no reset overtakes the upload of a stop,
\* unless a turn has outlived its RPC.
THEOREM StepsAreSaved == Spec => StepsReachDisk
<1> DEFINE Lost == Spared({"turn"}) => \A s \in steps \ steps' : \E d \in disk : s \in d.steps
<1>1. InductiveInv /\ FlightInv /\ [Next]_vars => [Lost]_vars
  <2> SUFFICES ASSUME InductiveInv, FlightInv, Next, Spared({"turn"}), NEW s \in steps \ steps'
               PROVE  \E d \in disk : s \in d.steps
    OBVIOUS
  <2>1. \E t \in 1..MaxStops : (BeginStop(t) /\ experiment = 0) \/ FinishStop(t)
    BY DEF Next, Configure, BeginConfigure, ConfigureComponents, ConfigureFails, FinishConfigure,
           Turn, ForwardPass, Observe, AskModel, Dispatch, SkipTurn, TurnFails, FinishTurn,
           TurnGoesOn, EndTurn, Reflect, Reflection, FinishReflection, ReflectionFails,
           EndReflection, Stop, StopAfterGame, StopInCleanup, BeginStop, SaveRecord, Runner,
           StartSession, Abandon, SynchronizeServices, OtherClientCrashes, GameOver, NoBombState,
           AfterStop, PlayerIsDead, RunnerMoves, SendHeartbeat, UpdateServiceState,
           HandleNewMessage, recordVars
  <2>2. StepsKept
    BY <2>1 DEF FlightInv, InTime, BeginStop, FinishStop
  <2> QED  BY <2>1, <2>2 DEF StepsKept, FinishStop
<1> QED  BY <1>1, FlightsAreKept, PTL DEF Spec, StepsReachDisk

\* A turn that acts has the message handler of the session it was asked for, unless it has outlived
\* its RPC: no late stop or configuration comes between its model's answer and its message.
THEOREM TurnsActAtHome == Spec => ActsInOwnSession
<1> DEFINE AtHome ==
      Spared({"turn"}) /\ turn.at = "model" /\ turn'.at = "dispatch" => channel = turn.session
<1>1. InductiveInv /\ FlightInv /\ [Next]_vars => [AtHome]_vars
  <2> SUFFICES ASSUME InductiveInv, FlightInv, Next, Spared({"turn"}), turn.at = "model",
                      turn'.at = "dispatch"
               PROVE  channel = turn.session
    OBVIOUS
  <2>1. turn # NoTurn /\ turn'.at # turn.at
    BY DEF NoTurn
  <2>2. Dispatch
    BY <2>1
    DEF Next, Configure, BeginConfigure, ConfigureComponents, ConfigureFails, FinishConfigure,
        Turn, ForwardPass, Observe, AskModel, SkipTurn, TurnFails, FinishTurn, TurnGoesOn, NoTurn,
        EndTurn, Reflect, Reflection, FinishReflection, ReflectionFails, EndReflection, Stop,
        StopAfterGame, StopInCleanup, BeginStop, SaveRecord, FinishStop, Runner, StartSession,
        Abandon, SynchronizeServices, OtherClientCrashes, GameOver, NoBombState, AfterStop,
        PlayerIsDead, RunnerMoves, SendHeartbeat, UpdateServiceState, HandleNewMessage,
        handlerVars
  <2>3. HandlersWaited /\ Configured
    BY <2>2 DEF FlightInv, InTime, Dispatch, TurnGoesOn
  <2> QED  BY <2>1, <2>3 DEF HandlersWaited, Configured, Working
<1> QED  BY <1>1, FlightsAreKept, PTL DEF Spec, ActsInOwnSession
-----------------------------------------------------------------------------
(***************************************************************************)
(* Stops that find something to save, and players that are idle again.     *)
(***************************************************************************)

\* Every stop that is spawned finds the provenance of its session: the watcher has seen the first
\* before the cleanup could send a second, ...
StopsFind ==
  /\ \A t \in 1..MaxStops : tasks[t].at = "spawned" => provenance # 0
  /\ run = "stopped" => is_stopping \/ beat \in Stopping \/ (~Stopped /\ provenance # 0)
  /\ run = "cleanup" => is_stopping \/ (~Stopped /\ provenance # 0)

\* ... and no session begins with a player that is not idle.
BeginsIdle ==
  /\ configuring # Nothing => run = "configuring"
  /\ run = "configure" => state = "idle"
  /\ run \in {"none", "done"} /\ beat = "idle" => state = "idle"
  /\ run \in {"stopped", "cleanup"} /\ is_stopping /\ beat = "idle" => state = "idle"

Survived   == Spared({"skip", "configure", "turn", "missed"})
SurviveInv == Survived => alive /\ StopsFind /\ BeginsIdle

\* Where configurations and reflections end in time, ...
EndsInTime ==
  /\ configuring # Nothing => run = "configuring"
  /\ reflecting # 0 => run = "reflecting"
  /\ state = "reflecting" => reflecting # 0

\* ... a player that is not idle between sessions has a stop at work that will reset it.
LeftIdle ==
  /\ run \in {"none", "done", "configure", "stopped"} => Stopped \/ state = "idle"
  /\ run = "cleanup" /\ (is_stopping \/ beat \in Stopping) => Stopped \/ state = "idle"

Returned  == Spared({"configure", "turn", "reflection", "recovery", "bomb_state"})
ReturnInv == alive /\ Returned => EndsInTime /\ LeftIdle

\* A configuration begins on a player that is idle, and is waited for.
LEMMA ConfigureSurvives ==
  InductiveInv /\ FlightInv /\ SurviveInv /\ Configure => SurviveInv'
<1> SUFFICES ASSUME InductiveInv, FlightInv, SurviveInv, Configure, Survived'
             PROVE  alive' /\ StopsFind' /\ BeginsIdle'
  BY DEF SurviveInv
<1> USE DEF Configure, BeginConfigure, ConfigureComponents, ConfigureFails, FinishConfigure,
            recordVars, messageVars, runVars, Busy, Stopped, Stopping, Survived, Spared
<1>1. alive /\ StopsFind /\ BeginsIdle /\ TaskAlone /\ HandlersWaited /\ Configured /\ Seen
  BY DEF FlightInv, InTime, SurviveInv
<1>2. alive'
  BY <1>1
<1>3. run # "none" => session # 0
  BY DEF InductiveInv, RunHasSession, Sessions
<1>4. StopsFind'
  BY <1>1, <1>3, InFlight
  DEF StopsFind, BeginsIdle, TaskAlone, HandlersWaited, Configured, Seen, Working, Before,
      NoTask, NoTurn, Nothing
<1>5. /\ configuring' # Nothing => run' = "configuring"
      /\ run' = "configure" => state' = "idle"
  BY <1>1, <1>3, InFlight
  DEF BeginsIdle, TaskAlone, HandlersWaited, Configured, Seen, Working, Before, NoTask,
      NoTurn, Nothing
<1>6. run' \in {"none", "done"} /\ beat' = "idle" => state' = "idle"
  BY <1>1, InFlight
  DEF BeginsIdle, TaskAlone, HandlersWaited, Configured, Seen, Working, Before, NoTask,
      NoTurn, Nothing
<1>7. run' \in {"stopped", "cleanup"} /\ is_stopping' /\ beat' = "idle" => state' = "idle"
  BY <1>1, InFlight
  DEF BeginsIdle, TaskAlone, HandlersWaited, Configured, Seen, Working, Before, NoTask,
      NoTurn, Nothing
<1> QED  BY <1>2, <1>4, <1>5, <1>6, <1>7 DEF BeginsIdle

\* A turn that fails sends the session to a cleanup that finds its provenance.
LEMMA TurnSurvives ==
  InductiveInv /\ FlightInv /\ SurviveInv /\ Turn => SurviveInv'
<1> SUFFICES ASSUME InductiveInv, FlightInv, SurviveInv, Turn, Survived'
             PROVE  alive' /\ StopsFind' /\ BeginsIdle'
  BY DEF SurviveInv
<1> USE DEF Turn, ForwardPass, Observe, AskModel, Dispatch, SkipTurn, TurnFails, FinishTurn,
            TurnGoesOn, EndTurn, recordVars, messageVars, runVars, Busy, Stopped, Stopping,
            Survived, Spared
<1>1. alive /\ StopsFind /\ BeginsIdle /\ TaskAlone /\ HandlersWaited /\ Configured /\ Seen
  BY DEF FlightInv, InTime, SurviveInv
<1>2. alive'
  BY <1>1
<1>3. run # "none" => session # 0
  BY DEF InductiveInv, RunHasSession, Sessions
<1>4. StopsFind'
  BY <1>1, <1>3, InFlight
  DEF StopsFind, BeginsIdle, TaskAlone, HandlersWaited, Configured, Seen, Working, Before,
      NoTask, NoTurn, Nothing
<1>5. /\ configuring' # Nothing => run' = "configuring"
      /\ run' = "configure" => state' = "idle"
  BY <1>1, <1>3, InFlight
  DEF BeginsIdle, TaskAlone, HandlersWaited, Configured, Seen, Working, Before, NoTask,
      NoTurn, Nothing
<1>6. run' \in {"none", "done"} /\ beat' = "idle" => state' = "idle"
  BY <1>1, InFlight
  DEF BeginsIdle, TaskAlone, HandlersWaited, Configured, Seen, Working, Before, NoTask,
      NoTurn, Nothing
<1>7. run' \in {"stopped", "cleanup"} /\ is_stopping' /\ beat' = "idle" => state' = "idle"
  BY <1>1, InFlight
  DEF BeginsIdle, TaskAlone, HandlersWaited, Configured, Seen, Working, Before, NoTask,
      NoTurn, Nothing
<1> QED  BY <1>2, <1>4, <1>5, <1>6, <1>7 DEF BeginsIdle

\* A stop that comes while the player reflects leaves the provenance to the next.
LEMMA ReflectSurvives ==
  InductiveInv /\ FlightInv /\ SurviveInv /\ Reflect => SurviveInv'
<1> SUFFICES ASSUME InductiveInv, FlightInv, SurviveInv, Reflect, Survived'
             PROVE  alive' /\ StopsFind' /\ BeginsIdle'
  BY DEF SurviveInv
<1> USE DEF Reflect, Reflection, FinishReflection, ReflectionFails, EndReflection, recordVars,
            messageVars, Busy, Stopped, Stopping, Survived, Spared
<1>1. alive /\ StopsFind /\ BeginsIdle /\ TaskAlone /\ HandlersWaited /\ Configured /\ Seen
  BY DEF FlightInv, InTime, SurviveInv
<1>2. alive'
  BY <1>1
<1>3. run # "none" => session # 0
  BY DEF InductiveInv, RunHasSession, Sessions
<1>4. StopsFind'
  BY <1>1, <1>3, InFlight
  DEF StopsFind, BeginsIdle, TaskAlone, HandlersWaited, Configured, Seen, Working, Before,
      NoTask, NoTurn, Nothing
<1>5. /\ configuring' # Nothing => run' = "configuring"
      /\ run' = "configure" => state' = "idle"
  BY <1>1, <1>3, InFlight
  DEF BeginsIdle, TaskAlone, HandlersWaited, Configured, Seen, Working, Before, NoTask,
      NoTurn, Nothing
<1>6. run' \in {"none", "done"} /\ beat' = "idle" => state' = "idle"
  BY <1>1, InFlight
  DEF BeginsIdle, TaskAlone, HandlersWaited, Configured, Seen, Working, Before, NoTask,
      NoTurn, Nothing
<1>7. run' \in {"stopped", "cleanup"} /\ is_stopping' /\ beat' = "idle" => state' = "idle"
  BY <1>1, InFlight
  DEF BeginsIdle, TaskAlone, HandlersWaited, Configured, Seen, Working, Before, NoTask,
      NoTurn, Nothing
<1> QED  BY <1>2, <1>4, <1>5, <1>6, <1>7 DEF BeginsIdle

\* A runner that moves on to the cleanup has had its stop seen, or has sent none.
LEMMA RunnerSurvives ==
  InductiveInv /\ FlightInv /\ SurviveInv /\ Runner => SurviveInv'
<1> SUFFICES ASSUME InductiveInv, FlightInv, SurviveInv, Runner, Survived'
             PROVE  alive' /\ StopsFind' /\ BeginsIdle'
  BY DEF SurviveInv
<1> USE DEF Runner, StartSession, Abandon, SynchronizeServices, OtherClientCrashes, GameOver,
            NoBombState, AfterStop, PlayerIsDead, RunnerMoves, Polled, handlerVars, recordVars,
            messageVars, Busy, Stopped, Stopping, Survived, Spared
<1>1. alive /\ StopsFind /\ BeginsIdle /\ TaskAlone /\ HandlersWaited /\ Configured /\ Seen
  BY DEF FlightInv, InTime, SurviveInv
<1>2. alive'
  BY <1>1
<1>3. run # "none" => session # 0
  BY DEF InductiveInv, RunHasSession, Sessions
<1>4. StopsFind'
  BY <1>1, <1>3, InFlight
  DEF StopsFind, BeginsIdle, TaskAlone, HandlersWaited, Configured, Seen, Working, Before,
      NoTask, NoTurn, Nothing
<1>5. /\ configuring' # Nothing => run' = "configuring"
      /\ run' = "configure" => state' = "idle"
  BY <1>1, <1>3, InFlight
  DEF BeginsIdle, TaskAlone, HandlersWaited, Configured, Seen, Working, Before, NoTask,
      NoTurn, Nothing
<1>6. run' \in {"none", "done"} /\ beat' = "idle" => state' = "idle"
  BY <1>1, InFlight
  DEF BeginsIdle, TaskAlone, HandlersWaited, Configured, Seen, Working, Before, NoTask,
      NoTurn, Nothing
<1>7. run' \in {"stopped", "cleanup"} /\ is_stopping' /\ beat' = "idle" => state' = "idle"
  BY <1>1, InFlight
  DEF BeginsIdle, TaskAlone, HandlersWaited, Configured, Seen, Working, Before, NoTask,
      NoTurn, Nothing
<1> QED  BY <1>2, <1>4, <1>5, <1>6, <1>7 DEF BeginsIdle

\* A heartbeat does not hide a stop before the watcher has polled.
LEMMA AsideSurvives ==
  InductiveInv /\ FlightInv /\ SurviveInv /\ Aside => SurviveInv'
<1> SUFFICES ASSUME InductiveInv, FlightInv, SurviveInv, Aside, Survived'
             PROVE  alive' /\ StopsFind' /\ BeginsIdle'
  BY DEF SurviveInv
<1> USE DEF Aside, SendHeartbeat, UpdateServiceState, HandleNewMessage, Polled, handlerVars,
            recordVars, messageVars, runVars, Busy, Stopped, Stopping, Survived, Spared
<1>1. alive /\ StopsFind /\ BeginsIdle /\ TaskAlone /\ HandlersWaited /\ Configured /\ Seen
  BY DEF FlightInv, InTime, SurviveInv
<1>2. alive'
  BY <1>1
<1>3. run # "none" => session # 0
  BY DEF InductiveInv, RunHasSession, Sessions
<1>4. StopsFind'
  BY <1>1, <1>3, InFlight
  DEF StopsFind, BeginsIdle, TaskAlone, HandlersWaited, Configured, Seen, Working, Before,
      NoTask, NoTurn, Nothing
<1>5. /\ configuring' # Nothing => run' = "configuring"
      /\ run' = "configure" => state' = "idle"
  BY <1>1, <1>3, InFlight
  DEF BeginsIdle, TaskAlone, HandlersWaited, Configured, Seen, Working, Before, NoTask,
      NoTurn, Nothing
<1>6. run' \in {"none", "done"} /\ beat' = "idle" => state' = "idle"
  BY <1>1, InFlight
  DEF BeginsIdle, TaskAlone, HandlersWaited, Configured, Seen, Working, Before, NoTask,
      NoTurn, Nothing
<1>7. run' \in {"stopped", "cleanup"} /\ is_stopping' /\ beat' = "idle" => state' = "idle"
  BY <1>1, InFlight
  DEF BeginsIdle, TaskAlone, HandlersWaited, Configured, Seen, Working, Before, NoTask,
      NoTurn, Nothing
<1> QED  BY <1>2, <1>4, <1>5, <1>6, <1>7 DEF BeginsIdle
\* A configuration ends in time.
LEMMA ConfigureReturns ==
  InductiveInv /\ FlightInv /\ ReturnInv /\ Configure => ReturnInv'
<1> SUFFICES ASSUME InductiveInv, FlightInv, ReturnInv, Configure, alive', Returned'
             PROVE  EndsInTime' /\ LeftIdle'
  BY DEF ReturnInv
<1> USE DEF Configure, BeginConfigure, ConfigureComponents, ConfigureFails, FinishConfigure,
            recordVars, messageVars, runVars, Busy, Stopped, Stopping, Returned, Spared
<1>1. alive /\ EndsInTime /\ LeftIdle /\ TaskAlone /\ HandlersWaited /\ Configured /\ Seen
  BY DEF FlightInv, InTime, ReturnInv
<1>2. configuring' # Nothing => run' = "configuring"
  BY <1>1, InFlight
  DEF EndsInTime, HandlersWaited, Working, Before, NoTask, NoTurn, Nothing
<1>3. run # "none" => session # 0
  BY DEF InductiveInv, RunHasSession, Sessions
<1>4. /\ reflecting' # 0 => run' = "reflecting"
      /\ state' = "reflecting" => reflecting' # 0
  BY <1>1, <1>3, InFlight
  DEF EndsInTime, HandlersWaited, TaskAlone, Working, Before, NoTask, NoTurn, Nothing
<1>5. LeftIdle'
  BY <1>1, InFlight
  DEF EndsInTime, LeftIdle, TaskAlone, HandlersWaited, Seen, Working, Before, NoTask, NoTurn,
      Nothing
<1> QED  BY <1>2, <1>4, <1>5 DEF EndsInTime

\* A turn makes no player idle, and leaves none reflecting.
LEMMA TurnReturns ==
  InductiveInv /\ FlightInv /\ ReturnInv /\ Turn => ReturnInv'
<1> SUFFICES ASSUME InductiveInv, FlightInv, ReturnInv, Turn, alive', Returned'
             PROVE  EndsInTime' /\ LeftIdle'
  BY DEF ReturnInv
<1> USE DEF Turn, ForwardPass, Observe, AskModel, Dispatch, SkipTurn, TurnFails, FinishTurn,
            TurnGoesOn, EndTurn, recordVars, messageVars, runVars, Busy, Stopped, Stopping,
            Returned, Spared
<1>1. alive /\ EndsInTime /\ LeftIdle /\ TaskAlone /\ HandlersWaited /\ Configured /\ Seen
  BY DEF FlightInv, InTime, ReturnInv
<1>2. configuring' # Nothing => run' = "configuring"
  BY <1>1, InFlight
  DEF EndsInTime, HandlersWaited, Working, Before, NoTask, NoTurn, Nothing
<1>3. run # "none" => session # 0
  BY DEF InductiveInv, RunHasSession, Sessions
<1>4. /\ reflecting' # 0 => run' = "reflecting"
      /\ state' = "reflecting" => reflecting' # 0
  BY <1>1, <1>3, InFlight
  DEF EndsInTime, HandlersWaited, TaskAlone, Working, Before, NoTask, NoTurn, Nothing
<1>5. LeftIdle'
  BY <1>1, InFlight
  DEF EndsInTime, LeftIdle, TaskAlone, HandlersWaited, Seen, Working, Before, NoTask, NoTurn,
      Nothing
<1> QED  BY <1>2, <1>4, <1>5 DEF EndsInTime

\* A reflection ends in time.
LEMMA ReflectReturns ==
  InductiveInv /\ FlightInv /\ ReturnInv /\ Reflect => ReturnInv'
<1> SUFFICES ASSUME InductiveInv, FlightInv, ReturnInv, Reflect, alive', Returned'
             PROVE  EndsInTime' /\ LeftIdle'
  BY DEF ReturnInv
<1> USE DEF Reflect, Reflection, FinishReflection, ReflectionFails, EndReflection, recordVars,
            messageVars, Busy, Stopped, Stopping, Returned, Spared
<1>1. alive /\ EndsInTime /\ LeftIdle /\ TaskAlone /\ HandlersWaited /\ Configured /\ Seen
  BY DEF FlightInv, InTime, ReturnInv
<1>2. configuring' # Nothing => run' = "configuring"
  BY <1>1, InFlight
  DEF EndsInTime, HandlersWaited, Working, Before, NoTask, NoTurn, Nothing
<1>3. run # "none" => session # 0
  BY DEF InductiveInv, RunHasSession, Sessions
<1>4. /\ reflecting' # 0 => run' = "reflecting"
      /\ state' = "reflecting" => reflecting' # 0
  BY <1>1, <1>3, InFlight
  DEF EndsInTime, HandlersWaited, TaskAlone, Working, Before, NoTask, NoTurn, Nothing
<1>5. LeftIdle'
  BY <1>1, InFlight
  DEF EndsInTime, LeftIdle, TaskAlone, HandlersWaited, Seen, Working, Before, NoTask, NoTurn,
      Nothing
<1> QED  BY <1>2, <1>4, <1>5 DEF EndsInTime

\* A stop is sent to a player that will heed it, and a session begins with one that is idle.
LEMMA RunnerReturns ==
  InductiveInv /\ FlightInv /\ ReturnInv /\ Runner => ReturnInv'
<1> SUFFICES ASSUME InductiveInv, FlightInv, ReturnInv, Runner, alive', Returned'
             PROVE  EndsInTime' /\ LeftIdle'
  BY DEF ReturnInv
<1> USE DEF Runner, StartSession, Abandon, SynchronizeServices, OtherClientCrashes, GameOver,
            NoBombState, AfterStop, PlayerIsDead, RunnerMoves, Polled, handlerVars, recordVars,
            messageVars, Busy, Stopped, Stopping, Returned, Spared
<1>1. alive /\ EndsInTime /\ LeftIdle /\ TaskAlone /\ HandlersWaited /\ Configured /\ Seen
  BY DEF FlightInv, InTime, ReturnInv
<1>2. configuring' # Nothing => run' = "configuring"
  BY <1>1, InFlight
  DEF EndsInTime, HandlersWaited, Working, Before, NoTask, NoTurn, Nothing
<1>3. run # "none" => session # 0
  BY DEF InductiveInv, RunHasSession, Sessions
<1>4. /\ reflecting' # 0 => run' = "reflecting"
      /\ state' = "reflecting" => reflecting' # 0
  BY <1>1, <1>3, InFlight
  DEF EndsInTime, HandlersWaited, TaskAlone, Working, Before, NoTask, NoTurn, Nothing
<1>5. LeftIdle'
  BY <1>1, InFlight
  DEF EndsInTime, LeftIdle, TaskAlone, HandlersWaited, Seen, Working, Before, NoTask, NoTurn,
      Nothing
<1> QED  BY <1>2, <1>4, <1>5 DEF EndsInTime

\* What the watcher takes for stopping is.
LEMMA AsideReturns ==
  InductiveInv /\ FlightInv /\ ReturnInv /\ Aside => ReturnInv'
<1> SUFFICES ASSUME InductiveInv, FlightInv, ReturnInv, Aside, alive', Returned'
             PROVE  EndsInTime' /\ LeftIdle'
  BY DEF ReturnInv
<1> USE DEF Aside, SendHeartbeat, UpdateServiceState, HandleNewMessage, Polled, handlerVars,
            recordVars, messageVars, runVars, Busy, Stopped, Stopping, Returned, Spared
<1>1. alive /\ EndsInTime /\ LeftIdle /\ TaskAlone /\ HandlersWaited /\ Configured /\ Seen
  BY DEF FlightInv, InTime, ReturnInv
<1>2. configuring' # Nothing => run' = "configuring"
  BY <1>1, InFlight
  DEF EndsInTime, HandlersWaited, Working, Before, NoTask, NoTurn, Nothing
<1>3. run # "none" => session # 0
  BY DEF InductiveInv, RunHasSession, Sessions
<1>4. /\ reflecting' # 0 => run' = "reflecting"
      /\ state' = "reflecting" => reflecting' # 0
  BY <1>1, <1>3, InFlight
  DEF EndsInTime, HandlersWaited, TaskAlone, Working, Before, NoTask, NoTurn, Nothing
<1>5. LeftIdle'
  BY <1>1, InFlight
  DEF EndsInTime, LeftIdle, TaskAlone, HandlersWaited, Seen, Working, Before, NoTask, NoTurn,
      Nothing
<1> QED  BY <1>2, <1>4, <1>5 DEF EndsInTime
\* What a stop does: it is sent, to a player that heeds it or not, ...
StopSent ==
  /\ (run = "stop" /\ run' = "stopped") \/ (run = "cleanup" /\ run' = "done")
  /\ UNCHANGED <<alive, provenance>>
  /\ \/ /\ state \in Stopping \/ (run = "cleanup" /\ is_stopping)
        /\ UNCHANGED <<state, beat, tasks>>
     \/ /\ state \notin Stopping /\ state' = "stopping" /\ beat' = "stopping"
        /\ run = "cleanup" => ~is_stopping
        /\ ~Stopped /\ Stopped'

\* ... its task goes on, or fails for the want of a provenance, ...
StopGoesOn ==
  /\ UNCHANGED <<beat, run, provenance>> /\ state' \in {state, "uploading"}
  /\ Stopped /\ Stopped'
  /\ \A t \in 1..MaxStops : tasks'[t].at = "spawned" => tasks[t].at = "spawned"
  /\ UNCHANGED alive \/ \E t \in 1..MaxStops : tasks[t].at = "spawned" /\ provenance = 0

\* ... or ends.
StopEnds == UNCHANGED <<beat, run, alive>> /\ state' = "idle" /\ Stopped /\ ~Stopped'

\* A stop does one of these, and leaves the other handlers alone.
LEMMA StopMoves ==
  ASSUME InductiveInv, FlightInv, InTime, Stop
  PROVE  /\ UNCHANGED <<configuring, turn, reflecting, experiment, session, is_stopping, met>>
         /\ StopSent \/ StopGoesOn \/ StopEnds
<1> USE DEF Busy, Stopped, Stopping
<1>1. OneTask /\ TaskAlone /\ HandlersWaited
  BY DEF FlightInv
<1>2. tasks \in [1..MaxStops -> [at : TaskStep \cup {"none"}, record : Record \cup {NoTask.record}]]
  BY DEF InductiveInv, TypeOK
<1>3. CASE StopAfterGame \/ StopInCleanup
  <2>1. /\ UNCHANGED <<configuring, turn, reflecting, experiment, session, is_stopping, met>>
        /\ (run = "stop" /\ run' = "stopped") \/ (run = "cleanup" /\ run' = "done")
        /\ UNCHANGED <<alive, provenance>>
    BY <1>3 DEF StopAfterGame, StopInCleanup, recordVars, messageVars
  <2>2. \/ /\ state \in Stopping \/ (run = "cleanup" /\ is_stopping)
           /\ UNCHANGED <<state, beat, tasks>>
        \/ StopPlayer /\ state \notin Stopping /\ (run = "cleanup" => ~is_stopping)
    BY <1>3 DEF StopAfterGame, StopInCleanup, StopPlayer
  <2>3. ASSUME StopPlayer, state \notin Stopping
        PROVE  state' = "stopping" /\ beat' = "stopping" /\ ~Stopped /\ Stopped'
    <3>1. ~Stopped
      BY <1>1, <2>1, <2>3 DEF TaskAlone
    <3>2. PICK t \in 1..MaxStops : tasks' = [tasks EXCEPT ![t] = [NoTask EXCEPT !.at = "spawned"]]
      BY <2>3 DEF StopPlayer
    <3>3. tasks'[t].at = "spawned" /\ tasks'[t] # NoTask
      BY <1>2, <3>2 DEF NoTask
    <3> QED  BY <2>3, <3>1, <3>3 DEF StopPlayer
  <2> QED  BY <2>1, <2>2, <2>3 DEF StopSent
<1>4. ASSUME NEW t \in 1..MaxStops, BeginStop(t) \/ SaveRecord(t) \/ FinishStop(t)
      PROVE  /\ UNCHANGED <<configuring, turn, reflecting, experiment, session, is_stopping, met>>
             /\ StopGoesOn \/ StopEnds
  <2>1. /\ UNCHANGED <<configuring, turn, reflecting, experiment, session, is_stopping, met>>
        /\ UNCHANGED <<beat, run>> /\ tasks[t] # NoTask
    BY <1>4 DEF BeginStop, SaveRecord, FinishStop, runVars, NoTask
  <2>2. \A u \in 1..MaxStops : u # t => tasks[u] = NoTask /\ tasks'[u] = tasks[u]
    BY <1>1, <1>2, <1>4, <2>1 DEF OneTask, BeginStop, SaveRecord, FinishStop
  <2>3. CASE tasks' = [tasks EXCEPT ![t] = NoTask] /\ state' = "idle" /\ UNCHANGED alive
    BY <1>2, <2>1, <2>2, <2>3 DEF StopEnds
  <2>4. CASE /\ UNCHANGED <<tasks, provenance>> /\ state' = "uploading"
             /\ tasks[t].at = "spawned" /\ provenance = 0
    BY <2>1, <2>4 DEF StopGoesOn
  <2>5. CASE /\ tasks'[t].at \in {"saving", "unsubscribing"} /\ state' \in {state, "uploading"}
             /\ UNCHANGED <<alive, provenance>>
    BY <2>1, <2>2, <2>5 DEF NoTask, StopGoesOn
  <2>6. CASE BeginStop(t)
    <3>1. CASE experiment = 0
      BY <2>3, <2>6, <3>1 DEF BeginStop, Reset
    <3>2. CASE experiment # 0 /\ provenance # 0
      <4>1. /\ state' = "uploading"
            /\ tasks' = [tasks EXCEPT ![t] = [at |-> "saving",
                                              record |-> [session |-> experiment, steps |-> steps]]]
        BY <2>6, <3>2, Zenon DEF BeginStop
      <4>2. UNCHANGED <<alive, provenance>>
        BY <2>6, <3>2 DEF BeginStop
      <4> QED  BY <1>2, <2>5, <4>1, <4>2
    <3>3. CASE experiment # 0 /\ provenance = 0
      BY <2>4, <2>6, <3>3 DEF BeginStop
    <3> QED  BY <3>1, <3>2, <3>3
  <2>7. CASE SaveRecord(t)
    BY <1>2, <2>5, <2>7 DEF SaveRecord, NoTask
  <2>8. CASE FinishStop(t)
    BY <2>3, <2>8 DEF FinishStop, Reset
  <2> QED  BY <1>4, <2>1, <2>3, <2>4, <2>5, <2>6, <2>7, <2>8
<1> QED  BY <1>3, <1>4 DEF Stop

\* Where provenance is there when it is sent, it is there when the task begins.
LEMMA StopSurvives == InductiveInv /\ FlightInv /\ SurviveInv /\ Stop => SurviveInv'
<1> SUFFICES ASSUME InductiveInv, FlightInv, SurviveInv, Stop, Survived'
             PROVE  alive' /\ StopsFind' /\ BeginsIdle'
  BY DEF SurviveInv
<1>1. met' = met
  BY DEF Stop, StopAfterGame, StopInCleanup, BeginStop, SaveRecord, FinishStop, runVars
<1>2. /\ alive /\ InTime /\ StopsFind /\ BeginsIdle
      /\ OneTask /\ TaskAlone /\ HandlersWaited /\ Configured /\ Seen
  BY <1>1 DEF FlightInv, InTime, SurviveInv, Survived, Spared
<1>3. run # "none" => session # 0
  BY DEF InductiveInv, RunHasSession, Sessions
<1>4. /\ UNCHANGED <<configuring, is_stopping>>
      /\ StopSent \/ StopGoesOn \/ StopEnds
  BY <1>2, StopMoves
<1>5. alive'
  BY <1>2, <1>4 DEF StopSent, StopGoesOn, StopEnds, StopsFind
<1>6. BeginsIdle'
  BY <1>2, <1>4 DEF BeginsIdle, StopSent, StopGoesOn, StopEnds, TaskAlone, HandlersWaited, Seen,
         Working
<1>7. ASSUME NEW t \in 1..MaxStops, tasks'[t].at = "spawned" PROVE provenance' # 0
  <2>1. CASE StopSent
    BY <1>2, <1>3, <1>7, <2>1 DEF StopsFind, StopSent, Configured, Working
  <2>2. CASE StopGoesOn
    BY <1>2, <1>7, <2>2 DEF StopsFind, StopGoesOn
  <2>3. CASE StopEnds
    BY <1>7, <2>3 DEF StopEnds, Stopped, Busy, NoTask
  <2> QED  BY <1>4, <2>1, <2>2, <2>3
<1>8. /\ run' = "stopped" => is_stopping' \/ beat' \in Stopping \/ (~Stopped' /\ provenance' # 0)
      /\ run' = "cleanup" => is_stopping' \/ (~Stopped' /\ provenance' # 0)
  <2>1. CASE StopSent
    <3>1. UNCHANGED tasks => Stopped' = Stopped
      BY DEF Stopped, Busy
    <3> QED  BY <1>2, <1>3, <2>1, <3>1 DEF StopSent, TaskAlone, Configured, Working, Stopping
  <2>2. CASE StopGoesOn \/ StopEnds
    BY <1>2, <1>4, <2>2 DEF StopsFind, StopGoesOn, StopEnds
  <2> QED  BY <1>4, <2>1, <2>2
<1> QED  BY <1>5, <1>6, <1>7, <1>8 DEF StopsFind

\* A stop that is sent is heeded, and resets the player.
LEMMA StopReturns == InductiveInv /\ FlightInv /\ ReturnInv /\ Stop => ReturnInv'
<1> SUFFICES ASSUME InductiveInv, FlightInv, ReturnInv, Stop, alive', Returned'
             PROVE  EndsInTime' /\ LeftIdle'
  BY DEF ReturnInv
<1>1. met' = met /\ alive
  BY DEF Stop, StopAfterGame, StopInCleanup, BeginStop, SaveRecord, FinishStop, runVars
<1>2. /\ alive /\ InTime /\ EndsInTime /\ LeftIdle
      /\ TaskAlone /\ HandlersWaited /\ Seen
  BY <1>1 DEF FlightInv, InTime, ReturnInv, Returned, Spared
<1>3. /\ UNCHANGED <<configuring, reflecting, is_stopping>>
      /\ StopSent \/ StopGoesOn \/ StopEnds
  BY <1>2, StopMoves
<1>4. EndsInTime'
  BY <1>2, <1>3
  DEF EndsInTime, StopSent, StopGoesOn, StopEnds, TaskAlone, HandlersWaited, Working
<1>5. LeftIdle'
  BY <1>2, <1>3
  DEF EndsInTime, LeftIdle, StopSent, StopGoesOn, StopEnds, TaskAlone, HandlersWaited, Seen,
      Stopped, Busy, Stopping, Working
<1> QED  BY <1>4, <1>5

\* Every step keeps both.
LEMMA SurvivalStep ==
  InductiveInv /\ FlightInv /\ SurviveInv /\ ReturnInv /\ [Next]_vars => SurviveInv' /\ ReturnInv'
<1> SUFFICES ASSUME InductiveInv, FlightInv, SurviveInv, ReturnInv, [Next]_vars
             PROVE  SurviveInv' /\ ReturnInv'
  OBVIOUS
<1>1. CASE UNCHANGED vars
  BY <1>1 DEF vars, handlerVars, recordVars, messageVars, runVars, SurviveInv, Survived, Spared,
     StopsFind, BeginsIdle, ReturnInv, Returned, EndsInTime, LeftIdle, Stopped, Busy
<1>2. CASE Next
  <2>1. SurviveInv'
    BY <1>2, ConfigureSurvives, TurnSurvives, ReflectSurvives, StopSurvives, RunnerSurvives,
       AsideSurvives DEF Next, Aside
  <2>2. ReturnInv'
    BY <1>2, ConfigureReturns, TurnReturns, ReflectReturns, StopReturns, RunnerReturns,
       AsideReturns DEF Next, Aside
  <2> QED  BY <2>1, <2>2
<1> QED  BY <1>1, <1>2

\* From the first state on.
LEMMA PlayersAreKept == Spec => [](InductiveInv /\ FlightInv /\ SurviveInv /\ ReturnInv)
<1>1. Init => SurviveInv /\ ReturnInv
  BY DEF Init, SurviveInv, StopsFind, BeginsIdle, ReturnInv, EndsInTime, LeftIdle, Stopped, Busy,
         NoTask, Stopping
<1>2. InductiveInv /\ FlightInv /\ SurviveInv /\ ReturnInv /\ [Next]_vars
        => SurviveInv' /\ ReturnInv'
  BY SurvivalStep
<1> QED  BY <1>1, <1>2, FlightsAreKept, PTL DEF Spec

\* No stop takes the player's process down for the want of a record to build, unless a session
\* failed before it had configured the player, a configuration or a turn outlived its RPC, or the
\* watcher missed the heartbeat of the stop.
THEOREM StopsSpare == Spec => []SurvivesStops
<1>1. SurviveInv => SurvivesStops
  BY DEF SurviveInv, Survived, SurvivesStops, BuildsConfigured
<1> QED  BY <1>1, PlayersAreKept, PTL

\* A player that lives and has no handler at work is idle between sessions, and so can be given to
\* the next one, unless a handler outlived its RPC, a reflection failed, or the stop went without a
\* bomb state.
THEOREM PlayersReturn == Spec => []ReturnedUnlessOutlived
<1>1. ReturnInv => ReturnedUnlessOutlived
  BY DEF ReturnInv, Returned, ReturnedUnlessOutlived, HealthyIsReturned, LeftIdle, Quiet, Stopped,
         Busy
<1> QED  BY <1>1, PlayersAreKept, PTL
=============================================================================
