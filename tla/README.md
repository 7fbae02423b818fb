# TLA+ models of GPTNT

GPTNT runs experiments in which one or two language-model players defuse a bomb in *Keep Talking
and Nobody Explodes*, and turns their records into results on a leaderboard. Behind an experiment
is a small distributed system: an experiment manager (EM), player services and game services,
separate processes that talk over Redis (heartbeats, RPC, messages), spawned and watched by an
orchestrator. Everything is `asyncio`: within a process nothing is preempted, and everything may
happen at an `await`. Before and after an experiment there are files: suites and their lock,
compiled manuals, records, a results database, submission bundles. They are written and read by
commands that may run at any time, in any order and several at once, and that may be interrupted.

This directory models the parts in which a mistake costs experiments or falsifies results: who may
use which service when, what one session does to its game and its players, what a player asks its
model and what it makes of the answer, what becomes of the processes of a run, which records count
as a result, which manual a player reads, and what a leaderboard entry stands for.

| module | what it is |
|---|---|
| `ExperimentManager` | the EM: registry, queue, matchmaking, sessions with their runners, and the services as the EM sees them |
| `AttemptLifecycle` | abstract specification: what the EM promises for an attempt and its services |
| `ExperimentRunner` | one experiment: the runner, its watchers of game and players, force stop, exceptions, cleanup; extends `GameService` |
| `GameService` | one game service: the game process, its supervisor and state monitor, the handlers a session calls |
| `PlayerService` | one player service, its handlers, recorder and messages, over consecutive sessions |
| `AgentTurn` | the turns of one player at its model: prompt, truncation, answer or exception, recovery, dispatch, feedback, record |
| `ReactParser` | the parser of the responses of models that think out loud |
| `Processes` | `gptnt run` and the child processes it starts, watches and terminates |
| `Results` | records of sessions, the two ledgers, reruns and submits, cleanup commands, the results database |
| `ManualStore` | the content-addressed store of compiled manuals, with its downloads and concurrent commands |
| `Submission` | suites and their lock, provenance, bundles, the submissions repository and the board |
| `MC...` | the instance of the module of that name that TLC checks |
| `ExperimentManagerProofs`, `PlayerServiceProofs`, `ExperimentRunnerProofs`, `AgentTurnProofs`, `ProcessesProofs`, `ResultsProofs`, `ManualStoreProofs`, `SubmissionProofs` | TLAPS proofs about these modules; the first also that `ExperimentManager` implements `AttemptLifecycle` |

Paths below are relative to `src/src/gptnt/`, docs to `src/docs/`.

## 1. Inventory

### Experiment manager, session, matchmaking, queue API
`interactive/services/experiment_manager/{experiment_manager,session,matchmaking,api}.py` -
`ExperimentManager`

- *State*: `specs` (the queue), `sessions` (list of running sessions), a service registry; per
  session the manifests it was created with, a cancel scope, and a runner.
- *Operations*: `add_experiment_specs` (HTTP), `try_match_experiments`, `start_experiment`,
  `cleanup_finished_sessions`, `_handle_expired_service`, `Session.run`, `force_stop_experiment`,
  `Session.cleanup`.
- *Interaction*: three loops in one task group (registry rounds, matchmaking, one task per
  session) share the manifests. Matchmaking sleeps a second after each session it starts and goes
  on with what it read before; expiry tasks force-stop sessions by uuid; the HTTP handler reads the
  queue and the sessions at any await.
- *Hard*: stale snapshots across sleeps; marking by uuid against holding by manifest object; an
  exception in a loop ends the whole EM.
- *Correct if*: no service is in two sessions; no attempt is in flight twice or dropped; every
  marked service has a session that will release it; a session whose service has died is stopped;
  every session ends.

### Service registry
`interactive/services/registry/{registry,manifest}.py` - `ExperimentManager`

- *State*: `connected_services` (uuid to manifest: last heartbeat copied, `ServiceState`).
- *Operations*: a round reads all heartbeat hashes, creates manifests for unknown uuids, updates
  known ones, and runs an expiry task for each that has lapsed; `ready_players`, `ready_games`.
- *Hard*: a service that stalls and comes back gets a second manifest; readiness is that of the
  last heartbeat; expiry tasks await Redis several times before they act.

### Experiment runner
`interactive/services/experiment_manager/experiment_runner.py` - `ExperimentRunner`

- *State*: `ExperimentState`, `client_crashed_event`, watchers of game and players.
- *Operations*: configure, synchronise, sync or async loop, reflection, stop of all players,
  cleanup (shielded from cancellation), exception handler.
- *Hard*: every RPC may time out while the handler at the other end goes on; cancellation by force
  stop at any await; exceptions outside the caught classes; waits without timeouts.
- *Correct if*: turns of a sync experiment never overlap and never run against the clock; the
  records of the players agree and say whether the game was played out; every player is told to
  stop; the runner ends, the EM survives it, and the game is ready again.

### Game service
`interactive/services/game/*.py` - `GameService`

- *State*: the game process, the supervisor that restarts it, the state monitor's copy of the
  scene with its events, ready state, expected death.
- *Operations*: configure, pause, unpause, advance time, bomb state, stop.
- *Hard*: the state is polled every two seconds; the process may die, expected or not, while a
  handler waits; a restart clears events others wait for.

### Player service, message handler, client
`interactive/services/player/*.py` - `PlayerService`

- *State*: `PlayerState`, protocol and experiment instance of the current (or last) experiment,
  recorder, conversation, message handler with its subscriber and its two buffers of unread
  messages and feedback.
- *Operations*: `configure_for_experiment`, `forward_pass`, `perform_reflection`, `stop_player` and
  its background task, `reset`, heartbeats.
- *Hard*: each RPC command has its own subscriber, so handlers of different commands interleave at
  every await; nothing cancels a handler when its session is over; `stop` returns before its work
  is done; `reset` races with all of them.
- *Correct if*: messages, feedback, steps and records stay with their session; what the recorder
  forgets is on disk; the player survives every stop and becomes idle again. Where the code fails
  in this, which is wherever a handler outlives its RPC, the properties name the case and section 9
  describes it.

### Agent turn and reasoning parsers
`players/{action_predictor,exception_recovery,base_action_dispatcher}.py`, `players/conversation/`,
`players/feedback/`, `players/reasoning_parser/` - `AgentTurn`, `ReactParser`

- *State*: the conversation (pinned entries, turns, frames kept in memory), the two counters of its
  truncation, unpulled feedback; in the parser depths, buffers, tag events and blocks.
- *Operations*: render and ask, recover, dispatch, record the step, join the turn, reflect.
- *Hard*: nothing is concurrent, but state is read twice (for the request, for the record) and
  decided by a measure of the prompt before last; errors travel through several objects that
  replace each other's lists; a response may have its tags in any order.
- *Correct if*: the next prompt fits; the record says what was asked; a skipped turn is explained;
  what the parser drops is reported.

### Process orchestration
`interactive/orchestration/{orchestrator,spawn}.py`, `cli/run/{_pipeline,_monitor}.py` - `Processes`

- *State*: tracked processes with their status, a shutdown event, the stage of the pipeline.
- *Operations*: spawn EM, rooms, players; wait for the EM; submit; monitor; terminate with a grace
  period.
- *Hard*: a child may exit and a signal may come in any stage; the deadline of the readiness check
  may cut a teardown short.
- *Correct if*: no process outlives the run, the run reports what happened, trouble ends it.

### Recorder, records, ledgers, results database
`experiments/recorder/`, `experiments/ledger/`, `experiments/db/`, `experiments/wandb/` and the
commands over them - `Results` (and `PlayerService` for the record of one session)

- *State*: one Parquet file and one W&B run per player and session; the database.
- *Operations*: stop, write and replace, finish the W&B run; scan of a ledger, run, submit;
  `cleanup-outputs`, `cleanup-wandb`; build of the database.
- *Hard*: one of two records missing; records of crashed sessions beside valid ones; commands
  that read footers while players save and come back to the paths later; a session played again
  under the same path.
- *Correct if*: an attempt counts as done exactly if it has a valid session, by either ledger; no
  command takes a result away; every session is in the database once.

### Manual artifacts
`ktane/manuals/*.py`, `cli/manual/` - `ManualStore`

- *State*: cached catalog and official manual, a git clone of the pinned manuals, local documents,
  `artifacts/<key>/`.
- *Operations*: compile (download, resolve, build, publish), doctor's check, loading by a player.
- *Hard*: no locks; keys are computed from hashes taken before the pages are made, by other rules
  for references than those of the server the pages are rendered from; a command removes an
  incomplete artifact that another may have completed meanwhile.
- *Correct if*: a key tells the content; ready means ready; players read what was checked.

### Suites, provenance, submission, leaderboard
`experiments/{spec.py,suite/}`, `provenance/`, `cli/{suite,submission,leaderboard,run}/` -
`Submission`

- *State*: the lock of every release and of the submitter's checkout, generated specs, provenance
  in the records, bundle directories, the merged submissions.
- *Operations*: freeze, publish, generate, run, record, build a bundle, validate, submit, list.
- *Hard*: only files connect the steps; releases, edits of the code, reruns and crashes come between
  any two; bundles are named by the earliest of a growing set of records.
- *Correct if*: listed entries of one revision were played on one content, by the code of the
  release they declare, and nobody is listed twice with the same records.

### RPC and heartbeats
`interactive/services/{rpc.py,broker.py,_exceptions.py}`, `interactive/services/heartbeat/` -
requests over Redis with a correlation id and a timeout (600 s by default); a handler that raises an
HTTP exception answers with its status, one that raises anything else does not answer. Broadcaster
(hash with a TTL every 3 s), watchers (poll every second), tombstones. In the models they are the
outcomes of calls, and views that are up to a beat and a poll old.

### Outside the models
KTANE client and parsing of the game's state (`ktane/`), image processors, static evaluations
(`statics/`), dashboard, the doctor's checks of machine and providers: section 10.

`PROJECT.json` lists each component with its status, and under `hazards` every place where the code
is exposed to an ordering, a crash or a stale value that a test would hardly reach, with the
properties that cover it, and with a note where a property exempts part of it. An exemption always
stands for a case in which the code does go wrong, described in section 9.

## 2. Plan

Order: the component whose mistakes cost most experiments first. Done, with what is proved:

1. `ExperimentManager` with `AttemptLifecycle`: inductive invariant, type correctness, all safety
   properties, the refinement; liveness model-checked.
2. `PlayerService`: inductive invariant, type correctness, all five properties.
3. `ExperimentRunner` over `GameService`: all six invariants; liveness model-checked.
4. `Processes`: inductive invariant and both safety properties; liveness model-checked.
5. `Results`: all three properties.
6. `AgentTurn`: type correctness and all four properties. `ReactParser`: type correctness and all
   three properties.
7. `ManualStore`: all three properties.
8. `Submission`: inductive invariant and all three properties.

How they fit together: `ExperimentManager` and `PlayerService` each carry the part of the runner
they can see; `ExperimentRunner` has the whole of it, against a whole game and players reduced to
what they show. `AgentTurn` is what happens within the action `AskModel` ... `FinishTurn` of
`PlayerService`; `Results` starts where its `SaveRecord` ends; `Submission` takes the database of
`Results` as any set of records.

Left, in this order: an abstract player (free, configured by a session, winding down, late, stuck:
the shape `ExperimentManager` and `ExperimentRunner` use) that `PlayerService` is shown to implement;
static evaluations.

## 3. ExperimentManager

### State and actions against the code

One variable per mutable field the loops share, grouped by owner.

| variables | code |
|---|---|
| `connected`, `epoch`, `seen`, `service_state`, `expiring` | `connected_services`; a manifest is `<<uuid, n>>`, the n-th object made for that uuid; its heartbeat copy, its `ServiceState`, and the expiry tasks of a round |
| `specs`, `sessions`, `session`, `created` | the queue (a bag), the list of sessions and the manifests each one holds |
| `mm`, `ready` | where `matchmaking_loop` is, and the ready services and specs that a cycle has left |
| `state`, `step`, `cancelled`, `crashed` | `ExperimentState`, the next await of `run_experiment`, cancel scope, `client_crashed_event` |
| `silent`, `owner`, `stopping`, `late`, `stuck`, `hash` | the services: dead or stalled; configured by which session; told to stop and not idle yet; with a turn that outlived the stop; left outside idle; hash present in Redis |

Each action runs from one await to the next. `ProcessHeartbeats` is a registry round (reads,
updates, start of the expiry tasks), `ExpireService` one expiry task with the force stop it may
make. `TryMatchExperiments`, `ContinueMatching` and `CleanupFinishedSessions` are the three pieces
into which the sleeps cut a cycle of matchmaking; `StartExperiment` is the whole of
`start_experiment`, including the KeyError that takes the EM down when a uuid has left
`connected_services`. `AddSpecs` posts any batch of specs. `ConfigureServices`, `EndLoop`,
`PostGame`, `CleanupExperiment` are the runner's progress, with `FailExperiment` for a timeout, an
HTTP error or a cancellation at any await of the body. The services send beats, die, stall, come
back, finish a stop, and return a turn late.

The clock is abstract. Only the order of events matters to the properties, and every timer is
longer or shorter than others by configuration alone; a heartbeat lapses at any time after its
service has fallen silent. What a service reports is read when the registry pulls it, and the
choice of which services have sent a new beat since the last round (`fresh`) stands for beats
being up to three seconds old.

Left out: parsing and serialisation, logging, metrics, tombstones (diagnostics only), the HTTP
layer around the queue. A runner that fails always reaches its cleanup here; what leaves its
handler and takes the EM down, and the window of one task resumption in which a runner may
overwrite the state that a force stop has set, are in `ExperimentRunner` (section 5).

### Runs

| run | instance | question |
|---|---|---|
| `em_rooms` | 2 players of one name, 2 games, 2 solo specs, one player may die | Two sessions at a time: no service in two sessions (`ExclusiveServices`), none taken from one at work (`NeverTakenAtWork`) |
| `em_pairs` | 2 players, 1 game, a solo and a pairwise spec; one player may die, or stall and come back as a second manifest (665,190 states) | `AttemptInFlightOnce`, `ManifestExclusive`, `RunsOnlyWithServices` (a session whose service is gone is being stopped), and the refinement `ImplementsLifecycle` |
| `em_live` | one pairwise spec, 2 players, 1 game, fair loops; one player may die, turns may come late (52,897 states) | A marked service has a session that will release it (`InExperimentHasSession`); the queue is served (`QueueServed`) |

What the properties say is written above each of them in the module. `ExclusiveServices` and
`ManifestExclusive` relate snapshots read before a sleep to sessions created after it;
`RunsOnlyWithServices` relates the registry, the expiry tasks in flight and the sessions;
`NeverTakenAtWork` fails as soon as a session leaves the list before its cleanup is over;
`AttemptInFlightOnce` needs the queue *and* the sessions to be consulted by `add_experiment_specs`.
`QueueServed` depends on sessions that end: it fails if a session that is stopped does not reach
its cleanup.

`ExclusiveServices` and `InExperimentHasSession` hold when silence is death (`Resumable = {}`);
with stalls they fail, which is divergence 2 of section 9, and `ManifestExclusive` is what is
left. `RunsOnlyWithServices` and `NeverTakenAtWork` survive a stall in the one room of `em_pairs`
and fail in two rooms for the same reason: a session is found by uuid, so that an expiry task may
stop the wrong one of two sessions that hold the two manifests of a service.

### Bounds

`MaxSessions = 2`: two sessions are the smallest number that can compete, overlap or follow each
other on the same services. `MaxEpochs = 2` where stalls are allowed: the second manifest is where
identity by uuid and by object part. Two services of a kind are needed for a matchmaking cycle
that pairs twice, which is the only place where it sleeps between pairings. Behind these bounds
the theorems below hold for all values.

`MCSymmetry` permutes games, and the two solo specs, which differ in nothing; it is not used with
temporal properties that need fairness. `MCView` drops from a state only the crash and cancel flags
of sessions that are past their body: no action then reads them and no property mentions them.
It keeps the whole of every other variable.

The runs set `CHECK_DEADLOCK FALSE`: with the bound on sessions reached, or the EM down, the
system may really have nothing left to do.

### Fairness

Weak fairness of the registry rounds, of each round's expiry tasks and of matchmaking: loops on
timers that nothing in the code blocks for ever. Weak fairness of each session's runner: its awaits
are RPCs with timeouts, `fail_after` scopes, or the wait for game over, bounded by
`maximum_experiment_duration`. Weak fairness of the heartbeats of live services and of the end of
a stop. No fairness of deaths, stalls, posts or late turns: they need not happen.

### Proofs

`ExperimentManagerProofs`, for every set of services, specs and names and all bounds:

- `InductiveInvariance`: `Spec => []InductiveInv`; from it `TypeCorrect`, `AttemptOnce`
  (`AttemptInFlightOnce`) and `ManifestOnce` (`ManifestExclusive`).
- `ServiceOnce` (`ExclusiveServices`) and `NoServiceLeaks` (`InExperimentHasSession`), under
  `Resumable = {}`.
- `LifecycleImplemented`: `Spec => ImplementsLifecycle`, under `Resumable = {}`.
- `RunsWithServices` (`RunsOnlyWithServices`) and `NeverTaken` (`NeverTakenAtWork`), under the same
  assumption.

The argument. `ManifestExclusive` is not inductive: a cycle of matchmaking assigns manifests it
read before a sleep, so the invariant has to say that this snapshot is still free (`ReadyIsFree`:
disjoint from every listed session, and its specs still queued), and the next cycle reads
manifests that are idle, so it has to say that those of listed sessions are not (`ListedIsTaken`).
That survives an expiry only because a service that comes back gets a manifest no one holds yet
(`ManifestsExist`), and it survives the bound on manifests because a service at the bound does not
return (`LastEpoch`). `AttemptInFlightOnce` rides on `ReadyIsFree` in the same way. The step lemma
has one case per action (`ServiceStep`, `HeartbeatsStep`, `ExpiryStep`, `AddSpecsStep`, `StartStep`
for both matching actions, `CleanupStepOfEM`, `RunStep`), each with one step per conjunct the
action can disturb. For `ServiceOnce` and `NoServiceLeaks`, `OneLife` says that without stalls a uuid has one
manifest, so that exclusive manifests are exclusive services, and `MarkedIsListed` that every
marked manifest is held by a listed session.

The refinement. The abstract stage of a spec and the services it holds are functions of `specs`,
`sessions` and `session`, which only three actions change (`Stutters` for all others): `AddSpecs`
is `Post`, which is allowed because its check covers the queue and the sessions; `StartExperiment`
is `Assign`, where the pairing gives the services the spec asks for (`PairingSuits`) and
`ExclusiveServices` in the next state says that nobody else holds them; `CleanupFinishedSessions`
is `Finish` of all specs it drops, since no two sessions play one spec and none that is played is
queued (`AttemptInFlightOnce`). `em_pairs` checks the same with a service that stalls, in a single room.

Sessions at work. What a listed session holds is what the services offer now (`ListedIsCurrent`), and
it stays marked until the session begins to stop; so a uuid that leaves the registry leaves it with
an expiry task, which finds the session by that uuid, since uuids are exclusive (`RoundKeepsSessions`,
`ExpiryKeepsSessions`). A session begins with every service connected, or its start ends the EM
(`StartKeepsSessions`). Whoever has configured a service and is still at work is a listed session that
holds it, and the services of another are not its own; what a runner's step may do is said once
(`RunGoesOn`: it goes on, takes what is free, gives back what it holds, and never un-stops), for all of
its phases.

Assumptions: `ConstantsOK` of the module (players and games disjoint, bounds natural numbers),
which TLC evaluates in every EM run.

Only model-checked: liveness.

## 4. PlayerService

### State and actions against the code

The module follows one player through `MaxSessions` sessions.

| variables | code |
|---|---|
| `state`, `beat`, `alive` | `PlayerState`; the state in the heartbeat hash; FALSE once an exception has left a background task of the lifespan's task group |
| `experiment`, `provenance`, `steps` | the session whose `protocol` and `experiment_instance` the player holds (a reset does not clear them); the recorder's provenance and step records |
| `channel`, `subscriber` | `session_id` of the message handler, the subscription that runs |
| `inbox`, `feedback` | `_unpulled_messages` and `_unpulled_feedback`: the sessions that what is in them was made in, or is about |
| `configuring`, `turn`, `reflecting`, `tasks` | where each handler in flight is, and for which session |
| `disk` | records written, by session |
| `session`, `run`, `asked`, `is_stopping` | the runner of the current session, as far as this player can tell: next RPC or wait, and its watcher's `is_stopping` event |
| `met` | the troubles met so far (see below) |

Every await of a handler separates two actions: `configure_for_experiment` is `BeginConfigure`
(to the recorder), `ConfigureComponents` (to the subscriber), `FinishConfigure`; `forward_pass` is
`ForwardPass`, `Observe`, `AskModel`, `Dispatch`, `FinishTurn` (with `SkipTurn` for a detonated bomb
and `TurnFails` for every way to leave early); a stop is `StopPlayer` inside the RPC, then `BeginStop`,
`SaveRecord`, `FinishStop` of its task. A handler keeps running when the runner no longer waits for
it, which is the point of the module. A handler writes what it reads *at that time*: `FinishTurn`
tracks its step in the recorder, and adds its feedback (`GenerateFeedbacks`) to the buffer, as they
are then, whatever session they belong to. The other player does the same: what it sends
(`HandleNewMessage`) goes to the session it is in, and may stem from a turn of an earlier one.
`PullMessages`, within `ForwardPass` or `Observe`, hands out both buffers.

States set and left between two awaits are not distinguished: `pulling_messages` and the state
`cleanup` inside `reset` have no await behind them and cannot be seen by another task; the unused
`performing_forward_pass` is left out. In the enumeration `reflecting` (10) comes after `stopping`
(9), and both the stop handler and the watcher compare with `>=`; `Stopping` is that part of the
order.

Steps are pairs of session and turn, so that a step in the wrong record shows. The contents of
observations, prompts, answers, messages and feedback, metrics, the W&B recorder and the `reset` and
`send_feedback` RPCs are left out; which turns end with feedback is a choice (see `AgentTurn`).

### Troubles

What may go wrong around a player is a constant, `Troubles`, and `met` remembers which of them has
happened. A promise that one trouble breaks is stated for the behaviours that have not met it, so
that the run shows, with all troubles allowed, on which each promise depends:

| trouble | how it comes about |
|---|---|
| `skip` | `configure_services` fails at the other player before it reaches this one |
| `configure` | the runner stops waiting (RPC timeout, force stop) while the configuration goes on |
| `turn` | the same for a forward pass; also the end of an async game, which cuts off the RPC and may then take a heartbeat from before the turn for a player waiting for its turn |
| `reflection` | the RPC of a reflection times out while the reflection goes on |
| `recovery` | an exception in a reflection that no recovery strategy handles |
| `bomb_state` | `get_bomb_state` fails in `stop_all_players` (10 s timeout) |
| `peer` | a turn of the other player outlives its RPC and its session, and its message is sent in the next one |
| `missed` | the heartbeat sent by a stop is overwritten, or cleanup begins, before the watcher polls it |

| property | holds unless |
|---|---|
| `OwnMessagesOnly`: the subscription | always |
| `OwnMessagesOnly`: unread messages | `peer` |
| `OwnMessagesOnly`: unread feedback | `turn` |
| `StepsReachDisk`, `ActsInOwnSession` | `turn` |
| `SurvivesStops` | `skip`, `configure`, `turn`, `missed` |
| `ReturnedUnlessOutlived` | `configure`, `turn`, `reflection`, `recovery`, `bomb_state` |

`OwnMessagesOnly` relates what was made in one session to the buffers of another: sessions follow
each other on a player whose configuration, stop and subscriber interleave freely, and yet its next
pull brings what belongs to the session its handler is configured for. That the subscription is
right depends on no trouble; what is in the two buffers depends on the one trouble that puts a
message or feedback of an old turn there, and on no other.

### Run

`pl_player`: two sessions, any troubles, up to three of them in a behaviour (2,593,548 states); the five
properties of the table. Without that limit they were checked outside the recorded runs (4,380,509
states).

*Bounds.* Two sessions: whatever one leaves behind meets the next. Two turns between them
(`MaxTurns` counts those of all sessions): either one in each, so that a late turn of the first meets
a turn of the second, or both in one, so that a record holds several steps and a turn follows a
completed one. `MaxStops = 2` tasks of a stop at a
time: each is spawned by a stop that found the state before `stopping`, and the state returns there
before the first task has finished only through a late handler; two show the interference.

*Deadlock* is not checked: after the last session, or when the player is dead, nothing is left.

### Proofs

`PlayerServiceProofs`, for all numbers of sessions, turns and stops and every set of troubles:
`PlayerInvariance` (`Spec => []InductiveInv`), and from it `PlayerTypeCorrect` (`TypeOK`) and
`ReadsOwnMessages` (`OwnMessagesOnly`); `StepsAreSaved` (`StepsReachDisk`), `TurnsActAtHome`
(`ActsInOwnSession`), `StopsSpare` (`SurvivesStops`) and `PlayersReturn` (`ReturnedUnlessOutlived`), so
that all five properties of the run are proved.

The argument. The part of `OwnMessagesOnly` about subscription and messages (`OwnInbox`) is not
inductive: a configuration sets the channel and two awaits
later the subscriber, and a stop of an earlier session may finish in between. The invariant says
that a player that is idle is not subscribed and has no message unread (`IdleIsUnsubscribed`: the only
way to become idle after the first experiment is the reset of a stop, which follows the
unsubscription without an await), so that a configuration, which only an idle player takes, starts
unsubscribed and stays so until it ends (`ConfiguresUnsubscribed`; a message needs a subscription,
and a reset in between only clears the channel). The subscription it then makes is for the session
of the channel, if there still is one. One lemma per group of handlers (`ConfigureStepKeeps`,
`TurnKeeps`, `ReflectKeeps`, `StopKeeps`, `RunnerKeeps`, `MessageKeeps`, `BeatKeeps`);
`ReadingKeeps` serves those that leave subscriptions alone. The part about feedback (`OwnFeedback`)
rests on `FlightInv` below: while no turn has outlived its RPC, the turn that leaves feedback is one
of the session of the channel, and a player that is idle or being configured has none left
(`FeedbackInv`). Assumption: `PlayerConstants`, which TLC evaluates in every player run.

The others need the interplay with the runner and the watcher. `FlightInv` says what
holds while no turn has outlived its RPC: one task of a stop is at work at a time (`OneTask`), no
turn, no reflection and no new session beside it (`TaskAlone`); a turn is waited for
(`HandlersWaited`); provenance and channel of a session stand from its configuration to its stop
(`Configured`); heartbeats and watcher can have said no more than what the session has done (`Seen`);
and the record of a stop has every step tracked by the time of its reset (`StepsKept`). That gives
`StepsReachDisk` and `ActsInOwnSession`. For `SurvivesStops`, `SurviveInv` adds that every stop that
is spawned finds the provenance of its session: the watcher has seen the first before the cleanup
could send a second (`StopsFind`), and sessions begin with idle players (`BeginsIdle`). For
`ReturnedUnlessOutlived`, `ReturnInv` adds that a player that is not idle between sessions has a stop
at work that will reset it (`LeftIdle`), where configurations and reflections end in time
(`EndsInTime`). Each has one lemma per group of handlers. That sessions end is liveness, a property of
`ExperimentRunner` (`RunnerEnds`).

## 5. ExperimentRunner and GameService

`ExperimentRunner` is `run_experiment` with every await a place (`at`), over the game service it
commands. An action is an RPC with its outcome (`Ask`: the handler acts and answers, answers too
late, or is not reached), a wait that is over, or a step of the service, of a player or of a
watcher.

| variables | code |
|---|---|
| `process`, `paused`, `timer` | the game: scene, speed, game time left (external, kept to what the code reads) |
| `supervisor`, `monitored`, `first_lights_off`, `first_lights_on`, `ready_state`, `expected_death`, `configuring` | the service's supervisor and `GameStateMonitor` |
| `player`, `passing`, `told` | what each player is at, the forward passes in flight, the stop it acted on |
| `state`, `at`, `tasks`, `stop_event`, `client_crashed`, `cancelled`, `escaped` | the runner; `escaped` is an exception that has left `experiment_exception_handler` and with it ends the EM |
| `game_crash`, `awaiting`, `good_game_over`, `seen_waiting`, `player_crash`, `first_waiting`, `is_stopping` | the watchers: what they were last shown, or ever |

A heartbeat and the poll that reads it are one step, at any time, so that what a watcher shows is
some state the service has been in. What may go wrong is again a constant, `Troubles`, explained at
the top of the module, and `met` remembers it, so that each promise names the troubles that break
it.

| property | holds unless |
|---|---|
| `PausedInTurns`, `OneTurnAtATime` | always |
| `PlayedOut` | `flap`, `crash`, `slow` |
| `RecordsAgree` | `lost`, `flap`, `crash`, or `slow` together with `service` or `player` |
| `EveryoneIsTold` | `lost`, or the player was reflecting, dead, or taken for stopping by its watcher |
| `ManagerSurvives` | `crash`, `hung`, `flap` |
| `RunnerEnds` | always |
| `GameReturns` | the service has died, `lost`, or the process died while it was starting |

*Run* `runner`: a solo and a pairwise sync experiment, with and without feedback, and a pairwise
async one; two units of game time (304,697 states). Every trouble is allowed, one per experiment: the
safety of up to three was checked outside the recorded runs (8.7 million states), which is where the
exemption of `RecordsAgree` by two troubles comes from. Two units of time: one that is spent by an
advance while time is left, and the last. A unit is one advance (`SECONDS_PER_ACTION`, three seconds),
which is one step: unpause, wait, pause, with nobody else commanding the game meanwhile.

*Fairness*: RPCs and waits end, since they have timeouts (`maximum_experiment_duration` for the
watcher's); a cancellation is delivered; a game process boots, and the monitor polls it. Nothing is
assumed of the progress of the game or of the players: `RunnerEnds` rests on timeouts alone.

*Proofs* (`ExperimentRunnerProofs`, any maximum of game time, any set of experiments and any number of
troubles): `OneAtATime` (`OneTurnAtATime`), `PausedTheorem` (`PausedInTurns`), `ManagerSafe`
(`ManagerSurvives`), `RecordsPlayedOut` (`PlayedOut`), `RecordsTheorem` (`RecordsAgree`) and `AllAreTold`
(`EveryoneIsTold`). A turn may outlive its RPC, so that the invariant behind the first two has to say
that a turn in flight is the one the runner waits for, or that the runner has left its loop and asks
for no other (`OneAtWork`), and that from the loop on the clock of a game that has time to lose stands
(`TimeStands`). For the third, an error that leaves the handler comes from a transport that fails
while the service's process is gone, which is a crash or the service itself (`LossIsCrash`); from a
reflection on a game whose end the watcher inferred (`OverIsOver`: past the loop the game is over, or
something has been missed); or from a wait of the watcher. Steps that touch neither the players'
lives nor the game's share a lemma (`QuietStep`).

The last three are about what players are told, and when. A game that was lost leaves evidence that
lasts: what a watcher has seen of a service that is gone it sees again (`GameKeepsEvidence`,
`WatchersKeepRecords`). The body gets past the game because the game is over, and then no cancellation
is under way; all stops of a body say the same, and what the cleanup says later follows from the same
evidence, but for the troubles in the table. Whom the body leaves to the cleanup is no one if only the
end of the game ended it, except for a player that reflects for too long; the cleanup asks everybody
again, and a player that has taken a stop takes no other. Most steps tell nobody to stop and share
one lemma (`PlainStep`); the rest are the reflections, the two stops and the cancellation. Assumption:
`RunnerConstants`.

Only model-checked: liveness.

Where the code promises more than it keeps is in section 9.

## 6. AgentTurn and ReactParser

### AgentTurn

`entries` are the turns of the conversation (messages, size of the text, frames, measured usage),
with `_dropped_non_pinned` and `_evaluated_non_pinned` of the truncation; `request` is what the model
was asked, `result` the `AgentCallResult`, `step` what was recorded last. `Ask` renders, `Answer` and
`Raise` / `Recover` are the model's outcomes - every exception class the code raises, with the chain of
strategies in its order, one operator per class of recovery -, `Dispatch`, `DispatchFails`, `Finish`
and `Reflect` the rest of the turn.

- `PromptFits`: the reservation of the truncation covers the next answer and its images. It fails
  with one image less.
- `RecordedAsSent`: the record shows the prompt that was sent, although it is rendered again after
  the answer has been measured.
- `FramesInWindow`: frames in memory are those the next prompt shows.
- `SkipIsExplained`: a player of a pair whose turn was skipped is told why, through two objects that
  replace each other's errors, if feedback is enabled for it (`EnableNobf`, the capability
  `enable_nobf_generation`; the run has it enabled).

*Run* `agent`: four turns, limit of 25 tokens with 2 per image, answers of two sizes (1 and 6), a window of two
turns (654,537 states): the limit is crossed, turns are dropped, and more are dropped after turns
were dropped. `RoomToPlay` is assumed of the constants: an answer and a request fit into the reserved
fifth and the spare image, and the pinned entries with one turn fit the budget; without it no
reservation helps. Usage is taken to be measured exactly, and a model's retries are 0, as in the
configurations.

*Proofs* (`AgentTurnProofs`, any sizes, limits and numbers of turns): `RecordIsPrompt`
(`RecordedAsSent`), `FramesTheorem` (`FramesInWindow`), `SkipsExplained` (`SkipIsExplained`),
`PromptsFit` (`PromptFits`) and `TurnsTyped` (`TypeOK`). The first
rests on the counter of evaluated entries, which the second rendering finds as the first has left it
(`AsRendered`). For the second, the window moves by one entry when a turn joins, and the one frame
that leaves it is the one that is taken out (`JoinKeepsFrames`). For the third, each recovery that
ends in a skip leaves an error (`RecoveryExplains`), and what replaces the list afterwards replaces
it by another reason.

`PromptFits` compares sums of sizes. `TokensOf` is a recursive function over the turns; that it has
the values its recursion says is shown by induction over sets of numbers (`SetInduction`,
`Recursion`), and from it that sums split at any turn (`SizeOfParts`) and grow with their terms
(`SmallerTurns`). `FitInv` then carries one inequality over a turn: between turns, what would be
shown with nothing more dropped exceeds what was measured by no more than the last answer
(`Outgrown`). Joining keeps it so, because the older turns can only lose their frame
(`JoinGrows`); truncation either removes what exceeds the budget or leaves the last turn alone
(`DropsEnough`), and both fit by `RoomToPlay` (`RoomIsEnough`). An evaluation is never skipped when
it is due, since a turn has joined after the last one (`SomeShown`).

### ReactParser

The parser reads a response token by token; a token is one of the four known tags, an unknown tag,
text, or JSON, and a piece is its position, so that pieces lost, doubled or moved show. `HandleTag`,
`HandleData`, `HandleOther` and `Close` are the methods of the parser with all they call; `thoughts`,
`action` and `response_error_type` are the extraction and the validation.

- `NothingLostOrDoubled`: in whatever nesting, each piece is in one block, once.
- `CleanHidesNothing`: if no error is reported, thought and action are all that was said.
- `AsAskedIsClean`: a response in the form that is asked for is accused of nothing and its action is
  executed.

*Run* `react`: all responses of at most seven tokens (1,266,696 states); four tags, a piece in each
gap and one more fit. The model's verdicts were compared with those of the parser itself on all
14,848 responses of at most five tokens, without a difference. Not modelled: the clean-up of broken
tags before the parse and of the action's text after it.

*Proofs* (the second half of `AgentTurnProofs`, which extends both modules, so the parser's `Init`,
`Next` and `Spec` are called `ParserInit`, `ParserNext` and `ParserSpec`; responses of any length):
`NothingLost`, `CleanHides`, `AsAskedClean` and `ParserTyped`, one for each property and for the
types.

- `NothingLostOrDoubled` says nothing of a response that is still being read; `SortedInv` does: no
  piece is in two places of the buffers and blocks (`PendingApart`, `BlocksApart`), what has to be
  kept is in one of them, and while a known tag is open one of the depths is positive (else markup
  would be dropped that belongs to an element). `StoreSorts` shows that storing moves the buffers
  into blocks, each part into its own, `PutSorts` that a new piece comes to one place at most. That the
  blocks put one behind the other have each piece once is an induction over the blocks
  (`FlattenedHolds`).
- `CleanHidesNothing` follows from that, without a further invariant: a clean response has one action
  block and no untagged one, so none of the filters of the thoughts applies (`CleanHides`).
- `AsAskedIsClean` needs to know the parser's state at each stage of such a response: `AskedInv` gives
  the depths, buffers, events and blocks after the opened thought, its end, the opened action, its
  content and its end, and `AskedIsClean` computes the extraction and every error from the last of
  these. One token taken off a response of one stage leaves one of the stage before or of the same
  (`AskedBefore`).

TLC checked `SortedInv` and `AskedInv` on all states of the run `react` before they were proved.

## 7. Processes

`gptnt run` between two awaits: `Spawn` and its stages (`SpawnManager`, `PollHealth`, `SpawnRooms`,
`SpawnPlayers`), `Submit`, `Monitor`, the teardown with its grace period (`GracePoll`, `GraceOver`),
and the deadline of `fail_after` (`ReadinessTimeout`). Children exit by themselves or on a signal, or
ignore a SIGTERM, between any two of them; a shutdown signal comes at any time. `status` is what the
run has noticed, `exit_code` and `alive` what is so. This is the run with its status table; the
interactive mode of `gptnt run -i`, which reads the output of the children in tasks of its own, is
not modelled (section 10).

- `NoOrphans`: a run that has ended leaves no child, but for two cases (section 9).
- `ReportsTheCause`: the process blamed has failed, and not by the run's own teardown; a run that
  finishes has submitted, and every process has ended well.
- `TroubleEndsRun` (liveness): a failed child or a shutdown ends the run, in whatever stage. Fairness:
  the event loop runs what is due and deadlines pass; nothing is assumed of the children.

*Run* `processes`: a manager, two rooms, one player (163,175 states): a stage with several processes,
one with a single one, and processes that fail together.

*Proofs* (`ProcessesProofs`, any number of rooms and players): `RunInvariance`, and from it
`NoChildLeft` (`NoOrphans`) and `TrueReport` (`ReportsTheCause`). Neither is inductive. The invariant
adds `TrackedAndGone` (only tracked processes live; a status other than RUNNING is true),
`OneStageAfterTheOther` (from submission on everything is tracked; nobody is sent a SIGTERM before
the teardown) and `OutcomeIsDue` (the process to blame was FAILED and not asked to stop before the
teardown began). Assumption: `Manifest`, that the two numbers are naturals.

## 8. Results, ManualStore, Submission

### Results

Runs of the cluster follow each other; players play sessions, and each saves its record in steps:
`StartWriting` (temporary file), `Replace` (final file), `FinishRun` (W&B). In between the cluster
may go down (`EndRun`), a rerun or a submit may ask a ledger (`Run`, `Submit`, `AddSpecs`), cleanup
commands may run, and the database may be built. `job` is the command under way that has read the
footers of the directory and comes back to the records by path: `cleanup-outputs` lists and judges
(`CleanupOutputs`), then unlinks path by path (`Unlink`) and at last the temporary files
(`FinishCleanup`); `build-db` summarises the new records by their footers (`BuildDb`) and then loads
the rows that are at the paths by that time, with the summaries, in one transaction (`ExecuteMerge`).
Either may be stopped (`AbandonJob`). In between, players go on saving.

- `StepsHaveOneSummary`: the database never has two summaries of a session, and a build adds steps of
  the sessions it adds a summary of and of no others. Exempt from the second: builds one of whose
  paths was saved at again after its footer was read.
- `CleanupSettles`: `cleanup-outputs` takes no record of a valid session, and once it is done it has
  settled the attempt whose valid session was hidden by the records of others. Exempt from the first
  is a session at one of whose paths a player saved after the directory was listed; the second
  requires that nothing at all was saved meanwhile.
- `SourcesAgree`: the two ledgers agree on an attempt with one session that is wholly saved, if the
  defuser saw the bomb and no look at W&B came between the two players' ends.

*Run* `results`: two runs of the cluster, two sessions of one pairwise attempt (1,715,118 states): a
session repeated after a crash, within a run under the same path and across runs under another.
A session ends in one of the `Outcomes`: good, good with a crash, incomplete with steps of the
defuser alone, or with steps of the expert alone; incomplete ends with steps of both and good ends
with steps of the defuser alone were checked outside the recorded runs (3,158,196 states). `res_retry` is the finding of section 9.

*Bounds and abstractions.* There is one `job` at a time: builds that overlap, each of which may look
for new records before the other has merged its own, are not modelled. All footers of a command are
read in one step, the rows of a build in another, and the temporary files are unlinked together; the
paths of a cleanup go one at a time. `CleanupWandb`, and the look of a completion check at W&B with
the marks it makes, are single steps, and no `CleanupWandb` comes during a `job`. Nothing is queued
when no session is left for it.

*Proofs* (`ResultsProofs`, any attempts, runs and sessions): `DatabaseWhole` (`StepsHaveOneSummary`),
`CleaningKeepsResults` (`CleanupSettles`) and `LedgersAgree` (`SourcesAgree`). Neither of the first two
is inductive. `ByPathInv` says what a command may find when it comes back: a path holds one record,
of a player that has saved it once and for all (`DirectoryInv`, with `Saved`), so that what is at a
path is what the footer said or was saved there since. A build that finds only the expert's record of
a session whose defuser was ingested before must not summarise it again: a session with a summary has
its defuser's steps, or its defuser's record is gone for good (`SummariesInv`), and only defusers see
the bomb. `BuildInv` says that what a build under way has summarised is new and stays new until the
merge, `CleaningInv` that no doomed path holds a record of a valid session and that what is kept can
hide none, with the exemptions of the properties; `JobShape` is the shape of `job`. For the ledgers,
`SourcesInv` says that a player has
at most one file and one W&B run of a session (`FilesOfPlayers`, `RunsOfPlayers`) and that all that is
told of a session's crash, by records still to be saved, by files and by runs that say anything, is
one story, of which nothing is told while the session is played (`OneCrash`). A run that a teardown
ends as finished says nothing of a crash; it has an incomplete bomb, so that it is either falsely
finished or no record of a saved session.

### ManualStore

Two kinds of processes: `gptnt manual compile`, and a doctor that checks and then hands the paths of
the artifacts to players that load them. `local`, `catalog`, `repository`, `restored`, `official` are
the sources, `artifacts` the directories by key, `proc` where each command is. A key holds the
digests it is computed from; a page holds the document it shows, its number and the versions it was
rendered from. Commands stop anywhere (`MaxTroubles`), sources and artifacts are edited or damaged by
people (`MaxEdits`).

What a local document refers to is found in two ways. The resolver hashes every file it reaches,
relative names from the document and website-absolute ones from the root of the project
(`LocalDependencies`). The server that the pages are rendered from has the document's own directory
and what is below it (`Serves`, `Requested`); for a website-absolute name, or one that leaves that
directory, it looks in the clone of the pinned repository (`Astray`, `FromTree`), and finds a file of
the tree there or nothing. `PrintPages` renders with what is served. A page whose style sheet is
missing is printed without it; one with a broken image ends the build, like the other failures of
`Break`. The keypad images a manual shows come with the code and count as part of the tree.

- `KeyTellsContent`: a directory that loads shows the pages its key names, in that order, from those
  contents, without the references the server has nothing for. Exempt are builds during which a
  source changed (`calm`), and keys with a local document for which the server has a file of the tree
  in the place of one of its references (not `Confined`).
- `SeenReadyIsReady`: what a command saw ready stays ready. Exempt (`excused`): damage, or removal by a
  compile that was under way already.
- `PlayersGetWhatWasChecked`: a player reads the manual the doctor checked, page by page.

*Run* `manual`: two compiles and a doctor; two profiles of a seeded two-page document of the pinned
repository, a range of the official manual and a local document, under two seeds; one trouble, one
edit (1,215,767 states). Two compiles for the races; a document of more than one page and a range
between documents for the order of pages. One local document is a page that refers to a part in a
directory below it, which is served, or, once edited, to the part by a website-absolute name, for
which the tree has another file; the other is the part, which refers back to the page out of its own
directory, where nothing is served. So an edit of a dependency does not show in the document
itself, and references of every kind occur. What references reach is the least set of files closed
under them. Deadlock is not checked: commands end.

*Proofs* (`ManualStoreProofs`, any documents, references, profiles, seeds, commands and bounds):
`KeysTell` (`KeyTellsContent`), `SeenStaysReady` (`SeenReadyIsReady`) and `PlayersGetThem`
(`PlayersGetWhatWasChecked`). Assumed are the shape of profiles and of what is asked for, and that
the pinned repository is finite. First about the data, by induction over sets of numbers: what a
document of the tree reaches stays within any set of files that holds it and all it refers to, so
that a clone that was restored file by file is complete when nothing is pending; the pages of a plan
are those of its documents in turn; and going through the requirements without doubles reaches each.
The browser gets no local file that was not hashed, and what it gets follows from the digests
(`HashedIsEnough`, since what is hashed is closed under references); a key that is `Confined` gets
nothing from the tree (`KeepsToItself`).

`StoreInv` says of every compile what it has at each of its stages (`Sound`): which requirements are
resolved (`AgendaAt`), what of the clone is restored (`RestoringAt`, `TreeAt`), and, while its build
is `calm`, that the digests it recorded, its key and its pages are those of the sources as they are
now (`DigestsAt`, `KeyAt`, `BuiltAt`). Then what it publishes shows what the key names, and
`KeyTellsContent` stays. A build is not `calm` if a source was edited under it, or the clone reset,
which includes the compile's own second look at the repository for the merger. `SeenInv` adds that a
compile about to remove a directory that loads was under way when that directory came
(`RivalsKnow`), and that what the doctor saw is what is there unless it was taken away
(`DoctorKnows`).

### Submission

`releases` are the locks of all releases, `checkout` the submitter's; `specs`, `run` and `sessions`
what was generated, is run and has been recorded; `bundles` the three files of each bundle directory
and `merged` those of the submissions repository. The project releases (`Publish`) at any time; the
submitter changes releases (`Upgrade`), code (`EditCode`) and its own lock (`FreezeOwn`), generates,
runs, builds bundles (`New`, `Crash` after any of the writes or in the middle of one), and submits.
What merges is what `Validates` against the release the manifest declares, as `docs/run-and-submit/submit-results.md`
says of the submissions repository; `Listed` is the board.

- `ListedIsFrozen`: entries of one revision were played on the content that every release with that
  revision has.
- `OneEntryPerTarget`: of two entries of a revision, neither has all the records of the other.
- `ListedIsTrue`: the rows of an entry were played on unmodified code of the release it declares, and
  the earliest is of the day it names. Exempt (`calm`): the checkout was switched or edited under a
  running cluster.

*Run* `submission`: a small and a large suite body, one revision, two releases, sessions and days,
one trouble (1,815,790 states). One revision is enough, since the properties are about entries of one
revision; two bodies are one more than a revision may have; two sessions of different days are the
smallest database whose earliest record changes. Abstracted: one suite, one model, no submitter
block; opening and merging a request is one step; the database is any set of records. Deadlock is
not checked: with all bounds reached nothing is left.

*Proofs* (`SubmissionProofs`, all contents, missions, revisions and bounds, no assumption):
`SubmissionInvariance`, and from it `FrozenListing`, `OneEntry` and `TrueListing`. The invariant says
that locks only grow from release to release (`LocksGrow`), what the code and the lock of a run were
(`RunIsCheckout`, `SessionsOwn`), that every payload was dated by its earliest record when it was
written (`PayloadsDated`), and that what is merged has passed the checks against a release that
exists (`MergedPasses`). `FrozenListing` needs that a release published later cannot change what an
earlier one froze; `TrueListing` that a crash may mix the files of builds, but the checks compare
the rows themselves with the manifest.

## 9. Findings and known divergences

The recorded finding:

- **A retry that succeeds does not count** (`res_retry`, `RetryCounts`). `LocalLedger._scan` groups
  the records of all sessions of an attempt; any crash among them, or the final bomb state of
  whichever file is listed first, decides for all. A valid session after a crashed one counts as
  failed and every rerun queues the attempt again, until `cleanup-outputs` has removed the records of
  the crash.

Met while modelling, and built into the models as conditions of properties (exemptions, troubles):

1. *A service that dies during a matchmaking sleep takes the EM down.* `try_match_experiments` reads
   the ready services once and sleeps one second after each pairing. If a service of a later pairing
   expires meanwhile, `start_experiment` has appended the session when `connected_services[uuid]`
   raises KeyError, and the exception ends the EM's task group (`em = "crashed"`).
2. *A stalled service that comes back can leak.* The new manifest of its uuid is marked, the session
   holds the old one, and nothing takes the mark back. With the default intervals this needs the
   third pairing of a cycle, or an event loop that lags (`Resumable`).
3. *A stop without a configuration kills a player.* The check for "never set up" is `hasattr(self,
   "protocol")`, which holds for good after the first experiment, while a reset clears the provenance
   that the recorder asserts (`SurvivesStops`).
4. *A late turn writes into the next session.* `forward_pass` looks at the state only when it begins.
   A pass that is cut off resumes after the reset: its step is recorded, and its message or action
   sent, in whatever session the player is in then; if it is in none, the player stays in
   `waiting_for_turn` and out of the pool (`turn`). Its feedback goes to the buffer that the next pull
   of that session hands out (`message_handler.py:148`, 118), and a message it sends is told the other
   player of that session as one of its own (`peer`).
5. *A player that counts as stopping does not stop.* `reflecting` is past `stopping` in the
   enumeration. After a reflection that raises, every stop is accepted and ignored; the record of the
   experiment is never written and the player never idle again (`reflection`, `recovery`).
6. *An EM that is not ready in time is left running.* `fail_after`'s TimeoutError skips the lines of
   `interactive/orchestration/spawn.py` that terminate the cluster (75, 92-94), against
   `docs/troubleshooting/redis-and-runtime-services.md:44-46`. A child whose spawn raises leaves its
   predecessors in the same way (`NoOrphans`).
7. *Errors of a response whose action goes to the game are dropped.*
   `players/base_action_dispatcher.py:166` sets `ai_response_error=[]`, and 138-156 replace the list,
   against `players/result.py:22-23`; `SkipIsExplained` is about turns without an action.

Limits of single promises, by module:

- *ExperimentRunner.* A game that ends between the refresh and `advance_game_time` rejects the command
  and is recorded as crashed (468-474). An HTTP connection error, a ValueError or the watcher's own
  TimeoutError leaves the handler and takes the EM down, against its docstring (134-137). `stop_game`
  during an expected reboot kills the booting process, and the supervisor waits for ever
  (`game/service.py:123-125`). A player that is still reflecting when it is stopped has a record
  without a final bomb. After a missed heartbeat, a crash or a lost stop the records of two players
  may disagree.
- *AgentTurn.* Solo players never read their feedback. A refusal by a guardrail leaves an empty entry
  that takes a place in the window of frames, against `exception_recovery.py:150-151`. Turns whose
  usage the provider did not report never truncate.
- *ReactParser.* `</thought><thought>...`, overlapping `<thought>a<action>b</thought></action>`,
  untagged JSON without an action element, and JSON before the thought are found clean, although
  `exceptions.py:44-45` calls such structures malformed.
- *Processes.* Services never exit by themselves, so a run never finishes without a signal; failures
  while spawning are noticed only by the monitor or the health poll. A SIGKILL to a `uv run` wrapper may
  leave the interpreter below it, and Ctrl-C reaches the children as well as the run: the model has
  one process per child.
- *Results.* A completion check through W&B between the ends of two players marks the first run `old`
  for good, against `completion.py:35-38`. W&B takes a finished run without an outcome for done.
  `mark_duplicate` keeps the latest session even if it is mismatched. A missing expert record is not
  noticed locally (`docs/reference/runtime/recording-and-completion.md:32-33`). A build of the database
  between the saves of two players leaves a group of the expert alone that fails in every later
  build, so that the expert's steps stay out for good. A submit while a record is being saved queues
  the session again, and the replay overwrites the record. If it does so between the reading of the
  footers and the loading of the rows by a build (`ingest.py:161-164` and 100-108), the summary of one
  session comes with the steps of another; if between the judging and the unlinking by
  `cleanup-outputs` (`cleanup.py:45-51` and 53-55), a valid record is deleted in the place of the
  invalid one. `cleanup-outputs` during a save deletes the expert's record or the temporary file. Two
  builds that overlap may both ingest a session, since they look for it and merge it in separate
  connections (`ingest.py:152`, 96), and the tables have no keys.
- *ManualStore.* The catalog is cached for ever and not pinned; the official manual is cached by its
  path. Two first compiles race in `_clone`; a clone killed half-way may fail every later fetch. The
  `_remove_incomplete` of one compile may delete what another has just published. A source edited
  between hash and rendering stays under the key. References that leave the document's directory are
  hashed but not served (`_browser.py:79-85`): the page is printed without such a style sheet, and
  nobody is told. Website-absolute ones are hashed from the root of the project
  (`_assets.py:180-190`) but served from the KtaneContent tree, so that the page may show a file of
  the tree where the key has the digest of a local one. Dependencies within the pinned repository are in the identity only through
  its commit.
- *Submission.* Provenance is captured when a session is created, the code was loaded when the process
  started. Two revisions in one database block `new`; a crashed attempt's record blocks validation; a
  forced record blocks every bundle of the database. After an upgrade in the middle of a suite the records cannot be
  bundled, while the ledger skips completed attempts whatever their provenance. Directories of
  earlier builds are submitted too, and the board does not choose among them
  (`submit-results.md:11`: one bundle per model and target). A manifest cut off by a crash loses its
  submitter, and a rebuild keeps a blank submitter over `--submitter`. Clone and commit errors stop the
  bundles that follow. `check_suite_selection` compares specs on disk by revision only.

## 10. Not modelled

- *Static evaluations* (`statics/`): one process, one file per item. Predictions are written in
  place, so that a file cut off by a crash makes scoring raise; a resume with an unpinned dataset
  revision may mix contents. Scores are arithmetic.
- *KTANE client and state parsing, image processors*: requests to an external program, and numerical
  functions over its answers.
- *Inner-monologue parser*: regular expressions, no state.
- *RPC correlation and serialisation, tombstones, the broadcaster's shutdown*: below what any
  decision in the modelled code reads.
- *Mission sampling, composition of suites, leaderboard scores, dashboard*: pure computation and
  presentation. *Doctor's checks* of machine and providers: queries of the environment.
- In `PlayerService`: the contents of prompts and answers (see `AgentTurn`), metrics, the `reset` RPC,
  which nobody sends. In `Processes`: the interactive mode of `gptnt run -i`
  (`cli/run/_monitor.py:94-135`, `_pipeline.py:240-245`). Its monitor polls like the one modelled, but
  every child has a task that renders its output; an exception in one of these cancels the body of
  the run, which then ends without its teardown. In `Results`: `--skip-filtering`, `--no-filter`,
  `--delete-existing-db`, several players of a role in a run, several maintenance commands at once.
  In `ManualStore`: renderer identity, and errors of the browser except as a build that fails.

Only model-checked: liveness (`QueueServed`, `TroubleEndsRun` and those of the runner), since
fairness and ENABLED are beyond the prover. Every other property of the passing runs is a theorem.
What recursive functions and folds compute cannot be proved by an induction theorem that takes an
operator; where a property needs it (dependencies, pages, sums of sizes) the induction is over a set
of numbers, with the least number outside it.

## 11. Running the checks

    tlc -workers 2 -config em_rooms.cfg MCExperimentManager
    tlc -workers 2 -config runner.cfg MCExperimentRunner
    tlapm SubmissionProofs.tla

and so on: `PROJECT.json` lists the runs with their modules and properties, one changed definition
per property under which the property fails (the operators marked *Variant* in the modules, never
used otherwise), the source lines behind every definition, the findings, the hazards and the
theorems. The longest runs, `em_pairs`, `results` and `pl_player`, take two to three minutes on two cores; the proofs take some
minutes each.

Most configurations set `CHECK_DEADLOCK FALSE`: with the bounds reached, the session over, or the
commands ended, these systems really have nothing left to do.
