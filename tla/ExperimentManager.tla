------------------------- MODULE ExperimentManager -------------------------
(***************************************************************************)
(* The experiment manager (EM): the registry of services fed by their      *)
(* heartbeats, the queue of posted specs, matchmaking, and the sessions it *)
(* starts, stops and cleans up.  The three loops of the EM process are     *)
(* three actors here: process_heartbeat_loop with its expiry tasks,        *)
(* matchmaking_loop, and one task per session.  They share the manifests   *)
(* and interleave at every await.  The game and player services around     *)
(* the EM are kept to what it can observe or change: whether they beat,    *)
(* which session configured them, whether they are winding down.           *)
(***************************************************************************)
EXTENDS Naturals, FiniteSets

CONSTANTS
  Players, Games,          \* uuids of the two kinds of service
  Specs,                   \* specs that clients may post
  AttemptName,             \* [Specs -> attempt names]
  PlayerName,              \* [Players -> player names], from their capabilities
  DefuserName, ExpertName, \* [Specs -> player names]; ExpertName may be NoExpert
  NoExpert,                \* expert of a single-player spec and of its session
  Fragile,                 \* services that may fall silent
  Resumable,               \* silent services that may beat again (stalled, not dead)
  Slow,                    \* players whose turn or reflection may outlive its experiment
  MaxSessions,             \* bound: sessions started in one life of the EM
  MaxEpochs                \* bound: manifests created for one service uuid

Services   == Players \cup Games
Manifests  == Services \X (1..MaxEpochs)
SessionIds == 1..MaxSessions
NoManifest == <<NoExpert, 0>>

ASSUME ConstantsOK ==
  /\ Players \cap Games = {}
  /\ NoExpert \notin Services
  /\ Fragile \subseteq Services
  /\ Resumable \subseteq Services
  /\ Slow \subseteq Players
  /\ MaxSessions \in Nat
  /\ MaxEpochs \in Nat \ {0}

VARIABLES
  \* The services, and their heartbeat hashes in Redis.
  silent,         \* services that send no heartbeat and answer no RPC
  owner,          \* session that configured the service, 0 if none
  stopping,       \* services told to stop that are not idle again yet
  late,           \* players with a turn in flight that has outlived the stop
  stuck,          \* players left outside idle by such a turn, or by a reflection
  hash,           \* services whose heartbeat hash is in Redis
  \* ServiceRegistry
  connected,      \* uuids in connected_services
  epoch,          \* number of the current manifest of a uuid, 0 before the first
  seen,           \* [Manifests -> last heartbeat copied into the manifest]
  service_state,  \* [Manifests -> ServiceState]
  expiring,       \* manifests whose _expire_service task is awaiting Redis
  \* ExperimentManager
  em,             \* "up", or "crashed" by an exception in one of its loops
  specs,          \* the queue, as a bag: [Specs -> Nat]
  mm,             \* where matchmaking_loop is
  ready,          \* ready players and games that try_match_experiments has left
  created,        \* number of sessions created
  sessions,       \* ids in the sessions list, which is in order of creation
  \* Session and ExperimentRunner
  session,        \* [SessionIds -> the spec and the manifests it was created with]
  state,          \* [SessionIds -> ExperimentState]
  step,           \* [SessionIds -> the next step of run_experiment]
  cancelled,      \* sessions whose cancel scope was cancelled
  crashed         \* sessions whose client_crashed_event is set

serviceVars  == <<silent, owner, stopping, late, stuck, hash>>
registryVars == <<connected, epoch, seen, expiring>>
queueVars    == <<em, specs, mm, ready, created, sessions, session>>
runnerVars   == <<state, step, cancelled, crashed>>
vars == <<serviceVars, registryVars, service_state, queueVars, runnerVars>>
-----------------------------------------------------------------------------
ServiceState    == {"idle", "in_experiment", "cleanup", "not_ready"}
ExperimentState == {"initialising", "running", "post_game", "cleanup", "done"}
Body    == {"configure_defuser", "configure_expert", "configure_game", "loop", "post_game"}
Cleanup == {"stop_game", "stop_defuser", "stop_expert"}
Steps   == {"none", "ended"} \cup Body \cup Cleanup

NoSession == [spec |-> NoExpert]
SessionRecord == [spec    : Specs,
                  defuser : Manifests,
                  expert  : Manifests \cup {NoManifest},
                  game    : Manifests]

\* connected_services[s].
ManifestOf(s) == <<s, epoch[s]>>

\* Session.service_uuids, and the manifests behind them.
ManifestsWithoutExpert(i) == {session[i].defuser, session[i].game}  \* variant

ManifestsOf(i)    == {session[i].defuser, session[i].expert, session[i].game} \ {NoManifest}
service_uuids(i)  == {m[1] : m \in ManifestsOf(i)}

\* Session.is_stopping: the runner is past "running".
is_stopping(i) == state[i] \notin {"initialising", "running"}

\* Variant of is_finished: any session past "running".
IsStopping(i) == is_stopping(i)

\* What makes a session one of the finished_sessions.
is_finished(i) == state[i] = "done"

\* What a service would report in a heartbeat sent now.
Report(s) == IF owner[s] = 0 /\ s \notin stopping \cup stuck THEN "free" ELSE "busy"

Init ==
  /\ silent = {} /\ stopping = {} /\ late = {} /\ stuck = {} /\ hash = {}
  /\ owner = [s \in Services |-> 0]
  /\ connected = {} /\ expiring = {}
  /\ epoch = [s \in Services |-> 0]
  /\ seen  = [m \in Manifests |-> "busy"]
  /\ service_state = [m \in Manifests |-> "idle"]
  /\ em = "up"
  /\ specs = [x \in Specs |-> 0]
  /\ mm = "idle"
  /\ ready = [players |-> {}, games |-> {}, specs |-> {}]
  /\ created = 0 /\ sessions = {}
  /\ session = [i \in SessionIds |-> NoSession]
  /\ state = [i \in SessionIds |-> "initialising"]
  /\ step  = [i \in SessionIds |-> "none"]
  /\ cancelled = {} /\ crashed = {}
-----------------------------------------------------------------------------
(***************************************************************************)
(* The services as the EM sees them.                                       *)
(***************************************************************************)

\* HeartbeatBroadcaster.send_heartbeat: the hash is written and its TTL renewed.
\* What it reports is read when the registry pulls it.
SendHeartbeat(s) ==
  /\ s \notin silent
  /\ hash' = hash \cup {s}
  /\ UNCHANGED <<silent, owner, stopping, late, stuck, registryVars, service_state,
                 queueVars, runnerVars>>

\* The process dies, or its event loop stalls.
FallSilent(s) ==
  /\ s \in Fragile \ silent
  /\ silent' = silent \cup {s}
  /\ UNCHANGED <<owner, stopping, late, stuck, hash, registryVars, service_state,
                 queueVars, runnerVars>>

\* Ten seconds without a beat: Redis drops the hash, and every copy of the
\* heartbeat in a manifest is expired (ServiceManifest.is_expired).
HeartbeatLapses(s) ==
  /\ s \in silent
  /\ hash' = hash \ {s}
  /\ UNCHANGED <<silent, owner, stopping, late, stuck, registryVars, service_state,
                 queueVars, runnerVars>>

\* A stalled service goes on; its next beat is a SendHeartbeat.
Resume(s) ==
  /\ s \in silent \cap Resumable
  /\ epoch[s] < MaxEpochs
  /\ silent' = silent \ {s}
  /\ UNCHANGED <<owner, stopping, late, stuck, hash, registryVars, service_state,
                 queueVars, runnerVars>>

\* The background work of a stop ends: a player is idle again, a game is back
\* at the main menu.
FinishStop(s) ==
  /\ s \in stopping \ silent
  /\ stopping' = stopping \ {s}
  /\ UNCHANGED <<silent, owner, late, stuck, hash, registryVars, service_state,
                 queueVars, runnerVars>>

\* A turn comes back after its player has been reset: the player goes to waiting for
\* a turn that nobody will ask for, and reports itself busy from then on.
TurnReturnsLate(s) ==
  /\ s \in late \ silent
  /\ late' = late \ {s}
  /\ stuck' = IF owner[s] = 0 /\ s \notin stopping THEN stuck \cup {s} ELSE stuck
  /\ UNCHANGED <<silent, owner, stopping, hash, registryVars, service_state,
                 queueVars, runnerVars>>
-----------------------------------------------------------------------------
(***************************************************************************)
(* The registry: process_heartbeat_loop, which waits for the expiry tasks  *)
(* of a round before it starts the next.                                   *)
(***************************************************************************)

\* update_heartbeats, then check_for_expired_services.  A known uuid gets the new
\* heartbeat, if its service has sent one since the last round; an unknown uuid
\* gets an idle manifest; a connected uuid whose hash has lapsed leaves the
\* registry, and a task is started to handle it.
ProcessHeartbeats ==
  LET new == hash \ connected
  IN /\ em = "up" /\ expiring = {}
     /\ connected' = hash
     /\ epoch' = [s \in Services |-> IF s \in new THEN epoch[s] + 1 ELSE epoch[s]]
     /\ \E fresh \in SUBSET {s \in hash \ (new \cup silent) : seen[ManifestOf(s)] # Report(s)} :
          seen' = [m \in Manifests |->
                     IF m[1] \in new \cup fresh /\ m[2] = epoch'[m[1]] THEN Report(m[1])
                     ELSE seen[m]]
     /\ expiring' = {ManifestOf(s) : s \in connected \ hash}
     /\ UNCHANGED <<serviceVars, service_state, queueVars, runnerVars>>

\* Variant: only the defuser is looked at.
FoundForDefuser(uuid, i) == i \in sessions /\ uuid = session[i].defuser[1]

\* _find_session_by_service_uuid: the first session in the list with that uuid.
FoundFor(uuid, i) ==
  /\ i \in sessions /\ uuid \in service_uuids(i)
  /\ \A j \in sessions : uuid \in service_uuids(j) => i <= j

\* _handle_expired_service and Session.force_stop_experiment.
ExpireService(m) ==
  LET stopped == {i \in sessions : /\ service_state[m] = "in_experiment"
                                   /\ FoundFor(m[1], i)
                                   /\ ~is_stopping(i)}
      released == UNION {ManifestsOf(i) : i \in stopped}
  IN /\ em = "up" /\ m \in expiring
     /\ expiring' = expiring \ {m}
     /\ service_state' = [n \in Manifests |->
                            IF n \in released THEN "cleanup"
                            ELSE IF n = m THEN "not_ready" ELSE service_state[n]]
     /\ state' = [i \in SessionIds |-> IF i \in stopped THEN "cleanup" ELSE state[i]]
     /\ crashed' = crashed \cup stopped
     /\ cancelled' = cancelled \cup stopped
     /\ UNCHANGED <<serviceVars, connected, epoch, seen, queueVars, step>>
-----------------------------------------------------------------------------
(***************************************************************************)
(* The queue and matchmaking.                                              *)
(***************************************************************************)

\* Variant: the queue alone.
QueuedSpecs == {x \in Specs : specs[x] > 0}

\* Specs queued or in a listed session: known_attempts of add_experiment_specs.
KnownSpecs == {x \in Specs : specs[x] > 0} \cup {session[i].spec : i \in sessions}

Conflict(x, y) == x # y /\ AttemptName[x] = AttemptName[y]

\* POST /add-specs.  One conflict rejects the whole batch (HTTP 409); specs
\* that are known already are skipped, so posting them again changes nothing.
AddSpecs(batch) ==
  /\ em = "up"
  /\ ~ \E x \in batch, y \in KnownSpecs \cup batch : Conflict(x, y)
  /\ specs' = [x \in Specs |-> IF x \in batch \ KnownSpecs THEN specs[x] + 1 ELSE specs[x]]
  /\ UNCHANGED <<serviceVars, registryVars, service_state,
                 em, mm, ready, created, sessions, session, runnerVars>>

\* Variant: the heartbeat is trusted without the manifest's state.
ReadyByHeartbeat(uuids) == {m \in Manifests : /\ m[1] \in uuids \cap connected
                                             /\ m = ManifestOf(m[1])
                                             /\ seen[m] = "free"}

\* ready_players and ready_games: connected, heartbeat ready and idle (or at the
\* main menu), manifest idle.
ReadyOf(uuids) == {m \in Manifests : /\ m[1] \in uuids \cap connected
                                     /\ m = ManifestOf(m[1])
                                     /\ service_state[m] = "idle"
                                     /\ seen[m] = "free"}

Solo(players, queue) ==
  {[spec |-> p[1], defuser |-> p[2], expert |-> NoManifest] :
     p \in {q \in queue \X players : /\ ExpertName[q[1]] = NoExpert
                                     /\ PlayerName[q[2][1]] = DefuserName[q[1]]}}

Duo(players, queue) ==
  {[spec |-> p[1], defuser |-> p[2], expert |-> p[3]] :
     p \in {q \in queue \X players \X players :
              /\ ExpertName[q[1]] # NoExpert
              /\ q[2] # q[3]
              /\ PlayerName[q[2][1]] = DefuserName[q[1]]
              /\ PlayerName[q[3][1]] = ExpertName[q[1]]}}

\* get_playable_pairings, one pairing at a time: single-player specs go first.
\* The order of the queue and of players with one name is left open.
Pairings(players, queue) ==
  IF Solo(players, queue) # {} THEN Solo(players, queue) ELSE Duo(players, queue)

\* The body of the pairing loop up to its sleep: pop a game, remove the spec, and
\* start_experiment.  Marking looks every uuid up in connected_services: one that
\* has left meanwhile is a KeyError, which takes the EM down with its task group
\* (and with the marks it had set before).
StartExperiment(pairing, game, players, games, queue) ==
  LET i    == created + 1
      x    == pairing.spec
      mine == {pairing.defuser, pairing.expert, game} \ {NoManifest}
      uuids == {m[1] : m \in mine}
  IN /\ created < MaxSessions
     /\ created' = i
     /\ sessions' = sessions \cup {i}
     /\ session' = [session EXCEPT ![i] = [spec |-> x, defuser |-> pairing.defuser,
                                           expert |-> pairing.expert, game |-> game]]
     /\ specs' = [specs EXCEPT ![x] = @ - 1]
     /\ ready' = [players |-> players \ mine, games |-> games \ {game}, specs |-> queue \ {x}]
     /\ mm' = "sleeping"
     /\ IF uuids \subseteq connected
        THEN /\ service_state' = [m \in Manifests |->
                  IF m[1] \in uuids /\ m = ManifestOf(m[1]) THEN "in_experiment"
                  ELSE service_state[m]]
             /\ step' = [step EXCEPT ![i] = "configure_defuser"]
             /\ UNCHANGED em
        ELSE em' = "crashed" /\ UNCHANGED <<service_state, step>>
     /\ UNCHANGED <<serviceVars, registryVars, state, cancelled, crashed>>

\* One round of pairing with the given resources: start a pairing, or leave the
\* loop for cleanup_finished_sessions when there is none, or no game, or when the
\* bound on sessions is reached.
MatchRound(players, games, queue) ==
  \/ \E pairing \in Pairings(players, queue), game \in games :
       StartExperiment(pairing, game, players, games, queue)
  \/ /\ Pairings(players, queue) = {} \/ games = {} \/ created = MaxSessions
     /\ mm' = "cleaning"
     /\ ready' = [players |-> {}, games |-> {}, specs |-> {}]
     /\ UNCHANGED <<serviceVars, registryVars, service_state,
                    em, specs, created, sessions, session, runnerVars>>

\* try_match_experiments reads the ready services and the queue once ...
TryMatchExperiments ==
  /\ em = "up" /\ mm = "idle"
  /\ MatchRound(ReadyOf(Players), ReadyOf(Games), {x \in Specs : specs[x] > 0})

\* ... and goes on with what it read after sleeping for a second.
ContinueMatching ==
  /\ em = "up" /\ mm = "sleeping"
  /\ MatchRound(ready.players, ready.games, ready.specs)

\* cleanup_finished_sessions and Session.cleanup: the manifests of a finished
\* session are idle again, and the session is dropped.
CleanupFinishedSessions ==
  LET finished == {i \in sessions : is_finished(i)}
      released == UNION {ManifestsOf(i) : i \in finished}
  IN /\ em = "up" /\ mm = "cleaning"
     /\ mm' = "idle"
     /\ sessions' = sessions \ finished
     /\ service_state' = [m \in Manifests |-> IF m \in released THEN "idle" ELSE service_state[m]]
     /\ session' = [i \in SessionIds |-> IF i \in finished THEN NoSession ELSE session[i]]
     /\ cancelled' = cancelled \ finished
     /\ crashed' = crashed \ finished
     /\ UNCHANGED <<serviceVars, registryVars, em, specs, ready, created, state, step>>
-----------------------------------------------------------------------------
(***************************************************************************)
(* A session's task: ExperimentRunner.run_experiment, seen through the     *)
(* states it goes through and the RPCs it sends.                           *)
(***************************************************************************)
InBody(i) == em = "up" /\ step[i] \in Body

\* Players that session i may have asked for a reflection, and that ignore a stop
\* until it ends (PlayerService.stop_player: reflecting is past stopping).
ReflectingIn(i) == IF step[i] = "post_game" /\ i \notin crashed
                   THEN {s \in Slow \ silent : owner[s] = i} ELSE {}

\* configure_services, one RPC: the service takes the experiment if it is idle.
Configure(i, m, from, to) ==
  /\ InBody(i) /\ i \notin cancelled
  /\ step[i] = from
  /\ m[1] \notin silent /\ Report(m[1]) = "free"
  /\ owner' = [owner EXCEPT ![m[1]] = i]
  /\ step' = [step EXCEPT ![i] = to]
  /\ state' = [state EXCEPT ![i] = IF to = "loop" THEN "running" ELSE @]
  /\ UNCHANGED <<silent, stopping, late, stuck, hash, registryVars, service_state,
                 queueVars, cancelled, crashed>>

ConfigureServices(i) ==
  \/ Configure(i, session[i].defuser, "configure_defuser",
               IF session[i].expert = NoManifest THEN "configure_game" ELSE "configure_expert")
  \/ /\ session[i].expert # NoManifest
     /\ Configure(i, session[i].expert, "configure_expert", "configure_game")
  \/ Configure(i, session[i].game, "configure_game", "loop")

\* An RPC of the body is rejected or times out, or the scope was cancelled:
\* experiment_exception_handler sets client_crashed_event, and cleanup follows.
\* (What the handler does not catch is left to a model of the runner.)  In post_game a
\* slow player may have been asked to reflect, and cleanup takes it for stopping.
FailExperiment(i) ==
  /\ InBody(i)
  /\ \E reflecting \in SUBSET ReflectingIn(i) : stuck' = stuck \cup reflecting
  /\ crashed' = crashed \cup {i}
  /\ state' = [state EXCEPT ![i] = "cleanup"]
  /\ step' = [step EXCEPT ![i] = "stop_game"]
  /\ UNCHANGED <<silent, owner, stopping, late, hash, registryVars, service_state,
                 queueVars, cancelled>>

\* The experiment loop ends: the game is over, or a guarded step failed.  A game
\* outlasts a heartbeat period and a registry round, so the registry has seen
\* every service that still beats at work.
EndLoop(i) ==
  /\ InBody(i) /\ i \notin cancelled
  /\ step[i] = "loop"
  /\ \A m \in ManifestsOf(i) :
       (m = ManifestOf(m[1]) /\ m[1] \in connected \ silent) => seen[m] = "busy"
  /\ \E failed \in BOOLEAN : crashed' = IF failed THEN crashed \cup {i} ELSE crashed
  /\ state' = [state EXCEPT ![i] = "post_game"]
  /\ step' = [step EXCEPT ![i] = "post_game"]
  /\ UNCHANGED <<serviceVars, registryVars, service_state, queueVars, cancelled>>

\* A stop RPC from session i.  To a silent service it ends in a timeout, and the
\* service takes it late or never; to a player that timeout outlasts the heartbeat.
\* A slow player takes it in the middle of a turn, which goes on, or is deaf to it in
\* the middle of a reflection.
StopServices(i, uuids, deaf) ==
  \E lost \in SUBSET (uuids \cap silent) :
    LET taken == uuids \ (lost \cup deaf)
    IN /\ \A s \in uuids \cap silent \cap Players : s \notin hash
       /\ stopping' = stopping \cup taken
       /\ owner' = [s \in Services |-> IF s \in taken THEN 0 ELSE owner[s]]
       /\ \E turns \in SUBSET {s \in taken \cap Slow : owner[s] = i} : late' = late \cup turns
       /\ stuck' = (stuck \ taken) \cup deaf

\* Reflection and stop_all_players, which are skipped after a hard crash.
PostGame(i) ==
  /\ InBody(i)
  /\ step[i] = "post_game"
  /\ \/ /\ i \notin crashed
        /\ \E deaf \in SUBSET ReflectingIn(i) :
             StopServices(i, service_uuids(i) \cap Players, deaf)
     \/ i \in crashed /\ UNCHANGED <<owner, stopping, late, stuck>>
  /\ state' = [state EXCEPT ![i] = "cleanup"]
  /\ step' = [step EXCEPT ![i] = "stop_game"]
  /\ UNCHANGED <<silent, hash, registryVars, service_state, queueVars, cancelled, crashed>>

\* cleanup_experiment: stop the game, then each player unless its watcher has seen it
\* stopping, or reflecting, which it takes for the same; so only a player this
\* session has not configured, has stopped already, or has left reflecting is spared
\* the RPC.  The last step leaves the runner done.
CleanupStep(i, uuids, from, to) ==
  /\ em = "up" /\ step[i] = from
  /\ \/ StopServices(i, uuids, {})
     \/ (\A s \in uuids : owner[s] # i \/ s \in stuck) /\ UNCHANGED <<owner, stopping, late, stuck>>
  /\ step' = [step EXCEPT ![i] = to]
  /\ state' = [state EXCEPT ![i] = IF to = "ended" THEN "done" ELSE @]
  /\ UNCHANGED <<silent, hash, registryVars, service_state, queueVars, cancelled, crashed>>

CleanupExperiment(i) ==
  \/ CleanupStep(i, {session[i].game[1]}, "stop_game", "stop_defuser")
  \/ CleanupStep(i, {session[i].defuser[1]}, "stop_defuser", "stop_expert")
  \/ CleanupStep(i, {session[i].expert[1]} \ {NoExpert}, "stop_expert", "ended")
-----------------------------------------------------------------------------
\* The run is over when the EM is down: the orchestrator terminates the services.
Service == em = "up" /\ \E s \in Services :
  SendHeartbeat(s) \/ FallSilent(s) \/ HeartbeatLapses(s) \/ Resume(s) \/ FinishStop(s)
    \/ TurnReturnsLate(s)

Registry == ProcessHeartbeats \/ \E m \in Manifests : ExpireService(m)

Matchmaking == TryMatchExperiments \/ ContinueMatching \/ CleanupFinishedSessions

Run(i) == ConfigureServices(i) \/ FailExperiment(i) \/ EndLoop(i)
            \/ PostGame(i) \/ CleanupExperiment(i)

Next == \/ Service \/ Registry \/ Matchmaking
        \/ \E batch \in SUBSET Specs : AddSpecs(batch)
        \/ \E i \in sessions : Run(i)

Spec == Init /\ [][Next]_vars

\* Every loop of the EM runs on a timer and every await of a session is bounded by
\* a timeout, so each of them is fair; services fail and clients post as they like.
Fairness ==
  /\ WF_vars(ProcessHeartbeats)
  /\ WF_vars(\E m \in expiring : ExpireService(m))
  /\ WF_vars(Matchmaking)
  /\ \A i \in SessionIds : WF_vars(i \in sessions /\ Run(i))
  /\ \A s \in Fragile : WF_vars(em = "up" /\ HeartbeatLapses(s))
  /\ \A s \in Services : /\ WF_vars(em = "up" /\ SendHeartbeat(s))
                         /\ WF_vars(em = "up" /\ FinishStop(s))

FairSpec == Spec /\ Fairness
-----------------------------------------------------------------------------
\* Types of the variables; the queue never counts below zero, and an id is listed
\* only once its session has been created.
TypeOK ==
  /\ silent \subseteq Services /\ stopping \subseteq Services /\ hash \subseteq Services
  /\ late \subseteq Players /\ stuck \subseteq Players
  /\ owner \in [Services -> 0..MaxSessions]
  /\ connected \subseteq Services /\ expiring \subseteq Manifests
  /\ epoch \in [Services -> 0..MaxEpochs]
  /\ \A s \in connected : epoch[s] > 0
  /\ seen \in [Manifests -> {"free", "busy"}]
  /\ service_state \in [Manifests -> ServiceState]
  /\ em \in {"up", "crashed"}
  /\ specs \in [Specs -> Nat]
  /\ mm \in {"idle", "sleeping", "cleaning"}
  /\ ready \in [players : SUBSET Manifests, games : SUBSET Manifests, specs : SUBSET Specs]
  /\ created \in 0..MaxSessions
  /\ sessions \subseteq 1..created
  /\ session \in [SessionIds -> SessionRecord \cup {NoSession}]
  /\ \A i \in sessions : session[i] \in SessionRecord
  /\ state \in [SessionIds -> ExperimentState]
  /\ step \in [SessionIds -> Steps]
  /\ cancelled \subseteq SessionIds /\ crashed \subseteq SessionIds

\* An attempt name is in flight at most once: one spec queued once, or one session.
\* add_experiment_specs has to look at the queue and at the sessions for it, while
\* matchmaking moves specs from one to the other.
AttemptInFlightOnce ==
  /\ \A x \in Specs : specs[x] <= 1
  /\ \A x, y \in KnownSpecs : ~Conflict(x, y)
  /\ \A i \in sessions : specs[session[i].spec] = 0
  /\ \A i, j \in sessions : session[i].spec = session[j].spec => i = j

\* A manifest object is in one listed session at most: what matchmaking read before
\* its sleeps is never assigned twice, whatever expired or came back meanwhile.
ManifestExclusive ==
  \A i, j \in sessions : i # j => ManifestsOf(i) \cap ManifestsOf(j) = {}

\* What makes the invariants above inductive, for the proofs.
\* What matchmaking read before a sleep is still queued, of the right kind, and
\* in no listed session.
ReadyIsFree ==
  /\ ready.specs \subseteq {x \in Specs : specs[x] > 0}
  /\ \A m \in ready.players : m[1] \in Players
  /\ \A m \in ready.games : m[1] \in Games
  /\ \A i \in sessions : ManifestsOf(i) \cap (ready.players \cup ready.games) = {}

\* The current manifest of a service in a listed session is not idle, so that the
\* next cycle of matchmaking leaves it alone.
ListedIsTaken ==
  em = "up" => \A i \in sessions : \A m \in ManifestsOf(i) :
    (m[1] \in connected /\ m = ManifestOf(m[1])) => service_state[m] # "idle"

\* No one holds a manifest that the registry has not created yet.
ManifestsExist ==
  /\ \A i \in sessions : \A m \in ManifestsOf(i) : m[2] <= epoch[m[1]]
  /\ \A m \in ready.players \cup ready.games : m[2] <= epoch[m[1]]

\* A service at the bound on its manifests does not beat again after it has lapsed.
LastEpoch ==
  \A s \in Services : epoch[s] = MaxEpochs =>
    (s \in hash /\ s \in connected) \/ (s \notin hash /\ s \in silent)

\* The inductive invariant behind the theorems on AttemptInFlightOnce and
\* ManifestExclusive: every snapshot the EM's loops hold across an await is still
\* compatible with what the other loops have done since.
InductiveInv ==
  /\ TypeOK /\ AttemptInFlightOnce /\ ManifestExclusive
  /\ ReadyIsFree /\ ListedIsTaken /\ ManifestsExist /\ LastEpoch

\* For the theorems that need silence to be death: a service has one manifest in its
\* life, and only a listed session's manifests are marked.
OneLife ==
  \A s \in Services :
    /\ epoch[s] <= 1
    /\ epoch[s] = 1 => (s \in hash /\ s \in connected) \/ (s \notin hash /\ s \in silent)

MarkedIsListed ==
  em = "up" => \A m \in Manifests :
    service_state[m] = "in_experiment" => \E i \in sessions : m \in ManifestsOf(i)

\* A service is in one listed session at most, as long as silence is death.
ExclusiveServices ==
  \A i, j \in sessions : i # j => service_uuids(i) \cap service_uuids(j) = {}

\* A connected service marked in_experiment is in a listed session, which will
\* release it (docs/reference/runtime/service-registry.md: "A running session has
\* assigned the service").
InExperimentHasSession ==
  em = "up" => \A s \in connected :
    service_state[ManifestOf(s)] = "in_experiment" => \E i \in sessions : s \in service_uuids(i)

\* A session that has not begun to stop has every service in the registry, or an
\* expiry task on its way that will stop it ("The registry stops a running session
\* when one of its required services expires").  With a service that stalls and comes
\* back it holds in one room only: the tasks look up sessions by the service alone.
RunsOnlyWithServices ==
  em = "up" => \A i \in sessions : is_stopping(i) \/
    \A m \in ManifestsOf(i) : m \in expiring \/ (m[1] \in connected /\ m = ManifestOf(m[1]))

\* While a session is at work or cleaning up, a service it has configured is taken
\* from it by a step of its own only: no other session stops or configures it, as long
\* as silence is death.
NeverTakenAtWork ==
  [][\A s \in Services : LET i == owner[s] IN
       i # 0 /\ step[i] \in Body \cup Cleanup /\ owner'[s] # i => step'[i] # step[i]]_vars

\* A queued spec is started in the end, while the services live, none is stuck and
\* sessions are left.
QueueServed ==
  \A x \in Specs : (specs[x] > 0)
    ~> (specs[x] = 0 \/ silent \cup stuck # {} \/ created = MaxSessions \/ em = "crashed")

\* The EM implements the life of an attempt, as long as silence is death.
Stage(x) == IF specs[x] > 0 THEN "queued"
            ELSE IF \E i \in sessions : session[i].spec = x THEN "running" ELSE "unknown"
Held(x)  == UNION {service_uuids(i) : i \in {j \in sessions : session[j].spec = x}}

Abstract == INSTANCE AttemptLifecycle WITH stage <- [x \in Specs |-> Stage(x)],
                                           held  <- [x \in Specs |-> Held(x)]
ImplementsLifecycle == Abstract!ASpec
=============================================================================
