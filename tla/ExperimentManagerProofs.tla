---------------------- MODULE ExperimentManagerProofs ----------------------
(***************************************************************************)
(* Proofs that the matchmaking of the experiment manager keeps its         *)
(* bookkeeping consistent, for any number of services, specs and sessions, *)
(* and whatever falls silent or comes back.  InductiveInv, defined beside  *)
(* the properties, is preserved by each action; one lemma per actor.       *)
(* While silence is death, the experiment manager also implements          *)
(* AttemptLifecycle, and a session at work has its services: they are in   *)
(* the registry or on their way to stop it, and no other session touches   *)
(* them.                                                                   *)
(***************************************************************************)
EXTENDS ExperimentManager, TLAPS

-----------------------------------------------------------------------------
(***************************************************************************)
(* Manifests and sessions.                                                 *)
(***************************************************************************)

\* A manifest is a service and a number, and the placeholder for no expert is none.
LEMMA ManifestShape ==
  /\ \A m \in Manifests : m[1] \in Services /\ m[2] \in 1..MaxEpochs
  /\ NoManifest \notin Manifests
<1>1. \A m \in Manifests : m[1] \in Services /\ m[2] \in 1..MaxEpochs
  BY DEF Manifests
<1>2. NoManifest \notin Manifests
  BY DEF Manifests, NoManifest
<1> QED BY <1>1, <1>2

\* What a listed session holds are manifests.
LEMMA ListedHolds ==
  ASSUME TypeOK, NEW i \in sessions
  PROVE  /\ i \in SessionIds /\ session[i] \in SessionRecord
         /\ ManifestsOf(i) \subseteq Manifests
<1>1. i \in SessionIds
  BY ConstantsOK DEF TypeOK, SessionIds
<1>2. session[i] \in SessionRecord
  BY DEF TypeOK
<1>3. ManifestsOf(i) \subseteq Manifests
  BY <1>2 DEF ManifestsOf, SessionRecord
<1> QED BY <1>1, <1>2, <1>3
-----------------------------------------------------------------------------
(***************************************************************************)
(* The initial state.                                                      *)
(***************************************************************************)
\* Nothing is queued, listed or registered when the EM starts.
LEMMA InitEstablishes == Init => InductiveInv
<1> SUFFICES ASSUME Init PROVE InductiveInv
  OBVIOUS
<1>1. TypeOK
  BY ConstantsOK DEF Init, TypeOK, ServiceState, ExperimentState, Steps, SessionIds
<1>2. AttemptInFlightOnce
  BY DEF Init, AttemptInFlightOnce, KnownSpecs
<1>3. ManifestExclusive /\ ReadyIsFree /\ ListedIsTaken /\ ManifestsExist
  BY DEF Init, ManifestExclusive, ReadyIsFree, ListedIsTaken, ManifestsExist
<1>4. LastEpoch
  BY ConstantsOK DEF Init, LastEpoch
<1> QED BY <1>1, <1>2, <1>3, <1>4 DEF InductiveInv
-----------------------------------------------------------------------------
(***************************************************************************)
(* The services.                                                           *)
(***************************************************************************)
\* Services change what they report and whether they beat, and a beat past the bound on
\* manifests cannot happen.
LEMMA ServiceStep == InductiveInv /\ Service => InductiveInv'
<1> SUFFICES ASSUME InductiveInv, Service PROVE InductiveInv'
  OBVIOUS
<1> USE DEF InductiveInv
<1>1. UNCHANGED <<registryVars, service_state, queueVars, runnerVars, owner>>
  BY DEF Service, SendHeartbeat, FallSilent, HeartbeatLapses, Resume, FinishStop,
         TurnReturnsLate
<1>2. TypeOK'
  <2>1. /\ silent' \subseteq Services /\ stopping' \subseteq Services /\ hash' \subseteq Services
        /\ late' \subseteq Players /\ stuck' \subseteq Players
    BY ConstantsOK
    DEF TypeOK, Service, SendHeartbeat, FallSilent, HeartbeatLapses, Resume, FinishStop,
        TurnReturnsLate
  <2> QED BY <1>1, <2>1 DEF TypeOK, registryVars, queueVars, runnerVars
<1>3. AttemptInFlightOnce'
  BY <1>1 DEF AttemptInFlightOnce, KnownSpecs, queueVars
<1>4. ManifestExclusive' /\ ReadyIsFree'
  BY <1>1 DEF ManifestExclusive, ReadyIsFree, ManifestsOf, queueVars
<1>5. ListedIsTaken' /\ ManifestsExist'
  BY <1>1 DEF ListedIsTaken, ManifestsExist, ManifestsOf, ManifestOf, queueVars, registryVars
<1>6. LastEpoch'
  BY <1>1, ConstantsOK DEF LastEpoch, registryVars, Service, SendHeartbeat, FallSilent,
              HeartbeatLapses, Resume, FinishStop, TurnReturnsLate
<1> QED BY <1>2, <1>3, <1>4, <1>5, <1>6
-----------------------------------------------------------------------------
(***************************************************************************)
(* The registry.                                                           *)
(***************************************************************************)

\* A round of heartbeats makes new manifests only, which nobody holds yet.
LEMMA HeartbeatsStep == InductiveInv /\ ProcessHeartbeats => InductiveInv'
<1> SUFFICES ASSUME InductiveInv, ProcessHeartbeats PROVE InductiveInv'
  OBVIOUS
<1> USE DEF InductiveInv
<1> DEFINE new == hash \ connected
<1>1. /\ UNCHANGED <<serviceVars, service_state, queueVars, runnerVars>>
      /\ connected' = hash
      /\ epoch' = [s \in Services |-> IF s \in new THEN epoch[s] + 1 ELSE epoch[s]]
      /\ expiring' = {ManifestOf(s) : s \in connected \ hash}
      /\ em = "up"
  BY DEF ProcessHeartbeats
<1>2. hash \subseteq Services /\ connected \subseteq Services /\ epoch \in [Services -> 0..MaxEpochs]
  BY DEF TypeOK
<1>3. \A s \in new : epoch[s] # MaxEpochs
  BY <1>2 DEF LastEpoch
<1>4. epoch' \in [Services -> 0..MaxEpochs]
  BY <1>1, <1>2, <1>3, ConstantsOK
<1>5. \A s \in Services : epoch[s] <= epoch'[s]
  BY <1>1, <1>2, ConstantsOK
<1>6. TypeOK'
  <2>1. seen' \in [Manifests -> {"free", "busy"}]
    <3>1. PICK fresh : seen' = [m \in Manifests |->
                        IF m[1] \in new \cup fresh /\ m[2] = epoch'[m[1]] THEN Report(m[1])
                        ELSE seen[m]]
      BY DEF ProcessHeartbeats
    <3>2. \A s : Report(s) \in {"free", "busy"}
      BY DEF Report
    <3> QED BY <3>1, <3>2 DEF TypeOK
  <2>2. expiring' \subseteq Manifests
    <3>1. \A s \in connected : epoch[s] \in 1..MaxEpochs
      BY <1>2, ConstantsOK DEF TypeOK
    <3> QED BY <1>1, <1>2, <3>1 DEF ManifestOf, Manifests
  <2>3. \A s \in connected' : epoch'[s] > 0
    BY <1>1, <1>2, ConstantsOK DEF TypeOK
  <2> QED
    BY <1>1, <1>2, <1>4, <2>1, <2>2, <2>3
    DEF TypeOK, serviceVars, queueVars, runnerVars
<1>7. AttemptInFlightOnce'
  BY <1>1 DEF AttemptInFlightOnce, KnownSpecs, queueVars
<1>8. ManifestExclusive' /\ ReadyIsFree'
  BY <1>1 DEF ManifestExclusive, ReadyIsFree, ManifestsOf, queueVars
<1>9. ListedIsTaken'
  <2> SUFFICES ASSUME NEW i \in sessions, NEW m \in ManifestsOf(i),
                      m[1] \in hash, m = ManifestOf(m[1])'
               PROVE  service_state[m] # "idle"
    BY <1>1 DEF ListedIsTaken, ManifestsOf, queueVars
  <2>1. m \in Manifests /\ m[1] \in Services /\ m[2] = epoch'[m[1]]
    BY ListedHolds, ManifestShape DEF ManifestOf
  <2>2. m[2] <= epoch[m[1]]
    BY DEF ManifestsExist
  <2>3. m[1] \notin new
    BY <1>1, <1>2, <2>1, <2>2
  <2>4. m[1] \in connected /\ m = ManifestOf(m[1])
    BY <1>1, <2>1, <2>3 DEF ManifestOf
  <2> QED BY <1>1, <2>4 DEF ListedIsTaken
<1>10. ManifestsExist'
  <2>1. \A m \in Manifests : m[2] <= epoch[m[1]] => m[2] <= epoch'[m[1]]
    BY <1>2, <1>4, <1>5, ManifestShape, ConstantsOK
  <2>2. \A i \in sessions : ManifestsOf(i) \subseteq Manifests
    BY ListedHolds
  <2>3. ready.players \subseteq Manifests /\ ready.games \subseteq Manifests
    BY DEF TypeOK
  <2> QED BY <1>1, <2>1, <2>2, <2>3 DEF ManifestsExist, ManifestsOf, queueVars
<1>11. LastEpoch'
  BY <1>1, <1>2, <1>3 DEF LastEpoch, serviceVars
<1> QED BY <1>6, <1>7, <1>8, <1>9, <1>10, <1>11

\* Expiry marks manifests as cleaning up or not ready, never as idle.
LEMMA ExpiryStep ==
  ASSUME InductiveInv, NEW m \in Manifests, ExpireService(m)
  PROVE  InductiveInv'
<1> USE DEF InductiveInv
<1> DEFINE stopped == {i \in sessions : /\ service_state[m] = "in_experiment"
                                       /\ FoundFor(m[1], i)
                                       /\ ~is_stopping(i)}
           released == UNION {ManifestsOf(i) : i \in stopped}
<1>1. /\ UNCHANGED <<serviceVars, connected, epoch, seen, queueVars, step>>
      /\ expiring' = expiring \ {m}
      /\ service_state' = [n \in Manifests |->
                            IF n \in released THEN "cleanup"
                            ELSE IF n = m THEN "not_ready" ELSE service_state[n]]
      /\ state' = [i \in SessionIds |-> IF i \in stopped THEN "cleanup" ELSE state[i]]
      /\ crashed' = crashed \cup stopped
      /\ cancelled' = cancelled \cup stopped
  BY DEF ExpireService
<1>2. TypeOK'
  <2>1. stopped \subseteq SessionIds
    BY ListedHolds
  <2>2. service_state' \in [Manifests -> ServiceState]
    BY <1>1 DEF TypeOK, ServiceState
  <2>3. state' \in [SessionIds -> ExperimentState]
    BY <1>1 DEF TypeOK, ExperimentState
  <2> QED
    BY <1>1, <2>1, <2>2, <2>3 DEF TypeOK, serviceVars, queueVars
<1>3. AttemptInFlightOnce'
  BY <1>1 DEF AttemptInFlightOnce, KnownSpecs, queueVars
<1>4. ManifestExclusive' /\ ReadyIsFree' /\ ManifestsExist'
  BY <1>1 DEF ManifestExclusive, ReadyIsFree, ManifestsExist, ManifestsOf, queueVars
<1>5. ListedIsTaken'
  <2>1. \A n \in Manifests : service_state'[n] = "idle" => service_state[n] = "idle"
    BY <1>1
  <2>2. \A i \in sessions : ManifestsOf(i) \subseteq Manifests
    BY ListedHolds
  <2> QED BY <1>1, <2>1, <2>2 DEF ListedIsTaken, ManifestsOf, ManifestOf, queueVars
<1>6. LastEpoch'
  BY <1>1 DEF LastEpoch, serviceVars
<1> QED BY <1>2, <1>3, <1>4, <1>5, <1>6
-----------------------------------------------------------------------------
(***************************************************************************)
(* The queue and matchmaking.                                              *)
(***************************************************************************)

\* Posting looks at the queue and at the sessions, so it binds no name twice.
LEMMA AddSpecsStep ==
  ASSUME InductiveInv, NEW batch \in SUBSET Specs, AddSpecs(batch)
  PROVE  InductiveInv'
<1> USE DEF InductiveInv
<1>1. /\ UNCHANGED <<serviceVars, registryVars, service_state,
                    em, mm, ready, created, sessions, session, runnerVars>>
      /\ specs' = [x \in Specs |-> IF x \in batch \ KnownSpecs THEN specs[x] + 1 ELSE specs[x]]
      /\ \A x \in batch, y \in KnownSpecs \cup batch : ~Conflict(x, y)
  BY DEF AddSpecs
<1>2. specs \in [Specs -> Nat] /\ \A x \in Specs : x \notin KnownSpecs => specs[x] = 0
  BY DEF TypeOK, KnownSpecs
<1>3. specs' \in [Specs -> Nat] /\ \A x \in Specs : specs[x] > 0 => specs'[x] > 0
  BY <1>1, <1>2
<1>4. KnownSpecs' = KnownSpecs \cup batch
  BY <1>1, <1>2 DEF KnownSpecs
<1>5. TypeOK'
  BY <1>1, <1>3 DEF TypeOK, serviceVars, registryVars, runnerVars
<1>6. AttemptInFlightOnce'
  <2>1. \A x \in Specs : specs'[x] <= 1
    BY <1>1, <1>2 DEF AttemptInFlightOnce
  <2>2. \A x, y \in KnownSpecs' : ~Conflict(x, y)
    BY <1>1, <1>4 DEF AttemptInFlightOnce, Conflict
  <2>3. \A i \in sessions : session[i].spec \in KnownSpecs
    BY DEF KnownSpecs
  <2>4. \A i \in sessions : specs'[session[i].spec] = 0
    <3>1. \A i \in sessions : session[i].spec \in Specs
      BY ListedHolds DEF SessionRecord
    <3> QED BY <1>1, <2>3, <3>1 DEF AttemptInFlightOnce
  <2> QED BY <1>1, <2>1, <2>2, <2>4 DEF AttemptInFlightOnce
<1>7. ManifestExclusive'
  BY <1>1 DEF ManifestExclusive, ManifestsOf
<1>8. ReadyIsFree'
  BY <1>1, <1>3 DEF ReadyIsFree, ManifestsOf
<1>9. ListedIsTaken' /\ ManifestsExist'
  BY <1>1 DEF ListedIsTaken, ManifestsExist, ManifestsOf, ManifestOf, registryVars
<1>10. LastEpoch'
  BY <1>1 DEF LastEpoch, serviceVars, registryVars
<1> QED BY <1>5, <1>6, <1>7, <1>8, <1>9, <1>10

\* A pairing takes a spec of the queue and different players it was offered.
LEMMA PairingShape ==
  ASSUME NEW players \in SUBSET Manifests, NEW queue \in SUBSET Specs,
         NEW pairing \in Pairings(players, queue)
  PROVE  /\ pairing.spec \in queue
         /\ pairing.defuser \in players
         /\ pairing.expert \in players \cup {NoManifest}
<1>1. CASE pairing \in Solo(players, queue)
  BY <1>1 DEF Solo
<1>2. CASE pairing \in Duo(players, queue)
  BY <1>2 DEF Duo
<1> QED BY <1>1, <1>2 DEF Pairings

\* Starting a session keeps the invariant when what it is offered is queued and free,
\* whether it was read just now or before a sleep.
LEMMA StartStep ==
  ASSUME InductiveInv,
         NEW players \in SUBSET Manifests, NEW games \in SUBSET Manifests,
         NEW queue \in SUBSET {x \in Specs : specs[x] > 0},
         \A m \in players : m[1] \in Players,
         \A m \in games : m[1] \in Games,
         \A m \in players \cup games : m[2] <= epoch[m[1]],
         \A i \in sessions : ManifestsOf(i) \cap (players \cup games) = {},
         NEW pairing \in Pairings(players, queue), NEW game \in games,
         StartExperiment(pairing, game, players, games, queue)
  PROVE  InductiveInv'
<1> USE DEF InductiveInv
<1>0. PICK i \in Nat : i = created + 1
  BY ConstantsOK DEF TypeOK
<1> DEFINE x     == pairing.spec
           mine  == {pairing.defuser, pairing.expert, game} \ {NoManifest}
           uuids == {m[1] : m \in mine}
<1>1. /\ created < MaxSessions
      /\ created' = i
      /\ sessions' = sessions \cup {i}
      /\ session' = [session EXCEPT ![i] = [spec |-> x, defuser |-> pairing.defuser,
                                           expert |-> pairing.expert, game |-> game]]
      /\ specs' = [specs EXCEPT ![x] = @ - 1]
      /\ ready' = [players |-> players \ mine, games |-> games \ {game}, specs |-> queue \ {x}]
      /\ mm' = "sleeping"
      /\ UNCHANGED <<serviceVars, registryVars, state, cancelled, crashed>>
  BY <1>0 DEF StartExperiment
<1>2. \/ /\ service_state' = [m \in Manifests |->
               IF m[1] \in uuids /\ m = ManifestOf(m[1]) THEN "in_experiment" ELSE service_state[m]]
         /\ step' = [step EXCEPT ![i] = "configure_defuser"]
         /\ UNCHANGED em
      \/ em' = "crashed" /\ UNCHANGED <<service_state, step>>
  BY <1>0 DEF StartExperiment
<1>3. /\ x \in queue /\ x \in Specs
      /\ pairing.defuser \in players /\ pairing.expert \in players \cup {NoManifest}
  BY PairingShape
<1>4. i \in SessionIds /\ i \notin sessions /\ created \in Nat
  BY <1>0, <1>1, ConstantsOK DEF TypeOK, SessionIds
<1>5. /\ session'[i] = [spec |-> x, defuser |-> pairing.defuser,
                        expert |-> pairing.expert, game |-> game]
      /\ session'[i] \in SessionRecord
      /\ \A j \in sessions : session'[j] = session[j]
  BY <1>1, <1>3, <1>4 DEF TypeOK, SessionRecord
<1>6. /\ ManifestsOf(i)' = mine
      /\ \A j \in sessions : ManifestsOf(j)' = ManifestsOf(j)
  BY <1>5 DEF ManifestsOf
<1>7. mine \subseteq players \cup games /\ mine \subseteq Manifests
  BY <1>3
<1>8. specs[x] = 1 /\ specs'[x] = 0 /\ \A y \in Specs \ {x} : specs'[y] = specs[y]
  BY <1>1, <1>3 DEF TypeOK, AttemptInFlightOnce
<1>9. TypeOK'
  <2>1. specs' \in [Specs -> Nat]
    BY <1>1, <1>8 DEF TypeOK
  <2>2. sessions' \subseteq 1..created' /\ created' \in 0..MaxSessions
    BY <1>0, <1>1, <1>4, ConstantsOK DEF TypeOK
  <2>3. session' \in [SessionIds -> SessionRecord \cup {NoSession}]
    BY <1>1, <1>5 DEF TypeOK
  <2>4. \A j \in sessions' : session'[j] \in SessionRecord
    BY <1>1, <1>5 DEF TypeOK
  <2>5. /\ service_state' \in [Manifests -> ServiceState]
        /\ step' \in [SessionIds -> Steps]
        /\ em' \in {"up", "crashed"}
    BY <1>2 DEF TypeOK, ServiceState, Steps, Body
  <2>6. ready' \in [players : SUBSET Manifests, games : SUBSET Manifests, specs : SUBSET Specs]
    BY <1>1
  <2> QED
    BY <1>1, <2>1, <2>2, <2>3, <2>4, <2>5, <2>6 DEF TypeOK, serviceVars, registryVars
<1>10. AttemptInFlightOnce'
  <2>1. \A j \in sessions : session[j].spec \in Specs /\ specs[session[j].spec] = 0
    BY ListedHolds DEF AttemptInFlightOnce, SessionRecord
  <2>2. KnownSpecs' = KnownSpecs
    BY <1>1, <1>3, <1>5, <1>8, <2>1 DEF KnownSpecs
  <2>3. \A y \in Specs : specs'[y] <= 1
    BY <1>8 DEF AttemptInFlightOnce
  <2>4. \A j \in sessions' : specs'[session'[j].spec] = 0
    BY <1>1, <1>5, <1>8, <2>1
  <2>5. \A j, k \in sessions' : session'[j].spec = session'[k].spec => j = k
    BY <1>1, <1>5, <1>8, <2>1 DEF AttemptInFlightOnce
  <2> QED BY <2>2, <2>3, <2>4, <2>5 DEF AttemptInFlightOnce, Conflict
<1>11. ManifestExclusive'
  BY <1>1, <1>6, <1>7 DEF ManifestExclusive
<1>12. ReadyIsFree'
  <2>1. ready'.specs \subseteq {y \in Specs : specs'[y] > 0}
    BY <1>1, <1>8
  <2>2. mine \cap (ready'.players \cup ready'.games) = {}
    <3>1. pairing.defuser # game /\ pairing.expert # game
      BY <1>3, ManifestShape, ConstantsOK
    <3>2. \A m \in players \cap games : FALSE
      BY ConstantsOK
    <3> QED BY <1>1, <1>3, <3>1, <3>2
  <2>3. ready'.players \subseteq players /\ ready'.games \subseteq games
    BY <1>1
  <2> QED BY <1>1, <1>6, <2>1, <2>2, <2>3 DEF ReadyIsFree
<1>13. ListedIsTaken'
  <2> SUFFICES ASSUME em' = "up", NEW j \in sessions', NEW m \in ManifestsOf(j)',
                      m[1] \in connected', m = ManifestOf(m[1])'
               PROVE  service_state'[m] # "idle"
    BY DEF ListedIsTaken
  <2>1. connected' = connected /\ m = ManifestOf(m[1])
    BY <1>1 DEF registryVars, ManifestOf
  <2>2. m \in Manifests
    BY <1>1, <1>6, <1>7, ListedHolds
  <2>3. CASE j = i
    <3>1. m[1] \in uuids
      BY <1>6, <2>3
    <3> QED BY <1>2, <2>1, <2>2, <3>1
  <2>4. CASE j \in sessions
    <3>1. em = "up" /\ m \in ManifestsOf(j)
      BY <1>2, <1>6, <2>4
    <3>2. service_state[m] # "idle"
      BY <2>1, <2>4, <3>1 DEF ListedIsTaken
    <3> QED BY <1>2, <2>2, <3>2
  <2> QED BY <1>1, <2>3, <2>4
<1>14. ManifestsExist'
  <2>1. epoch' = epoch
    BY <1>1 DEF registryVars
  <2>2. \A m \in ready'.players \cup ready'.games : m \in players \cup games
    BY <1>1
  <2> QED BY <1>1, <1>6, <1>7, <2>1, <2>2 DEF ManifestsExist
<1>15. LastEpoch'
  BY <1>1 DEF LastEpoch, serviceVars, registryVars
<1> QED BY <1>9, <1>10, <1>11, <1>12, <1>13, <1>14, <1>15

\* Leaving the pairing loop only forgets what was read.
LEMMA LeaveStep ==
  ASSUME InductiveInv,
         mm' = "cleaning", ready' = [players |-> {}, games |-> {}, specs |-> {}],
         UNCHANGED <<serviceVars, registryVars, service_state,
                     em, specs, created, sessions, session, runnerVars>>
  PROVE  InductiveInv'
<1> USE DEF InductiveInv
<1>1. TypeOK'
  BY DEF TypeOK, serviceVars, registryVars, runnerVars
<1>2. AttemptInFlightOnce'
  BY DEF AttemptInFlightOnce, KnownSpecs
<1>3. ManifestExclusive' /\ ReadyIsFree'
  BY DEF ManifestExclusive, ReadyIsFree, ManifestsOf
<1>4. ListedIsTaken' /\ ManifestsExist'
  BY DEF ListedIsTaken, ManifestsExist, ManifestsOf, ManifestOf, registryVars
<1>5. LastEpoch'
  BY DEF LastEpoch, serviceVars, registryVars
<1> QED BY <1>1, <1>2, <1>3, <1>4, <1>5

\* A cycle begins with services that no listed session has, because the current
\* manifest of a listed service is never idle ...
LEMMA TryMatchStep == InductiveInv /\ TryMatchExperiments => InductiveInv'
<1> SUFFICES ASSUME InductiveInv, TryMatchExperiments PROVE InductiveInv'
  OBVIOUS
<1> DEFINE queue == {x \in Specs : specs[x] > 0}
<1>1. em = "up" /\ MatchRound(ReadyOf(Players), ReadyOf(Games), queue)
  BY DEF TryMatchExperiments
<1>2. CASE \E pairing \in Pairings(ReadyOf(Players), queue), game \in ReadyOf(Games) :
             StartExperiment(pairing, game, ReadyOf(Players), ReadyOf(Games), queue)
  <2>1. ReadyOf(Players) \in SUBSET Manifests /\ ReadyOf(Games) \in SUBSET Manifests
    BY DEF ReadyOf
  <2>2. /\ \A m \in ReadyOf(Players) : m[1] \in Players
        /\ \A m \in ReadyOf(Games) : m[1] \in Games
    BY DEF ReadyOf
  <2>3. \A m \in ReadyOf(Players) \cup ReadyOf(Games) :
           m[1] \in connected /\ m = ManifestOf(m[1]) /\ service_state[m] = "idle"
    BY DEF ReadyOf
  <2>4. \A m \in ReadyOf(Players) \cup ReadyOf(Games) : m[2] <= epoch[m[1]]
    <3>1. \A m \in ReadyOf(Players) \cup ReadyOf(Games) :
             m[1] \in Services /\ m[2] = epoch[m[1]]
      BY <2>1, <2>3, ManifestShape DEF ManifestOf
    <3>2. \A s \in Services : epoch[s] \in Nat
      BY ConstantsOK DEF InductiveInv, TypeOK
    <3> QED BY <3>1, <3>2
  <2>5. \A i \in sessions :
           ManifestsOf(i) \cap (ReadyOf(Players) \cup ReadyOf(Games)) = {}
    BY <1>1, <2>3 DEF InductiveInv, ListedIsTaken
  <2> QED BY <1>2, <2>1, <2>2, <2>4, <2>5, StartStep
<1>3. CASE /\ mm' = "cleaning"
           /\ ready' = [players |-> {}, games |-> {}, specs |-> {}]
           /\ UNCHANGED <<serviceVars, registryVars, service_state,
                         em, specs, created, sessions, session, runnerVars>>
  BY <1>3, LeaveStep
<1> QED BY <1>1, <1>2, <1>3 DEF MatchRound

\* ... and what it goes on with after a sleep is still in none.
LEMMA ContinueStep == InductiveInv /\ ContinueMatching => InductiveInv'
<1> SUFFICES ASSUME InductiveInv, ContinueMatching PROVE InductiveInv'
  OBVIOUS
<1>1. MatchRound(ready.players, ready.games, ready.specs)
  BY DEF ContinueMatching
<1>2. CASE \E pairing \in Pairings(ready.players, ready.specs), game \in ready.games :
             StartExperiment(pairing, game, ready.players, ready.games, ready.specs)
  <2>1. ready.players \in SUBSET Manifests /\ ready.games \in SUBSET Manifests
    BY DEF InductiveInv, TypeOK
  <2>2. /\ ready.specs \in SUBSET {x \in Specs : specs[x] > 0}
        /\ \A m \in ready.players : m[1] \in Players
        /\ \A m \in ready.games : m[1] \in Games
        /\ \A i \in sessions : ManifestsOf(i) \cap (ready.players \cup ready.games) = {}
    BY DEF InductiveInv, ReadyIsFree
  <2>3. \A m \in ready.players \cup ready.games : m[2] <= epoch[m[1]]
    BY DEF InductiveInv, ManifestsExist
  <2> QED BY <1>2, <2>1, <2>2, <2>3, StartStep
<1>3. CASE /\ mm' = "cleaning"
           /\ ready' = [players |-> {}, games |-> {}, specs |-> {}]
           /\ UNCHANGED <<serviceVars, registryVars, service_state,
                         em, specs, created, sessions, session, runnerVars>>
  BY <1>3, LeaveStep
<1> QED BY <1>1, <1>2, <1>3 DEF MatchRound

\* Finished sessions release manifests that no other session holds.
LEMMA CleanupStepOfEM == InductiveInv /\ CleanupFinishedSessions => InductiveInv'
<1> SUFFICES ASSUME InductiveInv, CleanupFinishedSessions PROVE InductiveInv'
  OBVIOUS
<1> USE DEF InductiveInv
<1> DEFINE finished == {i \in sessions : is_finished(i)}
           released == UNION {ManifestsOf(i) : i \in finished}
<1>1. /\ mm' = "idle"
      /\ sessions' = sessions \ finished
      /\ service_state' = [m \in Manifests |-> IF m \in released THEN "idle" ELSE service_state[m]]
      /\ session' = [i \in SessionIds |-> IF i \in finished THEN NoSession ELSE session[i]]
      /\ cancelled' = cancelled \ finished
      /\ crashed' = crashed \ finished
      /\ UNCHANGED <<serviceVars, registryVars, em, specs, ready, created, state, step>>
  BY DEF CleanupFinishedSessions
<1>2. \A i \in sessions' : i \in sessions /\ i \notin finished /\ session'[i] = session[i]
  BY <1>1, ListedHolds
<1>3. \A i \in sessions' : ManifestsOf(i)' = ManifestsOf(i)
  BY <1>2 DEF ManifestsOf
<1>4. TypeOK'
  <2>1. session' \in [SessionIds -> SessionRecord \cup {NoSession}]
    BY <1>1 DEF TypeOK
  <2>2. \A i \in sessions' : session'[i] \in SessionRecord
    BY <1>2, ListedHolds
  <2>3. service_state' \in [Manifests -> ServiceState]
    BY <1>1 DEF TypeOK, ServiceState
  <2> QED BY <1>1, <2>1, <2>2, <2>3 DEF TypeOK, serviceVars, registryVars
<1>5. AttemptInFlightOnce'
  <2>1. KnownSpecs' \subseteq KnownSpecs
    BY <1>1, <1>2 DEF KnownSpecs
  <2> QED BY <1>1, <1>2, <2>1 DEF AttemptInFlightOnce, Conflict
<1>6. ManifestExclusive'
  BY <1>2, <1>3 DEF ManifestExclusive
<1>7. ReadyIsFree'
  BY <1>1, <1>2, <1>3 DEF ReadyIsFree
<1>8. ListedIsTaken'
  <2>1. \A i \in sessions' : \A m \in ManifestsOf(i) : m \in Manifests /\ m \notin released
    BY <1>2, ListedHolds DEF ManifestExclusive
  <2>2. \A i \in sessions' : \A m \in ManifestsOf(i) : service_state'[m] = service_state[m]
    BY <1>1, <2>1
  <2> QED BY <1>1, <1>2, <1>3, <2>2 DEF ListedIsTaken, ManifestOf, registryVars
<1>9. ManifestsExist'
  BY <1>1, <1>2, <1>3 DEF ManifestsExist, registryVars
<1>10. LastEpoch'
  BY <1>1 DEF LastEpoch, serviceVars, registryVars
<1> QED BY <1>4, <1>5, <1>6, <1>7, <1>8, <1>9, <1>10
-----------------------------------------------------------------------------
(***************************************************************************)
(* The runner's steps touch its own state and the services only.           *)
(***************************************************************************)
\* A stop RPC frees services of their owner and starts their winding down.
LEMMA StopServicesTypes ==
  ASSUME TypeOK, NEW i, NEW uuids \in SUBSET Services, NEW deaf \in SUBSET Players,
         StopServices(i, uuids, deaf) \/ UNCHANGED <<owner, stopping, late, stuck>>
  PROVE  /\ owner' \in [Services -> 0..MaxSessions] /\ stopping' \subseteq Services
         /\ late' \subseteq Players /\ stuck' \subseteq Players
<1>1. CASE UNCHANGED <<owner, stopping, late, stuck>>
  BY <1>1 DEF TypeOK
<1>2. CASE StopServices(i, uuids, deaf)
  <2>1. PICK taken \in SUBSET Services :
          /\ stopping' = stopping \cup taken
          /\ owner' = [s \in Services |-> IF s \in taken THEN 0 ELSE owner[s]]
          /\ \E turns \in SUBSET {s \in taken \cap Slow : owner[s] = i} : late' = late \cup turns
          /\ stuck' = (stuck \ taken) \cup deaf
    BY <1>2 DEF StopServices
  <2> QED BY <2>1, ConstantsOK DEF TypeOK
<1> QED BY <1>1, <1>2

\* A configure RPC gives a service an owner and moves the session's next step.
LEMMA ConfigureTypes ==
  ASSUME TypeOK, NEW i \in SessionIds, i \in 0..MaxSessions,
         NEW m, NEW from, NEW to \in Steps,
         m[1] \in Services, Configure(i, m, from, to)
  PROVE  /\ owner' \in [Services -> 0..MaxSessions]
         /\ stopping' \subseteq Services
         /\ state' \in [SessionIds -> ExperimentState]
         /\ step' \in [SessionIds -> Steps]
         /\ cancelled' \subseteq SessionIds
         /\ crashed' \subseteq SessionIds
         /\ late' \subseteq Players /\ stuck' \subseteq Players
<1>1. /\ owner' = [owner EXCEPT ![m[1]] = i]
      /\ step' = [step EXCEPT ![i] = to]
      /\ state' = [state EXCEPT ![i] = IF to = "loop" THEN "running" ELSE @]
      /\ UNCHANGED <<stopping, late, stuck, cancelled, crashed>>
  BY DEF Configure
<1>2. owner' \in [Services -> 0..MaxSessions] /\ step' \in [SessionIds -> Steps]
  BY <1>1 DEF TypeOK
<1>3. state' \in [SessionIds -> ExperimentState]
  BY <1>1 DEF TypeOK, ExperimentState
<1> QED BY <1>1, <1>2, <1>3 DEF TypeOK

\* No step of a session's task touches the queue, the list or a manifest.
LEMMA RunStep ==
  ASSUME InductiveInv, NEW i \in sessions, Run(i)
  PROVE  InductiveInv'
<1> USE DEF InductiveInv
<1>1. UNCHANGED <<silent, hash, registryVars, service_state, queueVars>>
  <2>1. CASE ConfigureServices(i)
    BY <2>1 DEF ConfigureServices, Configure
  <2>2. CASE FailExperiment(i)
    BY <2>2 DEF FailExperiment
  <2>3. CASE EndLoop(i)
    BY <2>3 DEF EndLoop, serviceVars
  <2>4. CASE PostGame(i)
    BY <2>4 DEF PostGame
  <2>5. CASE CleanupExperiment(i)
    BY <2>5 DEF CleanupExperiment, CleanupStep
  <2> QED BY <2>1, <2>2, <2>3, <2>4, <2>5 DEF Run
<1>2. i \in SessionIds /\ i \in 0..MaxSessions /\ session[i] \in SessionRecord
  BY ListedHolds, ConstantsOK DEF SessionIds
<1>3. /\ session[i].game[1] \in Services /\ session[i].defuser[1] \in Services
      /\ session[i].expert # NoManifest => session[i].expert[1] \in Services
      /\ session[i].expert[1] \in Services \cup {NoExpert}
  BY <1>2, ManifestShape DEF SessionRecord, NoManifest
<1>40. ReflectingIn(i) \subseteq Players
  BY ConstantsOK DEF ReflectingIn
<1>4. /\ owner' \in [Services -> 0..MaxSessions]
      /\ stopping' \subseteq Services
      /\ state' \in [SessionIds -> ExperimentState]
      /\ step' \in [SessionIds -> Steps]
      /\ cancelled' \subseteq SessionIds
      /\ crashed' \subseteq SessionIds
      /\ late' \subseteq Players /\ stuck' \subseteq Players
  <2> USE DEF TypeOK, ExperimentState, Steps, Body, Cleanup
  <2>1. CASE ConfigureServices(i)
    <3> DEFINE next == IF session[i].expert = NoManifest THEN "configure_game" ELSE "configure_expert"
    <3>1. CASE Configure(i, session[i].defuser, "configure_defuser", next)
      <4>1. next \in Steps
        OBVIOUS
      <4> HIDE DEF next
      <4> QED BY <1>2, <1>3, <3>1, <4>1, ConfigureTypes
    <3>2. CASE session[i].expert # NoManifest
               /\ Configure(i, session[i].expert, "configure_expert", "configure_game")
      BY <1>2, <1>3, <3>2, ConfigureTypes
    <3>3. CASE Configure(i, session[i].game, "configure_game", "loop")
      BY <1>2, <1>3, <3>3, ConfigureTypes
    <3> QED BY <2>1, <3>1, <3>2, <3>3 DEF ConfigureServices
  <2>2. CASE FailExperiment(i)
    <3>1. stuck' \subseteq Players
      BY <1>40, <2>2 DEF FailExperiment
    <3> QED BY <1>2, <2>2, <3>1 DEF FailExperiment
  <2>3. CASE EndLoop(i)
    BY <1>2, <2>3 DEF EndLoop, serviceVars
  <2>4. CASE PostGame(i)
    <3>1. service_uuids(i) \cap Players \in SUBSET Services
      BY DEF Services
    <3>2. /\ owner' \in [Services -> 0..MaxSessions] /\ stopping' \subseteq Services
          /\ late' \subseteq Players /\ stuck' \subseteq Players
      <4>1. PICK deaf \in SUBSET Players :
               StopServices(i, service_uuids(i) \cap Players, deaf)
                 \/ UNCHANGED <<owner, stopping, late, stuck>>
        BY <1>40, <2>4 DEF PostGame
      <4> QED BY <3>1, <4>1, StopServicesTypes
    <3> QED BY <1>2, <2>4, <3>2 DEF PostGame
  <2>5. CASE CleanupExperiment(i)
    <3>1. PICK uuids \in SUBSET Services, from \in Steps, to \in Steps :
             CleanupStep(i, uuids, from, to)
      <4>1. CASE CleanupStep(i, {session[i].game[1]}, "stop_game", "stop_defuser")
        BY <1>3, <4>1
      <4>2. CASE CleanupStep(i, {session[i].defuser[1]}, "stop_defuser", "stop_expert")
        BY <1>3, <4>2
      <4>3. CASE CleanupStep(i, {session[i].expert[1]} \ {NoExpert}, "stop_expert", "ended")
        <5>1. {session[i].expert[1]} \ {NoExpert} \in SUBSET Services
          BY <1>3
        <5> QED BY <4>3, <5>1
      <4> QED BY <2>5, <4>1, <4>2, <4>3 DEF CleanupExperiment
    <3>2. /\ owner' \in [Services -> 0..MaxSessions] /\ stopping' \subseteq Services
          /\ late' \subseteq Players /\ stuck' \subseteq Players
      <4>1. StopServices(i, uuids, {}) \/ UNCHANGED <<owner, stopping, late, stuck>>
        BY <3>1 DEF CleanupStep
      <4>2. {} \in SUBSET Players
        OBVIOUS
      <4> QED BY <3>1, <4>1, <4>2, StopServicesTypes
    <3>3. /\ step' = [step EXCEPT ![i] = to]
          /\ state' = [state EXCEPT ![i] = IF to = "ended" THEN "done" ELSE @]
          /\ UNCHANGED <<cancelled, crashed>>
      BY <3>1 DEF CleanupStep
    <3> QED BY <1>2, <3>1, <3>2, <3>3
  <2> QED BY <2>1, <2>2, <2>3, <2>4, <2>5 DEF Run
<1>5. TypeOK'
  BY <1>1, <1>4 DEF TypeOK, registryVars, queueVars
<1>6. AttemptInFlightOnce'
  BY <1>1 DEF AttemptInFlightOnce, KnownSpecs, queueVars
<1>7. ManifestExclusive' /\ ReadyIsFree'
  BY <1>1 DEF ManifestExclusive, ReadyIsFree, ManifestsOf, queueVars
<1>8. ListedIsTaken' /\ ManifestsExist'
  BY <1>1 DEF ListedIsTaken, ManifestsExist, ManifestsOf, ManifestOf, queueVars, registryVars
<1>9. LastEpoch'
  BY <1>1 DEF LastEpoch, registryVars
<1> QED BY <1>5, <1>6, <1>7, <1>8, <1>9
-----------------------------------------------------------------------------
(***************************************************************************)
(* The theorems.                                                           *)
(***************************************************************************)
\* Every step of the EM, of a session or of a service keeps the invariant.
LEMMA StepPreserves == InductiveInv /\ [Next]_vars => InductiveInv'
<1> SUFFICES ASSUME InductiveInv, [Next]_vars PROVE InductiveInv'
  OBVIOUS
<1>1. CASE Service
  BY <1>1, ServiceStep
<1>2. CASE Registry
  BY <1>2, HeartbeatsStep, ExpiryStep DEF Registry
<1>3. CASE Matchmaking
  BY <1>3, TryMatchStep, ContinueStep, CleanupStepOfEM DEF Matchmaking
<1>4. CASE \E batch \in SUBSET Specs : AddSpecs(batch)
  BY <1>4, AddSpecsStep
<1>5. CASE \E i \in sessions : Run(i)
  BY <1>5, RunStep
<1>6. CASE UNCHANGED vars
  <2> USE <1>6 DEF InductiveInv, vars, serviceVars, registryVars, queueVars, runnerVars
  <2>1. TypeOK'
    BY DEF TypeOK
  <2>2. AttemptInFlightOnce' /\ ManifestExclusive' /\ ReadyIsFree'
    BY DEF AttemptInFlightOnce, KnownSpecs, ManifestExclusive, ReadyIsFree, ManifestsOf
  <2>3. ListedIsTaken' /\ ManifestsExist' /\ LastEpoch'
    BY DEF ListedIsTaken, ManifestsExist, LastEpoch, ManifestsOf, ManifestOf
  <2> QED BY <2>1, <2>2, <2>3
<1> QED BY <1>1, <1>2, <1>3, <1>4, <1>5, <1>6 DEF Next

\* The invariant holds in every reachable state of the EM, for all rooms, however
\* many services fall silent and come back as new manifests.
THEOREM InductiveInvariance == Spec => []InductiveInv
BY InitEstablishes, StepPreserves, PTL DEF Spec

\* Every variable keeps its type, the queue counts no spec below zero and ids are
\* listed only after their creation (try_match_experiments, start_experiment).
THEOREM TypeCorrect == Spec => []TypeOK
<1>1. InductiveInv => TypeOK
  BY DEF InductiveInv
<1> QED BY <1>1, InductiveInvariance, PTL

\* No attempt name is in flight twice (add_experiment_specs with matchmaking_loop).
THEOREM AttemptOnce == Spec => []AttemptInFlightOnce
<1>1. InductiveInv => AttemptInFlightOnce
  BY DEF InductiveInv
<1> QED BY <1>1, InductiveInvariance, PTL

\* No manifest is in two listed sessions, although matchmaking goes on after its
\* sleeps with the services it had read before them (try_match_experiments).
THEOREM ManifestOnce == Spec => []ManifestExclusive
<1>1. InductiveInv => ManifestExclusive
  BY DEF InductiveInv
<1> QED BY <1>1, InductiveInvariance, PTL
-----------------------------------------------------------------------------
(***************************************************************************)
(* As long as silence is death, a uuid stands for one manifest, and what   *)
(* holds of manifests holds of services.                                   *)
(***************************************************************************)

\* No step gives a service a second manifest if none comes back.
LEMMA OneLifeStep ==
  ASSUME Resumable = {}, InductiveInv, OneLife, [Next]_vars
  PROVE  OneLife'
<1> USE DEF OneLife
<1>1. hash \subseteq Services /\ connected \subseteq Services /\ epoch \in [Services -> 0..MaxEpochs]
  BY DEF InductiveInv, TypeOK
<1>2. CASE Service
  <2>1. UNCHANGED <<connected, epoch>>
    BY <1>2 DEF Service, SendHeartbeat, FallSilent, HeartbeatLapses, Resume, FinishStop,
                 TurnReturnsLate, registryVars
  <2>2. PICK s \in Services : \/ SendHeartbeat(s) \/ FallSilent(s) \/ HeartbeatLapses(s)
                             \/ Resume(s) \/ FinishStop(s) \/ TurnReturnsLate(s)
    BY <1>2 DEF Service
  <2>3. CASE SendHeartbeat(s)
    BY <2>1, <2>3 DEF SendHeartbeat
  <2>4. CASE FallSilent(s)
    BY <2>1, <2>4 DEF FallSilent
  <2>5. CASE HeartbeatLapses(s)
    BY <2>1, <2>5 DEF HeartbeatLapses
  <2>6. CASE Resume(s)
    BY <2>6 DEF Resume
  <2>7. CASE FinishStop(s)
    BY <2>1, <2>7 DEF FinishStop
  <2>8. CASE TurnReturnsLate(s)
    BY <2>1, <2>8 DEF TurnReturnsLate
  <2> QED BY <2>2, <2>3, <2>4, <2>5, <2>6, <2>7, <2>8
<1>3. CASE ProcessHeartbeats
  <2>1. /\ UNCHANGED serviceVars
        /\ connected' = hash
        /\ epoch' = [s \in Services |-> IF s \in hash \ connected THEN epoch[s] + 1 ELSE epoch[s]]
    BY <1>3 DEF ProcessHeartbeats
  <2>2. \A s \in hash \ connected : epoch[s] = 0
    BY <1>1, ConstantsOK
  <2> QED BY <1>1, <2>1, <2>2, ConstantsOK DEF serviceVars
<1>4. ASSUME UNCHANGED <<silent, hash, connected, epoch>> PROVE OneLife'
  BY <1>4
<1>5. CASE \E m \in Manifests : ExpireService(m)
  BY <1>4, <1>5 DEF ExpireService, serviceVars
<1>6. CASE Matchmaking
  <2>1. ASSUME NEW players, NEW games, NEW queue, MatchRound(players, games, queue)
        PROVE  OneLife'
    <3>1. CASE \E pairing \in Pairings(players, queue), game \in games :
                 StartExperiment(pairing, game, players, games, queue)
      BY <1>4, <3>1 DEF StartExperiment, serviceVars, registryVars
    <3>2. CASE UNCHANGED <<serviceVars, registryVars>>
      BY <1>4, <3>2 DEF serviceVars, registryVars
    <3> QED BY <2>1, <3>1, <3>2 DEF MatchRound
  <2>2. CASE TryMatchExperiments
    BY <2>1, <2>2 DEF TryMatchExperiments
  <2>3. CASE ContinueMatching
    BY <2>1, <2>3 DEF ContinueMatching
  <2>4. CASE CleanupFinishedSessions
    BY <1>4, <2>4 DEF CleanupFinishedSessions, serviceVars, registryVars
  <2> QED BY <1>6, <2>2, <2>3, <2>4 DEF Matchmaking
<1>7. CASE \E batch \in SUBSET Specs : AddSpecs(batch)
  BY <1>4, <1>7 DEF AddSpecs, serviceVars, registryVars
<1>8. CASE \E i \in sessions : Run(i)
  BY <1>4, <1>8 DEF Run, ConfigureServices, Configure, FailExperiment, EndLoop, PostGame,
                    CleanupExperiment, CleanupStep, serviceVars, registryVars
<1>9. CASE UNCHANGED vars
  BY <1>4, <1>9 DEF vars, serviceVars, registryVars
<1> QED BY <1>2, <1>3, <1>5, <1>6, <1>7, <1>8, <1>9 DEF Next, Registry

\* Starting a session marks exactly the manifests it was given.
LEMMA StartMarks ==
  ASSUME InductiveInv, OneLife, MarkedIsListed,
         NEW players \in SUBSET Manifests, NEW games \in SUBSET Manifests,
         NEW queue \in SUBSET Specs,
         \A m \in players \cup games : m[2] <= epoch[m[1]],
         NEW pairing \in Pairings(players, queue), NEW game \in games,
         StartExperiment(pairing, game, players, games, queue)
  PROVE  MarkedIsListed'
<1>0. PICK i \in Nat : i = created + 1
  BY ConstantsOK DEF InductiveInv, TypeOK
<1> DEFINE mine  == {pairing.defuser, pairing.expert, game} \ {NoManifest}
           uuids == {m[1] : m \in mine}
<1>1. /\ created < MaxSessions
      /\ sessions' = sessions \cup {i}
      /\ session' = [session EXCEPT ![i] = [spec |-> pairing.spec, defuser |-> pairing.defuser,
                                           expert |-> pairing.expert, game |-> game]]
      /\ UNCHANGED registryVars
  BY <1>0 DEF StartExperiment
<1>2. em' = "up" =>
        /\ em = "up"
        /\ service_state' = [m \in Manifests |->
              IF m[1] \in uuids /\ m = ManifestOf(m[1]) THEN "in_experiment" ELSE service_state[m]]
  BY <1>0 DEF StartExperiment
<1>3. mine \subseteq players \cup games
  BY PairingShape
<1>4. i \in SessionIds /\ i \notin sessions
  BY <1>0, <1>1, ConstantsOK DEF InductiveInv, TypeOK, SessionIds
<1>5. ManifestsOf(i)' = mine /\ \A j \in sessions : ManifestsOf(j)' = ManifestsOf(j)
  <2>1. \A j \in sessions : session'[j] = session[j]
    BY <1>1, <1>4
  <2>2. session'[i] = [spec |-> pairing.spec, defuser |-> pairing.defuser,
                       expert |-> pairing.expert, game |-> game]
    BY <1>1, <1>4 DEF InductiveInv, TypeOK
  <2> QED BY <2>1, <2>2 DEF ManifestsOf
<1>6. SUFFICES ASSUME em' = "up", NEW m \in Manifests, service_state'[m] = "in_experiment"
               PROVE  \E j \in sessions' : m \in ManifestsOf(j)'
  BY DEF MarkedIsListed
<1>7. CASE m[1] \in uuids /\ m = ManifestOf(m[1])
  <2>1. PICK n \in mine : n[1] = m[1]
    BY <1>7
  <2>2. n \in Manifests /\ n[2] <= epoch[n[1]]
    BY <1>3
  <2>3. n[1] \in Services /\ m[2] \in 1..MaxEpochs /\ n[2] \in 1..MaxEpochs
    BY <2>2, ManifestShape
  <2>4. epoch[n[1]] \in Nat /\ epoch[n[1]] <= 1 /\ m[2] = epoch[n[1]]
    BY <1>7, <2>1, <2>3, ConstantsOK DEF OneLife, InductiveInv, TypeOK, ManifestOf
  <2>5. m = n
    BY <2>1, <2>2, <2>3, <2>4, ConstantsOK DEF Manifests
  <2> QED BY <1>1, <1>5, <2>5
<1>8. CASE ~(m[1] \in uuids /\ m = ManifestOf(m[1]))
  BY <1>1, <1>2, <1>5, <1>6, <1>8 DEF MarkedIsListed
<1> QED BY <1>7, <1>8

\* The manifests marked stay those of listed sessions.
LEMMA MarkedStep ==
  ASSUME InductiveInv, OneLife, MarkedIsListed, [Next]_vars
  PROVE  MarkedIsListed'
<1>1. ASSUME UNCHANGED <<em, service_state, sessions, session>> PROVE MarkedIsListed'
  BY <1>1 DEF MarkedIsListed, ManifestsOf
<1>2. CASE Service
  BY <1>1, <1>2 DEF Service, SendHeartbeat, FallSilent, HeartbeatLapses, Resume, FinishStop,
                       TurnReturnsLate, queueVars
<1>3. CASE ProcessHeartbeats
  BY <1>1, <1>3 DEF ProcessHeartbeats, queueVars
<1>4. CASE \E n \in Manifests : ExpireService(n)
  <2>1. PICK n \in Manifests : ExpireService(n)
    BY <1>4
  <2>2. \A m \in Manifests : service_state'[m] = "in_experiment" => service_state[m] = "in_experiment"
    BY <2>1 DEF ExpireService
  <2>3. UNCHANGED queueVars
    BY <2>1 DEF ExpireService
  <2> QED BY <2>2, <2>3 DEF MarkedIsListed, ManifestsOf, queueVars
<1>6. CASE TryMatchExperiments
  <2> DEFINE queue == {x \in Specs : specs[x] > 0}
  <2>1. CASE \E pairing \in Pairings(ReadyOf(Players), queue), game \in ReadyOf(Games) :
               StartExperiment(pairing, game, ReadyOf(Players), ReadyOf(Games), queue)
    <3>1. ReadyOf(Players) \in SUBSET Manifests /\ ReadyOf(Games) \in SUBSET Manifests
      BY DEF ReadyOf
    <3>2. \A m \in ReadyOf(Players) \cup ReadyOf(Games) :
             m[1] \in Services /\ m[2] = epoch[m[1]]
      BY <3>1, ManifestShape DEF ReadyOf, ManifestOf
    <3>3. \A s \in Services : epoch[s] \in Nat
      BY ConstantsOK DEF InductiveInv, TypeOK
    <3>4. \A m \in ReadyOf(Players) \cup ReadyOf(Games) : m[2] <= epoch[m[1]]
      BY <3>2, <3>3
    <3> QED BY <2>1, <3>1, <3>4, StartMarks
  <2> QED BY <1>1, <1>6, <2>1 DEF TryMatchExperiments, MatchRound
<1>7. CASE ContinueMatching
  <2>1. CASE \E pairing \in Pairings(ready.players, ready.specs), game \in ready.games :
               StartExperiment(pairing, game, ready.players, ready.games, ready.specs)
    <3>1. /\ ready.players \in SUBSET Manifests /\ ready.games \in SUBSET Manifests
          /\ ready.specs \in SUBSET Specs
      BY DEF InductiveInv, TypeOK
    <3> QED BY <2>1, <3>1, StartMarks DEF InductiveInv, ManifestsExist
  <2> QED BY <1>1, <1>7, <2>1 DEF ContinueMatching, MatchRound
<1>8. CASE CleanupFinishedSessions
  <2> DEFINE finished == {i \in sessions : is_finished(i)}
             released == UNION {ManifestsOf(i) : i \in finished}
  <2>1. /\ em' = em
        /\ sessions' = sessions \ finished
        /\ service_state' = [m \in Manifests |-> IF m \in released THEN "idle" ELSE service_state[m]]
        /\ session' = [i \in SessionIds |-> IF i \in finished THEN NoSession ELSE session[i]]
    BY <1>8 DEF CleanupFinishedSessions
  <2>2. \A i \in sessions' : ManifestsOf(i)' = ManifestsOf(i)
    <3>1. \A i \in sessions' : session'[i] = session[i]
      BY <2>1, ListedHolds DEF InductiveInv
    <3> QED BY <3>1 DEF ManifestsOf
  <2> SUFFICES ASSUME em' = "up", NEW m \in Manifests, service_state'[m] = "in_experiment"
               PROVE  \E j \in sessions' : m \in ManifestsOf(j)'
    BY DEF MarkedIsListed
  <2>3. m \notin released /\ service_state[m] = "in_experiment"
    BY <2>1
  <2>4. PICK j \in sessions : m \in ManifestsOf(j)
    BY <2>1, <2>3 DEF MarkedIsListed
  <2>5. j \in sessions'
    BY <2>1, <2>3, <2>4
  <2> QED BY <2>2, <2>4, <2>5
<1>9. CASE \E batch \in SUBSET Specs : AddSpecs(batch)
  BY <1>1, <1>9 DEF AddSpecs
<1>10. CASE \E i \in sessions : Run(i)
  BY <1>1, <1>10 DEF Run, ConfigureServices, Configure, FailExperiment, EndLoop, PostGame,
                     CleanupExperiment, CleanupStep, queueVars
<1>11. CASE UNCHANGED vars
  BY <1>1, <1>11 DEF vars, queueVars
<1> QED
  BY <1>2, <1>3, <1>4, <1>6, <1>7, <1>8, <1>9, <1>10, <1>11 DEF Next, Registry, Matchmaking

\* The two facts hold in every reachable state.
LEMMA OneLifeInvariance ==
  ASSUME Resumable = {} PROVE Spec => [](InductiveInv /\ OneLife /\ MarkedIsListed)
<1>1. Init => OneLife /\ MarkedIsListed
  BY DEF Init, OneLife, MarkedIsListed
<1>2. InductiveInv /\ OneLife /\ MarkedIsListed /\ [Next]_vars => OneLife' /\ MarkedIsListed'
  BY OneLifeStep, MarkedStep
<1> QED BY <1>1, <1>2, InitEstablishes, StepPreserves, PTL DEF Spec

\* Two manifests of one service are the same, so sessions that share none share no service.
LEMMA OneLifeExcludes == InductiveInv /\ OneLife => ExclusiveServices
<1> SUFFICES ASSUME InductiveInv, OneLife, NEW i \in sessions, NEW j \in sessions, i # j,
                    NEW m \in ManifestsOf(i), NEW n \in ManifestsOf(j), m[1] = n[1]
             PROVE  FALSE
  BY DEF ExclusiveServices, service_uuids
<1>1. m \in Manifests /\ n \in Manifests
  BY ListedHolds DEF InductiveInv
<1>2. m[1] \in Services /\ m[2] \in 1..MaxEpochs /\ n[2] \in 1..MaxEpochs
  BY <1>1, ManifestShape
<1>3. m[2] <= epoch[m[1]] /\ n[2] <= epoch[m[1]]
  BY DEF InductiveInv, ManifestsExist
<1>4. epoch[m[1]] \in Nat /\ epoch[m[1]] <= 1
  BY <1>2, ConstantsOK DEF OneLife, InductiveInv, TypeOK
<1>5. m = n
  BY <1>1, <1>2, <1>3, <1>4, ConstantsOK DEF Manifests
<1> QED BY <1>5 DEF InductiveInv, ManifestExclusive

\* Silence being death, no service is in two listed sessions: neither the stale
\* heartbeats nor the stale snapshot of matchmaking give one away twice.
THEOREM ServiceOnce ==
  ASSUME Resumable = {} PROVE Spec => []ExclusiveServices
BY OneLifeExcludes, OneLifeInvariance, PTL

\* Silence being death, a connected service marked in_experiment is in a listed
\* session, which will release it: no service leaks from the pool.
THEOREM NoServiceLeaks ==
  ASSUME Resumable = {} PROVE Spec => []InExperimentHasSession
<1>1. InductiveInv /\ MarkedIsListed => InExperimentHasSession
  <2> SUFFICES ASSUME InductiveInv, MarkedIsListed, em = "up", NEW s \in connected,
                      service_state[ManifestOf(s)] = "in_experiment"
               PROVE  \E i \in sessions : s \in service_uuids(i)
    BY DEF InExperimentHasSession
  <2>1. s \in Services /\ epoch[s] \in 1..MaxEpochs
    BY ConstantsOK DEF InductiveInv, TypeOK
  <2>2. ManifestOf(s) \in Manifests /\ ManifestOf(s)[1] = s
    BY <2>1 DEF ManifestOf, Manifests
  <2> QED BY <2>2 DEF MarkedIsListed, service_uuids
<1> QED BY <1>1, OneLifeInvariance, PTL

-----------------------------------------------------------------------------
(***************************************************************************)
(* The experiment manager implements AttemptLifecycle as long as silence   *)
(* is death: every step of its loops is one step in the life of attempts,  *)
(* or none.                                                                *)
(***************************************************************************)

\* The mapped variables.
Stages == [x \in Specs |-> Stage(x)]
Holdings == [x \in Specs |-> Held(x)]

\* Most steps are none: what is mapped reads the queue and the list of sessions only.
LEMMA Stutters ==
  ASSUME UNCHANGED <<specs, sessions, session>>
  PROVE  Stages' = Stages /\ Holdings' = Holdings
BY DEF Stages, Holdings, Stage, Held, service_uuids, ManifestsOf

\* Specs that are not known join the queue.
LEMMA Posts ==
  ASSUME InductiveInv, NEW batch \in SUBSET Specs, AddSpecs(batch)
  PROVE  Abstract!Post(batch)
<1>1. /\ UNCHANGED <<sessions, session>>
      /\ specs' = [x \in Specs |-> IF x \in batch \ KnownSpecs THEN specs[x] + 1 ELSE specs[x]]
      /\ \A x \in batch, y \in KnownSpecs \cup batch : ~Conflict(x, y)
  BY DEF AddSpecs
<1>2. specs \in [Specs -> Nat] /\ \A i \in sessions : session[i].spec \in Specs
  BY ListedHolds DEF InductiveInv, TypeOK, SessionRecord
<1>3. ASSUME NEW x \in Specs PROVE Stage(x) # "unknown" <=> x \in KnownSpecs
  BY <1>2 DEF Stage, KnownSpecs
<1>4. Abstract!InFlight = KnownSpecs
  BY <1>2, <1>3 DEF Abstract!InFlight, KnownSpecs
<1>5. \A x \in batch, y \in Abstract!InFlight \cup batch :
        AttemptName[x] = AttemptName[y] => x = y
  BY <1>1, <1>4 DEF Conflict
<1>6. ASSUME NEW x \in Specs
      PROVE  Stage(x)' = IF x \in batch /\ Stage(x) = "unknown" THEN "queued" ELSE Stage(x)
  <2>1. CASE x \in batch \ KnownSpecs
    BY <1>1, <1>2, <1>3, <2>1 DEF Stage
  <2>2. CASE x \notin batch \ KnownSpecs
    BY <1>1, <1>2, <1>3, <2>2 DEF Stage
  <2> QED  BY <2>1, <2>2
<1>7. ASSUME NEW x \in Specs PROVE Held(x)' = Held(x)
  BY <1>1 DEF Held, service_uuids, ManifestsOf
<1> QED  BY <1>5, <1>6, <1>7 DEF Abstract!Post

\* What a pairing takes is what its spec asks for.
LEMMA PairingSuits ==
  ASSUME InductiveInv, OneLife,
         NEW players \in SUBSET Manifests, NEW games \in SUBSET Manifests,
         NEW queue \in SUBSET Specs,
         \A m \in players : m[1] \in Players, \A m \in games : m[1] \in Games,
         \A m \in players : m[2] <= epoch[m[1]],
         NEW pairing \in Pairings(players, queue), NEW game \in games
  PROVE  /\ pairing.spec \in queue
         /\ Abstract!Suits(pairing.spec,
              {m[1] : m \in {pairing.defuser, pairing.expert, game} \ {NoManifest}})
<1> DEFINE x == pairing.spec
           taken == {pairing.defuser, pairing.expert, game} \ {NoManifest}
<1>1. game \in Manifests /\ game # NoManifest /\ game[1] \in Games
  BY ManifestShape
<1>2. CASE pairing \in Solo(players, queue)
  <2>1. /\ x \in queue /\ pairing.defuser \in players /\ pairing.expert = NoManifest
        /\ ExpertName[x] = NoExpert /\ PlayerName[pairing.defuser[1]] = DefuserName[x]
    BY <1>2 DEF Solo
  <2>2. taken = {pairing.defuser, game}
    BY <1>1, <2>1, ManifestShape
  <2>3. {m[1] : m \in taken} = {game[1], pairing.defuser[1]}
    BY <2>2
  <2> QED  BY <1>1, <2>1, <2>3 DEF Abstract!Suits
<1>3. CASE pairing \in Duo(players, queue)
  <2>1. /\ x \in queue /\ pairing.defuser \in players /\ pairing.expert \in players
        /\ pairing.defuser # pairing.expert
        /\ PlayerName[pairing.defuser[1]] = DefuserName[x]
        /\ PlayerName[pairing.expert[1]] = ExpertName[x]
    BY <1>3 DEF Duo
  <2>2. taken = {pairing.defuser, pairing.expert, game}
    BY <1>1, <2>1, ManifestShape
  <2>3. {m[1] : m \in taken} = {game[1], pairing.defuser[1], pairing.expert[1]}
    BY <2>2
  <2>4. pairing.defuser[1] # pairing.expert[1]
    <3> SUFFICES ASSUME pairing.defuser[1] = pairing.expert[1] PROVE FALSE
      OBVIOUS
    <3>1. \A m \in players : m[1] \in Services /\ m[2] \in 1..MaxEpochs
      BY ManifestShape
    <3>2. \A s \in Services : epoch[s] \in Nat /\ epoch[s] <= 1
      BY ConstantsOK DEF OneLife, InductiveInv, TypeOK
    <3>3. pairing.defuser[2] = 1 /\ pairing.expert[2] = 1
      BY <2>1, <3>1, <3>2, ConstantsOK
    <3> QED  BY <2>1, <3>3 DEF Manifests
  <2> QED  BY <1>1, <2>1, <2>3, <2>4 DEF Abstract!Suits
<1> QED  BY <1>2, <1>3 DEF Pairings

\* Starting a session is assigning its services: they are nobody else's, since the session's
\* manifests are no one's after the step.
LEMMA Assigns ==
  ASSUME InductiveInv, InductiveInv', OneLife, ExclusiveServices',
         NEW players \in SUBSET Manifests, NEW games \in SUBSET Manifests,
         NEW queue \in SUBSET {x \in Specs : specs[x] > 0},
         \A m \in players : m[1] \in Players, \A m \in games : m[1] \in Games,
         \A m \in players : m[2] <= epoch[m[1]],
         NEW pairing \in Pairings(players, queue), NEW game \in games,
         StartExperiment(pairing, game, players, games, queue)
  PROVE  \E x \in Specs, uuids \in SUBSET Services : Abstract!Assign(x, uuids)
<1> DEFINE x     == pairing.spec
           mine  == {pairing.defuser, pairing.expert, game} \ {NoManifest}
           uuids == {m[1] : m \in mine}
<1>1. PICK i \in Nat : i = created + 1
  BY ConstantsOK DEF InductiveInv, TypeOK
<1>2. /\ created < MaxSessions
      /\ sessions' = sessions \cup {i}
      /\ session' = [session EXCEPT ![i] = [spec |-> x, defuser |-> pairing.defuser,
                                           expert |-> pairing.expert, game |-> game]]
      /\ specs' = [specs EXCEPT ![x] = @ - 1]
  BY <1>1 DEF StartExperiment
<1>3. i \in SessionIds /\ i \notin sessions
  BY <1>1, <1>2, ConstantsOK DEF InductiveInv, TypeOK, SessionIds
<1>4. x \in queue /\ Abstract!Suits(x, uuids)
  BY PairingSuits
<1>5. /\ session'[i] = [spec |-> x, defuser |-> pairing.defuser,
                        expert |-> pairing.expert, game |-> game]
      /\ \A j \in sessions : session'[j] = session[j]
  BY <1>2, <1>3 DEF InductiveInv, TypeOK
<1>6. service_uuids(i)' = uuids /\ \A j \in sessions : service_uuids(j)' = service_uuids(j)
  BY <1>5 DEF service_uuids, ManifestsOf
<1>7. specs[x] = 1 /\ specs'[x] = 0 /\ \A y \in Specs \ {x} : specs'[y] = specs[y]
  <2>1. specs[x] \in Nat /\ specs[x] > 0 /\ specs[x] <= 1
    BY <1>4 DEF InductiveInv, TypeOK, AttemptInFlightOnce
  <2> QED  BY <1>2, <1>4, <2>1 DEF InductiveInv, TypeOK
<1>8. \A j \in sessions : session[j].spec # x
  BY <1>7 DEF InductiveInv, AttemptInFlightOnce
<1>9. Stage(x) = "queued"
  BY <1>7 DEF Stage
<1>10. \A y \in Specs : Held(y) \cap uuids = {}
  <2>1. \A j \in sessions : service_uuids(j) \cap uuids = {}
    BY <1>2, <1>3, <1>6 DEF ExclusiveServices
  <2> QED  BY <2>1 DEF Held
<1>11. ASSUME NEW y \in Specs PROVE Stage(y)' = IF y = x THEN "running" ELSE Stage(y)
  <2>1. CASE y = x
    BY <1>2, <1>5, <1>7, <2>1 DEF Stage
  <2>2. CASE y # x
    BY <1>2, <1>5, <1>7, <2>2 DEF Stage
  <2> QED  BY <2>1, <2>2
<1>12. ASSUME NEW y \in Specs PROVE Held(y)' = IF y = x THEN uuids ELSE Held(y)
  <2>1. CASE y = x
    <3>1. {j \in sessions' : session'[j].spec = y} = {i}
      BY <1>2, <1>5, <1>8, <2>1
    <3> QED  BY <1>6, <2>1, <3>1 DEF Held
  <2>2. CASE y # x
    <3>1. {j \in sessions' : session'[j].spec = y} = {j \in sessions : session[j].spec = y}
      BY <1>2, <1>3, <1>5, <2>2
    <3> QED  BY <1>6, <2>2, <3>1 DEF Held
  <2> QED  BY <2>1, <2>2
<1>13. x \in Specs /\ uuids \in SUBSET Services
  <2>1. mine \subseteq Manifests
    BY PairingShape
  <2> QED  BY <1>4, <2>1, ManifestShape
<1> HIDE DEF x, uuids
<1>14. Abstract!Assign(x, uuids)
  BY <1>4, <1>9, <1>10, <1>11, <1>12, <1>13 DEF Abstract!Assign
<1> QED  BY <1>13, <1>14

\* Dropping finished sessions ends their attempts.
LEMMA Finishes ==
  ASSUME InductiveInv, CleanupFinishedSessions
  PROVE  \E ended \in SUBSET Specs : Abstract!Finish(ended)
<1> DEFINE finished == {i \in sessions : is_finished(i)}
           ended    == {session[i].spec : i \in finished}
<1>1. /\ sessions' = sessions \ finished
      /\ session' = [i \in SessionIds |-> IF i \in finished THEN NoSession ELSE session[i]]
      /\ UNCHANGED specs
  BY DEF CleanupFinishedSessions
<1>2. \A i \in sessions : i \in SessionIds /\ session[i].spec \in Specs
  BY ListedHolds DEF InductiveInv, SessionRecord
<1>3. \A i \in sessions' : session'[i] = session[i] /\ service_uuids(i)' = service_uuids(i)
  BY <1>1, <1>2 DEF service_uuids, ManifestsOf
<1>4. \A i, j \in sessions : session[i].spec = session[j].spec => i = j
  BY DEF InductiveInv, AttemptInFlightOnce
<1>5. \A i \in sessions : specs[session[i].spec] = 0
  BY DEF InductiveInv, AttemptInFlightOnce
<1>6. ended \in SUBSET Specs
  BY <1>2
<1>7. ASSUME NEW x \in ended PROVE Stage(x) = "running" /\ specs[x] = 0
  <2>1. PICK i \in sessions : x = session[i].spec
    OBVIOUS
  <2> QED  BY <1>5, <2>1 DEF Stage
<1>8. ASSUME NEW x \in Specs
      PROVE  {j \in sessions' : session'[j].spec = x}
               = IF x \in ended THEN {} ELSE {j \in sessions : session[j].spec = x}
  <2>1. CASE x \in ended
    <3>1. PICK i \in finished : x = session[i].spec
      BY <2>1
    <3> QED  BY <1>1, <1>3, <1>4, <2>1, <3>1
  <2>2. CASE x \notin ended
    BY <1>1, <1>3, <2>2
  <2> QED  BY <2>1, <2>2
<1>9. ASSUME NEW x \in Specs PROVE Stage(x)' = IF x \in ended THEN "unknown" ELSE Stage(x)
  <2>1. (\E j \in sessions' : session'[j].spec = x)
          <=> x \notin ended /\ \E j \in sessions : session[j].spec = x
    BY <1>8
  <2> HIDE DEF ended
  <2> QED  BY <1>1, <1>7, <2>1 DEF Stage
<1>10. ASSUME NEW x \in Specs PROVE Held(x)' = IF x \in ended THEN {} ELSE Held(x)
  <2> DEFINE of(y) == {j \in sessions : session[j].spec = y}
  <2>1. Held(x)' = UNION {service_uuids(j)' : j \in {k \in sessions' : session'[k].spec = x}}
    BY DEF Held
  <2>2. CASE x \in ended
    BY <1>8, <2>1, <2>2
  <2>3. CASE x \notin ended
    <3>1. {k \in sessions' : session'[k].spec = x} = of(x)
      BY <1>8, <2>3
    <3>2. \A j \in of(x) : service_uuids(j)' = service_uuids(j)
      BY <1>3, <3>1
    <3> QED  BY <2>1, <2>3, <3>1, <3>2 DEF Held
  <2> QED  BY <2>2, <2>3
<1> HIDE DEF ended
<1>11. Abstract!Finish(ended)
  BY <1>6, <1>7, <1>9, <1>10 DEF Abstract!Finish
<1> QED  BY <1>6, <1>11

LEMMA LifecycleStep ==
  ASSUME InductiveInv, InductiveInv', OneLife, ExclusiveServices', [Next]_vars
  PROVE  [Abstract!ANext]_Abstract!avars
<1>1. ASSUME UNCHANGED <<specs, sessions, session>> PROVE UNCHANGED Abstract!avars
  BY <1>1, Stutters DEF Abstract!avars, Stages, Holdings
<1>2. CASE Service
  BY <1>1, <1>2 DEF Service, SendHeartbeat, FallSilent, HeartbeatLapses, Resume, FinishStop,
                    TurnReturnsLate, queueVars
<1>3. CASE Registry
  BY <1>1, <1>3 DEF Registry, ProcessHeartbeats, ExpireService, queueVars
<1>4. CASE TryMatchExperiments
  <2> DEFINE queue == {x \in Specs : specs[x] > 0}
  <2>1. ASSUME NEW pairing \in Pairings(ReadyOf(Players), queue), NEW game \in ReadyOf(Games),
               StartExperiment(pairing, game, ReadyOf(Players), ReadyOf(Games), queue)
        PROVE  Abstract!ANext
    <3>1. ReadyOf(Players) \in SUBSET Manifests /\ ReadyOf(Games) \in SUBSET Manifests
      BY DEF ReadyOf
    <3>2. /\ \A m \in ReadyOf(Players) : m[1] \in Players
          /\ \A m \in ReadyOf(Games) : m[1] \in Games
      BY DEF ReadyOf
    <3>3. \A m \in ReadyOf(Players) : m[1] \in Services /\ m[2] = epoch[m[1]]
      BY <3>1, ManifestShape DEF ReadyOf, ManifestOf
    <3>4. \A s \in Services : epoch[s] \in Nat
      BY ConstantsOK DEF InductiveInv, TypeOK
    <3>5. \A m \in ReadyOf(Players) : m[2] <= epoch[m[1]]
      BY <3>3, <3>4
    <3> QED  BY <2>1, <3>1, <3>2, <3>5, Assigns DEF Abstract!ANext, Abstract!Services, Services
  <2> QED  BY <1>1, <1>4, <2>1 DEF TryMatchExperiments, MatchRound
<1>5. CASE ContinueMatching
  <2>1. ASSUME NEW pairing \in Pairings(ready.players, ready.specs), NEW game \in ready.games,
               StartExperiment(pairing, game, ready.players, ready.games, ready.specs)
        PROVE  Abstract!ANext
    <3>1. /\ ready.players \in SUBSET Manifests /\ ready.games \in SUBSET Manifests
          /\ ready.specs \in SUBSET {x \in Specs : specs[x] > 0}
          /\ \A m \in ready.players : m[1] \in Players
          /\ \A m \in ready.games : m[1] \in Games
          /\ \A m \in ready.players : m[2] <= epoch[m[1]]
      BY DEF InductiveInv, TypeOK, ReadyIsFree, ManifestsExist
    <3> QED  BY <2>1, <3>1, Assigns DEF Abstract!ANext, Abstract!Services, Services
  <2> QED  BY <1>1, <1>5, <2>1 DEF ContinueMatching, MatchRound
<1>6. CASE CleanupFinishedSessions
  BY <1>6, Finishes DEF Abstract!ANext
<1>7. ASSUME NEW batch \in SUBSET Specs, AddSpecs(batch) PROVE Abstract!ANext
  BY <1>7, Posts DEF Abstract!ANext
<1>8. CASE \E i \in sessions : Run(i)
  BY <1>1, <1>8 DEF Run, ConfigureServices, Configure, FailExperiment, EndLoop, PostGame,
                    CleanupExperiment, CleanupStep, queueVars
<1>9. CASE UNCHANGED vars
  BY <1>1, <1>9 DEF vars, queueVars
<1> QED
  BY <1>2, <1>3, <1>4, <1>5, <1>6, <1>7, <1>8, <1>9 DEF Next, Matchmaking

\* Silence being death, the EM is an implementation of AttemptLifecycle: attempts go from
\* posted to queued to running and out, and hold exactly the services they name, which no
\* other attempt holds, whatever its loops do between their awaits.
THEOREM LifecycleImplemented ==
  ASSUME Resumable = {} PROVE Spec => ImplementsLifecycle
<1>1. Init => Abstract!AInit
  BY DEF Init, Abstract!AInit, Stage, Held
<1>2. InductiveInv /\ OneLife => ExclusiveServices
  BY OneLifeExcludes
<1>3. /\ InductiveInv /\ OneLife /\ ExclusiveServices
      /\ (InductiveInv /\ OneLife /\ ExclusiveServices)' /\ [Next]_vars
      => [Abstract!ANext]_Abstract!avars
  BY LifecycleStep
<1> QED
  BY <1>1, <1>2, <1>3, OneLifeInvariance, PTL DEF Spec, ImplementsLifecycle, Abstract!ASpec
-----------------------------------------------------------------------------
(***************************************************************************)
(* The life of a session: what it has and what it is at, while silence is  *)
(* death.                                                                  *)
(***************************************************************************)
Configuring == {"configure_defuser", "configure_expert", "configure_game"}
Working(i)  == step[i] \in Body \cup Cleanup

\* A session that stops is past its configuration or will be cancelled in it.
StopsInOrder ==
  \A i \in SessionIds :
    /\ state[i] = "done" => step[i] = "ended"
    /\ step[i] \in Configuring /\ is_stopping(i) => i \in cancelled
    /\ i > created => state[i] = "initialising"

\* Whoever has configured a service and is still at work is a listed session that holds it.
OwnedByListed ==
  \A s \in Services : \A i \in SessionIds :
    owner[s] = i => i <= created /\ (Working(i) => i \in sessions /\ s \in service_uuids(i))

\* What a session holds stays marked until it begins to stop.
WorkingIsMarked ==
  em = "up" => \A i \in sessions : is_stopping(i) \/
    \A m \in ManifestsOf(i) : service_state[m] = "in_experiment"

SessionInv == StopsInOrder /\ OwnedByListed /\ WorkingIsMarked /\ RunsOnlyWithServices

\* The EM's bookkeeping while silence is death.
Books == InductiveInv /\ OneLife /\ ExclusiveServices

\* While silence is death a manifest that somebody holds is the one its service was given.
LEMMA HeldIsCurrent ==
  ASSUME InductiveInv, OneLife, NEW m \in Manifests, m[2] <= epoch[m[1]]
  PROVE  m = ManifestOf(m[1])
<1>1. m[1] \in Services /\ m[2] \in 1..MaxEpochs
  BY ManifestShape
<1>2. epoch[m[1]] \in Nat /\ epoch[m[1]] <= 1
  BY <1>1, ConstantsOK DEF OneLife, InductiveInv, TypeOK
<1>3. m[2] = epoch[m[1]]
  BY <1>1, <1>2, ConstantsOK
<1> QED  BY <1>3 DEF Manifests, ManifestOf

\* What a listed session holds is what the services offer now.
LEMMA ListedIsCurrent ==
  ASSUME InductiveInv, OneLife, NEW i \in sessions, NEW m \in ManifestsOf(i)
  PROVE  m \in Manifests /\ m[1] \in Services /\ m = ManifestOf(m[1])
<1>1. m \in Manifests
  BY ListedHolds DEF InductiveInv
<1>2. m[2] <= epoch[m[1]]
  BY DEF InductiveInv, ManifestsExist
<1> QED  BY <1>1, <1>2, HeldIsCurrent, ManifestShape

\* A round of the registry starts an expiry task for everything it takes out.
LEMMA RoundKeepsSessions == Books /\ SessionInv /\ ProcessHeartbeats => SessionInv'
<1> SUFFICES ASSUME Books, SessionInv, ProcessHeartbeats PROVE SessionInv'
  OBVIOUS
<1> USE DEF SessionInv
<1>1. /\ UNCHANGED <<serviceVars, service_state, queueVars, runnerVars>>
      /\ connected' = hash /\ em = "up" /\ expiring = {}
      /\ epoch' = [s \in Services |-> IF s \in hash \ connected THEN epoch[s] + 1 ELSE epoch[s]]
      /\ expiring' = {ManifestOf(s) : s \in connected \ hash}
  BY DEF ProcessHeartbeats
<1>2. StopsInOrder' /\ OwnedByListed' /\ WorkingIsMarked'
  BY <1>1 DEF StopsInOrder, OwnedByListed, WorkingIsMarked, Working, is_stopping, service_uuids,
              ManifestsOf, serviceVars, queueVars, runnerVars
<1>3. ASSUME NEW i \in sessions, ~is_stopping(i), NEW m \in ManifestsOf(i)
      PROVE  m \in expiring' \/ (m[1] \in connected' /\ m = ManifestOf(m[1])')
  <2>1. m[1] \in connected /\ m = ManifestOf(m[1]) /\ m[1] \in Services
    BY <1>1, <1>3, ListedIsCurrent DEF RunsOnlyWithServices, Books
  <2>2. CASE m[1] \in hash
    BY <1>1, <2>1, <2>2 DEF ManifestOf
  <2>3. CASE m[1] \notin hash
    BY <1>1, <2>1, <2>3
  <2> QED  BY <2>2, <2>3
<1>4. RunsOnlyWithServices'
  BY <1>1, <1>3 DEF RunsOnlyWithServices, is_stopping, ManifestsOf, queueVars, runnerVars
<1> QED  BY <1>2, <1>4

\* An expiry task stops the session that holds its manifest, and touches no other.
LEMMA ExpiryKeepsSessions ==
  ASSUME Books, SessionInv, NEW m \in Manifests, ExpireService(m)
  PROVE  SessionInv'
<1> USE DEF SessionInv
<1> DEFINE stopped  == {i \in sessions : /\ service_state[m] = "in_experiment"
                                        /\ FoundFor(m[1], i)
                                        /\ ~is_stopping(i)}
           released == UNION {ManifestsOf(i) : i \in stopped}
<1>1. /\ em = "up" /\ m \in expiring
      /\ expiring' = expiring \ {m}
      /\ service_state' = [n \in Manifests |-> IF n \in released THEN "cleanup"
                                               ELSE IF n = m THEN "not_ready" ELSE service_state[n]]
      /\ state' = [i \in SessionIds |-> IF i \in stopped THEN "cleanup" ELSE state[i]]
      /\ cancelled' = cancelled \cup stopped
      /\ UNCHANGED <<serviceVars, connected, epoch, queueVars, step>>
  BY DEF ExpireService
<1>2. sessions \subseteq SessionIds /\ sessions \subseteq 1..created /\ created \in Nat
      /\ SessionIds \subseteq Nat
  BY ListedHolds, ConstantsOK DEF Books, InductiveInv, TypeOK, SessionIds
<1>3. StopsInOrder'
  <2> SUFFICES ASSUME NEW i \in SessionIds
               PROVE  /\ state'[i] = "done" => step'[i] = "ended"
                      /\ step'[i] \in Configuring /\ is_stopping(i)' => i \in cancelled'
                      /\ i > created' => state'[i] = "initialising"
    BY DEF StopsInOrder
  <2>1. CASE i \in stopped
    BY <1>1, <1>2, <2>1 DEF queueVars, StopsInOrder
  <2>2. CASE i \notin stopped
    BY <1>1, <2>2 DEF StopsInOrder, is_stopping, queueVars
  <2> QED  BY <2>1, <2>2
<1>4. OwnedByListed'
  BY <1>1 DEF OwnedByListed, Working, service_uuids, ManifestsOf, serviceVars, queueVars
<1>5. ASSUME NEW i \in sessions, ~is_stopping(i)'
      PROVE  /\ ~is_stopping(i) /\ i \notin stopped /\ ManifestsOf(i) \cap released = {}
             /\ m \notin ManifestsOf(i)
  <2>1. i \notin stopped /\ ~is_stopping(i)
    BY <1>1, <1>2, <1>5 DEF is_stopping
  <2>2. ManifestsOf(i) \cap released = {}
    BY <2>1 DEF Books, InductiveInv, ManifestExclusive
  <2>3. ASSUME m \in ManifestsOf(i) PROVE FALSE
    <3>1. service_state[m] = "in_experiment"
      BY <1>1, <2>1, <2>3 DEF WorkingIsMarked
    <3>2. \A j \in sessions : m[1] \in service_uuids(j) => j = i
      BY <2>3 DEF Books, ExclusiveServices, service_uuids
    <3>3. FoundFor(m[1], i)
      BY <1>2, <2>3, <3>2 DEF FoundFor, service_uuids
    <3> QED  BY <2>1, <3>1, <3>3
  <2> QED  BY <2>1, <2>2, <2>3
<1>6. \A i : ManifestsOf(i)' = ManifestsOf(i)
  BY <1>1 DEF ManifestsOf, queueVars
<1>7. WorkingIsMarked'
  <2> SUFFICES ASSUME NEW i \in sessions, ~is_stopping(i)', NEW n \in ManifestsOf(i)
               PROVE  service_state'[n] = "in_experiment"
    BY <1>1, <1>6 DEF WorkingIsMarked, queueVars
  <2>1. n \in Manifests
    BY ListedHolds DEF Books, InductiveInv
  <2> QED  BY <1>1, <1>5, <2>1 DEF WorkingIsMarked
<1>8. RunsOnlyWithServices'
  <2> SUFFICES ASSUME NEW i \in sessions, ~is_stopping(i)', NEW n \in ManifestsOf(i)
               PROVE  n \in expiring' \/ (n[1] \in connected' /\ n = ManifestOf(n[1])')
    BY <1>1, <1>6 DEF RunsOnlyWithServices, queueVars
  <2> QED  BY <1>1, <1>5 DEF RunsOnlyWithServices, ManifestOf
<1> QED  BY <1>3, <1>4, <1>7, <1>8

\* A session begins with every service connected, or takes the EM down.
LEMMA StartKeepsSessions ==
  ASSUME Books, SessionInv,
         NEW players \in SUBSET Manifests, NEW games \in SUBSET Manifests,
         NEW queue \in SUBSET Specs,
         \A m \in players \cup games : m[2] <= epoch[m[1]],
         NEW pairing \in Pairings(players, queue), NEW game \in games,
         StartExperiment(pairing, game, players, games, queue)
  PROVE  SessionInv'
<1> USE DEF SessionInv
<1>0. PICK i \in Nat : i = created + 1
  BY ConstantsOK DEF Books, InductiveInv, TypeOK
<1> DEFINE mine  == {pairing.defuser, pairing.expert, game} \ {NoManifest}
           uuids == {m[1] : m \in mine}
<1>1. /\ created < MaxSessions /\ created' = i
      /\ sessions' = sessions \cup {i}
      /\ session' = [session EXCEPT ![i] = [spec |-> pairing.spec, defuser |-> pairing.defuser,
                                           expert |-> pairing.expert, game |-> game]]
      /\ UNCHANGED <<serviceVars, registryVars, state, cancelled>>
  BY <1>0 DEF StartExperiment
<1>2. \/ /\ em' = "crashed" /\ step' = step
      \/ /\ em' = em /\ uuids \subseteq connected
         /\ service_state' = [m \in Manifests |->
               IF m[1] \in uuids /\ m = ManifestOf(m[1]) THEN "in_experiment" ELSE service_state[m]]
         /\ step' = [step EXCEPT ![i] = "configure_defuser"]
  BY <1>0 DEF StartExperiment
<1>3. mine \subseteq players \cup games
  BY PairingShape
<1>4. /\ i \in SessionIds /\ i \notin sessions /\ sessions \subseteq SessionIds
      /\ created \in Nat /\ SessionIds \subseteq Nat
  BY <1>0, <1>1, ListedHolds, ConstantsOK DEF Books, InductiveInv, TypeOK, SessionIds
<1>5. ManifestsOf(i)' = mine /\ \A j \in sessions : ManifestsOf(j)' = ManifestsOf(j)
  <2>1. \A j \in sessions : session'[j] = session[j]
    BY <1>1, <1>4
  <2>2. session'[i] = [spec |-> pairing.spec, defuser |-> pairing.defuser,
                       expert |-> pairing.expert, game |-> game]
    BY <1>1, <1>4 DEF Books, InductiveInv, TypeOK
  <2> QED  BY <2>1, <2>2 DEF ManifestsOf
<1>6. \A j \in SessionIds \ {i} : step'[j] = step[j]
  <2>1. step' = step \/ step' = [step EXCEPT ![i] = "configure_defuser"]
    BY <1>2
  <2>2. step \in [SessionIds -> Steps]
    BY DEF Books, InductiveInv, TypeOK
  <2> QED  BY <2>1, <2>2
<1>7. StopsInOrder'
  <2> SUFFICES ASSUME NEW j \in SessionIds
               PROVE  /\ state'[j] = "done" => step'[j] = "ended"
                      /\ step'[j] \in Configuring /\ is_stopping(j)' => j \in cancelled'
                      /\ j > created' => state'[j] = "initialising"
    BY DEF StopsInOrder
  <2>1. j > created' => j > created
    BY <1>0, <1>1, <1>4
  <2>2. CASE j = i
    <3>1. state[j] = "initialising"
      BY <1>0, <1>4, <2>2 DEF StopsInOrder
    <3> QED  BY <1>0, <1>1, <1>4, <2>2, <3>1 DEF is_stopping
  <2>3. CASE j # i
    BY <1>1, <1>6, <2>1, <2>3 DEF StopsInOrder, is_stopping
  <2> QED  BY <2>2, <2>3
<1>8. OwnedByListed'
  <2> SUFFICES ASSUME NEW s \in Services, NEW j \in SessionIds, owner[s] = j
               PROVE  j <= created' /\ (Working(j)' => j \in sessions' /\ s \in service_uuids(j)')
    BY <1>1 DEF OwnedByListed, serviceVars
  <2>1. j <= created /\ j # i
    BY <1>0, <1>4 DEF OwnedByListed
  <2>2. Working(j)' => Working(j)
    BY <1>6, <2>1 DEF Working
  <2> QED  BY <1>0, <1>1, <1>4, <1>5, <2>1, <2>2 DEF OwnedByListed, service_uuids
<1>9. ASSUME em' = "up", NEW m \in mine
      PROVE  m \in Manifests /\ service_state'[m] = "in_experiment"
             /\ m[1] \in connected /\ m = ManifestOf(m[1])
  <2>1. m \in Manifests /\ m[2] <= epoch[m[1]]
    BY <1>3
  <2>2. m = ManifestOf(m[1])
    BY <2>1, HeldIsCurrent DEF Books
  <2> QED  BY <1>2, <1>9, <2>1, <2>2
<1>10. \A j \in sessions : is_stopping(j)' = is_stopping(j)
  BY <1>1 DEF is_stopping
<1>11. em' = "up" => em = "up"
  BY <1>2
<1>12. WorkingIsMarked'
  <2> SUFFICES ASSUME em' = "up", NEW j \in sessions', ~is_stopping(j)', NEW m \in ManifestsOf(j)'
               PROVE  service_state'[m] = "in_experiment"
    BY DEF WorkingIsMarked
  <2>1. CASE j = i
    BY <1>5, <1>9, <2>1
  <2>2. CASE j \in sessions
    <3>1. m \in Manifests /\ service_state[m] = "in_experiment"
      BY <1>5, <1>10, <1>11, <2>2, ListedHolds DEF WorkingIsMarked, Books, InductiveInv
    <3> QED  BY <1>2, <3>1
  <2> QED  BY <1>1, <2>1, <2>2
<1>13. RunsOnlyWithServices'
  <2> SUFFICES ASSUME em' = "up", NEW j \in sessions', ~is_stopping(j)', NEW m \in ManifestsOf(j)'
               PROVE  m \in expiring' \/ (m[1] \in connected' /\ m = ManifestOf(m[1])')
    BY DEF RunsOnlyWithServices
  <2>0. UNCHANGED <<connected, epoch, expiring>>
    BY <1>1 DEF registryVars
  <2>1. CASE j = i
    BY <1>5, <1>9, <2>0, <2>1 DEF ManifestOf
  <2>2. CASE j \in sessions
    BY <1>5, <1>10, <1>11, <2>0, <2>2 DEF RunsOnlyWithServices, ManifestOf
  <2> QED  BY <1>1, <2>1, <2>2
<1> QED  BY <1>7, <1>8, <1>12, <1>13

\* Both matching actions start sessions with manifests that exist, or change nothing here.
LEMMA MatchKeepsSessions ==
  Books /\ SessionInv /\ (TryMatchExperiments \/ ContinueMatching) => SessionInv'
<1> SUFFICES ASSUME Books, SessionInv, TryMatchExperiments \/ ContinueMatching PROVE SessionInv'
  OBVIOUS
<1>1. PICK players \in SUBSET Manifests, games \in SUBSET Manifests, queue \in SUBSET Specs :
        /\ \A m \in players \cup games : m[2] <= epoch[m[1]]
        /\ MatchRound(players, games, queue)
  <2>1. CASE TryMatchExperiments
    <3>1. ReadyOf(Players) \in SUBSET Manifests /\ ReadyOf(Games) \in SUBSET Manifests
      BY DEF ReadyOf
    <3>2. \A m \in ReadyOf(Players) \cup ReadyOf(Games) : m[1] \in Services /\ m[2] = epoch[m[1]]
      BY <3>1, ManifestShape DEF ReadyOf, ManifestOf
    <3>3. \A s \in Services : epoch[s] \in Nat
      BY ConstantsOK DEF Books, InductiveInv, TypeOK
    <3>4. \A m \in ReadyOf(Players) \cup ReadyOf(Games) : m[2] <= epoch[m[1]]
      BY <3>2, <3>3
    <3>5. {x \in Specs : specs[x] > 0} \in SUBSET Specs
      OBVIOUS
    <3> QED  BY <2>1, <3>1, <3>4, <3>5 DEF TryMatchExperiments
  <2>2. CASE ContinueMatching
    <3>1. /\ ready.players \in SUBSET Manifests /\ ready.games \in SUBSET Manifests
          /\ ready.specs \in SUBSET Specs
      BY DEF Books, InductiveInv, TypeOK
    <3> QED  BY <2>2, <3>1 DEF ContinueMatching, Books, InductiveInv, ManifestsExist
  <2> QED  BY <2>1, <2>2
<1>2. CASE \E pairing \in Pairings(players, queue), game \in games :
             StartExperiment(pairing, game, players, games, queue)
  BY <1>1, <1>2, StartKeepsSessions
<1>3. CASE UNCHANGED <<serviceVars, registryVars, service_state,
                       em, specs, created, sessions, session, runnerVars>>
  BY <1>3 DEF SessionInv, StopsInOrder, OwnedByListed, WorkingIsMarked, RunsOnlyWithServices,
              Working, is_stopping, service_uuids, ManifestsOf, ManifestOf,
              serviceVars, registryVars, runnerVars
<1> QED  BY <1>1, <1>2, <1>3 DEF MatchRound

\* Sessions are dropped when they are done, and nothing they share with others is released.
LEMMA CleanupKeepsSessions == Books /\ SessionInv /\ CleanupFinishedSessions => SessionInv'
<1> SUFFICES ASSUME Books, SessionInv, CleanupFinishedSessions PROVE SessionInv'
  OBVIOUS
<1> USE DEF SessionInv
<1> DEFINE finished == {i \in sessions : is_finished(i)}
           released == UNION {ManifestsOf(i) : i \in finished}
<1>1. /\ sessions' = sessions \ finished
      /\ service_state' = [m \in Manifests |-> IF m \in released THEN "idle" ELSE service_state[m]]
      /\ session' = [i \in SessionIds |-> IF i \in finished THEN NoSession ELSE session[i]]
      /\ cancelled' = cancelled \ finished
      /\ UNCHANGED <<serviceVars, registryVars, em, created, state, step>>
  BY DEF CleanupFinishedSessions
<1>2. \A i \in SessionIds \ finished : ManifestsOf(i)' = ManifestsOf(i)
  BY <1>1 DEF ManifestsOf
<1>3. sessions \subseteq SessionIds
  BY ListedHolds DEF Books, InductiveInv
<1>4. \A i \in finished : state[i] = "done" /\ step[i] = "ended"
  BY <1>3 DEF is_finished, StopsInOrder
<1>5. StopsInOrder'
  BY <1>1, <1>4 DEF StopsInOrder, is_stopping, Configuring
<1>6. OwnedByListed'
  <2> SUFFICES ASSUME NEW s \in Services, NEW i \in SessionIds, owner[s] = i
               PROVE  i <= created /\ (Working(i) => i \in sessions' /\ s \in service_uuids(i)')
    BY <1>1 DEF OwnedByListed, Working, serviceVars
  <2>1. Working(i) => i \notin finished
    BY <1>4 DEF Working, Body, Cleanup
  <2> QED  BY <1>1, <1>2, <2>1 DEF OwnedByListed, service_uuids
<1>7. WorkingIsMarked'
  <2> SUFFICES ASSUME em = "up", NEW i \in sessions', ~is_stopping(i), NEW m \in ManifestsOf(i)'
               PROVE  service_state'[m] = "in_experiment"
    BY <1>1 DEF WorkingIsMarked, is_stopping
  <2>1. i \in sessions \ finished /\ m \in ManifestsOf(i)
    BY <1>1, <1>2, <1>3
  <2>2. m \in Manifests /\ m \notin released
    BY <2>1, ListedHolds DEF Books, InductiveInv, ManifestExclusive
  <2> QED  BY <1>1, <2>1, <2>2 DEF WorkingIsMarked
<1>8. RunsOnlyWithServices'
  BY <1>1, <1>2, <1>3 DEF RunsOnlyWithServices, is_stopping, ManifestOf, registryVars
<1> QED  BY <1>5, <1>6, <1>7, <1>8

\* A stop frees services of the session that sends it, or of none.
LEMMA StopFrees ==
  ASSUME NEW i, NEW uuids \in SUBSET Services, NEW deaf,
         owner \in [Services -> 0..MaxSessions],
         StopServices(i, uuids, deaf) \/ UNCHANGED <<owner, stopping, late, stuck>>
  PROVE  \A s \in Services : owner'[s] = owner[s] \/ (s \in uuids /\ owner'[s] = 0)
<1>1. CASE StopServices(i, uuids, deaf)
  <2>1. PICK lost \in SUBSET (uuids \cap silent) :
          owner' = [s \in Services |-> IF s \in uuids \ (lost \cup deaf) THEN 0 ELSE owner[s]]
    BY <1>1 DEF StopServices
  <2> QED  BY <2>1
<1> QED  BY <1>1

\* What every step of a session's task does to the sessions and to who owns what: it goes
\* on, it takes what is free and gives back what it holds, and it never un-stops.
GoesOn(i) ==
  /\ step[i] \in Body \cup Cleanup
  /\ \E to \in Steps : to # step[i] /\ step' = [step EXCEPT ![i] = to]
  /\ \E s \in ExperimentState : state' = [state EXCEPT ![i] = s]
  /\ state'[i] = "done" => step'[i] = "ended"
  /\ step'[i] \in Configuring => ~is_stopping(i)'
  /\ is_stopping(i) => is_stopping(i)'
  /\ \A s \in Services :
       \/ owner'[s] = owner[s]
       \/ s \in service_uuids(i) /\ owner'[s] = 0
       \/ s \in service_uuids(i) /\ owner[s] = 0 /\ owner'[s] = i

\* A listed session holds its defuser, its game, and its expert if it has one.
LEMMA Holders ==
  ASSUME TypeOK, NEW i \in sessions
  PROVE  /\ session[i].defuser \in ManifestsOf(i) /\ session[i].game \in ManifestsOf(i)
         /\ session[i].expert \in ManifestsOf(i) \cup {NoManifest}
         /\ \A m \in ManifestsOf(i) : m[1] \in service_uuids(i) /\ m[1] \in Services
<1>1. session[i] \in SessionRecord /\ ManifestsOf(i) \subseteq Manifests
  BY ListedHolds
<1>2. session[i].defuser # NoManifest /\ session[i].game # NoManifest
  BY <1>1, ManifestShape DEF SessionRecord
<1> QED  BY <1>1, <1>2, ManifestShape DEF ManifestsOf, service_uuids

\* A step of the setup.
LEMMA ConfigureGoesOn ==
  ASSUME TypeOK, StopsInOrder, NEW i \in sessions, NEW m \in ManifestsOf(i),
         NEW from \in Configuring, NEW to \in {"configure_expert", "configure_game", "loop"},
         from # to, Configure(i, m, from, to)
  PROVE  GoesOn(i)
<1>1. /\ i \notin cancelled /\ step[i] = from /\ Report(m[1]) = "free"
      /\ owner' = [owner EXCEPT ![m[1]] = i]
      /\ step' = [step EXCEPT ![i] = to]
      /\ state' = [state EXCEPT ![i] = IF to = "loop" THEN "running" ELSE @]
  BY DEF Configure
<1>2. /\ i \in SessionIds /\ m[1] \in Services /\ m[1] \in service_uuids(i)
      /\ owner \in [Services -> 0..MaxSessions] /\ step \in [SessionIds -> Steps]
      /\ state \in [SessionIds -> ExperimentState]
  BY Holders, ListedHolds DEF TypeOK
<1>3. ~is_stopping(i) /\ state[i] # "done"
  BY <1>1, <1>2 DEF StopsInOrder, is_stopping
<1>4. state'[i] = IF to = "loop" THEN "running" ELSE state[i]
  BY <1>1, <1>2
<1>5. ~is_stopping(i)' /\ state'[i] # "done"
  BY <1>3, <1>4 DEF is_stopping
<1>6. \A s \in Services :
         \/ owner'[s] = owner[s]
         \/ s \in service_uuids(i) /\ owner[s] = 0 /\ owner'[s] = i
  BY <1>1, <1>2 DEF Report
<1>7. step[i] \in Body /\ from \in Steps /\ to \in Steps
  BY <1>1 DEF Configuring, Steps, Body
<1>8. \E s \in ExperimentState : state' = [state EXCEPT ![i] = s]
  <2>1. state' = [state EXCEPT ![i] = IF to = "loop" THEN "running" ELSE state[i]]
    BY <1>1
  <2>2. (IF to = "loop" THEN "running" ELSE state[i]) \in ExperimentState
    BY <1>2 DEF ExperimentState
  <2> QED  BY <2>1, <2>2
<1>9. \E t \in Steps : t # step[i] /\ step' = [step EXCEPT ![i] = t]
  BY <1>1, <1>7
<1> QED  BY <1>3, <1>5, <1>6, <1>7, <1>8, <1>9 DEF GoesOn

\* The steps past the configuration end in a state that is stopping.
LEMMA EndingGoesOn ==
  ASSUME TypeOK, NEW i \in sessions, step[i] \in Body \cup Cleanup,
         NEW to \in Steps \ Configuring, to # step[i], step' = [step EXCEPT ![i] = to],
         NEW s \in {"post_game", "cleanup", "done"}, state' = [state EXCEPT ![i] = s],
         s = "done" => to = "ended",
         NEW uuids \in SUBSET service_uuids(i),
         \A t \in Services : owner'[t] = owner[t] \/ (t \in uuids /\ owner'[t] = 0)
  PROVE  GoesOn(i)
<1>1. /\ i \in SessionIds
      /\ step \in [SessionIds -> Steps] /\ state \in [SessionIds -> ExperimentState]
  BY ListedHolds DEF TypeOK
<1>2. step'[i] = to /\ state'[i] = s
  BY <1>1
<1>3. s \in ExperimentState /\ is_stopping(i)'
  BY <1>2 DEF ExperimentState, is_stopping
<1> QED  BY <1>2, <1>3 DEF GoesOn

\* Any step of a runner.
LEMMA RunGoesOn ==
  ASSUME InductiveInv, StopsInOrder, NEW i \in sessions, Run(i)
  PROVE  GoesOn(i)
<1>0. /\ TypeOK /\ i \in SessionIds /\ owner \in [Services -> 0..MaxSessions]
      /\ step \in [SessionIds -> Steps] /\ state \in [SessionIds -> ExperimentState]
      /\ service_uuids(i) \subseteq Services
  BY ListedHolds, Holders DEF InductiveInv, TypeOK, service_uuids
<1>1. CASE ConfigureServices(i)
  <2> DEFINE next == IF session[i].expert = NoManifest THEN "configure_game" ELSE "configure_expert"
  <2>1. CASE Configure(i, session[i].defuser, "configure_defuser", next)
    BY <1>0, <2>1, Holders, ConfigureGoesOn DEF Configuring
  <2>2. CASE session[i].expert # NoManifest
             /\ Configure(i, session[i].expert, "configure_expert", "configure_game")
    BY <1>0, <2>2, Holders, ConfigureGoesOn DEF Configuring
  <2>3. CASE Configure(i, session[i].game, "configure_game", "loop")
    BY <1>0, <2>3, Holders, ConfigureGoesOn DEF Configuring
  <2> QED  BY <1>1, <2>1, <2>2, <2>3 DEF ConfigureServices
<1>2. CASE FailExperiment(i) \/ EndLoop(i)
  <2>1. /\ step[i] \in Body /\ owner' = owner
        /\ \E to \in {"stop_game", "post_game"}, s \in {"cleanup", "post_game"} :
             to # step[i] /\ step' = [step EXCEPT ![i] = to] /\ state' = [state EXCEPT ![i] = s]
    BY <1>2 DEF FailExperiment, EndLoop, InBody, Body, serviceVars
  <2>2. {} \in SUBSET service_uuids(i)
    OBVIOUS
  <2> QED  BY <1>0, <2>1, <2>2, EndingGoesOn DEF Steps, Body, Cleanup, Configuring
<1>3. CASE PostGame(i)
  <2>1. /\ step[i] = "post_game" /\ step' = [step EXCEPT ![i] = "stop_game"]
        /\ state' = [state EXCEPT ![i] = "cleanup"]
        /\ \E deaf : StopServices(i, service_uuids(i) \cap Players, deaf)
                       \/ UNCHANGED <<owner, stopping, late, stuck>>
    BY <1>3 DEF PostGame
  <2>2. service_uuids(i) \cap Players \in SUBSET Services
    BY <1>0
  <2>3. \A t \in Services :
           owner'[t] = owner[t] \/ (t \in service_uuids(i) \cap Players /\ owner'[t] = 0)
    BY <1>0, <2>1, <2>2, StopFrees
  <2>4. service_uuids(i) \cap Players \in SUBSET service_uuids(i)
    OBVIOUS
  <2> QED  BY <1>0, <2>1, <2>3, <2>4, EndingGoesOn DEF Steps, Body, Cleanup, Configuring
<1>4. CASE CleanupExperiment(i)
  <2>1. PICK uuids \in SUBSET service_uuids(i), from \in Cleanup,
             to \in {"stop_defuser", "stop_expert", "ended"} :
               CleanupStep(i, uuids, from, to) /\ from # to
    <3>1. CASE CleanupStep(i, {session[i].game[1]}, "stop_game", "stop_defuser")
      BY <1>0, <3>1, Holders DEF Cleanup
    <3>2. CASE CleanupStep(i, {session[i].defuser[1]}, "stop_defuser", "stop_expert")
      BY <1>0, <3>2, Holders DEF Cleanup
    <3>3. CASE CleanupStep(i, {session[i].expert[1]} \ {NoExpert}, "stop_expert", "ended")
      <4>1. {session[i].expert[1]} \ {NoExpert} \in SUBSET service_uuids(i)
        BY <1>0, Holders DEF NoManifest
      <4> QED  BY <3>3, <4>1 DEF Cleanup
    <3> QED  BY <1>4, <3>1, <3>2, <3>3 DEF CleanupExperiment
  <2>2. /\ step[i] = from /\ step' = [step EXCEPT ![i] = to]
        /\ state' = [state EXCEPT ![i] = IF to = "ended" THEN "done" ELSE @]
        /\ StopServices(i, uuids, {}) \/ UNCHANGED <<owner, stopping, late, stuck>>
    BY <2>1 DEF CleanupStep
  <2>3. \A t \in Services : owner'[t] = owner[t] \/ (t \in uuids /\ owner'[t] = 0)
    BY <1>0, <2>2, StopFrees
  <2> QED
    BY <1>0, <2>1, <2>2, <2>3 DEF GoesOn, Steps, Body, Cleanup, Configuring, is_stopping,
       ExperimentState, StopsInOrder
<1> QED  BY <1>1, <1>2, <1>3, <1>4 DEF Run

\* A runner's step keeps every session with its services.
LEMMA RunKeepsSessions ==
  ASSUME Books, SessionInv, NEW i \in sessions, Run(i)
  PROVE  SessionInv'
<1> USE DEF SessionInv
<1>1. GoesOn(i)
  BY RunGoesOn DEF Books
<1>2. UNCHANGED <<registryVars, service_state, queueVars, cancelled>>
  BY DEF Run, ConfigureServices, Configure, FailExperiment, EndLoop, PostGame, CleanupExperiment,
         CleanupStep
<1>3. /\ i \in SessionIds /\ i <= created /\ created \in Nat /\ SessionIds \subseteq Nat
      /\ step \in [SessionIds -> Steps] /\ state \in [SessionIds -> ExperimentState]
  BY ListedHolds, ConstantsOK DEF Books, InductiveInv, TypeOK, SessionIds
<1>4. \A j \in SessionIds \ {i} : step'[j] = step[j] /\ state'[j] = state[j]
  BY <1>1, <1>3 DEF GoesOn
<1>5. /\ \A j : ManifestsOf(j)' = ManifestsOf(j)
      /\ \A j : service_uuids(j)' = service_uuids(j)
  BY <1>2 DEF ManifestsOf, service_uuids, queueVars
<1>6. \A j \in SessionIds : is_stopping(j) => is_stopping(j)'
  BY <1>1, <1>4 DEF GoesOn, is_stopping
<1>7. StopsInOrder'
  <2> SUFFICES ASSUME NEW j \in SessionIds
               PROVE  /\ state'[j] = "done" => step'[j] = "ended"
                      /\ step'[j] \in Configuring /\ is_stopping(j)' => j \in cancelled'
                      /\ j > created' => state'[j] = "initialising"
    BY DEF StopsInOrder
  <2>1. CASE j = i
    BY <1>1, <1>2, <1>3, <2>1 DEF GoesOn, queueVars
  <2>2. CASE j # i
    BY <1>2, <1>4, <2>2 DEF StopsInOrder, is_stopping, queueVars
  <2> QED  BY <2>1, <2>2
<1>8. OwnedByListed'
  <2> SUFFICES ASSUME NEW s \in Services, NEW j \in SessionIds, owner'[s] = j
               PROVE  j <= created /\ (Working(j)' => j \in sessions /\ s \in service_uuids(j))
    BY <1>2, <1>5 DEF OwnedByListed, queueVars
  <2>1. j # 0
    BY DEF SessionIds
  <2>2. owner[s] = j \/ (j = i /\ s \in service_uuids(i))
    BY <1>1, <2>1 DEF GoesOn
  <2>3. Working(j)' => Working(j)
    BY <1>1, <1>4 DEF Working, GoesOn
  <2> QED  BY <1>3, <2>2, <2>3 DEF OwnedByListed
<1>9. sessions \subseteq SessionIds
  BY ListedHolds DEF Books, InductiveInv
<1>10. WorkingIsMarked' /\ RunsOnlyWithServices'
  BY <1>2, <1>5, <1>6, <1>9 DEF WorkingIsMarked, RunsOnlyWithServices, ManifestOf, registryVars,
                             queueVars
<1> QED  BY <1>7, <1>8, <1>10

\* Every step keeps every session with its services.
LEMMA SessionStep == Books /\ SessionInv /\ [Next]_vars => SessionInv'
<1> SUFFICES ASSUME Books, SessionInv, [Next]_vars PROVE SessionInv'
  OBVIOUS
<1>1. ASSUME UNCHANGED <<owner, registryVars, service_state, em, created, sessions, session,
                         runnerVars>>
      PROVE  SessionInv'
  BY <1>1 DEF SessionInv, StopsInOrder, OwnedByListed, WorkingIsMarked, RunsOnlyWithServices,
              Working, is_stopping, service_uuids, ManifestsOf, ManifestOf, registryVars, runnerVars
<1>2. CASE Service
  BY <1>1, <1>2 DEF Service, SendHeartbeat, FallSilent, HeartbeatLapses, Resume, FinishStop,
                    TurnReturnsLate, queueVars
<1>3. CASE Registry
  BY <1>3, RoundKeepsSessions, ExpiryKeepsSessions DEF Registry
<1>4. CASE Matchmaking
  BY <1>4, MatchKeepsSessions, CleanupKeepsSessions DEF Matchmaking
<1>5. CASE \E batch \in SUBSET Specs : AddSpecs(batch)
  BY <1>1, <1>5 DEF AddSpecs, serviceVars
<1>6. CASE \E i \in sessions : Run(i)
  BY <1>6, RunKeepsSessions
<1>7. CASE UNCHANGED vars
  BY <1>1, <1>7 DEF vars, serviceVars, queueVars
<1> QED  BY <1>2, <1>3, <1>4, <1>5, <1>6, <1>7 DEF Next

\* With silence for death, from the first state on.
LEMMA SessionsAreKept ==
  ASSUME Resumable = {} PROVE Spec => [](Books /\ SessionInv)
<1>1. Init => SessionInv
  BY DEF Init, SessionInv, StopsInOrder, OwnedByListed, WorkingIsMarked, RunsOnlyWithServices,
         Configuring, SessionIds
<1>2. InductiveInv /\ OneLife => Books
  BY OneLifeExcludes DEF Books
<1> QED  BY <1>1, <1>2, OneLifeInvariance, SessionStep, PTL DEF Spec

\* Silence being death, a session that has not begun to stop has all its services in the
\* registry, or an expiry task will stop it: a uuid that leaves connected_services during
\* the sleeps of matchmaking never begins a session that nobody stops.
THEOREM RunsWithServices ==
  ASSUME Resumable = {} PROVE Spec => []RunsOnlyWithServices
<1>1. SessionInv => RunsOnlyWithServices
  BY DEF SessionInv
<1> QED  BY <1>1, SessionsAreKept, PTL

\* Silence being death, nobody takes a service from a session at work: neither the runner
\* of another session nor matchmaking, the registry or the service itself.
THEOREM NeverTaken ==
  ASSUME Resumable = {} PROVE Spec => NeverTakenAtWork
<1> DEFINE Kept == \A s \in Services : LET i == owner[s] IN
                     (i # 0 /\ step[i] \in Body \cup Cleanup /\ owner'[s] # i) => step'[i] # step[i]
<1>1. Books /\ SessionInv /\ [Next]_vars => [Kept]_vars
  <2> SUFFICES ASSUME Books, SessionInv, [Next]_vars PROVE Kept \/ UNCHANGED vars
    OBVIOUS
  <2>1. ASSUME owner' = owner PROVE Kept
    BY <2>1
  <2>2. CASE Service \/ Registry \/ \E batch \in SUBSET Specs : AddSpecs(batch)
    BY <2>1, <2>2 DEF Service, SendHeartbeat, FallSilent, HeartbeatLapses, Resume, FinishStop,
                      TurnReturnsLate, Registry, ProcessHeartbeats, ExpireService, AddSpecs,
                      serviceVars
  <2>3. CASE Matchmaking
    BY <2>1, <2>3 DEF Matchmaking, TryMatchExperiments, ContinueMatching, MatchRound,
                      StartExperiment, CleanupFinishedSessions, serviceVars
  <2>4. ASSUME NEW i \in sessions, Run(i) PROVE Kept
    <3>1. GoesOn(i)
      BY <2>4, RunGoesOn DEF Books, SessionInv
    <3>2. i \in SessionIds /\ owner \in [Services -> 0..MaxSessions]
          /\ step \in [SessionIds -> Steps]
      BY ListedHolds DEF Books, InductiveInv, TypeOK
    <3> SUFFICES ASSUME NEW s \in Services, owner[s] # 0, Working(owner[s]), owner'[s] # owner[s]
                 PROVE  step'[owner[s]] # step[owner[s]]
      BY DEF Working
    <3>3. owner[s] \in SessionIds
      BY <3>2, ConstantsOK DEF SessionIds
    <3>4. s \in service_uuids(i)
      BY <3>1 DEF GoesOn
    <3>5. owner[s] \in sessions /\ s \in service_uuids(owner[s])
      BY <3>3 DEF SessionInv, OwnedByListed
    <3>6. owner[s] = i
      BY <3>4, <3>5 DEF Books, ExclusiveServices
    <3> QED  BY <3>1, <3>2, <3>6 DEF GoesOn
  <2> QED  BY <2>2, <2>3, <2>4 DEF Next
<1> QED  BY <1>1, SessionsAreKept, PTL DEF Spec, NeverTakenAtWork
=============================================================================
