-------------------------- MODULE ProcessesProofs --------------------------
(***************************************************************************)
(* Proofs that a run leaves no child behind and reports what happened, for *)
(* any number of rooms and players, whatever the children do.  A lemma per *)
(* group of actions shows that InductiveInv (defined beside the            *)
(* properties) is preserved; two facts about a poll are used throughout.   *)
(***************************************************************************)
EXTENDS Processes, TLAPS

-----------------------------------------------------------------------------
\* A poll leaves the type of the statuses, does not touch one that is not RUNNING, and
\* counts a process as gone only if it has exited, by its exit code.
LEMMA PollIsTrue ==
  ASSUME TypeOK, TrackedAndGone
  PROVE  /\ Polled \in [Cluster -> {"RUNNING", "DONE", "FAILED", "KILLED"}]
         /\ \A c \in Cluster : status[c] # "RUNNING" => Polled[c] = status[c]
         /\ \A c \in Cluster : Polled[c] # "RUNNING" => c \notin alive
         /\ \A c \in Cluster : Polled[c] = "DONE" => exit_code[c] = "ok"
         /\ \A c \in Cluster : Polled[c] = "FAILED" => exit_code[c] \in {"error", "signal"}
         /\ \A c \in Cluster \ Tracked : Polled[c] = "RUNNING"
<1>1. /\ status \in [Cluster -> {"RUNNING", "DONE", "FAILED", "KILLED"}]
      /\ exit_code \in [Cluster -> {"none", "ok", "error", "signal"}]
  BY DEF TypeOK
<1>2. \A c \in Cluster : Polled[c] = IF c \in Tracked /\ status[c] = "RUNNING" /\ exit_code[c] # "none"
                                     THEN IF exit_code[c] = "ok" THEN "DONE" ELSE "FAILED"
                                     ELSE status[c]
  BY DEF Polled
<1>3. Polled \in [Cluster -> {"RUNNING", "DONE", "FAILED", "KILLED"}]
  BY <1>1 DEF Polled
<1> QED BY <1>1, <1>2, <1>3 DEF TrackedAndGone

\* The tracked processes are children of the manifest.
LEMMA TrackedInCluster ==
  ASSUME TypeOK
  PROVE  Tracked \subseteq Cluster /\ spawned \in Nat
<1>1. spawned \in 0..(1 + Rooms + Players)
  BY DEF TypeOK
<1> QED BY <1>1, Manifest DEF Tracked, Cluster

\* A poll that changes nothing else keeps what is known of the children.
LEMMA PollKeepsTracking ==
  ASSUME TypeOK, TrackedAndGone, poll_all, UNCHANGED <<children, spawned>>
  PROVE  TrackedAndGone' /\ status' \in [Cluster -> {"RUNNING", "DONE", "FAILED", "KILLED"}]
BY PollIsTrue DEF poll_all, TrackedAndGone, children, Tracked

\* Where every process counts as gone none is alive.
LEMMA NoneRunning ==
  ASSUME TypeOK, TrackedAndGone
  PROVE  /\ running_processes(status) = {} => alive = {}
         /\ running_processes(Polled) = {} => alive = {}
         /\ alive \ running_processes(status) = {}
BY PollIsTrue, TrackedInCluster DEF running_processes, TrackedAndGone
-----------------------------------------------------------------------------
LEMMA InitHolds == Init => InductiveInv
<1> SUFFICES ASSUME Init PROVE InductiveInv
  OBVIOUS
<1>1. TypeOK
  <2>1. 0 \in 0..(1 + Rooms + Players)
    BY Manifest
  <2> QED BY <2>1 DEF Init, TypeOK, Undecided
<1>2. TrackedAndGone
  BY DEF Init, TrackedAndGone, Tracked
<1>3. OneStageAfterTheOther
  BY DEF Init, OneStageAfterTheOther
<1>4. OutcomeIsDue
  BY DEF Init, OutcomeIsDue, Ended, Undecided
<1>5. NoOrphans
  BY DEF Init, NoOrphans, Ended
<1> QED BY <1>1, <1>2, <1>3, <1>4, <1>5 DEF InductiveInv

\* A spawn that is due keeps all but the stage.
LEMMA SpawnKeeps ==
  ASSUME InductiveInv, Spawn, spawned < 1 + Rooms + Players
  PROVE  /\ TrackedAndGone'
         /\ alive' \subseteq Cluster /\ spawned' \in 0..(1 + Rooms + Players)
         /\ exit_code' = exit_code /\ asked' = asked /\ status' = status
<1>1. spawned \in Nat /\ spawned + 1 \in Cluster /\ spawned + 1 \notin Tracked
  BY Manifest, TrackedInCluster DEF InductiveInv, Cluster, Tracked
<1>2. Tracked' = Tracked \cup {spawned + 1}
  BY <1>1 DEF Spawn, Tracked
<1>3. TrackedAndGone'
  BY <1>1, <1>2 DEF InductiveInv, TrackedAndGone, Spawn
<1>4. spawned' \in 0..(1 + Rooms + Players)
  BY <1>1, Manifest DEF Spawn
<1>5. alive \subseteq Cluster
  BY DEF InductiveInv, TypeOK
<1> QED BY <1>1, <1>3, <1>4, <1>5 DEF Spawn
-----------------------------------------------------------------------------
(***************************************************************************)
(* Each action preserves the invariant.                                    *)
(***************************************************************************)
\* The check after the start of the manager.
LEMMA ManagerUpKeeps ==
  ASSUME InductiveInv, ManagerUp
  PROVE  InductiveInv'
<1>1. TypeOK'
  BY DEF InductiveInv, TypeOK, ManagerUp, GoesTo, TearsDown, children
<1>2. TrackedAndGone'
  BY DEF InductiveInv, TrackedAndGone, ManagerUp, children, Tracked
<1>3. OneStageAfterTheOther'
  BY DEF InductiveInv, OneStageAfterTheOther, ManagerUp, GoesTo, TearsDown, children, Tracked
<1>4. OutcomeIsDue'
  BY DEF InductiveInv, OutcomeIsDue, ManagerUp, GoesTo, TearsDown, children, Ended, Undecided
<1>5. NoOrphans'
  BY DEF InductiveInv, NoOrphans, ManagerUp, GoesTo, TearsDown, children, Ended
<1> QED BY <1>1, <1>2, <1>3, <1>4, <1>5 DEF InductiveInv

\* An answer of the manager, or none.
LEMMA HealthAnsweredKeeps ==
  ASSUME InductiveInv, HealthAnswered
  PROVE  InductiveInv'
<1>1. TypeOK'
  BY DEF InductiveInv, TypeOK, HealthAnswered, GoesTo, children
<1>2. TrackedAndGone'
  BY DEF InductiveInv, TrackedAndGone, HealthAnswered, children, Tracked
<1>3. OneStageAfterTheOther'
  BY DEF InductiveInv, OneStageAfterTheOther, HealthAnswered, GoesTo, children, Tracked
<1>4. OutcomeIsDue'
  BY DEF InductiveInv, OutcomeIsDue, HealthAnswered, GoesTo, children, Ended, Undecided
<1>5. NoOrphans'
  BY DEF InductiveInv, NoOrphans, HealthAnswered, GoesTo, children, Ended
<1> QED BY <1>1, <1>2, <1>3, <1>4, <1>5 DEF InductiveInv

\* The deadline, which ends in the exempted outcome.
LEMMA ReadinessTimeoutKeeps ==
  ASSUME InductiveInv, ReadinessTimeout
  PROVE  InductiveInv'
<1>1. TypeOK'
  BY DEF InductiveInv, TypeOK, ReadinessTimeout, children, Ended
<1>2. TrackedAndGone'
  BY DEF InductiveInv, TrackedAndGone, ReadinessTimeout, children, Tracked
<1>3. OneStageAfterTheOther'
  BY DEF InductiveInv, OneStageAfterTheOther, ReadinessTimeout, children, Tracked
<1>4. OutcomeIsDue'
  BY DEF InductiveInv, OutcomeIsDue, ReadinessTimeout, children, Ended, Undecided
<1>5. NoOrphans'
  BY DEF NoOrphans, ReadinessTimeout
<1> QED BY <1>1, <1>2, <1>3, <1>4, <1>5 DEF InductiveInv

\* A signal sets the event and nothing else.
LEMMA SignalKeeps ==
  ASSUME InductiveInv, Signal
  PROVE  InductiveInv'
<1>1. TypeOK'
  BY DEF InductiveInv, TypeOK, Signal, children, run
<1>2. TrackedAndGone'
  BY DEF InductiveInv, TrackedAndGone, Signal, children, run, Tracked
<1>3. OneStageAfterTheOther'
  BY DEF InductiveInv, OneStageAfterTheOther, Signal, children, run, Tracked
<1>4. OutcomeIsDue'
  BY DEF InductiveInv, OutcomeIsDue, Signal, children, run
<1>5. NoOrphans'
  BY DEF InductiveInv, NoOrphans, Signal, children, run
<1> QED BY <1>1, <1>2, <1>3, <1>4, <1>5 DEF InductiveInv

\* The post of the specs.
LEMMA SubmitKeeps ==
  ASSUME InductiveInv, Submit
  PROVE  InductiveInv'
<1>1. TypeOK'
  BY DEF InductiveInv, TypeOK, Submit, GoesTo, TearsDown, children
<1>2. TrackedAndGone'
  BY DEF InductiveInv, TrackedAndGone, Submit, children, Tracked
<1>3. OneStageAfterTheOther'
  BY DEF InductiveInv, OneStageAfterTheOther, Submit, GoesTo, TearsDown, children, Tracked
<1>4. OutcomeIsDue'
  BY DEF InductiveInv, OutcomeIsDue, Submit, GoesTo, TearsDown, children, Ended, Undecided
<1>5. NoOrphans'
  BY DEF InductiveInv, NoOrphans, Submit, GoesTo, TearsDown, children, Ended
<1> QED BY <1>1, <1>2, <1>3, <1>4, <1>5 DEF InductiveInv

\* The start of the manager, or an exception instead.
LEMMA SpawnManagerKeeps ==
  ASSUME InductiveInv, SpawnManager
  PROVE  InductiveInv'
<1>a. spawned = 0
  BY DEF InductiveInv, OneStageAfterTheOther, SpawnManager
<1>1. spawned = 0 /\ spawned < 1 + Rooms + Players
  BY <1>a, Manifest
<1>2. CASE Spawn /\ GoesTo("manager up")
  <2>1. TypeOK'
    BY <1>1, <1>2, SpawnKeeps DEF InductiveInv, TypeOK, SpawnManager, GoesTo
  <2>2. TrackedAndGone'
    BY <1>1, <1>2, SpawnKeeps
  <2>3. OneStageAfterTheOther'
    BY <1>1, <1>2, SpawnKeeps DEF InductiveInv, OneStageAfterTheOther, SpawnManager, GoesTo
  <2>4. OutcomeIsDue' /\ NoOrphans'
    BY <1>1, <1>2, SpawnKeeps
    DEF InductiveInv, OutcomeIsDue, NoOrphans, SpawnManager, GoesTo, Ended
  <2> QED BY <2>1, <2>2, <2>3, <2>4 DEF InductiveInv
<1>3. CASE SpawnRaises
  <2>1. TypeOK'
    BY <1>3 DEF InductiveInv, TypeOK, SpawnManager, SpawnRaises, children, Ended
  <2>2. TrackedAndGone'
    BY <1>3 DEF InductiveInv, TrackedAndGone, SpawnRaises, children, Tracked
  <2>3. OneStageAfterTheOther'
    BY <1>3 DEF InductiveInv, OneStageAfterTheOther, SpawnRaises, children
  <2>4. OutcomeIsDue' /\ NoOrphans'
    BY <1>3 DEF InductiveInv, OutcomeIsDue, NoOrphans, SpawnManager, SpawnRaises, Ended
  <2> QED BY <2>1, <2>2, <2>3, <2>4 DEF InductiveInv
<1> QED BY <1>2, <1>3 DEF SpawnManager

\* The loop over the rooms and that over the players: a start, an exception, the end of
\* the loop or a shutdown.
LEMMA StartUpToKeeps ==
  ASSUME InductiveInv, NEW last \in Nat, last <= 1 + Rooms + Players,
         NEW here, NEW next, StartUpTo(last, here, next),
         \/ here = "rooms" /\ next = "players"
         \/ here = "players" /\ next = "submit" /\ last = 1 + Rooms + Players
  PROVE  InductiveInv'
<1>1. CASE spawned < last /\ Spawn /\ GoesTo(here)
  <2>1. spawned < 1 + Rooms + Players
    BY <1>1, Manifest, TrackedInCluster DEF InductiveInv
  <2>2. TypeOK'
    BY <1>1, <2>1, SpawnKeeps DEF InductiveInv, TypeOK, StartUpTo, GoesTo
  <2>3. TrackedAndGone'
    BY <1>1, <2>1, SpawnKeeps
  <2>4. OneStageAfterTheOther'
    BY <1>1, <2>1, SpawnKeeps DEF InductiveInv, OneStageAfterTheOther, StartUpTo, GoesTo
  <2>5. OutcomeIsDue' /\ NoOrphans'
    BY <1>1, <2>1, SpawnKeeps DEF InductiveInv, OutcomeIsDue, NoOrphans, StartUpTo, GoesTo, Ended
  <2> QED BY <2>2, <2>3, <2>4, <2>5 DEF InductiveInv
<1>2. CASE SpawnRaises
  <2>1. TypeOK'
    BY <1>2 DEF InductiveInv, TypeOK, StartUpTo, SpawnRaises, children, Ended
  <2>2. TrackedAndGone'
    BY <1>2 DEF InductiveInv, TrackedAndGone, SpawnRaises, children, Tracked
  <2>3. OneStageAfterTheOther'
    BY <1>2 DEF InductiveInv, OneStageAfterTheOther, SpawnRaises, children
  <2>4. OutcomeIsDue' /\ NoOrphans'
    BY <1>2 DEF InductiveInv, OutcomeIsDue, NoOrphans, StartUpTo, SpawnRaises, Ended
  <2> QED BY <2>1, <2>2, <2>3, <2>4 DEF InductiveInv
<1>3. CASE TearsDown("shutdown", 0) /\ UNCHANGED <<children, spawned, status>>
  <2>1. TypeOK'
    BY <1>3 DEF InductiveInv, TypeOK, StartUpTo, TearsDown, children
  <2>2. TrackedAndGone'
    BY <1>3 DEF InductiveInv, TrackedAndGone, children, Tracked
  <2>3. OneStageAfterTheOther'
    BY <1>3 DEF InductiveInv, OneStageAfterTheOther, StartUpTo, TearsDown, children
  <2>4. OutcomeIsDue' /\ NoOrphans'
    BY <1>3 DEF InductiveInv, OutcomeIsDue, NoOrphans, StartUpTo, TearsDown, Ended
  <2> QED BY <2>1, <2>2, <2>3, <2>4 DEF InductiveInv
<1>4. CASE spawned = last /\ GoesTo(next) /\ UNCHANGED <<children, spawned, status>>
  <2>1. TypeOK'
    BY <1>4 DEF InductiveInv, TypeOK, StartUpTo, GoesTo, children
  <2>2. TrackedAndGone'
    BY <1>4 DEF InductiveInv, TrackedAndGone, children, Tracked
  <2>3. OneStageAfterTheOther'
    BY <1>4 DEF InductiveInv, OneStageAfterTheOther, StartUpTo, GoesTo, children, Tracked, Cluster
  <2>4. OutcomeIsDue' /\ NoOrphans'
    BY <1>4 DEF InductiveInv, OutcomeIsDue, NoOrphans, StartUpTo, GoesTo, children, Ended
  <2> QED BY <2>1, <2>2, <2>3, <2>4 DEF InductiveInv
<1> QED BY <1>1, <1>2, <1>3, <1>4 DEF StartUpTo

\* One round of the health poll up to the request.
LEMMA PollHealthKeeps ==
  ASSUME InductiveInv, PollHealth
  PROVE  InductiveInv'
<1>1. CASE shutdown_event /\ TearsDown("shutdown", 0) /\ UNCHANGED status
  <2>1. TypeOK'
    BY <1>1 DEF InductiveInv, TypeOK, PollHealth, TearsDown, children
  <2>2. TrackedAndGone'
    BY <1>1 DEF InductiveInv, TrackedAndGone, PollHealth, children, Tracked
  <2>3. OneStageAfterTheOther'
    BY <1>1 DEF InductiveInv, OneStageAfterTheOther, PollHealth, TearsDown, children
  <2>4. OutcomeIsDue' /\ NoOrphans'
    BY <1>1 DEF InductiveInv, OutcomeIsDue, NoOrphans, PollHealth, TearsDown, Ended
  <2> QED BY <2>1, <2>2, <2>3, <2>4 DEF InductiveInv
<1>2. ASSUME NEW c \in Tracked, poll_all, any_failed(c), TearsDown("failed", c)
      PROVE  InductiveInv'
  <2>1. c \in Cluster /\ Polled[c] = "FAILED" /\ asked = {}
    BY <1>2, TrackedInCluster
    DEF InductiveInv, OneStageAfterTheOther, PollHealth, any_failed, failed_processes
  <2>2. TrackedAndGone' /\ status' \in [Cluster -> {"RUNNING", "DONE", "FAILED", "KILLED"}]
    BY <1>2, PollKeepsTracking DEF InductiveInv, PollHealth
  <2>3. TypeOK'
    BY <1>2, <2>1, <2>2 DEF InductiveInv, TypeOK, PollHealth, TearsDown, children
  <2>4. OneStageAfterTheOther'
    BY <1>2, <2>1 DEF InductiveInv, OneStageAfterTheOther, PollHealth, TearsDown, children
  <2>5. OutcomeIsDue' /\ NoOrphans'
    BY <1>2, <2>1 DEF OutcomeIsDue, NoOrphans, PollHealth, TearsDown, children, poll_all, Ended
  <2> QED BY <2>2, <2>3, <2>4, <2>5 DEF InductiveInv
<1>3. CASE poll_all /\ GoesTo("asking")
  <2>1. TrackedAndGone' /\ status' \in [Cluster -> {"RUNNING", "DONE", "FAILED", "KILLED"}]
    BY <1>3, PollKeepsTracking DEF InductiveInv, PollHealth
  <2>2. TypeOK'
    BY <1>3, <2>1 DEF InductiveInv, TypeOK, PollHealth, GoesTo, children
  <2>3. OneStageAfterTheOther'
    BY <1>3 DEF InductiveInv, OneStageAfterTheOther, PollHealth, GoesTo, children
  <2>4. OutcomeIsDue' /\ NoOrphans'
    BY <1>3 DEF InductiveInv, OutcomeIsDue, NoOrphans, PollHealth, GoesTo, Ended, Undecided
  <2> QED BY <2>1, <2>2, <2>3, <2>4 DEF InductiveInv
<1> QED BY <1>1, <1>2, <1>3 DEF PollHealth

\* One round of the monitor: a failure, completion, a shutdown, or nothing new.
LEMMA MonitorKeeps ==
  ASSUME InductiveInv, Monitor
  PROVE  InductiveInv'
<1>1. TrackedAndGone' /\ status' = Polled
      /\ status' \in [Cluster -> {"RUNNING", "DONE", "FAILED", "KILLED"}]
  BY PollKeepsTracking DEF InductiveInv, Monitor, poll_all
<1>2. asked = {} /\ submitted /\ Tracked = Cluster /\ outcome = Undecided
  BY DEF InductiveInv, OneStageAfterTheOther, OutcomeIsDue, Monitor, Ended
<1>3. ASSUME NEW c \in Tracked, any_failed(c), TearsDown("failed", c)
      PROVE  InductiveInv'
  <2>1. c \in Cluster /\ Polled[c] = "FAILED"
    BY <1>2, <1>3 DEF any_failed, failed_processes
  <2>2. TypeOK'
    BY <1>1, <1>3, <2>1 DEF InductiveInv, TypeOK, Monitor, TearsDown, children
  <2>3. OneStageAfterTheOther'
    BY <1>2, <1>3 DEF OneStageAfterTheOther, Monitor, TearsDown, children
  <2>4. OutcomeIsDue' /\ NoOrphans'
    BY <1>1, <1>2, <1>3, <2>1 DEF OutcomeIsDue, NoOrphans, Monitor, TearsDown, children, Ended
  <2> QED BY <1>1, <2>2, <2>3, <2>4 DEF InductiveInv
<1>4. CASE /\ failed_processes(Polled) = {} /\ all_done(Polled)
           /\ at' = "finished" /\ outcome' = "ok" /\ UNCHANGED blamed
  <2>1. \A c \in Cluster : Polled[c] = "DONE"
    BY <1>2, <1>4 DEF all_done, failed_processes
  <2>2. alive = {}
    BY <2>1, PollIsTrue DEF InductiveInv, TypeOK
  <2>3. TypeOK'
    BY <1>1, <1>4 DEF InductiveInv, TypeOK, Monitor, children, Ended
  <2>4. OneStageAfterTheOther'
    BY <1>2, <1>4 DEF OneStageAfterTheOther, Monitor, children, Tracked
  <2>5. OutcomeIsDue' /\ NoOrphans'
    BY <1>1, <1>4, <2>1, <2>2 DEF OutcomeIsDue, NoOrphans, Monitor, children, Ended
  <2> QED BY <1>1, <2>3, <2>4, <2>5 DEF InductiveInv
<1>5. CASE TearsDown("shutdown", 0)
  <2>1. TypeOK'
    BY <1>1, <1>5 DEF InductiveInv, TypeOK, Monitor, TearsDown, children
  <2>2. OneStageAfterTheOther'
    BY <1>2, <1>5 DEF OneStageAfterTheOther, Monitor, TearsDown, children
  <2>3. OutcomeIsDue' /\ NoOrphans'
    BY <1>5 DEF OutcomeIsDue, NoOrphans, TearsDown, Ended
  <2> QED BY <1>1, <2>1, <2>2, <2>3 DEF InductiveInv
<1>6. CASE GoesTo("monitor")
  <2>1. TypeOK'
    BY <1>1, <1>6 DEF InductiveInv, TypeOK, Monitor, GoesTo, children
  <2>2. OneStageAfterTheOther'
    BY <1>2, <1>6 DEF OneStageAfterTheOther, Monitor, GoesTo, children, Tracked
  <2>3. OutcomeIsDue' /\ NoOrphans'
    BY <1>2, <1>6 DEF OutcomeIsDue, NoOrphans, GoesTo, Ended, Undecided
  <2> QED BY <1>1, <2>1, <2>2, <2>3 DEF InductiveInv
<1> QED BY <1>3, <1>4, <1>5, <1>6 DEF Monitor

\* The SIGTERM, to processes that still count as running: the one to blame is not.
LEMMA TerminateKeeps ==
  ASSUME InductiveInv, terminate_all
  PROVE  InductiveInv'
<1>1. asked \subseteq Cluster /\ alive \subseteq Cluster
  BY DEF InductiveInv, TypeOK
<1>2. TypeOK'
  BY <1>1 DEF InductiveInv, TypeOK, terminate_all, Raised, Ended
<1>3. TrackedAndGone'
  BY DEF InductiveInv, TrackedAndGone, terminate_all, Tracked
<1>4. OneStageAfterTheOther'
  BY DEF InductiveInv, OneStageAfterTheOther, terminate_all, Raised
<1>5. OutcomeIsDue'
  BY DEF InductiveInv, OutcomeIsDue, terminate_all, Raised, running_processes, Ended
<1>6. NoOrphans'
  BY NoneRunning DEF InductiveInv, NoOrphans, terminate_all, Raised, Ended
<1> QED BY <1>2, <1>3, <1>4, <1>5, <1>6 DEF InductiveInv

\* A round of the wait: it ends when nothing counts as running, so when nothing runs.
LEMMA GracePollKeeps ==
  ASSUME InductiveInv, GracePoll
  PROVE  InductiveInv'
<1>1. TrackedAndGone' /\ status' = Polled
      /\ status' \in [Cluster -> {"RUNNING", "DONE", "FAILED", "KILLED"}]
  BY PollKeepsTracking DEF InductiveInv, GracePoll, poll_all
<1>2. TypeOK'
  BY <1>1 DEF InductiveInv, TypeOK, GracePoll, Raised, children, Ended
<1>3. OneStageAfterTheOther'
  BY DEF InductiveInv, OneStageAfterTheOther, GracePoll, Raised, children
<1>4. OutcomeIsDue'
  BY <1>1, PollIsTrue DEF InductiveInv, OutcomeIsDue, GracePoll, Raised, children, Ended
<1>5. NoOrphans'
  BY NoneRunning DEF InductiveInv, NoOrphans, GracePoll, Raised, children, Ended
<1> QED BY <1>1, <1>2, <1>3, <1>4, <1>5 DEF InductiveInv

\* The SIGKILL: what still counted as running is not alive after it, and nothing else was.
LEMMA GraceOverKeeps ==
  ASSUME InductiveInv, GraceOver
  PROVE  InductiveInv'
<1>1. TypeOK'
  BY DEF InductiveInv, TypeOK, GraceOver, Raised, Ended
<1>2. alive' = {}
  BY NoneRunning DEF InductiveInv, GraceOver
<1>3. TrackedAndGone'
  BY <1>2, TrackedInCluster DEF InductiveInv, TypeOK, TrackedAndGone, GraceOver, Tracked, running_processes
<1>4. OneStageAfterTheOther'
  BY DEF InductiveInv, OneStageAfterTheOther, GraceOver, Raised
<1>5. OutcomeIsDue'
  BY DEF InductiveInv, TypeOK, OutcomeIsDue, GraceOver, Raised, running_processes, Ended
<1>6. NoOrphans'
  BY <1>2 DEF NoOrphans
<1> QED BY <1>1, <1>3, <1>4, <1>5, <1>6 DEF InductiveInv

\* A child exits: it counted as running.
LEMMA ExitKeeps ==
  ASSUME InductiveInv, NEW c \in Cluster, Exit(c)
  PROVE  InductiveInv'
<1>1. TypeOK'
  BY DEF InductiveInv, TypeOK, Exit, run
<1>2. TrackedAndGone'
  BY DEF InductiveInv, TypeOK, TrackedAndGone, Exit, run, Tracked
<1>3. OneStageAfterTheOther'
  BY DEF InductiveInv, OneStageAfterTheOther, Exit, run, Tracked
<1>4. OutcomeIsDue' /\ NoOrphans'
  BY DEF InductiveInv, OutcomeIsDue, NoOrphans, Exit, run
<1> QED BY <1>1, <1>2, <1>3, <1>4 DEF InductiveInv
-----------------------------------------------------------------------------
(***************************************************************************)
(* The theorems.                                                           *)
(***************************************************************************)
LEMMA NextHolds == InductiveInv /\ [Next]_vars => InductiveInv'
<1> SUFFICES ASSUME InductiveInv, [Next]_vars PROVE InductiveInv'
  OBVIOUS
<1>1. CASE SpawnManager BY <1>1, SpawnManagerKeeps
<1>2. CASE ManagerUp BY <1>2, ManagerUpKeeps
<1>3. CASE PollHealth BY <1>3, PollHealthKeeps
<1>4. CASE HealthAnswered BY <1>4, HealthAnsweredKeeps
<1>5. CASE SpawnRooms
  <2>1. LastRoom \in Nat /\ LastRoom <= 1 + Rooms + Players
    BY Manifest DEF LastRoom
  <2> QED BY <1>5, <2>1, StartUpToKeeps DEF SpawnRooms
<1>6. CASE SpawnPlayers
  <2>1. LastRoom + Players \in Nat /\ LastRoom + Players = 1 + Rooms + Players
    BY Manifest DEF LastRoom
  <2>2. LastRoom + Players <= 1 + Rooms + Players
    BY <2>1, Manifest
  <2> QED BY <1>6, <2>1, <2>2, StartUpToKeeps DEF SpawnPlayers
<1>7. CASE Submit BY <1>7, SubmitKeeps
<1>8. CASE Monitor BY <1>8, MonitorKeeps
<1>9. CASE terminate_all BY <1>9, TerminateKeeps
<1>10. CASE GracePoll BY <1>10, GracePollKeeps
<1>11. CASE ReadinessTimeout BY <1>11, ReadinessTimeoutKeeps
<1>12. CASE GraceOver BY <1>12, GraceOverKeeps
<1>13. CASE Signal BY <1>13, SignalKeeps
<1>14. CASE \E c \in Cluster : Exit(c) BY <1>14, ExitKeeps
<1>15. CASE UNCHANGED vars
  <2>1. TypeOK' /\ TrackedAndGone'
    BY <1>15 DEF InductiveInv, TypeOK, TrackedAndGone, Tracked, vars, children, run
  <2>2. OneStageAfterTheOther' /\ OutcomeIsDue' /\ NoOrphans'
    BY <1>15 DEF InductiveInv, OneStageAfterTheOther, OutcomeIsDue, NoOrphans, Tracked,
                 vars, children, run
  <2> QED BY <2>1, <2>2 DEF InductiveInv
<1> QED
  BY <1>1, <1>2, <1>3, <1>4, <1>5, <1>6, <1>7, <1>8, <1>9, <1>10, <1>11, <1>12, <1>13, <1>14, <1>15
  DEF Next, Work, Startup

\* The inductive invariant of the run holds in every reachable state, for any number of
\* rooms and players (orchestrator.py, spawn.py, _monitor.py).
THEOREM RunInvariance == Spec => []InductiveInv
<1> QED BY InitHolds, NextHolds, PTL DEF Spec

\* No child outlives a run, except one whose manager was never ready or whose cluster was
\* not started completely (orchestrator.py, terminate_all and its callers).
THEOREM NoChildLeft == Spec => []NoOrphans
<1>1. InductiveInv => NoOrphans
  BY DEF InductiveInv
<1> QED BY <1>1, RunInvariance, PTL

\* A run blames a process that failed before any teardown, and finishes only with its work
\* submitted and every process of the manifest gone without an error (_monitor.py).
THEOREM TrueReport == Spec => []ReportsTheCause
<1>1. InductiveInv => ReportsTheCause
  <2> SUFFICES ASSUME InductiveInv PROVE ReportsTheCause
    OBVIOUS
  <2>1. outcome = "failed" => exit_code[blamed] \in {"error", "signal"} /\ blamed \notin asked
    BY DEF InductiveInv, OutcomeIsDue, TrackedAndGone
  <2>2. ASSUME at = "finished" PROVE submitted /\ \A c \in Cluster : exit_code[c] = "ok" /\ c \notin asked
    BY <2>2 DEF InductiveInv, OutcomeIsDue, OneStageAfterTheOther, TrackedAndGone
  <2> QED BY <2>1, <2>2 DEF ReportsTheCause
<1> QED BY <1>1, RunInvariance, PTL
=============================================================================
