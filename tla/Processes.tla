----------------------------- MODULE Processes -----------------------------
(***************************************************************************)
(* The process that `gptnt run` is, and the child processes it starts: the *)
(* experiment manager, the rooms, the players.  One step of the run is     *)
(* what it does between two awaits; children live, exit and die, and       *)
(* signals arrive, between any two of them.  Time is in the deadlines      *)
(* only: one may pass whenever what it bounds is not over.                 *)
(***************************************************************************)
EXTENDS Naturals

CONSTANTS Rooms, Players  \* how many of each the manifest asks for

ASSUME Manifest == Rooms \in Nat /\ Players \in Nat

\* Children in the order they are started in.
Manager  == 1
Cluster  == 1..(1 + Rooms + Players)
LastRoom == 1 + Rooms

VARIABLES
  \* the children, as the operating system has them
  alive,           \* those that are running
  exit_code,       \* of each: "ok", "error", "signal", or "none" while it has none
  asked,           \* those that were sent a SIGTERM
  \* the run
  spawned,         \* how many were started: the tracked processes are 1..spawned
  status,          \* ProcessStatus of each
  shutdown_event,
  at,              \* where the pipeline is
  within,          \* inside the scope of anyio.fail_after
  submitted,       \* the manager has the specs
  outcome,         \* what the run ends with, Undecided before
  blamed           \* the process it reports, 0 for none

children == <<alive, exit_code, asked>>
run      == <<spawned, status, at, within, submitted, outcome, blamed>>
vars     == <<children, run, shutdown_event>>

Tracked == 1..spawned
Ended   == {"finished", "raised"}
Undecided == "undecided"

TypeOK ==
  /\ alive \subseteq Cluster /\ asked \subseteq Cluster
  /\ exit_code \in [Cluster -> {"none", "ok", "error", "signal"}]
  /\ spawned \in 0..(1 + Rooms + Players)
  /\ status \in [Cluster -> {"RUNNING", "DONE", "FAILED", "KILLED"}]
  /\ {shutdown_event, within, submitted} \subseteq BOOLEAN
  /\ at \in {"manager", "manager up", "health", "asking", "rooms", "players",
             "submit", "monitor", "terminate", "grace"} \cup Ended
  /\ outcome \in {Undecided, "ok", "failed", "shutdown", "not submitted", "not ready", "not spawned"}
  /\ blamed \in {0} \cup Cluster

Init ==
  /\ alive = {} /\ exit_code = [c \in Cluster |-> "none"] /\ asked = {}
  /\ spawned = 0 /\ status = [c \in Cluster |-> "RUNNING"]
  /\ shutdown_event = FALSE /\ at = "manager" /\ within = FALSE
  /\ submitted = FALSE /\ outcome = Undecided /\ blamed = 0
-----------------------------------------------------------------------------
(***************************************************************************)
(* What the orchestrator knows of its children.                            *)
(***************************************************************************)
running_processes(s) == {c \in Tracked : s[c] = "RUNNING"}
failed_processes(s)  == {c \in Tracked : s[c] = "FAILED"}
all_done(s) == \A c \in Tracked : s[c] \in {"DONE", "FAILED"}

\* Variant: an exit by a signal is not seen.
PolledWithoutSignals ==
  [c \in Cluster |->
     IF c \in Tracked /\ status[c] = "RUNNING" /\ exit_code[c] \in {"ok", "error"}
     THEN IF exit_code[c] = "ok" THEN "DONE" ELSE "FAILED"
     ELSE status[c]]

\* Only processes that still count as running are looked at.
Polled ==
  [c \in Cluster |->
     IF c \in Tracked /\ status[c] = "RUNNING" /\ exit_code[c] # "none"
     THEN IF exit_code[c] = "ok" THEN "DONE" ELSE "FAILED"
     ELSE status[c]]

poll_all == status' = Polled

\* The first process in the list that failed.
any_failed(c) == c \in failed_processes(Polled) /\ \A d \in failed_processes(Polled) : c <= d

\* The pipeline goes on to `to', which is not a teardown.
GoesTo(to) == at' = to /\ UNCHANGED <<outcome, blamed>>

\* The pipeline tears the cluster down and will then raise.
TearsDown(why, whom) == at' = "terminate" /\ outcome' = why /\ blamed' = whom

\* orch.spawn: the next child of the manifest.
Spawn ==
  /\ spawned' = spawned + 1
  /\ alive' = alive \cup {spawned + 1}
  /\ UNCHANGED <<exit_code, asked, status>>

\* An exception on the way out of a spawn: nobody takes the others down.
SpawnRaises ==
  /\ at' = "raised" /\ outcome' = "not spawned" /\ UNCHANGED blamed
  /\ UNCHANGED <<children, spawned, status>>
-----------------------------------------------------------------------------
(***************************************************************************)
(* Startup: the manager, whose health is polled; the rooms; the players.   *)
(***************************************************************************)
SpawnManager ==
  /\ at = "manager"
  /\ \/ Spawn /\ GoesTo("manager up")
     \/ SpawnRaises
  /\ UNCHANGED <<within, submitted, shutdown_event>>

\* A shutdown between the start of the manager and the first poll.
ManagerUp ==
  /\ at = "manager up"
  /\ IF shutdown_event THEN TearsDown("shutdown", 0) /\ UNCHANGED within
                       ELSE GoesTo("health") /\ within' = TRUE
  /\ UNCHANGED <<children, spawned, status, submitted, shutdown_event>>

\* One round of the poll up to the request.  Both teardowns run inside the deadline.
PollHealth ==
  /\ at = "health"
  /\ IF shutdown_event
     THEN TearsDown("shutdown", 0) /\ UNCHANGED status
     ELSE /\ poll_all
          /\ \/ \E c \in Tracked : any_failed(c) /\ TearsDown("failed", c)
             \/ failed_processes(Polled) = {} /\ GoesTo("asking")
  /\ UNCHANGED <<children, spawned, within, submitted, shutdown_event>>

\* A manager that runs may answer; any other answer, or none, is another round.
HealthAnswered ==
  /\ at = "asking"
  /\ \/ Manager \in alive /\ GoesTo("rooms") /\ within' = FALSE
     \/ GoesTo("health") /\ UNCHANGED within
  /\ UNCHANGED <<children, spawned, status, submitted, shutdown_event>>

\* fail_after cancels what its scope awaits, a teardown included, and raises
\* TimeoutError where the scope ends: the lines after it are not reached.
ReadinessTimeout ==
  /\ within /\ at \in {"health", "asking", "grace"}
  /\ at' = "raised" /\ outcome' = "not ready" /\ within' = FALSE
  /\ UNCHANGED <<children, spawned, status, submitted, blamed, shutdown_event>>

\* A loop that starts processes up to `last' and the check after it: a shutdown leaves the
\* loop, and the check then tears down.
StartUpTo(last, here, next) ==
  /\ at = here
  /\ \/ /\ shutdown_event /\ TearsDown("shutdown", 0)
        /\ UNCHANGED <<children, spawned, status>>
     \/ ~shutdown_event /\ spawned < last /\ Spawn /\ GoesTo(here)
     \/ ~shutdown_event /\ spawned < last /\ SpawnRaises
     \/ /\ ~shutdown_event /\ spawned = last /\ GoesTo(next)
        /\ UNCHANGED <<children, spawned, status>>
  /\ UNCHANGED <<within, submitted, shutdown_event>>

SpawnRooms   == StartUpTo(LastRoom, "rooms", "players")
SpawnPlayers == StartUpTo(LastRoom + Players, "players", "submit")
-----------------------------------------------------------------------------
(***************************************************************************)
(* Submission and the monitor.                                             *)
(***************************************************************************)
\* Variant: nobody catches a failed post.
SubmitUnguarded ==
  /\ at = "submit"
  /\ submitted' \in (IF Manager \in alive THEN BOOLEAN ELSE {FALSE})
  /\ \/ submitted' /\ GoesTo("monitor")
     \/ at' = "raised" /\ outcome' = "not submitted" /\ UNCHANGED blamed
  /\ UNCHANGED <<children, spawned, status, within, shutdown_event>>

\* The post may fail although the manager has the specs, or because it has died.
Submit ==
  /\ at = "submit"
  /\ submitted' \in (IF Manager \in alive THEN BOOLEAN ELSE {FALSE})
  /\ \/ submitted' /\ GoesTo("monitor")
     \/ TearsDown("not submitted", 0)
  /\ UNCHANGED <<children, spawned, status, within, shutdown_event>>

\* Variant: completion is looked at before failures.
MonitorDoneFirst ==
  /\ at = "monitor" /\ poll_all
  /\ \/ all_done(Polled) /\ at' = "finished" /\ outcome' = "ok" /\ UNCHANGED blamed
     \/ ~all_done(Polled) /\ \E c \in Tracked : any_failed(c) /\ TearsDown("failed", c)
     \/ /\ failed_processes(Polled) = {} /\ ~all_done(Polled)
        /\ IF shutdown_event THEN TearsDown("shutdown", 0) ELSE GoesTo("monitor")
  /\ UNCHANGED <<children, spawned, within, submitted, shutdown_event>>

\* A failure comes before completion, completion before a shutdown.
Monitor ==
  /\ at = "monitor" /\ poll_all
  /\ \/ \E c \in Tracked : any_failed(c) /\ TearsDown("failed", c)
     \/ /\ failed_processes(Polled) = {} /\ all_done(Polled)
        /\ at' = "finished" /\ outcome' = "ok" /\ UNCHANGED blamed
     \/ /\ failed_processes(Polled) = {} /\ ~all_done(Polled)
        /\ IF shutdown_event THEN TearsDown("shutdown", 0) ELSE GoesTo("monitor")
  /\ UNCHANGED <<children, spawned, within, submitted, shutdown_event>>
-----------------------------------------------------------------------------
(***************************************************************************)
(* terminate_all, and the exception that every caller raises after it.     *)
(***************************************************************************)
Raised == at' = "raised" /\ within' = FALSE

\* SIGTERM to what counts as running, whether or not it has exited since.
terminate_all ==
  /\ at = "terminate"
  /\ IF running_processes(status) = {}
     THEN Raised /\ UNCHANGED asked
     ELSE /\ at' = "grace" /\ UNCHANGED within
          /\ asked' = asked \cup (running_processes(status) \cap alive)
  /\ UNCHANGED <<alive, exit_code, spawned, status, submitted, outcome, blamed, shutdown_event>>

\* One round of the wait for them.
GracePoll ==
  /\ at = "grace" /\ poll_all
  /\ IF running_processes(Polled) = {} THEN Raised ELSE UNCHANGED <<at, within>>
  /\ UNCHANGED <<children, spawned, submitted, outcome, blamed, shutdown_event>>

\* SIGKILL to the others, without another look at them.
GraceOver ==
  /\ at = "grace"
  /\ Raised
  /\ alive' = alive \ running_processes(status)
  /\ exit_code' = [c \in Cluster |-> IF c \in running_processes(status) \cap alive
                                     THEN "signal" ELSE exit_code[c]]
  /\ status' = [c \in Cluster |-> IF c \in running_processes(status) THEN "KILLED" ELSE status[c]]
  /\ UNCHANGED <<asked, spawned, submitted, outcome, blamed, shutdown_event>>
-----------------------------------------------------------------------------
(***************************************************************************)
(* The children and the operator.  A child exits on its own, in whatever   *)
(* way, or on the SIGTERM, if it does not ignore it.                       *)
(***************************************************************************)
Exit(c) ==
  /\ c \in alive /\ alive' = alive \ {c}
  /\ \E code \in {"ok", "error", "signal"} : exit_code' = [exit_code EXCEPT ![c] = code]
  /\ UNCHANGED <<asked, run, shutdown_event>>

\* SIGINT or SIGTERM to the run; it does not act on a second one.
Signal ==
  /\ at \notin Ended /\ ~shutdown_event /\ shutdown_event' = TRUE
  /\ UNCHANGED <<children, run>>

Startup == SpawnManager \/ ManagerUp \/ PollHealth \/ HealthAnswered \/ SpawnRooms \/ SpawnPlayers
Work    == Startup \/ Submit \/ Monitor \/ terminate_all \/ GracePoll

Next == Work \/ ReadinessTimeout \/ GraceOver \/ Signal \/ \E c \in Cluster : Exit(c)

Spec == Init /\ [][Next]_vars

\* The event loop runs what is due and its deadlines pass.  Nothing is assumed of the
\* children: none has to exit, to answer or to obey a SIGTERM.
FairSpec == Spec /\ WF_vars(Work) /\ WF_vars(ReadinessTimeout) /\ WF_vars(GraceOver)
-----------------------------------------------------------------------------
(***************************************************************************)
(* Properties.                                                             *)
(***************************************************************************)
\* A run that has ended leaves no child running, whatever ended it and whatever the
\* children do with a SIGTERM (orchestrator.py, terminate_all and its callers).  The
\* exceptions are a child that could not be started and a manager that did not become
\* ready in time: there nobody terminates the cluster.
NoOrphans == at \in Ended /\ outcome \notin {"not spawned", "not ready"} => alive = {}

\* A run reports what happened: a process it blames has failed, and not by the run's own
\* teardown; it finishes only with the specs submitted and every process of the manifest
\* gone of its own accord and without an error; it counts nothing as running in the end.
ReportsTheCause ==
  /\ outcome = "failed" => exit_code[blamed] \in {"error", "signal"} /\ blamed \notin asked
  /\ at = "finished" => submitted /\ \A c \in Cluster : exit_code[c] = "ok" /\ c \notin asked

\* Why the two hold at any time: a process counts as gone only when it is, a SIGTERM is
\* sent only in a teardown, and the process to blame is known before it.
TrackedAndGone ==
  /\ alive \subseteq Tracked
  /\ \A c \in Cluster \ Tracked : exit_code[c] = "none" /\ status[c] = "RUNNING"
  /\ \A c \in Cluster : exit_code[c] # "none" => c \notin alive
  /\ \A c \in Cluster : status[c] # "RUNNING" => c \notin alive
  /\ \A c \in Cluster : status[c] = "DONE" => exit_code[c] = "ok"
  /\ \A c \in Cluster : status[c] = "FAILED" => exit_code[c] \in {"error", "signal"}

OneStageAfterTheOther ==
  /\ at \in {"submit", "monitor", "finished"} => Tracked = Cluster
  /\ at \in {"monitor", "finished"} => submitted
  /\ at = "manager" => spawned = 0
  /\ at \notin {"grace", "raised"} => asked = {}

OutcomeIsDue ==
  /\ at \notin {"terminate", "grace"} \cup Ended => outcome = Undecided
  /\ at \in {"terminate", "grace"} => outcome \in {"failed", "shutdown", "not submitted"}
  /\ at = "finished" <=> outcome = "ok"
  /\ outcome = "failed" => blamed \in Cluster /\ status[blamed] = "FAILED" /\ blamed \notin asked
  /\ at = "finished" => \A c \in Cluster : status[c] = "DONE"

InductiveInv == TypeOK /\ TrackedAndGone /\ OneStageAfterTheOther /\ OutcomeIsDue /\ NoOrphans

\* A child that has failed, or a shutdown, ends the run, at whatever point of it it comes
\* (orchestrator.py: "so a crashed child never leaves the run idling forever").
TroubleEndsRun ==
  /\ \A c \in Cluster : exit_code[c] \in {"error", "signal"} ~> at \in Ended
  /\ shutdown_event ~> at \in Ended
=============================================================================
