------------------------------ MODULE Results ------------------------------
(***************************************************************************)
(* What becomes of the records of a session: the Parquet file and the W&B  *)
(* run each player leaves, the two ledgers that decide from them which     *)
(* attempts are done, the reruns and submits that go by the ledgers, the   *)
(* commands that clean records and runs up, and the results database.      *)
(*                                                                         *)
(* Runs of the cluster follow each other; its player processes, and with   *)
(* them the player uuids, are new in each, so <<role, run>> stands for a   *)
(* uuid.  A run has one room, with a player for each role.                 *)
(***************************************************************************)
EXTENDS Naturals, Sequences, FiniteSets

CONSTANTS Attempts,     \* attempt names
          Duos,         \* those with an expert
          MaxRuns,      \* bound on the runs of the cluster
          MaxSessions,  \* bound on the sessions played
          Outcomes      \* the ways a session may end

Roles   == {"defuser", "expert"}
Sources == {"local", "wandb"}
\* good: solved, struck out or timed out; incomplete: any other state of the bomb;
\* none: no step of the record has one.
Bombs   == {"good", "incomplete", "none"}

ASSUME DuosAssumption == Duos \subseteq Attempts
ASSUME BoundsAssumption == MaxRuns \in Nat /\ MaxSessions \in Nat
\* Who left a step, the last state of the bomb, and the crash flag.
ASSUME OutcomesAssumption ==
  Outcomes \subseteq {o \in [acted : SUBSET Roles, bomb : Bombs, crash : BOOLEAN] :
                       o.bomb # "none" => "defuser" \in o.acted}

VARIABLES
  run,        \* number of the latest run of the cluster
  up,         \* it is up
  queue,      \* attempts queued at its experiment manager
  todo,       \* what a submit has left after its completion check
  session,    \* the session being played, 0 if none
  played,     \* per session its attempt and run
  player,     \* per role: idle, playing, stopping, writing, finishing or dead
  record,     \* per role the record a stopped player is saving
  files,      \* Parquet records in the output directory
  tmps,       \* paths of temporary files next to them
  runs,       \* W&B runs
  steps,      \* experiment_step: the session and player of its rows
  summaries,  \* experiment_summary: the rows
  job         \* the build-db or cleanup-outputs under way

clusterVars == <<run, up, queue, session, played, player, record>>
dbVars == <<steps, summaries>>
vars == <<clusterVars, todo, files, tmps, runs, dbVars, job>>

Sessions == 1..Len(played)
RolesOf(a) == IF a \in Duos THEN Roles ELSE {"defuser"}
AttemptOf(s) == played[s].attempt
\* The path of a record holds the attempt name and the uuid of the player.
Path(s, r) == [attempt |-> AttemptOf(s), role |-> r, run |-> played[s].run]
PathOf(file) == Path(file.session, file.role)
InFlight == queue \cup (IF session = 0 THEN {} ELSE {AttemptOf(session)})

\* build-db and cleanup-outputs read footers first and come back to the records by path: the
\* summaries built with the paths of their steps, the paths and the temporary files to remove,
\* and the paths at which players have saved since the footers were read.  There is one such
\* command at a time, a bound.
NoJob == [kind |-> "none", built |-> {}, doomed |-> {}, tmps |-> {}, saved |-> {}]

NoRecord == [session |-> 0, bomb |-> "none", crash |-> FALSE, acted |-> FALSE]

Init ==
  /\ run = 0 /\ up = FALSE /\ queue = {} /\ todo = {} /\ session = 0 /\ played = <<>>
  /\ player = [r \in Roles |-> "dead"]
  /\ record = [r \in Roles |-> NoRecord]
  /\ files = {} /\ tmps = {} /\ runs = {} /\ steps = {} /\ summaries = {}
  /\ job = NoJob
-----------------------------------------------------------------------------
(* The ledgers. *)
FilesOf(s) == {f \in files : f.session = s}
FilesOfAttempt(a) == {f \in files : AttemptOf(f.session) = a}
BombsIn(group) == {f.bomb : f \in group} \ {"none"}

\* The first bomb state in the order the directory lists the files decides.
ValidityFrom(group, bomb) ==
  /\ bomb = "good"
  /\ \A f \in group : ~f.crash
validities_from_footers(group) ==
  IF BombsIn(group) = {} THEN {FALSE} ELSE {ValidityFrom(group, b) : b \in BombsIn(group)}

IsValid(group) == validities_from_footers(group) = {TRUE}
MayBeValid(group) == TRUE \in validities_from_footers(group)

LocalDone == {a \in Attempts : IsValid(FilesOfAttempt(a))}
LocalAnswers == {LocalDone \cup more : more \in SUBSET {a \in Attempts : MayBeValid(FilesOfAttempt(a))}}

Gathered(rs) == {w \in rs : w.state = "finished" /\ ~w.old}
RunsOf(rs, s) == {w \in rs : w.session = s}
Mismatched(rs) ==
  {w \in rs : Cardinality(RunsOf(rs, w.session)) # Cardinality(RolesOf(AttemptOf(w.session)))}
Duplicates(rs) ==
  {w \in rs : \E other \in rs : /\ AttemptOf(other.session) = AttemptOf(w.session)
                                /\ other.session > w.session}
FalselyFinished(rs) ==
  {w \in rs : \E d \in RunsOf(rs, w.session) :
                 d.role = "defuser" /\ d.bomb = "incomplete" /\ ~d.crash}
MarkOld(rs, bad) == {[w EXCEPT !.old = @ \/ w \in bad] : w \in rs}

CleanupRuns(rs) ==
  LET all == Gathered(rs)
  IN  MarkOld(rs, Mismatched(all) \cup Duplicates(all) \cup FalselyFinished(all))
WandbDone == {AttemptOf(w.session) : w \in Gathered(CleanupRuns(runs))}

\* The attempts left after asking the source; W&B runs are marked on the way.
Remaining(source, left) ==
  \/ /\ source = "local"
     /\ \E done \in LocalAnswers : left = Attempts \ done
     /\ UNCHANGED runs
  \/ /\ source = "wandb"
     /\ left = Attempts \ WandbDone
     /\ runs' = CleanupRuns(runs)
-----------------------------------------------------------------------------
(* Runs, submits and sessions. *)
Run(source) ==
  /\ ~up /\ run < MaxRuns /\ Len(played) < MaxSessions
  /\ \E left \in SUBSET Attempts :
        /\ Remaining(source, left)
        /\ left # {}
        /\ queue' = left
  /\ up' = TRUE /\ run' = run + 1
  /\ player' = [r \in Roles |-> "idle"]
  /\ UNCHANGED <<todo, session, played, record, files, tmps, dbVars, job>>

Submit(source) ==
  /\ todo = {}
  /\ Remaining(source, todo')
  /\ UNCHANGED <<clusterVars, files, tmps, dbVars, job>>

\* Nothing is queued once MaxSessions leaves no session for it.
AddSpecs ==
  /\ todo # {} /\ up
  /\ queue' = IF Len(played) < MaxSessions THEN queue \cup (todo \ InFlight) ELSE queue
  /\ todo' = {}
  /\ UNCHANGED <<run, up, session, played, player, record, files, tmps, runs, dbVars, job>>

StartSession(a) ==
  /\ up /\ a \in queue /\ session = 0 /\ Len(played) < MaxSessions
  /\ \A r \in RolesOf(a) : player[r] = "idle"
  /\ played' = Append(played, [attempt |-> a, run |-> run])
  /\ session' = Len(played) + 1
  /\ queue' = queue \ {a}
  /\ player' = [r \in Roles |-> IF r \in RolesOf(a) THEN "playing" ELSE player[r]]
  /\ runs' = runs \cup {[session |-> session', role |-> r, state |-> "running",
                         bomb |-> "none", crash |-> FALSE, old |-> FALSE] : r \in RolesOf(a)}
  /\ UNCHANGED <<run, up, todo, record, files, tmps, dbVars, job>>

\* The runner stops the players, with one crash flag for all (RecordsAgree of
\* ExperimentRunner), and forgets the session while they still save.
EndSession ==
  /\ session # 0
  /\ \E o \in Outcomes :
        record' = [r \in Roles |->
              IF r \in RolesOf(AttemptOf(session))
              THEN [session |-> session, bomb |-> IF r = "defuser" THEN o.bomb ELSE "none",
                    crash |-> o.crash, acted |-> r \in o.acted]
              ELSE record[r]]
  /\ player' = [r \in Roles |-> IF player[r] = "playing" THEN "stopping" ELSE player[r]]
  /\ session' = 0
  /\ UNCHANGED <<run, up, queue, todo, played, files, tmps, runs, dbVars, job>>

\* A player without steps writes no file.
StartWriting(r) ==
  /\ player[r] = "stopping"
  /\ IF record[r].acted
     THEN /\ tmps' = tmps \cup {Path(record[r].session, r)}
          /\ player' = [player EXCEPT ![r] = "writing"]
     ELSE /\ player' = [player EXCEPT ![r] = "finishing"]
          /\ UNCHANGED tmps
  /\ UNCHANGED <<run, up, queue, todo, session, played, record, files, runs, dbVars, job>>

\* The renamed file takes the place of the one this player left of the attempt before.
Replace(r) ==
  LET path == Path(record[r].session, r)
      file == [session |-> record[r].session, role |-> r,
               bomb |-> record[r].bomb, crash |-> record[r].crash]
  IN  /\ player[r] = "writing" /\ path \in tmps
      /\ files' = {f \in files : PathOf(f) # path} \cup {file}
      /\ tmps' = tmps \ {path}
      /\ player' = [player EXCEPT ![r] = "finishing"]
      /\ job' = IF job = NoJob THEN NoJob ELSE [job EXCEPT !.saved = @ \cup {path}]
      /\ UNCHANGED <<run, up, queue, todo, session, played, record, runs, dbVars>>

\* Variant: the exit code of a W&B run is always 0.
FinishRunWithoutCrash(r) ==
  LET own == {w \in runs : w.session = record[r].session /\ w.role = r /\ w.state = "running"}
  IN  /\ player[r] = "finishing"
      /\ runs' = (runs \ own) \cup
           {[w EXCEPT !.state = "finished", !.bomb = record[r].bomb, !.crash = record[r].crash] : w \in own}
      /\ player' = [player EXCEPT ![r] = "idle"]
      /\ record' = [record EXCEPT ![r] = NoRecord]
      /\ UNCHANGED <<run, up, queue, todo, session, played, files, tmps, dbVars, job>>

\* The exit code of a W&B run is 1, its state failed, when the session crashed.
FinishRun(r) ==
  LET own == {w \in runs : w.session = record[r].session /\ w.role = r /\ w.state = "running"}
  IN  /\ player[r] = "finishing"
      /\ runs' = (runs \ own) \cup
           {[w EXCEPT !.state = IF record[r].crash THEN "failed" ELSE "finished",
                      !.bomb = record[r].bomb, !.crash = record[r].crash] : w \in own}
      /\ player' = [player EXCEPT ![r] = "idle"]
      /\ record' = [record EXCEPT ![r] = NoRecord]
      /\ UNCHANGED <<run, up, queue, todo, session, played, files, tmps, dbVars, job>>

\* The cluster is torn down, at whatever point its players are; W&B takes a run shut
\* down half-way for crashed or for finished with the bomb as last logged.
EndRun ==
  /\ up
  /\ up' = FALSE /\ queue' = {} /\ session' = 0
  /\ player' = [r \in Roles |-> "dead"]
  /\ record' = [r \in Roles |-> NoRecord]
  /\ \E state \in {"crashed", "finished"} :
        runs' = {IF w.state = "running" THEN [w EXCEPT !.state = state, !.bomb = "incomplete"]
                 ELSE w : w \in runs}
  /\ UNCHANGED <<run, todo, played, files, tmps, dbVars, job>>
-----------------------------------------------------------------------------
(* Maintenance, by a person at any time. *)
PathsOf(fs) == {PathOf(f) : f \in fs}
FilesAt(paths) == {f \in files : PathOf(f) \in paths}

\* Variant: by the attempt in the file name.
GroupsByName(fs) == {fs \cap FilesOfAttempt(a) : a \in Attempts} \ {{}}

group_by_unique_experiment(fs) == {fs \cap FilesOf(s) : s \in Sessions} \ {{}}

\* The command is stopped, or a record it comes back for is gone.  A build then leaves the
\* database alone, a cleanup the paths it has not come to.
AbandonJob ==
  /\ job # NoJob
  /\ job' = NoJob
  /\ UNCHANGED <<clusterVars, todo, files, tmps, runs, dbVars>>

\* cleanup-outputs --execute lists the records and the temporary files and judges the
\* records of each session by their footers, ...
CleanupOutputs ==
  LET invalid == {group \in group_by_unique_experiment(files) : ~IsValid(group)}
  IN  /\ job = NoJob /\ (files # {} \/ tmps # {})
      /\ job' = [NoJob EXCEPT !.kind = "cleanup", !.doomed = PathsOf(UNION invalid),
                              !.tmps = tmps]
      /\ UNCHANGED <<clusterVars, todo, files, tmps, runs, dbVars>>

\* ... unlinks the paths of the invalid ones, whatever they hold by then, ...
Unlink(p) ==
  /\ p \in job.doomed
  /\ files' = files \ FilesAt({p})
  /\ job' = [job EXCEPT !.doomed = @ \ {p}]
  /\ UNCHANGED <<clusterVars, todo, tmps, runs, dbVars>>

\* ... and at last the temporary files.  A player whose file is gone fails to rename it and
\* takes the cluster down.
FinishCleanup ==
  /\ job.kind = "cleanup" /\ job.doomed = {}
  /\ tmps' = tmps \ job.tmps
  /\ job' = NoJob
  /\ UNCHANGED <<clusterVars, todo, files, runs, dbVars>>

\* mark_runs_without_output_files_as_old, when there are any files.
WithoutFile(all) ==
  IF files = {} THEN {} ELSE {w \in all : PathOf(w) \notin {PathOf(f) : f \in files}}

\* delete_old_experiment_outputs: what a valid run wrote stays; without one nothing is deleted.
FilesToKeep(valid) ==
  LET kept == {PathOf(w) : w \in valid}
  IN  IF kept = {} THEN files ELSE {f \in files : PathOf(f) \in kept}

\* cleanup-wandb --execute on the output directory.
CleanupWandb ==
  LET all == Gathered(runs)
      bad == Mismatched(all) \cup Duplicates(all) \cup FalselyFinished(all) \cup WithoutFile(all)
  IN  /\ job = NoJob /\ all # {}
      /\ runs' = MarkOld(runs, bad)
      /\ files' = FilesToKeep(all \ bad)
      /\ UNCHANGED <<clusterVars, todo, tmps, dbVars, job>>

\* Variant: every file of the directory.
AnyFiles == files

\* The files whose steps are not in the database.
NewFiles == {f \in files : <<f.session, f.role>> \notin steps}
Summary(group) ==
  [session |-> (CHOOSE f \in group : TRUE).session,
   roles   |-> {f.role : f \in group},
   bomb    |-> CHOOSE b \in BombsIn(group) : TRUE,
   crash   |-> \E f \in group : f.crash]

\* build-db groups the new files by session and derives the summary of each group from its
\* footers, leaving out the groups without a bomb state; ...
BuildDb ==
  LET groups == {group \in group_by_unique_experiment(NewFiles) : BombsIn(group) # {}}
  IN  /\ job = NoJob /\ groups # {}
      /\ job' = [NoJob EXCEPT !.kind = "build",
                  !.built = {[summary |-> Summary(group), paths |-> PathsOf(group)] : group \in groups}]
      /\ UNCHANGED <<clusterVars, todo, files, tmps, runs, dbVars>>

\* ... it adds the summaries, with the steps that are at the paths by then, in one
\* transaction.
StepPaths == UNION {b.paths : b \in job.built}
ExecuteMerge ==
  /\ job.kind = "build" /\ StepPaths \subseteq PathsOf(files)
  /\ summaries' = summaries \cup {b.summary : b \in job.built}
  /\ steps' = steps \cup {<<f.session, f.role>> : f \in FilesAt(StepPaths)}
  /\ job' = NoJob
  /\ UNCHANGED <<clusterVars, todo, files, tmps, runs>>
-----------------------------------------------------------------------------
Save == \E r \in Roles : StartWriting(r) \/ Replace(r) \/ FinishRun(r)
Cluster == (\E a \in Attempts : StartSession(a)) \/ EndSession \/ EndRun
People == \/ \E source \in Sources : Run(source) \/ Submit(source)
          \/ AddSpecs \/ CleanupWandb
Maintenance == BuildDb \/ ExecuteMerge \/ CleanupOutputs \/ FinishCleanup \/ AbandonJob
               \/ \E p \in job.doomed : Unlink(p)

Next == Save \/ Cluster \/ People \/ Maintenance
Spec == Init /\ [][Next]_vars
-----------------------------------------------------------------------------
(* Properties. *)

\* The database never has two summaries of a session, however builds, saves, replaced
\* records and cleanups of the directory alternate; and a build adds steps of the sessions
\* it adds a summary of and of no others, unless a player has saved again at a path it had
\* read a footer at.
OneSummary == \A one, other \in summaries : one.session = other.session => one = other
StepsHaveOneSummary ==
  [][/\ OneSummary'
     /\ job.saved \cap StepPaths = {} =>
          {s[1] : s \in steps' \ steps} = {sm.session : sm \in summaries' \ summaries}]_dbVars

\* No player has saved at a path of session s since the command listed the directory.
Undisturbed(s) == \A r \in RolesOf(AttemptOf(s)) : Path(s, r) \notin job.saved

\* cleanup-outputs takes no record of a valid session, unless one of its players saved a
\* later session at its path meanwhile; and once it is done, with nothing saved meanwhile,
\* it has settled every attempt whose valid session was hidden by the records of others.
CleanupSettles ==
  [][/\ \A p \in job.doomed : Unlink(p) =>
          \A s \in Sessions : IsValid(FilesOf(s)) /\ Undisturbed(s) => FilesOf(s)' = FilesOf(s)
     /\ FinishCleanup /\ job.saved = {} =>
          \A s \in Sessions : IsValid(FilesOf(s)) => AttemptOf(s) \in LocalDone']_job

\* The file and the W&B run of each player of session s are there, none marked old by a
\* look at W&B before the other player had finished.
IsSaved(s) ==
  \A r \in RolesOf(AttemptOf(s)) : \E f \in files, w \in runs :
    /\ f.session = s /\ w.session = s /\ f.role = r /\ w.role = r
    /\ w.state \in {"finished", "failed"} /\ w.bomb = f.bomb /\ ~w.old

\* The two ledgers agree on an attempt with one session whose players all saved their
\* records, if the defuser has seen the bomb: W&B takes a run without an outcome for
\* done.
SourcesAgree ==
  \A s \in Sessions :
    /\ IsSaved(s)
    /\ \A other \in Sessions : AttemptOf(other) = AttemptOf(s) => other = s
    /\ BombsIn(FilesOf(s)) # {}
    => (AttemptOf(s) \in LocalDone <=> AttemptOf(s) \in WandbDone)

\* Refuted: an attempt with a valid session counts as done.
RetryCounts ==
  \A s \in Sessions : IsSaved(s) /\ IsValid(FilesOf(s)) => AttemptOf(s) \in LocalDone
=============================================================================
