----------------------------- MODULE Submission -----------------------------
(***************************************************************************)
(* From a suite to the leaderboard: the project freezes revisions of a     *)
(* suite in suites.lock and publishes releases; a submitter generates      *)
(* specs from the lock of a checkout, runs them, builds the database, a    *)
(* bundle from the database, and submits it; the submissions repository    *)
(* merges what validates against the release it declares, and the board    *)
(* lists what is merged.  Nothing but files ties these steps together, and *)
(* releases, edits, reruns and crashes come between any two.               *)
(*                                                                         *)
(* One suite and one model.  A body stands for everything the digest of a  *)
(* suite covers; a lock maps frozen revisions to [body, by], by being the  *)
(* stamp of the repository that froze it.  The submitter block of a        *)
(* manifest is left out.                                                   *)
(***************************************************************************)
EXTENDS Naturals, Sequences, FiniteSetsExt

CONSTANTS
    Bodies,           \* contents a suite may have
    MissionsOf,       \* MissionsOf[b]: the missions of body b
    Revisions,        \* revisions it may be frozen at
    MinimumRevision,  \* oldest revision the board lists
    MaxReleases, MaxSessions, MaxDays,   \* bounds
    MaxTroubles       \* bound on what the submitter changes, breaks or discards

VARIABLES
    releases,   \* the lock of every release, by number
    checkout,   \* the submitter's: release, whether its code is as released, lock
    specs,      \* the generated specs' revision and body, or Nothing
    run,        \* the run under way: its specs, code and whether it was forced, or Nothing
    sessions,   \* what has been recorded, in order
    day,
    bundles,    \* the three files of each bundle directory
    merged,     \* the files of each directory of the submissions repository
    troubles

vars == <<releases, checkout, specs, run, sessions, day, bundles, merged, troubles>>
recorded == <<specs, run, sessions, day>>
bundled == <<bundles, merged>>

Nothing == [is |-> "nothing"]
Torn == [is |-> "torn"]
Whole(x) == [is |-> "whole", of |-> x]
NoFiles == [payload |-> Nothing, snapshot |-> Nothing, manifest |-> Nothing]

\* What a forced session records in place of a release.
NoRelease == [release |-> 0, clean |-> FALSE]

LastRelease == releases[Len(releases)]

Suites == [rev : Revisions, body : Bodies]

\* Some revisions are frozen when it all begins.
Init ==
    /\ \E R \in SUBSET Revisions : \E lock \in [R -> [body : Bodies, by : {"project"}]] :
          /\ releases = <<lock>>
          /\ checkout = [release |-> 1, clean |-> TRUE, lock |-> lock]
    /\ specs = Nothing /\ run = Nothing
    /\ sessions = <<>> /\ day = 1
    /\ bundles = <<>> /\ merged = <<>> /\ troubles = 0

Trouble == troubles < MaxTroubles /\ troubles' = troubles + 1

---------------------------------------------------------------------------
(* Suites and locks *)

\* Variant: an entry of this revision is brought up to date.
ReconcileInPlace(live, lock, by) ==
    IF live.rev \in DOMAIN lock /\ lock[live.rev].body = live.body THEN lock
    ELSE [r \in DOMAIN lock \union {live.rev} |->
             IF r = live.rev THEN [body |-> live.body, by |-> by] ELSE lock[r]]

\* An entry of this revision stays as it is: with another digest it blocks the write.
Reconcile(live, lock, by) ==
    [r \in DOMAIN lock \union {live.rev} |->
        IF r \in DOMAIN lock THEN lock[r] ELSE [body |-> live.body, by |-> by]]

\* The project changes the suite, its revision or both, freezes it and releases.
Publish ==
    /\ Len(releases) < MaxReleases
    /\ \E live \in Suites : releases' = Append(releases, Reconcile(live, LastRelease, "project"))
    /\ UNCHANGED <<checkout, recorded, bundled, troubles>>

\* The submitter changes and freezes it, too: suites are permitted inputs, and the
\* checkout stays clean.
FreezeOwn ==
    /\ Trouble
    /\ \E live \in Suites :
          checkout' = [checkout EXCEPT !.lock = Reconcile(live, @, "submitter")]
    /\ UNCHANGED <<releases, recorded, bundled>>

---------------------------------------------------------------------------
(* The checkout *)

\* Under a run, the code on disk is not the code its processes have loaded.
Disturb == run' = IF run = Nothing THEN run ELSE [run EXCEPT !.calm = FALSE]

\* The submitter checks out a release; edited code is carried over, inputs are not.
Upgrade ==
    /\ \E r \in DOMAIN releases \ {checkout.release} :
          checkout' = [checkout EXCEPT !.release = r, !.lock = releases[r]]
    /\ Disturb
    /\ UNCHANGED <<releases, specs, sessions, day, bundled, troubles>>

EditCode ==
    /\ IF checkout.clean THEN Trouble ELSE UNCHANGED troubles
    /\ checkout' = [checkout EXCEPT !.clean = ~@]
    /\ Disturb
    /\ UNCHANGED <<releases, specs, sessions, day, bundled>>

---------------------------------------------------------------------------
(* Generating and running *)

\* Specs are generated from the lock, for any frozen revision.
Generate ==
    /\ \E r \in DOMAIN checkout.lock : specs' = [rev |-> r, body |-> checkout.lock[r].body]
    /\ UNCHANGED <<releases, checkout, run, sessions, day, bundled,
                   troubles>>

\* The protected tree of the checkout, built anew, against that of its release.
protected_content_modified == ~checkout.clean

\* The gate on the code of a command that produces scores.
BenchmarkHolds(force) == force \/ ~protected_content_modified

\* The specs on disk are of a frozen revision; their digest is not looked at.
check_suite_selection == specs.rev \in DOMAIN checkout.lock

\* `gptnt run` starts on specs that are there already when the doctor finds nothing;
\* forced, it starts whatever the doctor found.
StartRun(force) ==
    /\ run = Nothing /\ specs # Nothing
    /\ BenchmarkHolds(force) /\ (force \/ check_suite_selection)
    /\ IF force THEN Trouble ELSE UNCHANGED troubles
    /\ run' = [force |-> force, specs |-> specs, release |-> checkout.release,
               clean |-> checkout.clean, calm |-> TRUE]
    /\ UNCHANGED <<releases, checkout, specs, sessions, day, bundled>>

\* Provenance.capture reads the checkout, unless forced.
Capture ==
    IF run.force THEN NoRelease
    ELSE [release |-> checkout.release, clean |-> ~protected_content_modified]

\* One session of the run, which may be of a mission that was played before (retries,
\* --no-filter) and may fail.  Its provenance is captured when it is created.
Play(mission, valid) ==
    /\ run # Nothing /\ Len(sessions) < MaxSessions
    /\ mission \in MissionsOf[run.specs.body]
    /\ sessions' = Append(sessions,
           [mission |-> mission, rev |-> run.specs.rev, body |-> run.specs.body, day |-> day,
            valid |-> valid, prov |-> Capture,
            played |-> [release |-> run.release, clean |-> run.clean], calm |-> run.calm])
    /\ UNCHANGED <<releases, checkout, specs, run, day, bundled, troubles>>

EndRun ==
    /\ run # Nothing
    /\ run' = Nothing
    /\ UNCHANGED <<releases, checkout, specs, sessions, day, bundled,
                   troubles>>

NextDay ==
    /\ day < MaxDays
    /\ day' = day + 1
    /\ UNCHANGED <<releases, checkout, specs, run, sessions, bundled,
                   troubles>>

---------------------------------------------------------------------------
(* Bundles *)

StartDate(rows) == Min({sessions[s].day : s \in rows})

\* What the database may hold when it is read: it is built from records in any
\* portions, less those that its owner took out ("drop the retries").
Databases == SUBSET DOMAIN sessions

\* The records of the suite share one identity.
SharedIdentity(rows) ==
    /\ rows # {}
    /\ \A s, t \in rows : sessions[s].rev = sessions[t].rev /\ sessions[s].body = sessions[t].body

\* It is the one this checkout has frozen, and they share one provenance, with digests.
CanBundle(rows) ==
    /\ SharedIdentity(rows)
    /\ \A s \in rows : /\ sessions[s].rev \in DOMAIN checkout.lock
                       /\ checkout.lock[sessions[s].rev].body = sessions[s].body
    /\ \A s, t \in rows : sessions[s].prov = sessions[t].prov /\ sessions[s].prov # NoRelease

\* What `submission new` writes for the records in the database.
BundleOf(db) ==
    LET row == sessions[CHOOSE s \in db : TRUE]
        entry == checkout.lock[row.rev]
    IN  [payload |-> db,
         snapshot |-> [rev |-> row.rev, body |-> entry.body, by |-> entry.by],
         manifest |-> [rev |-> row.rev, body |-> row.body, prov |-> row.prov,
                       date |-> StartDate(db)]]

DirectoryOf(bundle) == <<bundle.manifest.date, bundle.manifest.rev>>

FilesOf(dir, known) == IF dir \in DOMAIN known THEN known[dir] ELSE NoFiles
With(known, dir, files) ==
    [d \in DOMAIN known \union {dir} |-> IF d = dir THEN files ELSE known[d]]

\* The files are written in place one after the other, over those of an earlier build;
\* a file at which the writing ends is cut off.
Write(bundle, names, torn) ==
    LET dir == DirectoryOf(bundle)
        files == FilesOf(dir, bundles)
    IN  bundles' = With(bundles, dir, [f \in DOMAIN NoFiles |->
                                          IF f \in names THEN Whole(bundle[f])
                                          ELSE IF f \in torn THEN Torn ELSE files[f]])

\* `submission new` builds the bundle of the database.
New(db) ==
    /\ CanBundle(db)
    /\ Write(BundleOf(db), {"payload", "snapshot", "manifest"}, {})
    /\ UNCHANGED <<releases, checkout, recorded, merged, troubles>>

\* The command dies, between two files or in one.
Crash(db) ==
    /\ CanBundle(db) /\ Trouble
    /\ \/ Write(BundleOf(db), {}, {"payload"})
       \/ \E torn \in {{}, {"snapshot"}} : Write(BundleOf(db), {"payload"}, torn)
       \/ \E torn \in {{}, {"manifest"}} : Write(BundleOf(db), {"payload", "snapshot"}, torn)
    /\ UNCHANGED <<releases, checkout, recorded, merged>>

---------------------------------------------------------------------------
(* Validating and submitting *)

\* load_bundle: every file is there and can be read.
Loads(files) == \A f \in DOMAIN NoFiles : files[f].is = "whole"

\* check_structure: the directory is the one the manifest names.
CheckManifest(dir, manifest) == <<manifest.date, manifest.rev>> = dir

\* check_suite
CheckSuite(manifest, snapshot) ==
    manifest.rev = snapshot.rev /\ manifest.body = snapshot.body

\* Variant: duplicates are not looked for.
CheckCoverageOnce(rows, manifest) ==
    /\ \A s \in rows : sessions[s].rev = manifest.rev /\ sessions[s].body = manifest.body
    /\ \A m \in MissionsOf[manifest.body] : \E s \in rows : sessions[s].mission = m
    /\ \A s \in rows : sessions[s].valid

\* check_mission_coverage
CheckCoverage(rows, manifest) ==
    /\ \A s \in rows : sessions[s].rev = manifest.rev /\ sessions[s].body = manifest.body
    /\ \A m \in MissionsOf[manifest.body] : \E s \in rows : sessions[s].mission = m
    /\ \A s, t \in rows : sessions[s].mission = sessions[t].mission => s = t
    /\ \A s \in rows : sessions[s].valid

\* Variant: the rows are not compared with the manifest.
CheckManifestProvenance(rows, manifest) ==
    manifest.prov.release \in DOMAIN releases /\ manifest.prov.clean

\* check_provenance, and the recorded release found in the source repository
CheckProvenance(rows, manifest) ==
    /\ manifest.prov.release \in DOMAIN releases /\ manifest.prov.clean
    /\ \A s \in rows : sessions[s].prov = manifest.prov

\* check_installed_lock_match, by the lock of the release the bundle declares
CheckLock(snapshot, lock) ==
    /\ snapshot.rev \in DOMAIN lock
    /\ lock[snapshot.rev] = [body |-> snapshot.body, by |-> snapshot.by]

Validates(dir, files) ==
    /\ Loads(files)
    /\ LET rows == files.payload.of
           snapshot == files.snapshot.of
           manifest == files.manifest.of
       IN  /\ rows # {}
           /\ CheckManifest(dir, manifest)
           /\ CheckSuite(manifest, snapshot)
           /\ CheckCoverage(rows, manifest)
           /\ CheckProvenance(rows, manifest)
           /\ CheckLock(snapshot, releases[manifest.prov.release])

\* What a request would leave in the repository: its branch is cut from the repository
\* as it is, and the files that are there are copied over those of the same bundle.
Branch(dir) ==
    LET old == FilesOf(dir, merged)
        new == bundles[dir]
    IN  [f \in DOMAIN NoFiles |-> IF new[f].is = "nothing" THEN old[f] ELSE new[f]]

\* The request is merged if it validates for the release it declares.  A request that
\* waits and is refreshed by a later push is one that was not made before.
Submit(dir) ==
    /\ Validates(dir, Branch(dir))
    /\ merged' = With(merged, dir, Branch(dir))
    /\ UNCHANGED <<releases, checkout, recorded, bundles, troubles>>

\* What the board lists: every merged bundle of a revision that still counts.
Listed == {dir \in DOMAIN merged : merged[dir].manifest.of.rev >= MinimumRevision}

Next ==
    \/ Publish \/ FreezeOwn \/ Upgrade \/ EditCode
    \/ Generate \/ EndRun \/ NextDay
    \/ \E force \in BOOLEAN : StartRun(force)
    \/ \E m \in UNION {MissionsOf[b] : b \in Bodies}, valid \in BOOLEAN : Play(m, valid)
    \/ \E db \in Databases : New(db) \/ Crash(db)
    \/ \E dir \in DOMAIN bundles : Submit(dir)

Spec == Init /\ [][Next]_vars

---------------------------------------------------------------------------
(* Properties *)

\* Entries of one revision are comparable: what is listed was played on the content
\* that every release which froze the revision has, whatever was edited and frozen
\* locally and whichever release declared it.
ListedIsFrozen ==
    \A dir \in Listed : \A r \in DOMAIN releases :
        LET lock == releases[r]
            manifest == merged[dir].manifest.of
        IN  manifest.rev \in DOMAIN lock => lock[manifest.rev].body = manifest.body

\* A submitter gets one entry per revision, however often bundles are rebuilt while
\* the database grows, in whatever order records are added: of two entries neither
\* has all the records of the other, so that records were taken out between them.
OneEntryPerTarget ==
    \A d1, d2 \in Listed :
        /\ merged[d1].manifest.of.rev = merged[d2].manifest.of.rev
        /\ merged[d1].payload.of \subseteq merged[d2].payload.of
        => d1 = d2

\* What is listed is what happened, although the files of a bundle may be of several
\* builds: its rows were played on unmodified code of the release it declares, unless
\* the checkout was switched under the run, and the earliest is of the day it names.
ListedIsTrue ==
    \A dir \in Listed :
        LET rows == merged[dir].payload.of
            manifest == merged[dir].manifest.of
        IN  /\ StartDate(rows) = dir[1]
            /\ \A s \in rows : sessions[s].calm => sessions[s].played = manifest.prov
=============================================================================
