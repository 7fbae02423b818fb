-------------------------- MODULE SubmissionProofs --------------------------
(***************************************************************************)
(* What the board lists, for any suite contents, revisions and missions,   *)
(* and any number of releases, sessions, days and troubles.                *)
(***************************************************************************)
EXTENDS Submission, TLAPS

---------------------------------------------------------------------------
(* The inductive invariant *)

\* A revision once released stays as it is in every later release.
LocksGrow ==
    \A i, j \in DOMAIN releases : i <= j =>
        \A r \in DOMAIN releases[i] :
            r \in DOMAIN releases[j] /\ releases[j][r] = releases[i][r]

\* A run the checkout was not changed under has loaded what the checkout still is.
RunIsCheckout ==
    run # Nothing /\ run.calm =>
        run.release = checkout.release /\ run.clean = checkout.clean

\* Sessions play missions of their suite, on the code their provenance names.
SessionsOwn ==
    \A s \in DOMAIN sessions :
        /\ sessions[s].mission \in MissionsOf[sessions[s].body]
        /\ sessions[s].calm /\ sessions[s].prov # NoRelease =>
               sessions[s].played = sessions[s].prov

\* A payload lies in the directory of its earliest day.
PayloadOf(dir, file) ==
    file.is = "whole" => file.of \subseteq DOMAIN sessions /\ StartDate(file.of) = dir[1]

PayloadsDated == \A dir \in DOMAIN bundles : PayloadOf(dir, bundles[dir].payload)

\* A merged bundle still passes what it was merged for.
MergedPasses ==
    \A dir \in DOMAIN merged :
        /\ PayloadOf(dir, merged[dir].payload)
        /\ Validates(dir, merged[dir])

Locks == UNION {[R -> [body : Bodies, by : {"project", "submitter"}]] : R \in SUBSET Revisions}
Codes == [release : Nat, clean : BOOLEAN]
Runs == [force : BOOLEAN, specs : Suites, release : Nat, clean : BOOLEAN, calm : BOOLEAN]
Missions == UNION {MissionsOf[b] : b \in Bodies}
Sessions == [mission : Missions, rev : Revisions, body : Bodies, day : Nat, valid : BOOLEAN,
             prov : Codes, played : Codes, calm : BOOLEAN]

TypeOK ==
    /\ releases \in Seq(Locks) /\ Len(releases) > 0
    /\ checkout \in [release : Nat, clean : BOOLEAN, lock : Locks]
    /\ specs \in {Nothing} \union Suites
    /\ run \in {Nothing} \union Runs
    /\ sessions \in Seq(Sessions)
    /\ day \in Nat

SubmissionInv ==
    /\ TypeOK
    /\ LocksGrow
    /\ RunIsCheckout
    /\ SessionsOwn
    /\ PayloadsDated
    /\ MergedPasses

---------------------------------------------------------------------------
(* Types *)

\* Freezing adds at most one entry to a lock and changes none.
LEMMA ReconcileKeeps ==
  ASSUME NEW lock \in Locks, NEW live \in Suites, NEW by \in {"project", "submitter"}
  PROVE  /\ Reconcile(live, lock, by) \in Locks
         /\ \A r \in DOMAIN lock : /\ r \in DOMAIN Reconcile(live, lock, by)
                                   /\ Reconcile(live, lock, by)[r] = lock[r]
<1> DEFINE Entries == [body : Bodies, by : {"project", "submitter"}]
<1>1. PICK R \in SUBSET Revisions : lock \in [R -> Entries]
  BY DEF Locks
<1>2. live.rev \in Revisions /\ live.body \in Bodies
  BY DEF Suites
<1>3. [body |-> live.body, by |-> by] \in Entries
  BY <1>2
<1>4. R \union {live.rev} \in SUBSET Revisions
  BY <1>2
<1>5. Reconcile(live, lock, by) \in [R \union {live.rev} -> Entries]
  BY <1>1, <1>3 DEF Reconcile
<1>6. Reconcile(live, lock, by) \in Locks
  BY <1>4, <1>5 DEF Locks
<1> QED BY <1>1, <1>6 DEF Reconcile

\* The types hold in every state.
LEMMA TypesKept ==
  ASSUME TypeOK, [Next]_vars
  PROVE  TypeOK'
<1> USE DEF TypeOK, recorded, bundled
<1>1. CASE Publish
  <2>1. LastRelease \in Locks
    BY DEF LastRelease
  <2>2. PICK live \in Suites :
            releases' = Append(releases, Reconcile(live, LastRelease, "project"))
    BY <1>1 DEF Publish
  <2>3. Reconcile(live, LastRelease, "project") \in Locks
    BY <2>1, ReconcileKeeps
  <2>4. releases' \in Seq(Locks) /\ Len(releases') > 0
    BY <2>2, <2>3
  <2> QED BY <1>1, <2>4 DEF Publish
<1>2. CASE FreezeOwn
  <2>1. PICK live \in Suites :
            checkout' = [checkout EXCEPT !.lock = Reconcile(live, @, "submitter")]
    BY <1>2 DEF FreezeOwn
  <2>2. Reconcile(live, checkout.lock, "submitter") \in Locks
    BY ReconcileKeeps
  <2>3. checkout' \in [release : Nat, clean : BOOLEAN, lock : Locks]
    BY <2>1, <2>2
  <2> QED BY <1>2, <2>3 DEF FreezeOwn
<1>3. CASE Upgrade
  <2> PICK r \in DOMAIN releases :
          checkout' = [checkout EXCEPT !.release = r, !.lock = releases[r]]
    BY <1>3 DEF Upgrade
  <2> r \in Nat /\ releases[r] \in Locks
    OBVIOUS
  <2>1. checkout' \in [release : Nat, clean : BOOLEAN, lock : Locks]
    OBVIOUS
  <2>2. run' \in {Nothing} \union Runs
    BY <1>3 DEF Upgrade, Disturb, Runs
  <2> QED BY <1>3, <2>1, <2>2 DEF Upgrade
<1>4. CASE EditCode
  <2>1. checkout' \in [release : Nat, clean : BOOLEAN, lock : Locks]
    BY <1>4 DEF EditCode
  <2>2. run' \in {Nothing} \union Runs
    BY <1>4 DEF EditCode, Disturb, Runs
  <2> QED BY <1>4, <2>1, <2>2 DEF EditCode
<1>5. CASE Generate
  <2>1. PICK r \in DOMAIN checkout.lock : specs' = [rev |-> r, body |-> checkout.lock[r].body]
    BY <1>5 DEF Generate
  <2>2. r \in Revisions /\ checkout.lock[r].body \in Bodies
    BY DEF Locks
  <2>3. specs' \in Suites
    BY <2>1, <2>2 DEF Suites
  <2> QED BY <1>5, <2>3 DEF Generate
<1>6. ASSUME NEW force \in BOOLEAN, StartRun(force)
      PROVE  TypeOK'
  <2>1. run' \in Runs
    BY <1>6 DEF StartRun, Runs
  <2> QED BY <1>6, <2>1 DEF StartRun
<1>7. ASSUME NEW m \in Missions, NEW valid \in BOOLEAN, Play(m, valid)
      PROVE  TypeOK'
  <2>1. run \in Runs
    BY <1>7 DEF Play
  <2>2. Capture \in Codes /\ [release |-> run.release, clean |-> run.clean] \in Codes
    BY <2>1 DEF Capture, Codes, NoRelease, Runs, protected_content_modified
  <2>3. run.specs.rev \in Revisions /\ run.specs.body \in Bodies /\ run.calm \in BOOLEAN
    BY <2>1 DEF Runs, Suites
  <2>4. [mission |-> m, rev |-> run.specs.rev, body |-> run.specs.body, day |-> day,
         valid |-> valid, prov |-> Capture,
         played |-> [release |-> run.release, clean |-> run.clean], calm |-> run.calm]
        \in Sessions
    BY <2>2, <2>3 DEF Sessions
  <2>5. sessions' \in Seq(Sessions)
    BY <1>7, <2>4 DEF Play
  <2> QED BY <1>7, <2>5 DEF Play
<1>8. CASE EndRun \/ NextDay
  BY <1>8 DEF EndRun, NextDay
<1>9. ASSUME NEW db \in Databases, New(db) \/ Crash(db)
      PROVE  TypeOK'
  BY <1>9 DEF New, Crash
<1>10. ASSUME NEW dir, Submit(dir)
       PROVE  TypeOK'
  BY <1>10 DEF Submit
<1>11. CASE UNCHANGED vars
  BY <1>11 DEF vars
<1> QED BY <1>1, <1>2, <1>3, <1>4, <1>5, <1>6, <1>7, <1>8, <1>9, <1>10, <1>11 DEF Next, Missions

---------------------------------------------------------------------------
(* Releases and sessions are only added *)

Grows ==
    /\ \A i \in DOMAIN releases : i \in DOMAIN releases' /\ releases'[i] = releases[i]
    /\ \A s \in DOMAIN sessions : s \in DOMAIN sessions' /\ sessions'[s] = sessions[s]

LEMMA EveryStepGrows ==
  ASSUME TypeOK, [Next]_vars
  PROVE  Grows
<1> USE DEF TypeOK, Grows, recorded, bundled
<1>1. CASE Publish
  <2>1. PICK live \in Suites :
            releases' = Append(releases, Reconcile(live, LastRelease, "project"))
    BY <1>1 DEF Publish
  <2>2. Reconcile(live, LastRelease, "project") \in Locks
    BY ReconcileKeeps DEF LastRelease
  <2>3. \A i \in DOMAIN releases : i \in DOMAIN releases' /\ releases'[i] = releases[i]
    BY <2>1, <2>2
  <2> QED BY <1>1, <2>3 DEF Publish
<1>2. ASSUME NEW m \in Missions, NEW valid \in BOOLEAN, Play(m, valid)
      PROVE  Grows
  <2>1. PICK row : sessions' = Append(sessions, row)
    BY <1>2 DEF Play
  <2>2. \A s \in DOMAIN sessions : s \in DOMAIN sessions' /\ sessions'[s] = sessions[s]
    BY <2>1
  <2> QED BY <1>2, <2>2 DEF Play
<1>3. CASE UNCHANGED <<releases, sessions>>
  BY <1>3
<1> QED BY <1>1, <1>2, <1>3
        DEF Next, Missions, FreezeOwn, Upgrade, EditCode, Generate, EndRun, NextDay, StartRun,
            New, Crash, Submit, vars

\* What has validated holds of the same files for good.
LEMMA MergedStays ==
  ASSUME Grows, NEW dir, NEW files, files = merged'[dir],
         PayloadOf(dir, files.payload), Validates(dir, files)
  PROVE  PayloadOf(dir, merged[dir].payload)' /\ Validates(dir, merged[dir])'
<1> DEFINE rows == files.payload.of
           snapshot == files.snapshot.of
           manifest == files.manifest.of
<1>1. Loads(files)
  BY DEF Validates
<1>2. files.payload.is = "whole"
  BY <1>1 DEF Loads, NoFiles
<1>3. rows \subseteq DOMAIN sessions /\ StartDate(rows) = dir[1]
  BY <1>2 DEF PayloadOf
<1>4. rows \subseteq DOMAIN sessions' /\ \A s \in rows : sessions'[s] = sessions[s]
  BY <1>3 DEF Grows
<1>5. {sessions'[s].day : s \in rows} = {sessions[s].day : s \in rows}
  BY <1>4
<1>6. PayloadOf(dir, merged[dir].payload)'
  BY <1>3, <1>4, <1>5 DEF PayloadOf, StartDate
<1>7. /\ rows # {} /\ CheckManifest(dir, manifest) /\ CheckSuite(manifest, snapshot)
      /\ CheckCoverage(rows, manifest) /\ CheckProvenance(rows, manifest)
      /\ CheckLock(snapshot, releases[manifest.prov.release])
  BY DEF Validates
<1>8. /\ manifest.prov.release \in DOMAIN releases'
      /\ releases'[manifest.prov.release] = releases[manifest.prov.release]
  BY <1>7 DEF CheckProvenance, Grows
<1> DEFINE now == merged[dir]
<1>9. CheckManifest(dir, now.manifest.of)' /\ CheckSuite(now.manifest.of, now.snapshot.of)'
  BY <1>7 DEF CheckManifest, CheckSuite
<1>10. CheckCoverage(now.payload.of, now.manifest.of)'
  <2>1. \A s \in rows : sessions'[s].rev = manifest.rev /\ sessions'[s].body = manifest.body
                         /\ sessions'[s].valid
    BY <1>4, <1>7 DEF CheckCoverage
  <2>2. \A m \in MissionsOf[manifest.body] : \E s \in rows : sessions'[s].mission = m
    BY <1>4, <1>7 DEF CheckCoverage
  <2>3. \A s, t \in rows : sessions'[s].mission = sessions'[t].mission => s = t
    BY <1>4, <1>7 DEF CheckCoverage
  <2> QED BY <2>1, <2>2, <2>3 DEF CheckCoverage
<1>11. CheckProvenance(now.payload.of, now.manifest.of)'
  BY <1>4, <1>7, <1>8 DEF CheckProvenance
<1>12. CheckLock(now.snapshot.of, releases[now.manifest.of.prov.release])'
  BY <1>7, <1>8 DEF CheckLock
<1>13. (now.payload.of # {})' /\ Loads(now)'
  BY <1>1, <1>7 DEF Loads
<1> QED BY <1>6, <1>9, <1>10, <1>11, <1>12, <1>13 DEF Validates

---------------------------------------------------------------------------
(* The invariant *)

THEOREM Initially == Init => SubmissionInv
<1> SUFFICES ASSUME Init
             PROVE  SubmissionInv
  OBVIOUS
<1> PICK R \in SUBSET Revisions : \E lock \in [R -> [body : Bodies, by : {"project"}]] :
       /\ releases = <<lock>>
       /\ checkout = [release |-> 1, clean |-> TRUE, lock |-> lock]
  BY DEF Init
<1> PICK lock \in [R -> [body : Bodies, by : {"project"}]] :
       /\ releases = <<lock>>
       /\ checkout = [release |-> 1, clean |-> TRUE, lock |-> lock]
  OBVIOUS
<1>1. lock \in [R -> [body : Bodies, by : {"project", "submitter"}]]
  OBVIOUS
<1>2. lock \in Locks
  BY <1>1 DEF Locks
<1>3. TypeOK
  BY <1>2 DEF TypeOK, Init
<1>4. LocksGrow
  BY DEF LocksGrow
<1>5. RunIsCheckout /\ SessionsOwn
  BY DEF Init, RunIsCheckout, SessionsOwn, Nothing
<1>6. PayloadsDated /\ MergedPasses
  BY DEF Init, PayloadsDated, MergedPasses
<1> QED BY <1>3, <1>4, <1>5, <1>6 DEF SubmissionInv

LEMMA LocksGrowKept ==
  ASSUME TypeOK, LocksGrow, [Next]_vars
  PROVE  LocksGrow'
<1>1. CASE Publish
  <2>1. PICK live \in Suites :
            releases' = Append(releases, Reconcile(live, LastRelease, "project"))
    BY <1>1 DEF Publish
  <2> DEFINE new == Reconcile(live, LastRelease, "project")
             n == Len(releases)
  <2>2. n \in Nat /\ n > 0 /\ releases[n] \in Locks
    BY DEF TypeOK
  <2>3. \A r \in DOMAIN releases[n] : r \in DOMAIN new /\ new[r] = releases[n][r]
    BY <2>2, ReconcileKeeps DEF LastRelease
  <2>4. /\ DOMAIN releases' = 1..(n + 1)
        /\ releases'[n + 1] = new
        /\ \A i \in 1..n : releases'[i] = releases[i]
    BY <2>1 DEF TypeOK
  <2> SUFFICES ASSUME NEW i \in 1..(n + 1), NEW j \in 1..(n + 1), i <= j,
                      NEW r \in DOMAIN releases'[i]
               PROVE  r \in DOMAIN releases'[j] /\ releases'[j][r] = releases'[i][r]
    BY <2>4 DEF LocksGrow
  <2>5. CASE j \in 1..n
    BY <2>2, <2>4, <2>5 DEF LocksGrow, TypeOK
  <2>6. CASE i = n + 1
    <3>1. j = n + 1
      BY <2>2, <2>6
    <3> QED BY <2>6, <3>1
  <2>7. CASE j = n + 1 /\ i \in 1..n
    <3>1. r \in DOMAIN releases[n] /\ releases[n][r] = releases[i][r]
      BY <2>2, <2>4, <2>7 DEF LocksGrow, TypeOK
    <3> QED BY <2>3, <2>4, <2>7, <3>1
  <2> QED BY <2>2, <2>5, <2>6, <2>7
<1>2. CASE UNCHANGED releases
  BY <1>2 DEF LocksGrow
<1> QED BY <1>1, <1>2
        DEF Next, FreezeOwn, Upgrade, EditCode, Generate, EndRun, NextDay, StartRun, Play,
            New, Crash, Submit, vars

LEMMA RunIsCheckoutKept ==
  ASSUME TypeOK, RunIsCheckout, [Next]_vars
  PROVE  RunIsCheckout'
<1> USE DEF RunIsCheckout, TypeOK, recorded, bundled
<1>1. CASE FreezeOwn
  BY <1>1 DEF FreezeOwn
<1>2. CASE Upgrade \/ EditCode
  <2>1. run' # Nothing => run' = [run EXCEPT !.calm = FALSE] /\ run \in Runs
    BY <1>2 DEF Upgrade, EditCode, Disturb
  <2>2. run' # Nothing => run'.calm = FALSE
    BY <2>1 DEF Runs
  <2> QED BY <2>2
<1>3. ASSUME NEW force \in BOOLEAN, StartRun(force)
      PROVE  RunIsCheckout'
  BY <1>3 DEF StartRun
<1>4. CASE EndRun
  BY <1>4 DEF EndRun
<1>5. CASE UNCHANGED <<run, checkout>>
  BY <1>5
<1> QED BY <1>1, <1>2, <1>3, <1>4, <1>5
        DEF Next, Publish, Generate, NextDay, Play, New, Crash, Submit, vars

\* An unforced session of a run that was not disturbed records what was loaded.
LEMMA SessionsOwnKept ==
  ASSUME TypeOK, RunIsCheckout, SessionsOwn, [Next]_vars
  PROVE  SessionsOwn'
<1>1. ASSUME NEW m \in Missions, NEW valid \in BOOLEAN, Play(m, valid)
      PROVE  SessionsOwn'
  <2> DEFINE row == [mission |-> m, rev |-> run.specs.rev, body |-> run.specs.body,
                     day |-> day, valid |-> valid, prov |-> Capture,
                     played |-> [release |-> run.release, clean |-> run.clean],
                     calm |-> run.calm]
  <2>1. sessions' = Append(sessions, row) /\ m \in MissionsOf[run.specs.body] /\ run # Nothing
    BY <1>1 DEF Play
  <2>2. run.calm /\ Capture # NoRelease =>
            Capture = [release |-> run.release, clean |-> run.clean]
    BY <2>1 DEF Capture, RunIsCheckout, TypeOK, protected_content_modified
  <2> DEFINE Own(r) == /\ r.mission \in MissionsOf[r.body]
                       /\ r.calm /\ r.prov # NoRelease => r.played = r.prov
  <2>3. Own(row)
    BY <2>1, <2>2
  <2>4. \A s \in DOMAIN sessions : Own(sessions[s])
    BY DEF SessionsOwn
  <2> HIDE DEF row, Own
  <2>5. \A s \in DOMAIN sessions' : s \in DOMAIN sessions \/ sessions'[s] = row
    BY <2>1 DEF TypeOK
  <2>6. \A s \in DOMAIN sessions : sessions'[s] = sessions[s]
    BY <2>1 DEF TypeOK
  <2>7. \A s \in DOMAIN sessions' : Own(sessions'[s])
    BY <2>3, <2>4, <2>5, <2>6
  <2> QED BY <2>7 DEF SessionsOwn, Own
<1>2. CASE UNCHANGED sessions
  BY <1>2 DEF SessionsOwn
<1> QED BY <1>1, <1>2
        DEF Next, Missions, Publish, FreezeOwn, Upgrade, EditCode, Generate, EndRun, NextDay,
            StartRun, New, Crash, Submit, vars, recorded, bundled

\* Any part of a save leaves the payload of the directory as it was, cut off, or with
\* the records whose earliest day names the directory.
LEMMA WriteKeeps ==
  ASSUME PayloadsDated, NEW db \in Databases, NEW names, NEW torn,
         Write(BundleOf(db), names, torn), UNCHANGED sessions
  PROVE  PayloadsDated'
<1> DEFINE b == BundleOf(db)
           at == DirectoryOf(b)
           files == FilesOf(at, bundles)
<1>1. b.payload = db /\ b.manifest.date = StartDate(db) /\ at[1] = StartDate(db)
  BY DEF BundleOf, DirectoryOf
<1>2. /\ DOMAIN bundles' = DOMAIN bundles \union {at}
      /\ \A dir \in DOMAIN bundles : dir # at => bundles'[dir] = bundles[dir]
      /\ bundles'[at].payload = IF "payload" \in names THEN Whole(db)
                                ELSE IF "payload" \in torn THEN Torn ELSE files.payload
  BY <1>1 DEF Write, With, NoFiles
<1>3. PayloadOf(at, files.payload)
  BY DEF FilesOf, PayloadsDated, NoFiles, Nothing, PayloadOf
<1>4. PayloadOf(at, Whole(db)) /\ PayloadOf(at, Torn)
  BY <1>1 DEF PayloadOf, Whole, Torn, Databases
<1> HIDE DEF b, at, files
<1>5. PayloadOf(at, bundles'[at].payload)
  BY <1>2, <1>3, <1>4
<1>6. \A dir \in DOMAIN bundles' : PayloadOf(dir, bundles'[dir].payload)
  BY <1>2, <1>5 DEF PayloadsDated
<1> QED BY <1>6 DEF PayloadsDated, PayloadOf, StartDate

LEMMA PayloadsDatedKept ==
  ASSUME TypeOK, PayloadsDated, [Next]_vars
  PROVE  PayloadsDated'
<1>1. ASSUME NEW db \in Databases, New(db) \/ Crash(db)
      PROVE  PayloadsDated'
  <2>1. UNCHANGED sessions
    BY <1>1 DEF New, Crash, recorded
  <2>2. PICK names, torn : Write(BundleOf(db), names, torn)
    BY <1>1 DEF New, Crash
  <2> QED BY <2>1, <2>2, WriteKeeps
<1>2. CASE UNCHANGED bundles
  <2> SUFFICES ASSUME NEW dir \in DOMAIN bundles
               PROVE  PayloadOf(dir, bundles[dir].payload)'
    BY <1>2 DEF PayloadsDated
  <2> DEFINE file == bundles[dir].payload
  <2>1. Grows /\ PayloadOf(dir, file)
    BY EveryStepGrows DEF PayloadsDated
  <2>2. bundles'[dir].payload = file
    BY <1>2
  <2> HIDE DEF file
  <2>3. file.is = "whole" => file.of \subseteq DOMAIN sessions
    BY <2>1 DEF PayloadOf
  <2>4. file.is = "whole" =>
            {sessions'[s].day : s \in file.of} = {sessions[s].day : s \in file.of}
    BY <2>1, <2>3 DEF Grows
  <2> QED BY <2>1, <2>2, <2>3, <2>4 DEF Grows, PayloadOf, StartDate
<1> QED BY <1>1, <1>2
        DEF Next, Publish, FreezeOwn, Upgrade, EditCode, Generate, EndRun, NextDay, StartRun,
            Play, Submit, vars, bundled

LEMMA MergedPassesKept ==
  ASSUME TypeOK, PayloadsDated, MergedPasses, [Next]_vars
  PROVE  MergedPasses'
<1>1. ASSUME NEW at \in DOMAIN bundles, Submit(at)
      PROVE  \A dir \in DOMAIN merged' : /\ PayloadOf(dir, merged'[dir].payload)
                                         /\ Validates(dir, merged'[dir])
  <2> DEFINE new == Branch(at)
  <2>1. Validates(at, new)
    BY <1>1 DEF Submit
  <2>2. new.payload = IF bundles[at].payload.is = "nothing" THEN FilesOf(at, merged).payload
                      ELSE bundles[at].payload
    BY DEF Branch, NoFiles
  <2>3. PayloadOf(at, new.payload)
    BY <2>2 DEF PayloadsDated, MergedPasses, FilesOf, NoFiles, Nothing, PayloadOf
  <2>4. /\ DOMAIN merged' = DOMAIN merged \union {at}
        /\ merged'[at] = new
        /\ \A dir \in DOMAIN merged : dir # at => merged'[dir] = merged[dir]
    BY <1>1 DEF Submit, With
  <2> HIDE DEF new
  <2> QED BY <2>1, <2>3, <2>4 DEF MergedPasses
<1>2. \A dir \in DOMAIN merged' : /\ PayloadOf(dir, merged'[dir].payload)
                                  /\ Validates(dir, merged'[dir])
  <2>1. CASE UNCHANGED merged
    BY <2>1 DEF MergedPasses
  <2> QED BY <1>1, <2>1
          DEF Next, Publish, FreezeOwn, Upgrade, EditCode, Generate, EndRun, NextDay, StartRun,
              Play, New, Crash, vars, bundled
<1>3. ASSUME NEW dir \in DOMAIN merged'
      PROVE  PayloadOf(dir, merged[dir].payload)' /\ Validates(dir, merged[dir])'
  <2>1. PICK files : files = merged'[dir]
    OBVIOUS
  <2>2. Grows
    BY EveryStepGrows
  <2>3. PayloadOf(dir, files.payload) /\ Validates(dir, files)
    BY <1>2, <2>1
  <2> QED BY <2>1, <2>2, <2>3, MergedStays
<1> QED BY <1>3 DEF MergedPasses

THEOREM SubmissionInvariance == Spec => []SubmissionInv
<1>1. SubmissionInv /\ [Next]_vars => SubmissionInv'
  BY TypesKept, LocksGrowKept, RunIsCheckoutKept, SessionsOwnKept, PayloadsDatedKept,
     MergedPassesKept DEF SubmissionInv
<1> QED BY Initially, <1>1, PTL DEF Spec

---------------------------------------------------------------------------
(* What the board lists *)

\* Two merged bundles of a revision are of one body: the releases they declare agree.
LEMMA OneBody ==
  ASSUME SubmissionInv, NEW dir \in DOMAIN merged, NEW r \in DOMAIN releases,
         merged[dir].manifest.of.rev \in DOMAIN releases[r]
  PROVE  releases[r][merged[dir].manifest.of.rev].body = merged[dir].manifest.of.body
<1> DEFINE manifest == merged[dir].manifest.of
           snapshot == merged[dir].snapshot.of
           of == manifest.prov.release
<1>1. Validates(dir, merged[dir])
  BY DEF SubmissionInv, MergedPasses
<1>2. /\ of \in DOMAIN releases
      /\ manifest.rev \in DOMAIN releases[of]
      /\ releases[of][manifest.rev].body = manifest.body
  BY <1>1 DEF Validates, CheckSuite, CheckProvenance, CheckLock
<1> HIDE DEF manifest, of
<1>3. r <= of \/ of <= r
  BY <1>2 DEF SubmissionInv, TypeOK
<1>4. releases[r][manifest.rev] = releases[of][manifest.rev]
  BY <1>2, <1>3 DEF SubmissionInv, LocksGrow, manifest
<1> QED BY <1>2, <1>4 DEF manifest

\* What is listed was played on the content that every release with its revision has.
THEOREM FrozenListing == Spec => []ListedIsFrozen
<1>1. SubmissionInv => ListedIsFrozen
  BY OneBody DEF ListedIsFrozen, Listed
<1> QED BY SubmissionInvariance, <1>1, PTL

\* A submitter has one entry per revision as long as no record is taken out.
THEOREM OneEntry == Spec => []OneEntryPerTarget
<1>1. ASSUME SubmissionInv, NEW d1 \in Listed, NEW d2 \in Listed,
             merged[d1].manifest.of.rev = merged[d2].manifest.of.rev,
             merged[d1].payload.of \subseteq merged[d2].payload.of
      PROVE  d1 = d2
  <2> DEFINE rows(d) == merged[d].payload.of
             manifest(d) == merged[d].manifest.of
  <2> d1 \in DOMAIN merged /\ d2 \in DOMAIN merged
    BY DEF Listed
  <2>1. \A d \in {d1, d2} : /\ PayloadOf(d, merged[d].payload) /\ merged[d].payload.is = "whole"
                            /\ CheckManifest(d, manifest(d))
                            /\ CheckCoverage(rows(d), manifest(d))
    BY <1>1 DEF SubmissionInv, MergedPasses, Validates, Loads, NoFiles
  <2>2. \A d \in {d1, d2} : StartDate(rows(d)) = d[1] /\ d = <<d[1], manifest(d).rev>>
    BY <2>1 DEF PayloadOf, CheckManifest
  <2>3. manifest(d1).body = manifest(d2).body
    <3>1. PICK r \in DOMAIN releases : manifest(d1).rev \in DOMAIN releases[r]
      BY <1>1 DEF SubmissionInv, MergedPasses, Validates, CheckProvenance, CheckSuite,
                  CheckLock
    <3> QED BY <1>1, <3>1, OneBody
  <2>4. ASSUME NEW s \in rows(d2)
        PROVE  s \in rows(d1)
    <3>1. s \in DOMAIN sessions /\ sessions[s].body = manifest(d2).body
      BY <2>1 DEF PayloadOf, CheckCoverage
    <3>2. sessions[s].mission \in MissionsOf[manifest(d1).body]
      BY <1>1, <2>3, <3>1 DEF SubmissionInv, SessionsOwn
    <3>3. PICK t \in rows(d1) : sessions[t].mission = sessions[s].mission
      BY <2>1, <3>2 DEF CheckCoverage
    <3>4. t \in rows(d2)
      BY <1>1
    <3>5. s = t
      BY <2>1, <3>3, <3>4 DEF CheckCoverage
    <3> QED BY <3>5
  <2>5. rows(d1) = rows(d2)
    BY <1>1, <2>4
  <2> HIDE DEF rows, manifest
  <2>6. d1[1] = d2[1]
    BY <2>2, <2>5
  <2> QED BY <1>1, <2>2, <2>6 DEF manifest
<1>2. SubmissionInv => OneEntryPerTarget
  BY <1>1 DEF OneEntryPerTarget
<1> QED BY SubmissionInvariance, <1>2, PTL

\* The rows of what is listed were played on unmodified code of the release it
\* declares, unless the checkout was switched under the run, and the earliest is of
\* the day the directory names.
THEOREM TrueListing == Spec => []ListedIsTrue
<1>1. ASSUME SubmissionInv, NEW dir \in Listed
      PROVE  /\ StartDate(merged[dir].payload.of) = dir[1]
             /\ \A s \in merged[dir].payload.of :
                   sessions[s].calm => sessions[s].played = merged[dir].manifest.of.prov
  <2> DEFINE rows == merged[dir].payload.of
             prov == merged[dir].manifest.of.prov
  <2> dir \in DOMAIN merged
    BY DEF Listed
  <2>1. /\ PayloadOf(dir, merged[dir].payload) /\ merged[dir].payload.is = "whole"
        /\ CheckProvenance(rows, merged[dir].manifest.of)
    BY <1>1 DEF SubmissionInv, MergedPasses, Validates, Loads, NoFiles
  <2>2. rows \subseteq DOMAIN sessions /\ StartDate(rows) = dir[1]
    BY <2>1 DEF PayloadOf
  <2>3. prov.clean /\ \A s \in rows : sessions[s].prov = prov
    BY <2>1 DEF CheckProvenance
  <2>4. prov # NoRelease
    BY <2>3 DEF NoRelease
  <2> QED BY <1>1, <2>2, <2>3, <2>4 DEF SubmissionInv, SessionsOwn
<1>2. SubmissionInv => ListedIsTrue
  BY <1>1 DEF ListedIsTrue
<1> QED BY SubmissionInvariance, <1>2, PTL
=============================================================================
