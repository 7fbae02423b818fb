--------------------------- MODULE ResultsProofs ---------------------------
(***************************************************************************)
(* For any attempts, runs and sessions: the results database stays whole,  *)
(* cleanups keep the results of valid sessions, and the two ledgers agree. *)
(***************************************************************************)
EXTENDS Results, FiniteSetTheorems, TLAPS

-----------------------------------------------------------------------------
(* The ledgers: what the files and W&B runs of a session say.              *)

\* What session s has been told of its crash, by its records, files and W&B runs; a run
\* that was shut down half-way says nothing.
SaysCrash(s, crash) ==
  \/ \E r \in Roles : record[r].session = s /\ record[r].crash = crash
  \/ \E f \in files : f.session = s /\ f.crash = crash
  \/ \E w \in runs : /\ w.session = s
                     /\ \/ crash /\ w.state = "failed"
                        \/ ~crash /\ w.state = "finished" /\ w.bomb # "incomplete"

IsRoleOf(s, r) == s \in Sessions /\ r \in RolesOf(AttemptOf(s))

PlayedInv ==
  /\ played \in Seq([attempt : Attempts, run : Nat])
  /\ run \in Nat
  /\ session \in {0} \cup Sessions
PlayersInv ==
  /\ player = [r \in Roles |-> player[r]]
  /\ record \in [Roles -> [session : {0} \cup Sessions, bomb : Bombs, crash : BOOLEAN, acted : BOOLEAN]]
  /\ \A r \in Roles :
       /\ record[r].bomb # "none" => r = "defuser"
       /\ player[r] = "playing" => session # 0 /\ IsRoleOf(session, r)
       /\ player[r] \in {"stopping", "writing", "finishing"} => IsRoleOf(record[r].session, r)
\* A player of a session has at most one file and one W&B run of it.
FilesOfPlayers ==
  /\ files \subseteq [session : Sessions, role : Roles, bomb : Bombs, crash : BOOLEAN]
  /\ \A f \in files :
       /\ IsRoleOf(f.session, f.role)
       /\ f.bomb # "none" => f.role = "defuser"
       /\ \A g \in files : f.session = g.session /\ f.role = g.role => f = g
RunsOfPlayers ==
  /\ runs \subseteq [session : Sessions, role : Roles, bomb : Bombs, crash : BOOLEAN, old : BOOLEAN,
                     state : {"running", "finished", "failed", "crashed"}]
  /\ \A w \in runs :
       /\ IsRoleOf(w.session, w.role)
       /\ w.state \in {"running", "finished"} => ~w.crash
       /\ \A v \in runs : w.session = v.session /\ w.role = v.role => w = v
\* All that is told of a session is one story, and of the one being played nothing.
OneCrash ==
  /\ \A s \in Sessions : ~(SaysCrash(s, TRUE) /\ SaysCrash(s, FALSE))
  /\ session # 0 => ~SaysCrash(session, TRUE) /\ ~SaysCrash(session, FALSE)
SourcesInv == PlayedInv /\ PlayersInv /\ FilesOfPlayers /\ RunsOfPlayers /\ OneCrash

\* The sessions played stay, in every step; new ones come at the end.
LEMMA SessionsStay ==
  ASSUME PlayedInv, NEW a \in Attempts, played' = Append(played, [attempt |-> a, run |-> run])
  PROVE  \E new : /\ new = Len(played) + 1
                  /\ Sessions' = Sessions \cup {new} /\ new \notin Sessions /\ new # 0
                  /\ played' \in Seq([attempt : Attempts, run : Nat])
                  /\ AttemptOf(new)' = a
                  /\ \A s \in Sessions : AttemptOf(s)' = AttemptOf(s) /\ played'[s] = played[s]
<1> DEFINE Entry == [attempt : Attempts, run : Nat]
           entry == [attempt |-> a, run |-> run]
<1>1. played \in Seq(Entry) /\ entry \in Entry
  BY DEF PlayedInv
<1>2. PICK new : new = Len(played) + 1
  OBVIOUS
<1>3. entry.attempt = a
  OBVIOUS
<1> HIDE DEF Entry, entry
<1>4. /\ Len(played') = new /\ Len(played) \in Nat
      /\ played' \in Seq(Entry)
      /\ played'[new] = entry
      /\ \A i \in 1..Len(played) : played'[i] = played[i]
  BY <1>1, <1>2 DEF entry
<1> QED BY <1>2, <1>3, <1>4 DEF Sessions, AttemptOf, Entry

\* Sessions are numbered from 1, and each is one of an attempt.
LEMMA SessionsAreNumbers ==
  ASSUME PlayedInv
  PROVE  /\ 0 \notin Sessions
         /\ \A s \in Sessions : AttemptOf(s) \in Attempts
<1> DEFINE Entry == [attempt : Attempts, run : Nat]
<1>1. played \in Seq(Entry) /\ \A e \in Entry : e.attempt \in Attempts
  BY DEF PlayedInv
<1> HIDE DEF Entry
<1>2. Len(played) \in Nat /\ \A s \in 1..Len(played) : played[s] \in Entry
  BY <1>1
<1> QED BY <1>1, <1>2 DEF Sessions, AttemptOf

\* The roles of an attempt are roles.
LEMMA RolesAreRoles ==
  \A a : RolesOf(a) \subseteq Roles /\ "defuser" \in RolesOf(a)
BY DEF RolesOf, Roles

\* It holds before the first run.
LEMMA SourcesInit == Init => SourcesInv
<1> SUFFICES ASSUME Init PROVE SourcesInv
  OBVIOUS
<1> USE DEF Init
<1>1. PlayedInv
  BY DEF PlayedInv, Sessions
<1>2. PlayersInv
  BY DEF PlayersInv, NoRecord, Bombs
<1>3. FilesOfPlayers /\ RunsOfPlayers
  BY DEF FilesOfPlayers, RunsOfPlayers
<1>4. Sessions = {}
  BY DEF Sessions
<1> QED BY <1>1, <1>2, <1>3, <1>4 DEF SourcesInv, OneCrash

\* Marking runs old changes nothing else of them, and no run's state.
LEMMA MarksOnly ==
  ASSUME RunsOfPlayers, NEW bad, runs' = MarkOld(runs, bad),
         files' \subseteq files, UNCHANGED <<played, record>>
  PROVE  /\ RunsOfPlayers'
         /\ \A s, crash : SaysCrash(s, crash)' => SaysCrash(s, crash)
<1>1. \A w \in runs' : \E v \in runs : /\ w = [v EXCEPT !.old = @ \/ v \in bad]
  BY DEF MarkOld
<1>2. \A w \in runs' : \E v \in runs :
        /\ w = [v EXCEPT !.old = @ \/ v \in bad]
        /\ w.session = v.session /\ w.role = v.role /\ w.state = v.state
        /\ w.bomb = v.bomb /\ w.crash = v.crash /\ w.old \in BOOLEAN
        /\ w \in [session : Sessions, role : Roles, bomb : Bombs, crash : BOOLEAN, old : BOOLEAN,
                     state : {"running", "finished", "failed", "crashed"}]
  <2> DEFINE Marked == [session : Sessions, role : Roles, bomb : Bombs, crash : BOOLEAN, old : BOOLEAN,
                     state : {"running", "finished", "failed", "crashed"}]
  <2>1. runs \subseteq Marked
    BY DEF RunsOfPlayers
  <2>2. ASSUME NEW v \in Marked, NEW mark \in BOOLEAN
        PROVE  LET w == [v EXCEPT !.old = mark]
               IN /\ w \in Marked /\ w.session = v.session /\ w.role = v.role
                  /\ w.state = v.state /\ w.bomb = v.bomb /\ w.crash = v.crash
                  /\ w.old \in BOOLEAN
    OBVIOUS
  <2>3. \A v \in Marked : (v.old \/ v \in bad) \in BOOLEAN
    OBVIOUS
  <2> HIDE DEF Marked
  <2>4. \A w \in runs' : \E v \in runs : w = [v EXCEPT !.old = v.old \/ v \in bad]
    BY <1>1
  <2>5. ASSUME NEW w \in runs'
        PROVE  \E v \in runs :
                 /\ w = [v EXCEPT !.old = v.old \/ v \in bad]
                 /\ w.session = v.session /\ w.role = v.role /\ w.state = v.state
                 /\ w.bomb = v.bomb /\ w.crash = v.crash /\ w.old \in BOOLEAN
                 /\ w \in Marked
    <3>1. PICK v \in runs : w = [v EXCEPT !.old = v.old \/ v \in bad]
      BY <2>4
    <3>2. v \in Marked /\ (v.old \/ v \in bad) \in BOOLEAN
      BY <2>1, <2>3
    <3> DEFINE mark == v.old \/ v \in bad
    <3>3. mark \in BOOLEAN /\ w = [v EXCEPT !.old = mark]
      BY <3>1, <3>2
    <3> HIDE DEF mark
    <3>4. /\ w.session = v.session /\ w.role = v.role /\ w.state = v.state
          /\ w.bomb = v.bomb /\ w.crash = v.crash /\ w.old \in BOOLEAN
          /\ w \in Marked
      BY <2>2, <3>2, <3>3
    <3> QED BY <3>1, <3>4
  <2> QED BY <2>5 DEF Marked
<1>3. Sessions' = Sessions /\ \A s, r : IsRoleOf(s, r)' = IsRoleOf(s, r)
  BY DEF Sessions, IsRoleOf, AttemptOf
<1>4. RunsOfPlayers'
  BY <1>2, <1>3 DEF RunsOfPlayers
<1>5. \A s, crash : SaysCrash(s, crash)' => SaysCrash(s, crash)
  BY <1>2 DEF SaysCrash
<1> QED BY <1>4, <1>5

\* A step that tells a session nothing new.
Quiet == \A s, crash : SaysCrash(s, crash)' => SaysCrash(s, crash)

\* ... keeps the one story of each.
LEMMA QuietSteps ==
  ASSUME OneCrash, Quiet, UNCHANGED played, session' \in {0, session}
  PROVE  OneCrash'
BY DEF OneCrash, Quiet, Sessions

\* Quiet are the steps that write nothing, or only take files away.
LEMMA StoryStays ==
  ASSUME UNCHANGED <<record, files, runs>>
  PROVE  Quiet
BY DEF Quiet, SaysCrash

\* Taking files away leaves at most one of each player.
LEMMA FewerFilesOfPlayers ==
  ASSUME FilesOfPlayers, files' \subseteq files, UNCHANGED played
  PROVE  FilesOfPlayers'
<1>1. Sessions' = Sessions /\ \A s, r : IsRoleOf(s, r)' = IsRoleOf(s, r)
  BY DEF Sessions, IsRoleOf, AttemptOf
<1> QED BY <1>1 DEF FilesOfPlayers

LEMMA FewerFilesQuiet ==
  ASSUME files' \subseteq files, UNCHANGED <<record, runs>>
  PROVE  Quiet
BY DEF Quiet, SaysCrash

\* What the facts about players and the session depend on.
LEMMA PlayedStays ==
  ASSUME UNCHANGED <<played, run, session>>, PlayedInv
  PROVE  PlayedInv'
BY DEF PlayedInv, Sessions
LEMMA PlayersStay ==
  ASSUME UNCHANGED <<played, session, player, record>>, PlayersInv
  PROVE  PlayersInv'
BY DEF PlayersInv, Sessions, IsRoleOf, AttemptOf
LEMMA FilesStay ==
  ASSUME UNCHANGED <<played, files>>, FilesOfPlayers
  PROVE  FilesOfPlayers'
BY DEF FilesOfPlayers, Sessions, IsRoleOf, AttemptOf
LEMMA RunsStay ==
  ASSUME UNCHANGED <<played, runs>>, RunsOfPlayers
  PROVE  RunsOfPlayers'
BY DEF RunsOfPlayers, Sessions, IsRoleOf, AttemptOf
LEMMA NamesStay ==
  ASSUME UNCHANGED played
  PROVE  Sessions' = Sessions /\ \A s, r : IsRoleOf(s, r)' = IsRoleOf(s, r)
BY DEF Sessions, IsRoleOf, AttemptOf

\* Asking a source what is left may mark runs old, no more.
LEMMA AskingKeeps ==
  ASSUME RunsOfPlayers, NEW source, NEW left, Remaining(source, left), UNCHANGED <<played, record, files>>
  PROVE  RunsOfPlayers' /\ Quiet
<1>1. CASE UNCHANGED runs
  BY <1>1, RunsStay, StoryStays
<1>2. CASE runs' = CleanupRuns(runs)
  BY <1>2, MarksOnly DEF CleanupRuns, Quiet
<1> QED BY <1>1, <1>2 DEF Remaining

\* Each step keeps SourcesInv.  A new run of the cluster:
LEMMA RunSources ==
  ASSUME SourcesInv, NEW source, Run(source)
  PROVE  SourcesInv'
<1> USE DEF SourcesInv
<1>1. RunsOfPlayers' /\ Quiet
  BY AskingKeeps DEF Run
<1>2. PlayedInv'
  BY DEF Run, PlayedInv, Sessions
<1>3. PlayersInv'
  BY NamesStay DEF Run, PlayersInv
<1>4. FilesOfPlayers' /\ OneCrash'
  BY <1>1, FilesStay, QuietSteps DEF Run
<1> QED BY <1>1, <1>2, <1>3, <1>4

LEMMA SubmitSources ==
  ASSUME SourcesInv, NEW source, Submit(source)
  PROVE  SourcesInv'
<1> USE DEF SourcesInv, clusterVars
<1>1. RunsOfPlayers' /\ Quiet
  BY AskingKeeps DEF Submit
<1> QED BY <1>1, PlayedStays, PlayersStay, FilesStay, QuietSteps DEF Submit

\* A session starts: it gets a number no record, file or run has.
LEMMA StartSources ==
  ASSUME SourcesInv, NEW a \in Attempts, StartSession(a)
  PROVE  SourcesInv'
<1> USE DEF SourcesInv
<1>1. PICK new :
      /\ new = Len(played) + 1
      /\ Sessions' = Sessions \cup {new}
      /\ new \notin Sessions /\ new # 0
      /\ played' \in Seq([attempt : Attempts, run : Nat])
      /\ AttemptOf(new)' = a
      /\ \A s \in Sessions : AttemptOf(s)' = AttemptOf(s)
  BY SessionsStay DEF StartSession
<1> DEFINE fresh == {[session |-> new, role |-> r, state |-> "running",
                      bomb |-> "none", crash |-> FALSE, old |-> FALSE] : r \in RolesOf(a)}
<1>2. \A s, r : IsRoleOf(s, r) => IsRoleOf(s, r)'
  BY <1>1 DEF IsRoleOf, RolesOf
<1>3. \A r \in RolesOf(a) : IsRoleOf(new, r)'
  BY <1>1 DEF IsRoleOf, RolesOf
<1>4. session' = new /\ runs' = runs \cup fresh /\ UNCHANGED <<record, files, run>> /\ session = 0
  BY <1>1 DEF StartSession
<1>5. PlayedInv'
  BY <1>1, <1>4 DEF PlayedInv
<1>6. PlayersInv'
  <2>1. player' = [r \in Roles |-> IF r \in RolesOf(a) THEN "playing" ELSE player[r]]
    BY DEF StartSession
  <2>2. \A r \in Roles : player'[r] = "playing" => r \in RolesOf(a)
    BY <2>1, <1>4 DEF PlayersInv
  <2>3. \A r \in Roles : player'[r] \in {"stopping", "writing", "finishing"} => player[r] = player'[r]
    BY <2>1
  <2>4. record' \in [Roles -> [session : {0} \cup Sessions', bomb : Bombs, crash : BOOLEAN, acted : BOOLEAN]]
    BY <1>1, <1>4 DEF PlayersInv
  <2>5. player' = [r \in Roles |-> player'[r]]
    BY <2>1
  <2>6. \A r \in Roles : record[r] = record'[r]
    BY <1>4
  <2>7. \A r \in Roles : player'[r] \in {"stopping", "writing", "finishing"} => IsRoleOf(record[r].session, r)
    BY <2>3 DEF PlayersInv
  <2>8. \A r \in Roles : player'[r] \in {"stopping", "writing", "finishing"} => IsRoleOf(record[r].session, r)'
    BY <2>7, <1>2, <1>4
  <2>9. \A r \in Roles : player'[r] = "playing" => session' # 0 /\ IsRoleOf(session, r)'
    BY <2>2, <1>1, <1>3, <1>4
  <2>10. \A r \in Roles : record'[r].bomb # "none" => r = "defuser"
    BY <1>4 DEF PlayersInv
  <2> QED BY <2>4, <2>5, <2>8, <2>9, <2>10 DEF PlayersInv
<1>7. FilesOfPlayers'
  BY <1>1, <1>2, <1>4 DEF FilesOfPlayers
<1>8. \A w \in fresh : /\ w.session = new /\ w.role \in RolesOf(a) /\ w.state = "running" /\ ~w.crash
                       /\ w \in [session : Sessions', role : Roles, bomb : Bombs, crash : BOOLEAN, old : BOOLEAN,
                                 state : {"running", "finished", "failed", "crashed"}]
                       /\ \A v \in fresh : w.role = v.role => w = v
  <2>1. \A w \in fresh : \E r \in RolesOf(a) :
          w = [session |-> new, role |-> r, state |-> "running",
               bomb |-> "none", crash |-> FALSE, old |-> FALSE]
    OBVIOUS
  <2> HIDE DEF fresh
  <2>3. new \in Sessions' /\ RolesOf(a) \subseteq Roles /\ "none" \in Bombs
    BY <1>1, RolesAreRoles DEF Bombs
  <2>2. ASSUME NEW w \in fresh
        PROVE  /\ w.session = new /\ w.role \in RolesOf(a) /\ w.state = "running" /\ ~w.crash
               /\ w = [session |-> new, role |-> w.role, state |-> "running",
                       bomb |-> "none", crash |-> FALSE, old |-> FALSE]
               /\ w \in [session : Sessions', role : Roles, bomb : Bombs, crash : BOOLEAN, old : BOOLEAN,
                         state : {"running", "finished", "failed", "crashed"}]
    <3>1. PICK r \in RolesOf(a) :
            w = [session |-> new, role |-> r, state |-> "running",
                 bomb |-> "none", crash |-> FALSE, old |-> FALSE]
      BY <2>1
    <3>2. r \in Roles
      BY <2>3
    <3>3. w \in [session : Sessions', role : Roles, bomb : Bombs, crash : BOOLEAN, old : BOOLEAN,
                 state : {"running", "finished", "failed", "crashed"}]
      BY <3>1, <3>2, <2>3
    <3> QED BY <3>1, <3>3
  <2>4. ASSUME NEW w \in fresh, NEW v \in fresh, w.role = v.role
        PROVE  w = v
    BY <2>2, <2>4
  <2> QED BY <2>2, <2>4
<1>9. \A w \in runs : w.session # new
  BY <1>1 DEF RunsOfPlayers
<1> HIDE DEF fresh
<1>10. RunsOfPlayers'
  <2>1. runs' \subseteq [session : Sessions', role : Roles, bomb : Bombs, crash : BOOLEAN, old : BOOLEAN,
                     state : {"running", "finished", "failed", "crashed"}]
    BY <1>1, <1>4, <1>8 DEF RunsOfPlayers
  <2>2. \A w \in runs' : /\ IsRoleOf(w.session, w.role)'
                         /\ w.state \in {"running", "finished"} => ~w.crash
    BY <1>2, <1>3, <1>4, <1>8 DEF RunsOfPlayers
  <2>3. \A v, w \in runs' : w.session = v.session /\ w.role = v.role => w = v
    BY <1>4, <1>8, <1>9 DEF RunsOfPlayers
  <2> QED BY <2>1, <2>2, <2>3 DEF RunsOfPlayers
<1>11. Quiet
  BY <1>4, <1>8 DEF Quiet, SaysCrash
<1>12. \A crash : ~SaysCrash(new, crash)
  BY <1>1, <1>9 DEF SaysCrash, PlayersInv, FilesOfPlayers
<1>13. OneCrash'
  BY <1>1, <1>4, <1>11, <1>12 DEF OneCrash, Quiet
<1> QED BY <1>5, <1>6, <1>7, <1>10, <1>13

\* It ends: its players are told, all of them the same.
LEMMA EndSources ==
  ASSUME SourcesInv, EndSession
  PROVE  SourcesInv'
<1> USE DEF SourcesInv
<1>1. PICK acted \in SUBSET Roles, bomb \in Bombs, crash \in BOOLEAN :
        record' = [r \in Roles |->
              IF r \in RolesOf(AttemptOf(session))
              THEN [session |-> session, bomb |-> IF r = "defuser" THEN bomb ELSE "none",
                    crash |-> crash, acted |-> r \in acted]
              ELSE record[r]]
  <2>1. PICK o \in Outcomes :
          record' = [r \in Roles |->
              IF r \in RolesOf(AttemptOf(session))
              THEN [session |-> session, bomb |-> IF r = "defuser" THEN o.bomb ELSE "none",
                    crash |-> o.crash, acted |-> r \in o.acted]
              ELSE record[r]]
    BY DEF EndSession
  <2>2. o.acted \in SUBSET Roles /\ o.bomb \in Bombs /\ o.crash \in BOOLEAN
    BY OutcomesAssumption
  <2> QED BY <2>1, <2>2
<1>2. /\ session # 0 /\ session' = 0 /\ UNCHANGED <<played, run, files, runs>>
      /\ player' = [r \in Roles |-> IF player[r] = "playing" THEN "stopping" ELSE player[r]]
  BY DEF EndSession
<1>3. Sessions' = Sessions /\ \A s, r : IsRoleOf(s, r)' = IsRoleOf(s, r)
  BY <1>2, NamesStay
<1>4. session \in Sessions
  BY <1>2 DEF PlayedInv
<1>5. \A r \in Roles :
        \/ /\ r \in RolesOf(AttemptOf(session)) /\ IsRoleOf(session, r)
           /\ record'[r].session = session /\ record'[r].crash = crash
           /\ record'[r].bomb # "none" => r = "defuser"
           /\ record'[r] \in [session : {0} \cup Sessions, bomb : Bombs, crash : BOOLEAN, acted : BOOLEAN]
        \/ /\ r \notin RolesOf(AttemptOf(session)) /\ ~IsRoleOf(session, r)
           /\ record'[r] = record[r]
  <2> SUFFICES ASSUME NEW r \in Roles, r \in RolesOf(AttemptOf(session))
               PROVE  /\ record'[r].session = session /\ record'[r].crash = crash
                      /\ record'[r].bomb # "none" => r = "defuser"
                      /\ record'[r] \in [session : {0} \cup Sessions, bomb : Bombs, crash : BOOLEAN, acted : BOOLEAN]
    BY <1>1, <1>4 DEF IsRoleOf
  <2>1. record'[r] = [session |-> session, bomb |-> IF r = "defuser" THEN bomb ELSE "none",
                      crash |-> crash, acted |-> r \in acted]
    BY <1>1
  <2>2. (IF r = "defuser" THEN bomb ELSE "none") \in Bombs /\ (r \in acted) \in BOOLEAN
    BY DEF Bombs
  <2> QED BY <2>1, <2>2, <1>4
<1>6. PlayedInv'
  BY <1>2, <1>3 DEF PlayedInv
<1>7. PlayersInv'
  <2>1. record' = [r \in Roles |-> record'[r]]
    BY <1>1
  <2>2. record' \in [Roles -> [session : {0} \cup Sessions, bomb : Bombs, crash : BOOLEAN, acted : BOOLEAN]]
    BY <2>1, <1>5 DEF PlayersInv
  <2>3. \A r \in Roles : record'[r].bomb # "none" => r = "defuser"
    BY <1>5 DEF PlayersInv
  <2>4. \A r \in Roles : player'[r] # "playing"
    BY <1>2
  <2>5. \A r \in Roles : player'[r] \in {"stopping", "writing", "finishing"} => IsRoleOf(record'[r].session, r)
    <3>1. \A r \in Roles : player'[r] \in {"stopping", "writing", "finishing"} =>
             player[r] = "playing" \/ player[r] \in {"stopping", "writing", "finishing"}
      BY <1>2
    <3> QED BY <3>1, <1>5 DEF PlayersInv
  <2>6. player' = [r \in Roles |-> player'[r]]
    BY <1>2
  <2> QED BY <1>3, <2>2, <2>3, <2>4, <2>5, <2>6 DEF PlayersInv
<1>8. FilesOfPlayers' /\ RunsOfPlayers'
  BY <1>2, FilesStay, RunsStay
<1>9. \A s, c : SaysCrash(s, c)' => SaysCrash(s, c) \/ (s = session /\ c = crash)
  BY <1>2, <1>5 DEF SaysCrash
<1>10. OneCrash'
  BY <1>2, <1>3, <1>9 DEF OneCrash
<1> QED BY <1>6, <1>7, <1>8, <1>10

\* A player saves its record: its file, then its W&B run, repeat what it was told.
LEMMA WritingSources ==
  ASSUME SourcesInv, NEW r \in Roles, StartWriting(r)
  PROVE  SourcesInv'
<1> USE DEF SourcesInv
<1>1. /\ UNCHANGED <<played, run, session, record, files, runs>>
      /\ player[r] = "stopping"
      /\ \E to \in {"writing", "finishing"} : player' = [player EXCEPT ![r] = to]
  BY DEF StartWriting
<1>2. PlayersInv'
  <2>1. /\ player' = [q \in Roles |-> player'[q]]
        /\ \A q \in Roles : player'[q] = player[q] \/ (q = r /\ player'[q] \in {"writing", "finishing"})
    BY <1>1 DEF PlayersInv
  <2>2. \A q \in Roles : /\ player'[q] = "playing" => player[q] = "playing"
                         /\ player'[q] \in {"stopping", "writing", "finishing"} =>
                              player[q] \in {"stopping", "writing", "finishing"}
    BY <1>1, <2>1
  <2> QED BY <2>1, <2>2, <1>1, NamesStay DEF PlayersInv
<1> QED BY <1>1, <1>2, PlayedStays, FilesStay, RunsStay, StoryStays, QuietSteps

LEMMA ReplaceSources ==
  ASSUME SourcesInv, NEW r \in Roles, Replace(r)
  PROVE  SourcesInv'
<1> USE DEF SourcesInv
<1> DEFINE path == Path(record[r].session, r)
           file == [session |-> record[r].session, role |-> r,
                    bomb |-> record[r].bomb, crash |-> record[r].crash]
<1>1. /\ UNCHANGED <<played, run, session, record, runs>>
      /\ player[r] = "writing"
      /\ files' = {f \in files : PathOf(f) # path} \cup {file}
      /\ player' = [player EXCEPT ![r] = "finishing"]
  BY DEF Replace
<1>2. Sessions' = Sessions /\ \A s, q : IsRoleOf(s, q)' = IsRoleOf(s, q)
  BY <1>1, NamesStay
<1>3. PlayersInv'
  <2>1. /\ player' = [q \in Roles |-> player'[q]]
        /\ \A q \in Roles : player'[q] = player[q] \/ (q = r /\ player'[q] = "finishing")
    BY <1>1 DEF PlayersInv
  <2>2. \A q \in Roles : /\ player'[q] = "playing" => player[q] = "playing"
                         /\ player'[q] \in {"stopping", "writing", "finishing"} =>
                              player[q] \in {"stopping", "writing", "finishing"}
    BY <1>1, <2>1
  <2> QED BY <2>1, <2>2, <1>1, <1>2 DEF PlayersInv
<1>4. record[r] \in [session : {0} \cup Sessions, bomb : Bombs, crash : BOOLEAN, acted : BOOLEAN]
  BY DEF PlayersInv
<1>5. /\ IsRoleOf(record[r].session, r) /\ record[r].session \in Sessions
      /\ record[r].bomb # "none" => r = "defuser"
  BY <1>1 DEF PlayersInv, IsRoleOf
<1>6. /\ file \in [session : Sessions, role : Roles, bomb : Bombs, crash : BOOLEAN]
      /\ file.session = record[r].session /\ file.role = r
      /\ file.bomb = record[r].bomb /\ file.crash = record[r].crash
  BY <1>4, <1>5
<1>7. \A f \in files : f.session = file.session /\ f.role = file.role => f \notin {g \in files : PathOf(g) # path}
  BY <1>6 DEF PathOf
<1> HIDE DEF file, path
<1>8. FilesOfPlayers'
  <2>1. files' \subseteq [session : Sessions, role : Roles, bomb : Bombs, crash : BOOLEAN]
    BY <1>1, <1>6 DEF FilesOfPlayers
  <2>2. \A f \in files' : IsRoleOf(f.session, f.role) /\ (f.bomb # "none" => f.role = "defuser")
    BY <1>1, <1>5, <1>6 DEF FilesOfPlayers
  <2>3. \A f, g \in files' : f.session = g.session /\ f.role = g.role => f = g
    BY <1>1, <1>7 DEF FilesOfPlayers
  <2> QED BY <1>2, <2>1, <2>2, <2>3 DEF FilesOfPlayers
<1>9. Quiet
  BY <1>1, <1>6 DEF Quiet, SaysCrash
<1> QED BY <1>1, <1>3, <1>8, <1>9, PlayedStays, RunsStay, QuietSteps

LEMMA FinishSources ==
  ASSUME SourcesInv, NEW r \in Roles, FinishRun(r)
  PROVE  SourcesInv'
<1> USE DEF SourcesInv
<1> DEFINE own == {w \in runs : w.session = record[r].session /\ w.role = r /\ w.state = "running"}
           Ended(w) == [w EXCEPT !.state = IF record[r].crash THEN "failed" ELSE "finished",
                                 !.bomb = record[r].bomb, !.crash = record[r].crash]
<1>1. /\ UNCHANGED <<played, run, session, files>>
      /\ player[r] = "finishing"
      /\ runs' = (runs \ own) \cup {Ended(w) : w \in own}
      /\ player' = [player EXCEPT ![r] = "idle"]
      /\ record' = [record EXCEPT ![r] = NoRecord]
  BY DEF FinishRun
<1>2. Sessions' = Sessions /\ \A s, q : IsRoleOf(s, q)' = IsRoleOf(s, q)
  BY <1>1, NamesStay
<1>3. \A q \in Roles : record'[q] = record[q] \/ (q = r /\ record'[q] = NoRecord)
  BY <1>1 DEF PlayersInv
<1>4. /\ NoRecord \in [session : {0} \cup Sessions, bomb : Bombs, crash : BOOLEAN, acted : BOOLEAN]
      /\ NoRecord.session = 0 /\ NoRecord.bomb = "none"
  BY DEF NoRecord, Bombs
<1>5. PlayersInv'
  <2>1. /\ player' = [q \in Roles |-> player'[q]]
        /\ \A q \in Roles : (player'[q] = player[q] /\ q # r) \/ (q = r /\ player'[q] = "idle")
    BY <1>1 DEF PlayersInv
  <2>2. record' \in [Roles -> [session : {0} \cup Sessions, bomb : Bombs, crash : BOOLEAN, acted : BOOLEAN]]
    BY <1>1, <1>4 DEF PlayersInv
  <2>3. \A q \in Roles : q # r => record'[q] = record[q]
    BY <1>1 DEF PlayersInv
  <2> QED BY <2>1, <2>2, <2>3, <1>1, <1>2, <1>3, <1>4 DEF PlayersInv
<1>6. record[r] \in [session : {0} \cup Sessions, bomb : Bombs, crash : BOOLEAN, acted : BOOLEAN]
  BY DEF PlayersInv
<1> DEFINE Shape == [session : Sessions, role : Roles, bomb : Bombs, crash : BOOLEAN, old : BOOLEAN,
                     state : {"running", "finished", "failed", "crashed"}]
<1>7. \A w \in own :
        /\ w \in runs
        /\ Ended(w) \in Shape
        /\ Ended(w).session = record[r].session /\ Ended(w).role = r
        /\ Ended(w).session = w.session /\ Ended(w).role = w.role
        /\ Ended(w).crash = record[r].crash
        /\ Ended(w).state = IF record[r].crash THEN "failed" ELSE "finished"
  <2>1. own \subseteq runs /\ runs \subseteq Shape
    BY DEF RunsOfPlayers
  <2>2. \A w \in own : w.session = record[r].session /\ w.role = r
    OBVIOUS
  <2>3. record[r].bomb \in Bombs /\ record[r].crash \in BOOLEAN
    BY <1>6
  <2>4. ASSUME NEW w \in Shape
        PROVE  /\ Ended(w) \in Shape
               /\ Ended(w).session = w.session /\ Ended(w).role = w.role
               /\ Ended(w).crash = record[r].crash
               /\ Ended(w).state = IF record[r].crash THEN "failed" ELSE "finished"
    BY <2>3
  <2> HIDE DEF Ended, own, Shape
  <2> QED BY <2>1, <2>2, <2>4
<1> HIDE DEF Ended, own, Shape
<1>8. \A w \in runs : w \notin own => w \in runs' 
  BY <1>1
<1>9. \A w \in runs' : \E v \in runs :
        /\ w.session = v.session /\ w.role = v.role
        /\ \/ v \notin own /\ w = v
           \/ v \in own /\ w = Ended(v)
  BY <1>1, <1>7
<1>10. RunsOfPlayers'
  <2>1. \A w \in runs' : w \in Shape
    BY <1>7, <1>9 DEF RunsOfPlayers, Shape
  <2>2. \A w \in runs' : IsRoleOf(w.session, w.role)
    BY <1>9 DEF RunsOfPlayers
  <2>3. \A w \in runs' : w.state \in {"running", "finished"} => ~w.crash
    BY <1>7, <1>9 DEF RunsOfPlayers
  <2>4. ASSUME NEW w \in runs', NEW v \in runs', w.session = v.session, w.role = v.role
        PROVE  w = v
    BY <1>9, <2>4 DEF RunsOfPlayers
  <2> QED BY <1>2, <2>1, <2>2, <2>3, <2>4 DEF RunsOfPlayers, Shape
<1>11. ASSUME NEW s \in Sessions, NEW c \in BOOLEAN, SaysCrash(s, c)'
       PROVE  SaysCrash(s, c)
  <2>1. ASSUME NEW q \in Roles, record'[q].session = s, record'[q].crash = c
        PROVE  SaysCrash(s, c)
    BY <1>3, <1>4, <2>1, SessionsAreNumbers DEF SaysCrash
  <2>2. ASSUME NEW f \in files, f.session = s, f.crash = c
        PROVE  SaysCrash(s, c)
    BY <2>2 DEF SaysCrash
  <2>3. ASSUME NEW w \in runs', w.session = s,
               \/ c /\ w.state = "failed"
               \/ ~c /\ w.state = "finished" /\ w.bomb # "incomplete"
        PROVE  SaysCrash(s, c)
    <3>1. CASE w \in runs
      BY <2>3, <3>1 DEF SaysCrash
    <3>2. CASE w \notin runs
      <4>1. w.session = record[r].session /\ w.crash = record[r].crash
            /\ w.state = IF record[r].crash THEN "failed" ELSE "finished"
        BY <1>7, <1>9, <3>2
      <4>2. record[r].crash = c
        BY <4>1, <2>3, <1>6
      <4> QED BY <4>1, <4>2, <2>3 DEF SaysCrash
    <3> QED BY <3>1, <3>2
  <2> QED BY <1>1, <1>11, <2>1, <2>2, <2>3 DEF SaysCrash
<1>12. OneCrash'
  BY <1>1, <1>2, <1>11 DEF OneCrash, PlayedInv
<1> QED BY <1>1, <1>5, <1>10, <1>12, PlayedStays, FilesStay

\* The cluster is torn down: W&B takes the runs it finds for crashed or for finished with
\* the bomb incomplete, which says nothing of a crash.
LEMMA EndRunSources ==
  ASSUME SourcesInv, EndRun
  PROVE  SourcesInv'
<1> USE DEF SourcesInv
<1>1. PICK state \in {"crashed", "finished"} :
        runs' = {IF w.state = "running" THEN [w EXCEPT !.state = state, !.bomb = "incomplete"]
                 ELSE w : w \in runs}
  BY DEF EndRun
<1>2. /\ UNCHANGED <<played, run, files>>
      /\ session' = 0
      /\ player' = [q \in Roles |-> "dead"]
      /\ record' = [q \in Roles |-> NoRecord]
  BY DEF EndRun
<1>3. Sessions' = Sessions /\ \A s, q : IsRoleOf(s, q)' = IsRoleOf(s, q)
  BY <1>2, NamesStay
<1>4. PlayedInv'
  BY <1>2, <1>3 DEF PlayedInv
<1>5. /\ NoRecord \in [session : {0} \cup Sessions, bomb : Bombs, crash : BOOLEAN, acted : BOOLEAN]
      /\ NoRecord.session = 0 /\ NoRecord.bomb = "none"
  BY DEF NoRecord, Bombs
<1>6. PlayersInv'
  BY <1>2, <1>3, <1>5 DEF PlayersInv
<1> DEFINE Shape == [session : Sessions, role : Roles, bomb : Bombs, crash : BOOLEAN, old : BOOLEAN,
                     state : {"running", "finished", "failed", "crashed"}]
<1>7. \A w \in runs' : \E v \in runs :
        /\ w.session = v.session /\ w.role = v.role /\ w.crash = v.crash /\ w \in Shape
        /\ \/ v.state # "running" /\ w = v
           \/ /\ v.state = "running" /\ w.state = state /\ w.bomb = "incomplete"
              /\ w = [v EXCEPT !.state = state, !.bomb = "incomplete"]
  <2>1. \A v \in runs : v \in Shape
    BY DEF RunsOfPlayers
  <2>2. ASSUME NEW v \in runs, v.state = "running"
        PROVE  LET ended == [v EXCEPT !.state = state, !.bomb = "incomplete"]
               IN /\ ended \in Shape /\ ended.session = v.session /\ ended.role = v.role
                  /\ ended.crash = v.crash /\ ended.state = state /\ ended.bomb = "incomplete"
    BY <2>1, <2>2, state \in {"running", "finished", "failed", "crashed"} DEF Bombs
  <2> HIDE DEF Shape
  <2>3. ASSUME NEW w \in runs'
        PROVE  \E v \in runs :
                 /\ w.session = v.session /\ w.role = v.role /\ w.crash = v.crash /\ w \in Shape
                 /\ \/ v.state # "running" /\ w = v
                    \/ /\ v.state = "running" /\ w.state = state /\ w.bomb = "incomplete"
                       /\ w = [v EXCEPT !.state = state, !.bomb = "incomplete"]
    <3>1. PICK v \in runs :
            w = IF v.state = "running" THEN [v EXCEPT !.state = state, !.bomb = "incomplete"]
                ELSE v
      BY <1>1
    <3>2. CASE v.state = "running"
      BY <2>2, <3>1, <3>2
    <3>3. CASE v.state # "running"
      BY <2>1, <3>1, <3>3
    <3> QED  BY <3>2, <3>3
  <2> QED  BY <2>3
<1> HIDE DEF Shape
<1>8. RunsOfPlayers'
  <2>1. \A w \in runs' : IsRoleOf(w.session, w.role) /\ w \in Shape
    BY <1>7 DEF RunsOfPlayers
  <2>2. \A w \in runs' : w.state \in {"running", "finished"} => ~w.crash
    BY <1>7 DEF RunsOfPlayers
  <2>3. ASSUME NEW w \in runs', NEW v \in runs', w.session = v.session, w.role = v.role
        PROVE  w = v
    <3>1. PICK one \in runs :
            /\ w.session = one.session /\ w.role = one.role
            /\ \/ one.state # "running" /\ w = one
               \/ one.state = "running" /\ w = [one EXCEPT !.state = state, !.bomb = "incomplete"]
      BY <1>7
    <3>2. PICK other \in runs :
            /\ v.session = other.session /\ v.role = other.role
            /\ \/ other.state # "running" /\ v = other
               \/ other.state = "running" /\ v = [other EXCEPT !.state = state, !.bomb = "incomplete"]
      BY <1>7
    <3>3. \A a, b \in runs : a.session = b.session /\ a.role = b.role => a = b
      BY DEF RunsOfPlayers
    <3>4. one.session = other.session /\ one.role = other.role
      BY <2>3, <3>1, <3>2
    <3>5. one = other
      BY <3>3, <3>4
    <3> QED BY <3>1, <3>2, <3>5
  <2> QED BY <1>3, <2>1, <2>2, <2>3 DEF RunsOfPlayers, Shape
<1>9. ASSUME NEW s \in Sessions, NEW c \in BOOLEAN, SaysCrash(s, c)'
      PROVE  SaysCrash(s, c)
  <2>1. \A q \in Roles : record'[q].session # s
    BY <1>2, <1>5, SessionsAreNumbers
  <2>2. ASSUME NEW w \in runs', w.session = s,
               \/ c /\ w.state = "failed"
               \/ ~c /\ w.state = "finished" /\ w.bomb # "incomplete"
        PROVE  SaysCrash(s, c)
    <3>1. w \in runs
      BY <1>7, <2>2
    <3> QED BY <2>2, <3>1 DEF SaysCrash
  <2> QED BY <1>2, <1>9, <2>1, <2>2 DEF SaysCrash
<1>10. OneCrash'
  BY <1>2, <1>3, <1>9 DEF OneCrash
<1> QED BY <1>2, <1>4, <1>6, <1>8, <1>10, FilesStay

\* Cleaning up, adding specs and building the database.
LEMMA PeopleSources ==
  ASSUME SourcesInv, AddSpecs \/ CleanupWandb \/ Maintenance \/ UNCHANGED vars
  PROVE  SourcesInv'
<1> USE DEF SourcesInv
<1>1. UNCHANGED <<played, run, session, player, record>>
  BY DEF AddSpecs, CleanupWandb, Maintenance, BuildDb, ExecuteMerge, CleanupOutputs, Unlink,
         FinishCleanup, AbandonJob, clusterVars, vars
<1>2. files' \subseteq files
  BY DEF AddSpecs, CleanupWandb, FilesToKeep, Maintenance, BuildDb, ExecuteMerge, CleanupOutputs,
         Unlink, FinishCleanup, AbandonJob, vars
<1>3. PlayedInv' /\ PlayersInv'
  BY <1>1, PlayedStays, PlayersStay
<1>4. FilesOfPlayers'
  BY <1>1, <1>2, FewerFilesOfPlayers
<1>5. CASE UNCHANGED runs
  BY <1>1, <1>2, <1>3, <1>4, <1>5, FewerFilesQuiet, RunsStay, QuietSteps
<1>6. CASE CleanupWandb
  <2>1. \E bad : runs' = MarkOld(runs, bad)
    BY <1>6 DEF CleanupWandb
  <2>2. RunsOfPlayers' /\ Quiet
    BY <1>1, <1>2, <2>1, MarksOnly DEF Quiet
  <2> QED BY <1>1, <1>3, <1>4, <2>2, QuietSteps
<1> QED
  BY <1>5, <1>6
  DEF AddSpecs, Maintenance, BuildDb, ExecuteMerge, CleanupOutputs, Unlink, FinishCleanup,
      AbandonJob, vars

\* Every step keeps SourcesInv.
LEMMA SourcesStep == SourcesInv /\ [Next]_vars => SourcesInv'
<1> SUFFICES ASSUME SourcesInv, [Next]_vars PROVE SourcesInv'
  OBVIOUS
<1> QED
  BY RunSources, SubmitSources, StartSources, EndSources, WritingSources, ReplaceSources,
     FinishSources, EndRunSources, PeopleSources
     DEF Next, Save, Cluster, People

\* A session is valid when its defuser saw the bomb end well and no file of it crashed.
LEMMA ValidGroup ==
  \A group : IsValid(group) <=> BombsIn(group) = {"good"} /\ \A f \in group : ~f.crash
<1> TAKE group
<1>1. CASE BombsIn(group) = {}
  BY <1>1 DEF IsValid, validities_from_footers
<1>2. CASE BombsIn(group) # {}
  <2>1. IsValid(group) <=> \A b \in BombsIn(group) : ValidityFrom(group, b)
    BY <1>2 DEF IsValid, validities_from_footers, ValidityFrom
  <2> QED BY <1>2, <2>1 DEF ValidityFrom
<1> QED BY <1>1, <1>2

\* What the two sources hold of a saved session.
LEMMA SavedSession ==
  ASSUME SourcesInv, NEW s \in Sessions, IsSaved(s), BombsIn(FilesOf(s)) # {}
  PROVE  \E f \in files, d \in runs :
           /\ f.session = s /\ d.session = s /\ f.role = "defuser" /\ d.role = "defuser"
           /\ d.bomb = f.bomb /\ ~d.old /\ d.state \in {"finished", "failed"}
           /\ f.bomb \in {"good", "incomplete"} /\ BombsIn(FilesOf(s)) = {f.bomb}
           /\ d.state = "failed" => \A g \in FilesOf(s) : g.crash
           /\ d.state = "finished" /\ f.bomb = "good" => \A g \in FilesOf(s) : ~g.crash
           /\ d.state = "finished" => ~d.crash
<1> USE DEF SourcesInv
<1>1. PICK f \in files, d \in runs :
        /\ f.session = s /\ d.session = s /\ f.role = "defuser" /\ d.role = "defuser"
        /\ d.state \in {"finished", "failed"} /\ d.bomb = f.bomb /\ ~d.old
  BY RolesAreRoles DEF IsSaved
<1>2. \A g \in FilesOf(s) : g.bomb # "none" => g = f
  BY <1>1 DEF FilesOf, FilesOfPlayers
<1>3. BombsIn(FilesOf(s)) = {f.bomb} /\ f.bomb # "none" /\ f \in FilesOf(s)
  BY <1>1, <1>2 DEF BombsIn, FilesOf
<1>4. f.bomb \in {"good", "incomplete"}
  BY <1>3 DEF FilesOfPlayers, Bombs
<1>5. ASSUME NEW g \in FilesOf(s)
      PROVE  /\ d.state = "failed" => g.crash
             /\ d.state = "finished" /\ f.bomb = "good" => ~g.crash
  <2>1. g \in files /\ g.session = s /\ g.crash \in BOOLEAN
    BY DEF FilesOf, FilesOfPlayers
  <2>2. SaysCrash(s, g.crash)
    BY <2>1 DEF SaysCrash
  <2>3. /\ d.state = "failed" => SaysCrash(s, TRUE)
        /\ d.state = "finished" /\ f.bomb = "good" => SaysCrash(s, FALSE)
    BY <1>1 DEF SaysCrash
  <2> QED BY <2>1, <2>2, <2>3 DEF OneCrash
<1>6. d.state = "finished" => ~d.crash
  BY <1>1 DEF RunsOfPlayers
<1> QED BY <1>1, <1>3, <1>4, <1>5, <1>6

\* The runs of a valid saved session are gathered, all of them.
LEMMA AllGathered ==
  ASSUME SourcesInv, NEW s \in Sessions, IsSaved(s), IsValid(FilesOf(s)), NEW r \in RolesOf(AttemptOf(s))
  PROVE  \E w \in Gathered(runs) : w.session = s /\ w.role = r
<1> USE DEF SourcesInv
<1>1. PICK f \in files, w \in runs :
        /\ f.session = s /\ w.session = s /\ f.role = r /\ w.role = r
        /\ w.state \in {"finished", "failed"} /\ ~w.old
  BY DEF IsSaved
<1>2. w.state # "failed"
  <2> SUFFICES ASSUME w.state = "failed" PROVE FALSE
    OBVIOUS
  <2>1. SaysCrash(s, TRUE)
    BY <1>1 DEF SaysCrash
  <2>2. f \in FilesOf(s) /\ f.crash \in BOOLEAN
    BY <1>1 DEF FilesOf, FilesOfPlayers
  <2>3. f.crash = FALSE
    BY <2>2, ValidGroup
  <2>4. SaysCrash(s, FALSE)
    BY <1>1, <2>3 DEF SaysCrash
  <2> QED BY <2>1, <2>4 DEF OneCrash
<1> QED BY <1>1, <1>2 DEF Gathered

\* ... so they do not count as mismatched: there is one for each player.
LEMMA OneForEach ==
  ASSUME SourcesInv, NEW s \in Sessions,
         \A r \in RolesOf(AttemptOf(s)) : \E w \in Gathered(runs) : w.session = s /\ w.role = r
  PROVE  Cardinality(RunsOf(Gathered(runs), s)) = Cardinality(RolesOf(AttemptOf(s)))
<1> USE DEF SourcesInv
<1> DEFINE R == RolesOf(AttemptOf(s))
           W == RunsOf(Gathered(runs), s)
<1>1. \A w \in W : w \in runs /\ w.session = s /\ w.role \in R
  BY DEF RunsOf, Gathered, RunsOfPlayers, IsRoleOf
<1>2. \A v, w \in W : v.role = w.role => v = w
  BY <1>1 DEF RunsOfPlayers
<1>3. \A r \in R : \E w \in W : w.role = r
  BY DEF RunsOf
<1>4. R = {"defuser"} \/ R = {"defuser", "expert"}
  BY DEF RolesOf, Roles
<1> HIDE DEF R, W
<1>5. CASE R = {"defuser"}
  <2>1. PICK d \in W : d.role = "defuser"
    BY <1>3, <1>5
  <2>2. W = {d}
    BY <1>1, <1>2, <1>5, <2>1
  <2> QED BY <1>5, <2>2, FS_Singleton DEF R, W
<1>6. CASE R = {"defuser", "expert"}
  <2>1. PICK d \in W : d.role = "defuser"
    BY <1>3, <1>6
  <2>2. PICK e \in W : e.role = "expert"
    BY <1>3, <1>6
  <2>3. W = {d} \cup {e} /\ e \notin {d} /\ R = {"defuser"} \cup {"expert"}
    BY <1>1, <1>2, <1>6, <2>1, <2>2
  <2>4. /\ IsFiniteSet({d}) /\ Cardinality({d}) = 1
        /\ IsFiniteSet({"defuser"}) /\ Cardinality({"defuser"}) = 1
    BY FS_Singleton
  <2>5. Cardinality({d} \cup {e}) = Cardinality({d}) + 1
    BY <2>3, <2>4, FS_AddElement
  <2>6. Cardinality({"defuser"} \cup {"expert"}) = Cardinality({"defuser"}) + 1
    <3>1. "expert" \notin {"defuser"}
      OBVIOUS
    <3> QED BY <3>1, <2>4, FS_AddElement
  <2> QED BY <2>3, <2>4, <2>5, <2>6 DEF R, W
<1> QED BY <1>4, <1>5, <1>6

\* The ledgers agree about a saved session that is the only one of its attempt.
LEMMA SourcesAgreeOn ==
  ASSUME SourcesInv, NEW s \in Sessions, IsSaved(s), BombsIn(FilesOf(s)) # {},
         \A other \in Sessions : AttemptOf(other) = AttemptOf(s) => other = s
  PROVE  AttemptOf(s) \in LocalDone <=> AttemptOf(s) \in WandbDone
<1> USE DEF SourcesInv
<1> DEFINE all == Gathered(runs)
           bad == Mismatched(all) \cup Duplicates(all) \cup FalselyFinished(all)
           marked == MarkOld(runs, bad)
<1>1. PICK f \in files, d \in runs :
         /\ f.session = s /\ d.session = s /\ f.role = "defuser" /\ d.role = "defuser"
         /\ d.bomb = f.bomb /\ ~d.old /\ d.state \in {"finished", "failed"}
         /\ f.bomb \in {"good", "incomplete"} /\ BombsIn(FilesOf(s)) = {f.bomb}
         /\ d.state = "failed" => \A g \in FilesOf(s) : g.crash
         /\ d.state = "finished" /\ f.bomb = "good" => \A g \in FilesOf(s) : ~g.crash
         /\ d.state = "finished" => ~d.crash
  BY SavedSession
<1>2. AttemptOf(s) \in LocalDone <=> IsValid(FilesOf(s))
  <2>1. FilesOfAttempt(AttemptOf(s)) = FilesOf(s)
    BY DEF FilesOfAttempt, FilesOf, FilesOfPlayers
  <2> QED BY <2>1, SessionsAreNumbers DEF LocalDone
<1>3. AttemptOf(s) \in WandbDone <=> \E w \in all : w.session = s /\ w \notin bad
  <2>1. AttemptOf(s) \in WandbDone <=> \E w \in Gathered(marked) : AttemptOf(w.session) = AttemptOf(s)
    BY DEF WandbDone, CleanupRuns
  <2>2. \A w \in Gathered(marked) : w.session \in Sessions
    BY DEF Gathered, MarkOld, RunsOfPlayers
  <2>3. AttemptOf(s) \in WandbDone <=> \E w \in Gathered(marked) : w.session = s
    BY <2>1, <2>2
  <2>4. ASSUME NEW w \in all, w.session = s, w \notin bad
        PROVE  \E v \in Gathered(marked) : v.session = s
    <3>1. w \in runs /\ w.state = "finished" /\ ~w.old
      BY DEF Gathered
    <3>2. [w EXCEPT !.old = @ \/ w \in bad] \in marked
      BY <3>1 DEF MarkOld
    <3> HIDE DEF bad
    <3>3. /\ [w EXCEPT !.old = @ \/ w \in bad].session = s
          /\ [w EXCEPT !.old = @ \/ w \in bad].state = "finished"
          /\ ~([w EXCEPT !.old = @ \/ w \in bad].old)
      BY <2>4, <3>1 DEF RunsOfPlayers
    <3> QED BY <3>2, <3>3 DEF Gathered
  <2>5. ASSUME NEW v \in Gathered(marked), v.session = s
        PROVE  \E w \in all : w.session = s /\ w \notin bad
    <3> HIDE DEF bad
    <3>1. v \in marked /\ v.state = "finished" /\ ~v.old
      BY DEF Gathered
    <3>2. PICK w \in runs : v = [w EXCEPT !.old = @ \/ w \in bad]
      BY <3>1 DEF MarkOld
    <3>3. w.session = s /\ w.state = "finished" /\ ~w.old /\ w \notin bad
      BY <2>5, <3>1, <3>2 DEF RunsOfPlayers
    <3> QED BY <3>3 DEF Gathered
  <2> QED BY <2>3, <2>4, <2>5
<1> HIDE DEF marked
<1>4. ASSUME IsValid(FilesOf(s))
      PROVE  \E w \in all : w.session = s /\ w \notin bad
  <2>1. \A r \in RolesOf(AttemptOf(s)) : \E w \in all : w.session = s /\ w.role = r
    BY <1>4, AllGathered
  <2>2. PICK w \in all : w.session = s /\ w.role = "defuser"
    BY <2>1, RolesAreRoles
  <2>3. f.bomb = "good"
    BY <1>1, <1>4, ValidGroup
  <2>4. w \notin Mismatched(all)
    BY <2>1, <2>2, OneForEach DEF Mismatched
  <2>5. w \notin Duplicates(all)
    <3> SUFFICES ASSUME NEW other \in all, AttemptOf(other.session) = AttemptOf(s), other.session > s
                 PROVE  FALSE
      BY <2>2 DEF Duplicates
    <3>1. other.session = s
      BY DEF Gathered, RunsOfPlayers
    <3> QED BY <3>1 DEF Sessions
  <2>6. w \notin FalselyFinished(all)
    <3> SUFFICES ASSUME NEW other \in all, other.session = s, other.role = "defuser", other.bomb = "incomplete"
                 PROVE  FALSE
      BY <2>2 DEF FalselyFinished, RunsOf
    <3>1. other = d
      BY <1>1 DEF Gathered, RunsOfPlayers
    <3> QED BY <3>1, <1>1, <2>3
  <2> QED BY <2>2, <2>4, <2>5, <2>6
<1>5. ASSUME NEW w \in all, w.session = s, w \notin bad
      PROVE  IsValid(FilesOf(s))
  <2>1. w \in runs /\ w.state = "finished" /\ w.role \in RolesOf(AttemptOf(s))
    BY <1>5 DEF Gathered, RunsOfPlayers, IsRoleOf
  <2>2. d.state = "finished"
    <3> SUFFICES ASSUME d.state = "failed" PROVE FALSE
      BY <1>1
    <3>1. PICK g \in files, v \in runs :
            /\ g.session = s /\ v.session = s /\ g.role = w.role /\ v.role = w.role /\ v.bomb = g.bomb
      BY <2>1 DEF IsSaved
    <3>2. v = w
      BY <3>1, <2>1, <1>5 DEF RunsOfPlayers
    <3>3. w # d
      BY <2>1
    <3>4. w.role # "defuser"
      BY <3>3, <1>1, <1>5, <2>1 DEF RunsOfPlayers
    <3>5. w.bomb = "none"
      BY <3>1, <3>2, <3>4 DEF FilesOfPlayers
    <3>6. SaysCrash(s, FALSE) /\ SaysCrash(s, TRUE)
      BY <1>1, <1>5, <2>1, <3>5 DEF SaysCrash
    <3> QED BY <3>6 DEF OneCrash
  <2>3. d \in all /\ ~d.crash
    BY <1>1, <2>2 DEF Gathered
  <2>4. f.bomb # "incomplete"
    BY <1>1, <1>5, <2>3 DEF FalselyFinished, RunsOf
  <2> QED BY <1>1, <2>2, <2>4, ValidGroup
<1> QED BY <1>2, <1>3, <1>4, <1>5

\* The two ledgers agree on every attempt with one session whose players all saved their
\* records, whatever cleanups and looks at W&B came before: the files and the runs of a
\* session carry the one crash flag its players were stopped with.
THEOREM LedgersAgree == Spec => []SourcesAgree
<1>1. SourcesInv => SourcesAgree
  BY SourcesAgreeOn DEF SourcesAgree
<1> QED BY <1>1, SourcesInit, SourcesStep, PTL DEF Spec
-----------------------------------------------------------------------------
(* The database and the cleanups: what a command that comes back by path may find. *)

\* Player r of session s has saved its record: it never saves one of s again.
Saved(s, r) ==
  /\ IsRoleOf(s, r) /\ session # s
  /\ record[r].session = s => player[r] \notin {"stopping", "writing"}

\* A path holds one record, saved once and for all; a summary stands for a defuser that
\* has saved, whose steps are in the database or whose record is gone.
DirectoryInv ==
  /\ \A f \in files : Saved(f.session, f.role)
  /\ \A f, g \in files : PathOf(f) = PathOf(g) => f = g
SummariesInv ==
  /\ OneSummary
  /\ \A sm \in summaries :
       /\ Saved(sm.session, "defuser")
       /\ \/ <<sm.session, "defuser">> \in steps
          \/ \A f \in files : f.session = sm.session => f.role # "defuser"
JobShape ==
  /\ job = [kind |-> job.kind, built |-> job.built, doomed |-> job.doomed,
            tmps |-> job.tmps, saved |-> job.saved]
  /\ job.kind # "cleanup" => job.doomed = {}
  /\ job.kind # "build" => job.built = {}
\* A build has summaries of new sessions, with the path of the defuser and with no path at
\* which there is a record of another session, unless it was saved there since.
BuildInv ==
  /\ \A b \in job.built :
       LET s == b.summary.session
       IN  /\ Saved(s, "defuser") /\ <<s, "defuser">> \notin steps
           /\ \A sm \in summaries : sm.session # s
           /\ Path(s, "defuser") \in b.paths
           /\ \A f \in files : PathOf(f) \in b.paths => f.session = s \/ PathOf(f) \in job.saved
  /\ \A b, c \in job.built : b.summary.session = c.summary.session => b = c
\* A cleanup removes no record of a valid session, unless one was saved since at a path of
\* its players; without that, what it keeps never hides a valid session.
CleaningInv ==
  /\ \A f \in files : PathOf(f) \in job.doomed /\ IsValid(FilesOf(f.session)) => ~Undisturbed(f.session)
  /\ job.kind = "cleanup" /\ job.saved = {} =>
       \A f \in files : PathOf(f) \in job.doomed \/ (~f.crash /\ f.bomb \in {"good", "none"})
ByPathInv == DirectoryInv /\ SummariesInv /\ JobShape /\ BuildInv /\ CleaningInv

\* Before the first run there is nothing.
LEMMA ByPathInit == Init => ByPathInv
BY DEF Init, NoJob, ByPathInv, DirectoryInv, SummariesInv, OneSummary, JobShape, BuildInv, CleaningInv

\* The sessions played keep their names and paths.
LEMMA PathsStay ==
  ASSUME SourcesInv, [Next]_vars, NEW s \in Sessions
  PROVE  /\ s \in Sessions' /\ AttemptOf(s)' = AttemptOf(s)
         /\ \A r : Path(s, r)' = Path(s, r)
<1>1. CASE UNCHANGED played
  BY <1>1 DEF Sessions, AttemptOf, Path
<1>2. ASSUME NEW a \in Attempts, StartSession(a)
      PROVE  /\ s \in Sessions' /\ AttemptOf(s)' = AttemptOf(s)
             /\ \A r : Path(s, r)' = Path(s, r)
  <2>1. played' = Append(played, [attempt |-> a, run |-> run])
    BY <1>2 DEF StartSession
  <2>2. /\ s \in Sessions'
        /\ AttemptOf(s)' = AttemptOf(s) /\ played'[s] = played[s]
    BY <2>1, SessionsStay DEF SourcesInv
  <2> QED BY <2>2 DEF Path
<1> QED
  BY <1>1, <1>2
  DEF Next, Save, Cluster, People, Maintenance, StartWriting, Replace, FinishRun, EndSession,
      EndRun, Run, Submit, AddSpecs, CleanupWandb, BuildDb, ExecuteMerge, CleanupOutputs, Unlink,
      FinishCleanup, AbandonJob, vars, clusterVars

\* What has been saved is never saved again.
LEMMA SavedStays ==
  ASSUME SourcesInv, [Next]_vars, NEW s, NEW r, Saved(s, r)
  PROVE  Saved(s, r)'
<1> USE DEF SourcesInv
<1>1. s \in Sessions /\ r \in RolesOf(AttemptOf(s)) /\ r \in Roles /\ session # s
  BY RolesAreRoles DEF Saved, IsRoleOf
<1>2. IsRoleOf(s, r)'
  BY <1>1, PathsStay DEF IsRoleOf, RolesOf
<1>3. s # 0
  BY <1>1, SessionsAreNumbers
<1>4. record[r].session = s => player[r] \notin {"stopping", "writing"}
  BY DEF Saved
<1>5. CASE UNCHANGED <<session, player, record>>
  BY <1>2, <1>4, <1>5, <1>1 DEF Saved
<1>6. ASSUME NEW q \in Roles, StartWriting(q) \/ Replace(q)
      PROVE  Saved(s, r)'
  <2>1. UNCHANGED <<session, record>>
    BY <1>6 DEF StartWriting, Replace
  <2>2. player'[r] = player[r] \/ (q = r /\ player[r] \in {"stopping", "writing"})
    BY <1>6, <1>1 DEF StartWriting, Replace, PlayersInv
  <2>3. record'[r].session = s => player'[r] \notin {"stopping", "writing"}
    BY <2>1, <2>2, <1>4
  <2> QED BY <1>1, <1>2, <2>1, <2>3 DEF Saved
<1>7. ASSUME NEW q \in Roles, FinishRun(q)
      PROVE  Saved(s, r)'
  <2>1. UNCHANGED session
    BY <1>7 DEF FinishRun
  <2>2. \/ player'[r] = player[r] /\ record'[r] = record[r]
        \/ player'[r] = "idle"
    BY <1>7, <1>1 DEF FinishRun, PlayersInv
  <2> QED BY <1>1, <1>2, <1>4, <2>1, <2>2 DEF Saved
<1>8. ASSUME NEW a \in Attempts, StartSession(a)
      PROVE  Saved(s, r)'
  <2>1. session' # s
    <3>1. session' = Len(played) + 1
      BY <1>8 DEF StartSession
    <3>2. Len(played) \in Nat
      BY DEF PlayedInv
    <3> QED BY <1>1, <3>1, <3>2 DEF Sessions
  <2>2. UNCHANGED record /\ (player'[r] = player[r] \/ player'[r] = "playing")
    BY <1>8, <1>1 DEF StartSession
  <2> QED BY <1>2, <1>4, <2>1, <2>2 DEF Saved
<1>9. CASE EndSession
  <2>1. session' = 0 /\ session # 0
    BY <1>9 DEF EndSession
  <2>2. r \in RolesOf(AttemptOf(session)) => record'[r].session = session
    BY <1>9, <1>1 DEF EndSession
  <2>3. r \notin RolesOf(AttemptOf(session)) => record'[r] = record[r] /\ player'[r] = player[r]
    BY <1>9, <1>1 DEF EndSession, PlayersInv, IsRoleOf
  <2>4. record'[r].session = s => player'[r] \notin {"stopping", "writing"}
    BY <2>2, <2>3, <1>1, <1>4
  <2> QED BY <1>2, <1>3, <2>1, <2>4 DEF Saved
<1>10. CASE EndRun
  <2>1. session' = 0 /\ player'[r] = "dead"
    BY <1>10, <1>1 DEF EndRun
  <2> QED BY <1>2, <1>3, <2>1 DEF Saved
<1>11. ASSUME NEW source, Run(source)
       PROVE  Saved(s, r)'
  <2>1. UNCHANGED session /\ player'[r] = "idle"
    BY <1>11, <1>1 DEF Run
  <2> QED BY <1>1, <1>2, <2>1 DEF Saved
<1> QED
  BY <1>5, <1>6, <1>7, <1>8, <1>9, <1>10, <1>11
  DEF Next, Save, Cluster, People, Maintenance, Submit, AddSpecs, CleanupWandb, BuildDb,
      ExecuteMerge, CleanupOutputs, Unlink, FinishCleanup, AbandonJob, vars, clusterVars

\* A step of no interest here; one that ends a command.
Unremarkable == files' \subseteq files /\ UNCHANGED <<steps, summaries, job>>
EndsJob == UNCHANGED <<files, steps, summaries>> /\ job' = NoJob

LEMMA StepKinds ==
  ASSUME [Next]_vars
  PROVE  \/ Unremarkable \/ EndsJob
         \/ \E r \in Roles : Replace(r)
         \/ \E p \in job.doomed : Unlink(p)
         \/ CleanupOutputs \/ BuildDb \/ ExecuteMerge
BY DEF Next, Save, Cluster, People, Maintenance, StartWriting, FinishRun, StartSession, EndSession,
       EndRun, Run, Submit, AddSpecs, CleanupWandb, FilesToKeep, FinishCleanup, AbandonJob,
       vars, clusterVars, dbVars, Unremarkable, EndsJob

\* The file a player leaves: of the session of its record, at the path of the player.
LEMMA ReplacedFile ==
  ASSUME SourcesInv, NEW r \in Roles, Replace(r)
  PROVE  \E new \in files' :
           /\ new.session = record[r].session /\ new.role = r
           /\ Saved(new.session, r)'
           /\ ~Saved(new.session, r)
           /\ PathOf(new) = Path(record[r].session, r)
           /\ files' = {f \in files : PathOf(f) # PathOf(new)} \cup {new}
           /\ job' = IF job = NoJob THEN NoJob ELSE [job EXCEPT !.saved = @ \cup {PathOf(new)}]
           /\ UNCHANGED <<steps, summaries, played>>
<1> USE DEF SourcesInv
<1>0. PICK new : new = [session |-> record[r].session, role |-> r,
                        bomb |-> record[r].bomb, crash |-> record[r].crash]
  OBVIOUS
<1>1. /\ new.session = record[r].session /\ new.role = r
      /\ PathOf(new) = Path(record[r].session, r)
  BY <1>0 DEF PathOf
<1>2. /\ files' = {f \in files : PathOf(f) # PathOf(new)} \cup {new}
      /\ job' = IF job = NoJob THEN NoJob ELSE [job EXCEPT !.saved = @ \cup {PathOf(new)}]
      /\ UNCHANGED <<steps, summaries, played, record, session>>
      /\ player[r] = "writing" /\ player' = [player EXCEPT ![r] = "finishing"]
  BY <1>0, <1>1 DEF Replace, dbVars
<1>3. new \in files'
  BY <1>2
<1>4. IsRoleOf(record[r].session, r) /\ record[r].session \in Sessions
  BY <1>2 DEF PlayersInv, IsRoleOf
<1>5. session # record[r].session
  <2> SUFFICES ASSUME session = record[r].session PROVE FALSE
    OBVIOUS
  <2>1. session # 0 /\ record[r].crash \in BOOLEAN
    BY <1>4, SessionsAreNumbers DEF PlayersInv
  <2>2. SaysCrash(session, record[r].crash)
    BY DEF SaysCrash
  <2> QED BY <2>1, <2>2 DEF OneCrash
<1>6. Saved(new.session, r)' /\ ~Saved(new.session, r)
  <2>1. player'[r] = "finishing"
    BY <1>2 DEF PlayersInv
  <2>2. IsRoleOf(record[r].session, r)'
    BY <1>2, <1>4, NamesStay
  <2> QED BY <1>1, <1>2, <1>4, <1>5, <2>1, <2>2 DEF Saved
<1> QED BY <1>1, <1>2, <1>3, <1>6

\* The records in the directory are those that stay, and in a save a new one.
LEMMA DirectoryStep ==
  ASSUME SourcesInv, DirectoryInv, [Next]_vars
  PROVE  DirectoryInv'
<1>1. \A f \in files : PathOf(f)' = PathOf(f)
  BY PathsStay DEF PathOf, SourcesInv, FilesOfPlayers
<1>2. ASSUME files' \subseteq files
      PROVE  DirectoryInv'
  BY <1>1, <1>2, SavedStays DEF DirectoryInv
<1>3. ASSUME NEW r \in Roles, Replace(r)
      PROVE  DirectoryInv'
  <2>1. PICK new \in files' :
           /\ new.role = r
           /\ Saved(new.session, r)'
           /\ files' = {f \in files : PathOf(f) # PathOf(new)} \cup {new}
           /\ UNCHANGED played
    BY <1>3, ReplacedFile
  <2>2. \A f : PathOf(f)' = PathOf(f)
    BY <2>1 DEF PathOf, Path, AttemptOf
  <2>3. \A f \in files' : Saved(f.session, f.role)'
    BY <2>1, SavedStays DEF DirectoryInv
  <2>4. \A f, g \in files' : PathOf(f) = PathOf(g) => f = g
    BY <2>1 DEF DirectoryInv
  <2> QED BY <2>2, <2>3, <2>4 DEF DirectoryInv
<1>4. CASE \/ Unremarkable \/ EndsJob \/ CleanupOutputs \/ BuildDb \/ ExecuteMerge
           \/ \E p \in job.doomed : Unlink(p)
  <2>1. files' \subseteq files
    BY <1>4 DEF Unremarkable, EndsJob, CleanupOutputs, BuildDb, ExecuteMerge, Unlink
  <2> QED BY <2>1, <1>2
<1> QED BY <1>3, <1>4, StepKinds
\* A merge adds summaries of new sessions; each finds the record of its defuser among the
\* paths it reads, or nowhere.
LEMMA SummariesStep ==
  ASSUME SourcesInv, SummariesInv, BuildInv, [Next]_vars
  PROVE  SummariesInv'
<1>1. CASE UNCHANGED <<steps, summaries>> /\ files' \subseteq files
  BY <1>1, SavedStays DEF SummariesInv, OneSummary
<1>2. ASSUME NEW r \in Roles, Replace(r)
      PROVE  SummariesInv'
  <2>1. PICK new \in files' :
           /\ new.role = r /\ ~Saved(new.session, r)
           /\ files' = {f \in files : PathOf(f) # PathOf(new)} \cup {new}
           /\ UNCHANGED <<steps, summaries>>
    BY <1>2, ReplacedFile
  <2>2. \A sm \in summaries : new.session = sm.session => new.role # "defuser"
    BY <2>1 DEF SummariesInv
  <2> QED BY <2>1, <2>2, SavedStays DEF SummariesInv, OneSummary
<1>3. CASE ExecuteMerge
  <2>1. /\ summaries' = summaries \cup {b.summary : b \in job.built}
        /\ steps' = steps \cup {<<f.session, f.role>> : f \in FilesAt(StepPaths)}
        /\ UNCHANGED files
    BY <1>3 DEF ExecuteMerge
  <2>2. OneSummary'
    <3>1. \A old \in summaries, b \in job.built : old.session # b.summary.session
      BY DEF BuildInv
    <3>2. \A b, c \in job.built : b.summary.session = c.summary.session => b.summary = c.summary
      BY DEF BuildInv
    <3>3. OneSummary
      BY DEF SummariesInv
    <3> QED BY <2>1, <3>1, <3>2, <3>3 DEF OneSummary
  <2>3. \A sm \in summaries' : Saved(sm.session, "defuser")'
    BY <2>1, SavedStays DEF SummariesInv, BuildInv
  <2>4. ASSUME NEW sm \in summaries', NEW f \in files', f.session = sm.session, f.role = "defuser"
        PROVE  <<sm.session, "defuser">> \in steps'
    <3>1. CASE sm \in summaries
      BY <2>1, <2>4, <3>1 DEF SummariesInv
    <3>2. ASSUME NEW b \in job.built, sm = b.summary
          PROVE  <<sm.session, "defuser">> \in steps'
      <4>1. PathOf(f) \in b.paths
        BY <2>4, <3>2 DEF BuildInv, PathOf
      <4>2. f \in FilesAt(StepPaths)
        BY <2>1, <2>4, <4>1 DEF FilesAt, StepPaths
      <4> QED BY <2>1, <2>4, <4>2
    <3> QED BY <2>1, <3>1, <3>2
  <2> QED BY <2>2, <2>3, <2>4 DEF SummariesInv
<1>4. CASE \/ Unremarkable \/ EndsJob \/ CleanupOutputs \/ BuildDb
           \/ \E p \in job.doomed : Unlink(p)
  <2>1. UNCHANGED <<steps, summaries>> /\ files' \subseteq files
    BY <1>4 DEF Unremarkable, EndsJob, CleanupOutputs, BuildDb, Unlink, dbVars
  <2> QED BY <2>1, <1>1
<1> QED BY <1>2, <1>3, <1>4, StepKinds

\* The command under way keeps its shape; a save is noted in it.
LEMMA JobStep ==
  ASSUME SourcesInv, JobShape, [Next]_vars
  PROVE  JobShape'
<1>1. ASSUME NEW r \in Roles, Replace(r)
      PROVE  JobShape'
  <2>1. \E path : job' = IF job = NoJob THEN NoJob ELSE [job EXCEPT !.saved = @ \cup {path}]
    BY <1>1 DEF Replace
  <2> QED BY <2>1 DEF JobShape, NoJob
<1>2. ASSUME NEW p \in job.doomed, Unlink(p)
      PROVE  JobShape'
  <2>1. job' = [job EXCEPT !.doomed = @ \ {p}] /\ job.kind = "cleanup"
    BY <1>2 DEF Unlink, JobShape
  <2> QED BY <2>1 DEF JobShape
<1>3. CASE Unremarkable
  BY <1>3 DEF Unremarkable, JobShape
<1>4. CASE EndsJob \/ ExecuteMerge
  BY <1>4 DEF EndsJob, ExecuteMerge, NoJob, JobShape
<1>5. CASE CleanupOutputs
  BY <1>5 DEF CleanupOutputs, NoJob, JobShape
<1>6. CASE BuildDb
  BY <1>6 DEF BuildDb, NoJob, JobShape
<1> QED BY <1>1, <1>2, <1>3, <1>4, <1>5, <1>6, StepKinds

\* What a save notes.
LEMMA NotedSave ==
  ASSUME JobShape, NEW path, job' = IF job = NoJob THEN NoJob ELSE [job EXCEPT !.saved = @ \cup {path}]
  PROVE  /\ job'.kind = job.kind /\ job'.built = job.built /\ job'.doomed = job.doomed
         /\ job.built # {} \/ job.doomed # {} \/ job.kind = "cleanup" => job'.saved = job.saved \cup {path}
BY DEF JobShape, NoJob

\* The groups of a build are of sessions the database has no summary of.
LEMMA BuildStarts ==
  ASSUME SourcesInv, DirectoryInv, SummariesInv, BuildDb
  PROVE  /\ \A b \in job'.built :
              LET s == b.summary.session
              IN  /\ Saved(s, "defuser") /\ <<s, "defuser">> \notin steps
                  /\ \A sm \in summaries : sm.session # s
                  /\ Path(s, "defuser") \in b.paths
                  /\ \A f \in files : PathOf(f) \in b.paths => f.session = s
         /\ \A b, c \in job'.built : b.summary.session = c.summary.session => b = c
<1> DEFINE groups == {group \in group_by_unique_experiment(NewFiles) : BombsIn(group) # {}}
           Built(group) == [summary |-> Summary(group), paths |-> PathsOf(group)]
<1>1. job'.built = {Built(group) : group \in groups}
  BY DEF BuildDb, NoJob
<1>2. ASSUME NEW group \in groups
      PROVE  \E s \in Sessions :
               /\ Summary(group).session = s /\ group = NewFiles \cap FilesOf(s)
               /\ Saved(s, "defuser") /\ <<s, "defuser">> \notin steps
               /\ \A sm \in summaries : sm.session # s
               /\ Path(s, "defuser") \in PathsOf(group)
               /\ \A f \in files : PathOf(f) \in PathsOf(group) => f.session = s
  <2>1. PICK s \in Sessions : group = NewFiles \cap FilesOf(s)
    BY DEF group_by_unique_experiment
  <2>2. PICK f \in group : f.bomb # "none"
    BY DEF BombsIn
  <2>3. f \in files /\ f.session = s /\ f.role = "defuser" /\ <<s, "defuser">> \notin steps
    BY <2>1, <2>2 DEF NewFiles, FilesOf, SourcesInv, FilesOfPlayers
  <2>4. Saved(s, "defuser") /\ \A sm \in summaries : sm.session # s
    BY <2>3 DEF DirectoryInv, SummariesInv
  <2>5. Path(s, "defuser") \in PathsOf(group)
    BY <2>2, <2>3 DEF PathsOf, PathOf
  <2>6. ASSUME NEW h \in files, PathOf(h) \in PathsOf(group)
        PROVE  h.session = s
    <3>1. PICK k \in group : PathOf(h) = PathOf(k)
      BY <2>6 DEF PathsOf
    <3>2. k \in files /\ k.session = s
      BY <2>1 DEF NewFiles, FilesOf
    <3> QED BY <3>1, <3>2 DEF DirectoryInv
  <2>7. Summary(group).session = s
    <3>1. (CHOOSE k \in group : TRUE) \in group
      BY <2>2
    <3> QED BY <3>1, <2>1 DEF Summary, FilesOf
  <2> QED BY <2>1, <2>3, <2>4, <2>5, <2>6, <2>7
<1>3. \A group : Built(group).summary = Summary(group) /\ Built(group).paths = PathsOf(group)
  OBVIOUS
<1> HIDE DEF groups, Built
<1>4. ASSUME NEW b \in job'.built, NEW c \in job'.built, b.summary.session = c.summary.session
      PROVE  b = c
  <2>1. PICK group \in groups, other \in groups : b = Built(group) /\ c = Built(other)
    BY <1>1
  <2>2. Summary(group).session = Summary(other).session
    BY <2>1, <1>3, <1>4
  <2>3. /\ group = NewFiles \cap FilesOf(Summary(group).session)
        /\ other = NewFiles \cap FilesOf(Summary(other).session)
    BY <1>2
  <2> QED BY <2>1, <2>2, <2>3
<1>5. ASSUME NEW b \in job'.built
      PROVE  LET s == b.summary.session
             IN  /\ Saved(s, "defuser") /\ <<s, "defuser">> \notin steps
                 /\ \A sm \in summaries : sm.session # s
                 /\ Path(s, "defuser") \in b.paths
                 /\ \A f \in files : PathOf(f) \in b.paths => f.session = s
  <2>1. PICK group \in groups : b = Built(group)
    BY <1>1
  <2>2. b.summary = Summary(group) /\ b.paths = PathsOf(group)
    BY <2>1, <1>3
  <2>3. PICK s \in Sessions :
               /\ Summary(group).session = s
               /\ Saved(s, "defuser") /\ <<s, "defuser">> \notin steps
               /\ \A sm \in summaries : sm.session # s
               /\ Path(s, "defuser") \in PathsOf(group)
               /\ \A f \in files : PathOf(f) \in PathsOf(group) => f.session = s
    BY <1>2
  <2>4. b.summary.session = s
    BY <2>2, <2>3
  <2> QED BY <2>2, <2>3, <2>4
<1> QED BY <1>4, <1>5

\* A build keeps what it knows of its groups until it ends.
LEMMA BuildStep ==
  ASSUME SourcesInv, DirectoryInv, SummariesInv, JobShape, BuildInv, [Next]_vars
  PROVE  BuildInv'
<1> USE DEF SourcesInv
<1>1. \A f \in files : f.session \in Sessions /\ PathOf(f)' = PathOf(f)
  BY PathsStay DEF PathOf, FilesOfPlayers
<1>2. ASSUME NEW s, Saved(s, "defuser")
      PROVE  Saved(s, "defuser")' /\ Path(s, "defuser")' = Path(s, "defuser")
  BY <1>2, SavedStays, PathsStay DEF Saved, IsRoleOf
<1>3. CASE Unremarkable
  BY <1>1, <1>2, <1>3 DEF Unremarkable, BuildInv
<1>4. CASE EndsJob \/ ExecuteMerge
  BY <1>4 DEF EndsJob, ExecuteMerge, NoJob, BuildInv
<1>5. CASE CleanupOutputs
  BY <1>5 DEF CleanupOutputs, NoJob, BuildInv
<1>6. ASSUME NEW p \in job.doomed, Unlink(p)
      PROVE  BuildInv'
  <2>1. job'.built = {}
    BY <1>6 DEF JobShape, Unlink
  <2> QED BY <2>1 DEF BuildInv
<1>7. CASE BuildDb
  <2>1. UNCHANGED <<files, steps, summaries, played>>
    BY <1>7 DEF BuildDb, clusterVars, dbVars
  <2> QED BY <1>1, <1>2, <1>7, <2>1, BuildStarts DEF BuildInv
<1>8. ASSUME NEW r \in Roles, Replace(r)
      PROVE  BuildInv'
  <2>1. PICK new \in files' :
           /\ files' = {f \in files : PathOf(f) # PathOf(new)} \cup {new}
           /\ job' = IF job = NoJob THEN NoJob ELSE [job EXCEPT !.saved = @ \cup {PathOf(new)}]
           /\ UNCHANGED <<steps, summaries, played>>
    BY <1>8, ReplacedFile
  <2>2. job'.built = job.built /\ (job.built # {} => job'.saved = job.saved \cup {PathOf(new)})
    BY <2>1, NotedSave
  <2>3. \A f : PathOf(f)' = PathOf(f)
    BY <2>1 DEF PathOf, Path, AttemptOf
  <2>4. ASSUME NEW b \in job.built, NEW f \in files', PathOf(f) \in b.paths
        PROVE  f.session = b.summary.session \/ PathOf(f) \in job'.saved
    BY <2>1, <2>2, <2>4 DEF BuildInv
  <2> QED BY <1>2, <2>1, <2>2, <2>3, <2>4 DEF BuildInv
<1> QED BY <1>3, <1>4, <1>5, <1>6, <1>7, <1>8, StepKinds
\* All records of a session carry one crash flag, and only its defuser's has a bomb state: a
\* session is valid if some of its records are.
LEMMA ValidMore ==
  ASSUME SourcesInv, NEW s, NEW part, part \subseteq FilesOf(s), IsValid(part)
  PROVE  IsValid(FilesOf(s))
<1> USE DEF SourcesInv
<1>1. BombsIn(part) = {"good"} /\ \A f \in part : ~f.crash
  BY ValidGroup
<1>2. PICK d \in part : d.bomb = "good"
  BY <1>1 DEF BombsIn
<1>3. d \in files /\ d.session = s /\ d.role = "defuser" /\ d.crash = FALSE
  BY <1>1, <1>2 DEF FilesOf, FilesOfPlayers
<1>4. \A f \in FilesOf(s) : f.bomb # "none" => f = d
  BY <1>3 DEF FilesOf, FilesOfPlayers
<1>5. BombsIn(FilesOf(s)) = {"good"}
  BY <1>2, <1>4 DEF BombsIn
<1>6. ASSUME NEW f \in FilesOf(s), f.crash
      PROVE  FALSE
  <2>1. f \in files /\ f.session = s /\ f.crash = TRUE /\ s \in Sessions
    BY <1>6 DEF FilesOf, FilesOfPlayers
  <2>2. SaysCrash(s, TRUE) /\ SaysCrash(s, FALSE)
    BY <1>3, <2>1 DEF SaysCrash
  <2> QED BY <2>1, <2>2 DEF OneCrash
<1> QED BY <1>5, <1>6, ValidGroup

LEMMA ValidLater ==
  \A s : IsValid(FilesOf(s))' <=> IsValid({f \in files' : f.session = s})
BY DEF FilesOf, IsValid, validities_from_footers, ValidityFrom, BombsIn

\* What a cleanup has judged, but for what is saved since, it keeps judging so.
LEMMA CleaningStep ==
  ASSUME SourcesInv, DirectoryInv, JobShape, CleaningInv, [Next]_vars
  PROVE  CleaningInv'
<1> USE DEF SourcesInv
<1>1. \A f \in files : f.session \in Sessions /\ PathOf(f)' = PathOf(f)
  BY PathsStay DEF PathOf, FilesOfPlayers
<1>2. ASSUME NEW s \in Sessions
      PROVE  RolesOf(AttemptOf(s))' = RolesOf(AttemptOf(s)) /\ \A r : Path(s, r)' = Path(s, r)
  BY PathsStay DEF RolesOf
<1>3. ASSUME files' \subseteq files, job'.saved = job.saved, job'.kind = job.kind,
             \A f \in files' : PathOf(f) \in job'.doomed <=> PathOf(f) \in job.doomed
      PROVE  CleaningInv'
  <2>1. ASSUME NEW f \in files', PathOf(f) \in job.doomed, IsValid(FilesOf(f.session))'
        PROVE  ~Undisturbed(f.session)'
    <3>1. IsValid({g \in files' : g.session = f.session})
      BY <2>1, ValidLater
    <3>2. {g \in files' : g.session = f.session} \subseteq FilesOf(f.session)
      BY <1>3 DEF FilesOf
    <3>3. IsValid(FilesOf(f.session))
      BY <3>1, <3>2, ValidMore
    <3>4. ~Undisturbed(f.session)
      BY <1>3, <2>1, <3>3 DEF CleaningInv
    <3> QED BY <1>1, <1>2, <1>3, <3>4 DEF Undisturbed
  <2>2. \A f \in files' : PathOf(f)' = PathOf(f)
    BY <1>1, <1>3
  <2>3. job'.kind = "cleanup" /\ job'.saved = {} =>
          \A f \in files' : PathOf(f) \in job'.doomed \/ (~f.crash /\ f.bomb \in {"good", "none"})
    BY <1>3 DEF CleaningInv
  <2> QED BY <1>3, <2>1, <2>2, <2>3 DEF CleaningInv
<1>4. CASE Unremarkable
  BY <1>3, <1>4 DEF Unremarkable
<1>5. CASE EndsJob \/ ExecuteMerge
  BY <1>5 DEF EndsJob, ExecuteMerge, NoJob, CleaningInv
<1>6. CASE BuildDb
  BY <1>6 DEF BuildDb, NoJob, CleaningInv
<1>7. ASSUME NEW p \in job.doomed, Unlink(p)
      PROVE  CleaningInv'
  <2>1. files' = files \ FilesAt({p}) /\ job' = [job EXCEPT !.doomed = @ \ {p}]
    BY <1>7 DEF Unlink
  <2>2. /\ job'.saved = job.saved /\ job'.kind = job.kind /\ job'.doomed = job.doomed \ {p}
    BY <2>1 DEF JobShape
  <2>3. \A f \in files' : PathOf(f) # p
    BY <2>1 DEF FilesAt
  <2> QED BY <2>1, <2>2, <2>3, <1>3
<1>8. CASE CleanupOutputs
  <2> DEFINE invalid == {group \in group_by_unique_experiment(files) : ~IsValid(group)}
  <2>1. /\ job'.doomed = PathsOf(UNION invalid)
        /\ UNCHANGED <<files, played>>
    BY <1>8 DEF CleanupOutputs, NoJob, clusterVars
  <2>2. \A f : PathOf(f)' = PathOf(f)
    BY <2>1 DEF PathOf, Path, AttemptOf
  <2>3. ASSUME NEW f \in files
        PROVE  PathOf(f) \in job'.doomed <=> ~IsValid(FilesOf(f.session))
    <3>1. ASSUME PathOf(f) \in job'.doomed
          PROVE  ~IsValid(FilesOf(f.session))
      <4>1. PICK g \in UNION invalid : PathOf(f) = PathOf(g)
        BY <2>1, <3>1 DEF PathsOf
      <4>5. PICK group \in invalid : g \in group
        OBVIOUS
      <4>2. PICK s \in Sessions : group = files \cap FilesOf(s)
        BY DEF group_by_unique_experiment
      <4>3. group = FilesOf(s) /\ g \in files /\ g.session = s
        BY <4>2, <4>5 DEF FilesOf
      <4>4. f = g
        BY <4>1, <4>3 DEF DirectoryInv
      <4> QED BY <4>3, <4>4
    <3>2. ASSUME ~IsValid(FilesOf(f.session))
          PROVE  PathOf(f) \in job'.doomed
      <4>1. files \cap FilesOf(f.session) = FilesOf(f.session) /\ f \in FilesOf(f.session)
        BY DEF FilesOf
      <4>2. FilesOf(f.session) \in group_by_unique_experiment(files)
        BY <4>1, <1>1 DEF group_by_unique_experiment
      <4>3. f \in UNION invalid
        BY <3>2, <4>1, <4>2
      <4> QED BY <2>1, <4>3 DEF PathsOf
    <3> QED BY <3>1, <3>2
  <2> HIDE DEF invalid
  <2>4. \A s : IsValid(FilesOf(s))' <=> IsValid(FilesOf(s))
    BY <2>1, ValidLater DEF FilesOf
  <2>5. ASSUME NEW f \in files, IsValid(FilesOf(f.session))
        PROVE  ~f.crash /\ f.bomb \in {"good", "none"}
    <3>1. f \in FilesOf(f.session)
      BY DEF FilesOf
    <3>2. f.bomb = "none" \/ f.bomb \in BombsIn(FilesOf(f.session))
      BY <3>1 DEF BombsIn
    <3> QED BY <2>5, <3>1, <3>2, ValidGroup
  <2> QED BY <2>1, <2>2, <2>3, <2>4, <2>5 DEF CleaningInv
<1>9. ASSUME NEW r \in Roles, Replace(r)
      PROVE  CleaningInv'
  <2>1. PICK new \in files' :
           /\ new.session = record[r].session /\ new.role = r /\ Saved(new.session, r)'
           /\ files' = {f \in files : PathOf(f) # PathOf(new)} \cup {new}
           /\ job' = IF job = NoJob THEN NoJob ELSE [job EXCEPT !.saved = @ \cup {PathOf(new)}]
           /\ UNCHANGED played
    BY <1>9, ReplacedFile
  <2>2. /\ job'.kind = job.kind /\ job'.doomed = job.doomed
        /\ job.doomed # {} \/ job.kind = "cleanup" => job'.saved = job.saved \cup {PathOf(new)}
    BY <2>1, NotedSave
  <2>3. \A f : PathOf(f)' = PathOf(f)
    BY <2>1 DEF PathOf, Path, AttemptOf
  <2>4. ASSUME NEW f \in files', PathOf(f) \in job.doomed, IsValid(FilesOf(f.session))'
        PROVE  ~Undisturbed(f.session)'
    <3>1. job'.saved = job.saved \cup {PathOf(new)}
      BY <2>2, <2>4
    <3>2. CASE f.session = new.session
      <4>1. Path(new.session, r)' \in job'.saved /\ r \in RolesOf(AttemptOf(new.session))'
        BY <2>1, <2>3, <3>1 DEF PathOf, Saved, IsRoleOf
      <4> QED BY <3>2, <4>1 DEF Undisturbed
    <3>3. CASE f.session # new.session
      <4>1. f \in files
        BY <2>1, <3>3
      <4>2. {g \in files' : g.session = f.session} \subseteq FilesOf(f.session)
        BY <2>1, <3>3 DEF FilesOf
      <4>3. IsValid(FilesOf(f.session))
        BY <2>4, <4>2, ValidLater, ValidMore
      <4>4. ~Undisturbed(f.session)
        BY <2>4, <4>1, <4>3 DEF CleaningInv
      <4> QED BY <1>1, <1>2, <3>1, <4>1, <4>4 DEF Undisturbed
    <3> QED BY <3>2, <3>3
  <2>5. job'.kind = "cleanup" => job'.saved # {}
    BY <2>2
  <2> QED BY <2>2, <2>3, <2>4, <2>5 DEF CleaningInv
<1> QED BY <1>4, <1>5, <1>6, <1>7, <1>8, <1>9, StepKinds

\* Every step keeps the invariants of the ledgers and of the commands.
LEMMA ByPathStep == SourcesInv /\ ByPathInv /\ [Next]_vars => SourcesInv' /\ ByPathInv'
BY SourcesStep, DirectoryStep, SummariesStep, JobStep, BuildStep, CleaningStep DEF ByPathInv
\* The summaries and the steps a merge adds are of the same sessions.
LEMMA MergeAdds ==
  ASSUME SourcesInv, BuildInv, ExecuteMerge, job.saved \cap StepPaths = {}
  PROVE  {s[1] : s \in steps' \ steps} = {sm.session : sm \in summaries' \ summaries}
<1>1. /\ summaries' = summaries \cup {b.summary : b \in job.built}
      /\ steps' = steps \cup {<<f.session, f.role>> : f \in FilesAt(StepPaths)}
      /\ StepPaths \subseteq PathsOf(files)
  BY DEF ExecuteMerge
<1>2. ASSUME NEW s \in steps' \ steps
      PROVE  \E sm \in summaries' \ summaries : sm.session = s[1]
  <2>1. PICK f \in FilesAt(StepPaths) : s = <<f.session, f.role>>
    BY <1>1
  <2>2. PICK b \in job.built : PathOf(f) \in b.paths
    BY DEF FilesAt, StepPaths
  <2>3. f.session = b.summary.session
    BY <2>1, <2>2 DEF BuildInv, FilesAt
  <2>4. b.summary \in summaries' \ summaries
    BY <1>1 DEF BuildInv
  <2> QED BY <2>1, <2>3, <2>4
<1>3. ASSUME NEW sm \in summaries' \ summaries
      PROVE  \E s \in steps' \ steps : s[1] = sm.session
  <2>1. PICK b \in job.built : sm = b.summary
    BY <1>1
  <2>2. /\ Path(sm.session, "defuser") \in b.paths
        /\ <<sm.session, "defuser">> \notin steps
    BY <2>1 DEF BuildInv
  <2>3. PICK f \in files : PathOf(f) = Path(sm.session, "defuser")
    BY <1>1, <2>2 DEF StepPaths, PathsOf
  <2>4. f.role = "defuser" /\ f \in FilesAt(StepPaths)
    BY <2>2, <2>3 DEF PathOf, Path, FilesAt, StepPaths
  <2>5. f.session = sm.session
    BY <2>1, <2>2, <2>3, <2>4 DEF BuildInv, FilesAt
  <2>6. <<sm.session, "defuser">> \in steps' \ steps
    BY <1>1, <2>2, <2>4, <2>5
  <2> QED BY <2>6
<1> QED BY <1>2, <1>3

\* The database has one summary of each session at most, however builds, saves, replaced
\* records and cleanups of the directory alternate; and a merge adds the steps of the
\* sessions it adds a summary of, unless a player saved at a path after its footer was read.
THEOREM DatabaseWhole == Spec => StepsHaveOneSummary
<1>1. SourcesInv /\ ByPathInv /\ [Next]_vars =>
        [/\ OneSummary'
         /\ job.saved \cap StepPaths = {} =>
              {s[1] : s \in steps' \ steps} = {sm.session : sm \in summaries' \ summaries}]_dbVars
  <2> SUFFICES ASSUME SourcesInv, ByPathInv, [Next]_vars, ~UNCHANGED dbVars
               PROVE  /\ OneSummary'
                      /\ job.saved \cap StepPaths = {} =>
                           {s[1] : s \in steps' \ steps} = {sm.session : sm \in summaries' \ summaries}
    OBVIOUS
  <2>1. OneSummary'
    BY ByPathStep DEF ByPathInv, SummariesInv
  <2>2. ExecuteMerge
    BY StepKinds
    DEF Unremarkable, EndsJob, Replace, Unlink, CleanupOutputs, BuildDb, dbVars
  <2> QED BY <2>1, <2>2, MergeAdds DEF ByPathInv
<1>2. Init => SourcesInv /\ ByPathInv
  BY SourcesInit, ByPathInit
<1> QED BY <1>1, <1>2, ByPathStep, PTL DEF Spec, StepsHaveOneSummary

\* A cleanup at work takes no record of a valid session.
LEMMA UnlinkSpares ==
  ASSUME CleaningInv, NEW p \in job.doomed, Unlink(p), NEW s \in Sessions,
         IsValid(FilesOf(s)), Undisturbed(s)
  PROVE  FilesOf(s)' = FilesOf(s)
<1>1. \A f \in FilesOf(s) : PathOf(f) # p
  BY DEF FilesOf, CleaningInv
<1> QED BY <1>1 DEF Unlink, FilesAt, FilesOf

\* Once it is done, no other record hides a valid session.
LEMMA CleaningSettles ==
  ASSUME SourcesInv, CleaningInv, FinishCleanup, job.saved = {}, NEW s \in Sessions, IsValid(FilesOf(s))
  PROVE  (AttemptOf(s) \in LocalDone)'
<1> DEFINE group == FilesOfAttempt(AttemptOf(s))
<1>1. UNCHANGED <<files, played>> /\ \A f \in files : ~f.crash /\ f.bomb \in {"good", "none"}
  BY DEF FinishCleanup, CleaningInv, clusterVars
<1>2. BombsIn(FilesOf(s)) = {"good"}
  BY ValidGroup
<1>3. PICK f \in files : f.session = s /\ f.bomb = "good"
  BY <1>2 DEF BombsIn, FilesOf
<1>4. BombsIn(group) = {"good"}
  BY <1>1, <1>3 DEF BombsIn, FilesOfAttempt
<1>5. IsValid(group)
  BY <1>1, <1>4, ValidGroup DEF FilesOfAttempt
<1>6. FilesOfAttempt(AttemptOf(s))' = group /\ (AttemptOf(s) \in Attempts)'
  BY <1>1, SessionsAreNumbers DEF FilesOfAttempt, AttemptOf, SourcesInv
<1>7. IsValid(FilesOfAttempt(AttemptOf(s)))'
  BY <1>5, <1>6 DEF IsValid, validities_from_footers, BombsIn, ValidityFrom
<1> QED BY <1>6, <1>7 DEF LocalDone

\* cleanup-outputs takes no record of a valid session, unless a later one of its players was
\* saved at its path after the footers were judged; and once it is done, with nothing saved
\* meanwhile, every attempt with a valid session counts as done.
THEOREM CleaningKeepsResults == Spec => CleanupSettles
<1>1. SourcesInv /\ ByPathInv /\ [Next]_vars =>
        [/\ \A p \in job.doomed : Unlink(p) =>
              \A s \in Sessions : IsValid(FilesOf(s)) /\ Undisturbed(s) => FilesOf(s)' = FilesOf(s)
         /\ FinishCleanup /\ job.saved = {} =>
              \A s \in Sessions : IsValid(FilesOf(s)) => AttemptOf(s) \in LocalDone']_job
  <2>1. ASSUME SourcesInv, FinishCleanup, NEW s \in Sessions
        PROVE  AttemptOf(s)' = AttemptOf(s)
    BY <2>1 DEF FinishCleanup, clusterVars, AttemptOf
  <2> QED BY <2>1, UnlinkSpares, CleaningSettles DEF ByPathInv
<1>2. Init => SourcesInv /\ ByPathInv
  BY SourcesInit, ByPathInit
<1> QED BY <1>1, <1>2, ByPathStep, PTL DEF Spec, CleanupSettles
=============================================================================
