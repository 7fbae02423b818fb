---------------------------- MODULE ManualStore ----------------------------
(***************************************************************************)
(* The store of compiled manuals: `gptnt manual compile` downloads the     *)
(* sources of the requirements it is given, resolves them to documents     *)
(* with their provenance, and builds one directory per content-addressed   *)
(* key; `gptnt doctor` and `gptnt run` find the directory of a requirement *)
(* by resolving it again; players load it by its path when a session       *)
(* configures them.  Compiles may overlap, sources may be edited, and      *)
(* nothing is locked.                                                      *)
(*                                                                         *)
(* A text is the version of the file it was read from; a page is the       *)
(* document it shows, its number, and the versions it was rendered from.   *)
(***************************************************************************)
EXTENDS Naturals, FiniteSets, SequencesExt

CONSTANTS
    Compilers,      \* the compile commands, each run at most once
    Doctor,         \* the check before a run, which passes the paths to players
    Asked,          \* Asked[c]: the requirements c is called with, in order
    Profile,        \* Profile[r]: the documents of requirement r, in order
    RuleSeed,       \* RuleSeed[r]: its rule seed
    Entry,          \* Entry[d]: the source, file and pages of document d; of a local one
                    \* also the files in its directory and below, and the file of the tree,
                    \* or "none", that the server has in the place of each other reference
    LocalFiles,     \* the files of local documents and what they refer to
    LocalVersions,  \* the contents such a file may have
    References,     \* References[f][v]: local files that version v of f refers to
    Rooted,         \* Rooted[f][v]: of these, the ones named by a website-absolute path, or
                    \* one that leaves the directory and comes back
    Tree,           \* the files of the pinned commit
    TreeReferences, \* TreeReferences[f]: the files of the tree that f refers to
    Merger,         \* the entry point of the Manual Merger in the tree
    OfficialPages,  \* number of pages of the official manual
    Original,       \* the version the local files start with
    MaxTroubles,    \* bound on failures and kills
    MaxEdits        \* bound on edits of sources and damage to artifacts

VARIABLES
    local,       \* version of each local file, or "missing"
    catalog,     \* whether raw.json is cached
    repository,  \* the clone: "absent", "cloning", "broken", "cloned", "ready"
    restored,    \* files of the tree in the clone's working tree
    official,    \* whether the official manual is cached
    artifacts,   \* the directories under artifacts/, by key
    proc,        \* what each command is doing
    manual,      \* the pages a player has loaded, or <<>>
    excused,     \* <<c, k>>: k was taken away since c saw it, by a rival or from outside
    troubles, edits

vars == <<local, catalog, repository, restored, official, artifacts, proc, manual,
          excused, troubles, edits>>
sources == <<local, catalog, repository, restored, official>>

Processes == Compilers \union {Doctor}

ASSUME CommandsAssumption ==
    /\ Doctor \notin Compilers
    /\ \A c \in Processes : Asked[c] \in Seq(DOMAIN Profile) /\ Asked[c] # <<>>
ASSUME DocumentsAssumption ==
    /\ \A r \in DOMAIN Profile : Profile[r] \in Seq(DOMAIN Entry)
    /\ \A d \in DOMAIN Entry :
          /\ Entry[d].source \in {"official", "ktanecontent", "local"}
          /\ Entry[d].source # "official" => Entry[d].pages \in Nat
          /\ Entry[d].source = "ktanecontent" => Entry[d].path \in Entry[d].files
          /\ Entry[d].source = "local" =>
                /\ Entry[d].path \in LocalFiles /\ Entry[d].beside \subseteq LocalFiles
                /\ Entry[d].instead \in [LocalFiles -> Tree \union {"none"}]
ASSUME TreeAssumption == IsFiniteSet(Tree)

\* Both functions; where they meet, the first.
f ++ g == [x \in DOMAIN f \union DOMAIN g |-> IF x \in DOMAIN f THEN f[x] ELSE g[x]]

---------------------------------------------------------------------------
(* Documents and what they depend on *)

IsOfficial(d) == Entry[d].source = "official"
IsLocal(d) == Entry[d].source = "local"
IsPinned(d) == Entry[d].source = "ktanecontent"

Documents(c) == UNION {ToSet(Profile[r]) : r \in ToSet(Asked[c])}

\* The local files a document reaches through references, itself included: the least set
\* with the references of its files, as far as they are there.
LocalDependencies(first) ==
    LET Closed == {S \in SUBSET LocalFiles :
            /\ first \in S
            /\ \A f \in S : local[f] # "missing" =>
                              LocalFiles \intersect References[f][local[f]] \subseteq S}
    IN  {g \in LocalFiles : \A S \in Closed : g \in S}

\* The files of the pinned tree that one of them reaches, itself included.
TreeDependencies(f) ==
    LET Found[n \in 0..Cardinality(Tree)] ==
            IF n = 0 THEN {f}
            ELSE Found[n - 1] \union UNION {TreeReferences[g] : g \in Found[n - 1]}
    IN  Found[Cardinality(Tree)]

Read(files) == [f \in files |-> local[f]]

\* What version v of f refers to and the render server has for document d: files in its
\* directory, named relative to it.
Serves(d, f, v) == {g \in References[f][v] \ Rooted[f][v] : g \in Entry[d].beside}

\* The local files the browser gets for d when the files it asks for have these texts.
Requested(d, texts) ==
    LET Closed == {S \in SUBSET LocalFiles :
            /\ Entry[d].path \in S
            /\ \A f \in S \intersect DOMAIN texts :
                  texts[f] # "missing" => Serves(d, f, texts[f]) \subseteq S}
    IN  {g \in LocalFiles : \A S \in Closed : g \in S}

\* The references it asks the server for at the root of the tree or nowhere, and the files
\* of the tree it gets for them.
Astray(d, texts) ==
    UNION {References[f][texts[f]] \ Serves(d, f, texts[f]) :
              f \in {h \in Requested(d, texts) \intersect DOMAIN texts : texts[h] # "missing"}}
FromTree(d, texts) ==
    UNION {TreeDependencies(Entry[d].instead[g]) :
              g \in {h \in Astray(d, texts) : Entry[d].instead[h] # "none"}}

\* Whether the resolver finds the document and everything it refers to.
CanResolve(d) ==
    CASE IsOfficial(d) -> official
      [] IsPinned(d) -> catalog /\ Entry[d].files \subseteq restored
      [] IsLocal(d) -> \A f \in LocalDependencies(Entry[d].path) : local[f] # "missing"

\* The rule seed is part of a page only where the module's rules support it.
RuleSeedFragment(d, seed) == IF Entry[d].seeded /\ seed # 1 THEN seed ELSE 0

\* The identity of one resolved input: of local ones the document's digest now
\* and the digests taken when it was resolved.
InputIdentity(d, seed, inputs) ==
    [doc |-> d, seed |-> RuleSeedFragment(d, seed),
     sha |-> IF IsLocal(d) THEN local[Entry[d].path] ELSE "pinned",
     inputs |-> IF IsLocal(d) THEN inputs[d] ELSE <<>>]

Key(r, inputs) ==
    [seed |-> RuleSeed[r],
     inputs |-> [i \in DOMAIN Profile[r] |-> InputIdentity(Profile[r][i], RuleSeed[r], inputs)]]

---------------------------------------------------------------------------
(* Pages *)

HtmlPages(d, seed, text, assets, stray) ==
    [n \in 1..Entry[d].pages |-> [doc |-> d, nr |-> n, seed |-> RuleSeedFragment(d, seed),
                           text |-> text, assets |-> assets, stray |-> stray]]

OfficialRange(d) ==
    [n \in 1..(Entry[d].last - Entry[d].first + 1) |->
        [doc |-> d, nr |-> Entry[d].first + n - 1, seed |-> 0, text |-> "pinned"]]

\* Variant: positions in the printed PDF are counted in documents, not in pages.
CombineByDocuments(profile, printed) ==
    LET html == {i \in DOMAIN profile : ~IsOfficial(profile[i])}
        whole == FlattenSeq([i \in DOMAIN profile |-> IF i \in html THEN printed[i] ELSE <<>>])
        Start(i) == Cardinality({j \in html : j < i})
    IN  FlattenSeq([i \in DOMAIN profile |->
            IF i \in html
            THEN SubSeq(whole, Start(i) + 1, Start(i) + Len(printed[i]))
            ELSE OfficialRange(profile[i])])

\* html_page: where the pages of each document end in the printed PDF.
PageEnds(pages) ==
    LET html_page[i \in 0..Len(pages)] ==
            IF i = 0 THEN 0 ELSE html_page[i - 1] + Len(pages[i])
    IN  html_page

\* The browser prints all HTML documents into one PDF, which is then taken apart
\* again by page counts, with the official ranges inserted in profile order.
CombineDocuments(profile, printed) ==
    LET pages == [i \in DOMAIN profile |-> IF IsOfficial(profile[i]) THEN <<>> ELSE printed[i]]
        ends == PageEnds(pages)
    IN  FlattenSeq([i \in DOMAIN profile |->
            IF IsOfficial(profile[i]) THEN OfficialRange(profile[i])
            ELSE SubSeq(FlattenSeq(pages), ends[i - 1] + 1, ends[i])])

\* What a directory under key k has to show.
NamedBy(k) ==
    FlattenSeq([i \in DOMAIN k.inputs |->
        LET e == k.inputs[i] IN
        IF IsOfficial(e.doc) THEN OfficialRange(e.doc)
        ELSE HtmlPages(e.doc, k.seed, e.sha,
                IF IsLocal(e.doc)
                THEN [f \in Requested(e.doc, e.inputs) \ {Entry[e.doc].path} |-> e.inputs[f]]
                ELSE [f \in TreeDependencies(Entry[e.doc].path) |-> "pinned"],
                [f \in {} |-> "pinned"])])

\* None of its local documents takes anything from the tree, which its key does not name.
Confined(k) ==
    \A i \in DOMAIN k.inputs :
        IsLocal(k.inputs[i].doc) => FromTree(k.inputs[i].doc, k.inputs[i].inputs) = {}

---------------------------------------------------------------------------
(* Directories and commands *)

\* ManualArtifact.load with the hashes of every file: all there, nothing else.
Loads(k) == k \in DOMAIN artifacts /\ artifacts[k].whole

\* A command before it starts; one that has ended keeps nothing but what it saw.
Idle == [at |-> "start", goal |-> "documents", todo |-> <<>>, pending |-> {}, seen |-> {},
         inputs |-> <<>>, key |-> <<>>, taken |-> <<>>, pages |-> <<>>, calm |-> TRUE,
         ready |-> {}]

At(c, step) == proc[c].at = step
GoTo(c, step) == proc' = [proc EXCEPT ![c].at = step]
Fail(c) == proc' = [proc EXCEPT ![c] = [Idle EXCEPT !.at = "failed", !.ready = proc[c].ready]]
Ended(c) == proc[c].at \in {"done", "failed"}
UnderWay(c) == ~Ended(c) /\ proc[c].at # "start"

Requirement(c) == Head(proc[c].todo)

\* dict.fromkeys: every requirement once, in the order of its first mention.
Distinct(s) ==
    LET Upto[n \in 0..Len(s)] ==
            IF n = 0 THEN <<>>
            ELSE IF \E i \in 1..(n - 1) : s[i] = s[n] THEN Upto[n - 1]
            ELSE Append(Upto[n - 1], s[n])
    IN  Upto[Len(s)]

Init ==
    /\ local = [f \in LocalFiles |-> Original]
    /\ catalog = FALSE /\ official = FALSE
    /\ repository = "absent" /\ restored = {}
    /\ artifacts = <<>>
    /\ proc = [c \in Processes |-> Idle]
    /\ manual = <<>>
    /\ excused = {}
    /\ troubles = 0 /\ edits = 0

---------------------------------------------------------------------------
(* Download *)

\* The plan is drawn up from the profiles: local documents have to exist.  The
\* catalog is downloaded once, into a temporary file that replaces it.
Plan(c) ==
    LET pinned == \E d \in Documents(c) : IsPinned(d) IN
    /\ c \in Compilers /\ At(c, "start")
    /\ IF \A d \in Documents(c) : IsLocal(d) => local[Entry[d].path] # "missing"
       THEN GoTo(c, IF pinned THEN "repository" ELSE "official")
            /\ catalog' = (catalog \/ pinned)
       ELSE Fail(c) /\ UNCHANGED catalog
    /\ UNCHANGED <<local, repository, restored, official, artifacts, manual, excused,
                   troubles, edits>>

\* prepare_repository: a .git directory of whatever state means no clone.
LookForClone(c) ==
    /\ At(c, "repository")
    /\ GoTo(c, IF repository = "absent" THEN "reset" ELSE "commit")
    /\ UNCHANGED <<sources, artifacts, manual, excused, troubles, edits>>

\* _clone first removes what is at the destination, whoever put it there since.
\* A clone of another command under way fails with it, and its retries find this one.
\* What commands had restored is gone, that of c for its documents included.
ResetAndClone(c) ==
    /\ At(c, "reset")
    /\ repository' = "cloning" /\ restored' = {}
    /\ proc' = [d \in Processes |->
                   IF d = c THEN [proc[d] EXCEPT !.at = "cloning",
                                                 !.calm = @ /\ proc[d].goal = "documents"]
                   ELSE IF At(d, "cloning") THEN [Idle EXCEPT !.at = "failed"]
                   ELSE [proc[d] EXCEPT !.calm = ~UnderWay(d)]]
    /\ UNCHANGED <<local, catalog, official, artifacts, manual, excused, troubles, edits>>

EndClone(c) ==
    /\ At(c, "cloning")
    /\ repository' = "cloned"
    /\ GoTo(c, "commit")
    /\ UNCHANGED <<local, catalog, restored, official, artifacts, manual, excused, troubles,
                   edits>>

\* The commit is there or is fetched; from what a killed clone left the fetch may fail.
FetchCommit(c) ==
    /\ At(c, "commit")
    /\ \/ /\ repository # "absent"
          /\ repository' = "ready"
          /\ proc' = [proc EXCEPT ![c].at = "restore", ![c].seen = {},
                ![c].pending = IF proc[c].goal = "merger" THEN {Merger}
                               ELSE UNION {Entry[d].files : d \in {e \in Documents(c) : IsPinned(e)}}]
       \/ /\ repository \in {"absent", "cloning", "broken"}
          /\ Fail(c) /\ UNCHANGED repository
    /\ UNCHANGED <<local, catalog, restored, official, artifacts, manual, excused, troubles,
                   edits>>

\* One layer of dependencies is restored, and the references found in it are the
\* next.  After those of the documents comes the official manual, after those of the
\* merger the builds.
RestoreBatch(c) ==
    LET batch == proc[c].pending
        all == proc[c].seen \union batch
        discovered == (UNION {TreeReferences[f] : f \in batch}) \ all
    IN  /\ At(c, "restore")
        /\ IF repository # "ready" THEN Fail(c) /\ UNCHANGED restored
           ELSE /\ restored' = restored \union batch
                /\ proc' = [proc EXCEPT ![c] =
                      IF discovered # {} THEN [@ EXCEPT !.seen = all, !.pending = discovered]
                      ELSE IF @.goal = "documents"
                      THEN [@ EXCEPT !.at = "official", !.seen = {}, !.pending = {}]
                      ELSE [@ EXCEPT !.at = "identify", !.seen = {}, !.pending = {},
                                     !.todo = Distinct(Asked[c])]]
        /\ UNCHANGED <<local, catalog, repository, official, artifacts, manual, excused,
                       troubles, edits>>

DownloadOfficial(c) ==
    /\ At(c, "official")
    /\ official' = (official \/ \E d \in Documents(c) : IsOfficial(d))
    /\ proc' = [proc EXCEPT ![c].at = "resolve", ![c].todo = Distinct(Asked[c])]
    /\ UNCHANGED <<local, catalog, repository, restored, artifacts, manual, excused, troubles,
                   edits>>

---------------------------------------------------------------------------
(* Resolution *)

StartCheck ==
    /\ At(Doctor, "start")
    /\ proc' = [proc EXCEPT ![Doctor].at = "resolve", ![Doctor].todo = Distinct(Asked[Doctor])]
    /\ UNCHANGED <<sources, artifacts, manual, excused, troubles, edits>>

\* The dependencies of every document are followed, and must be there.
FollowReferences(c) ==
    /\ At(c, "resolve")
    /\ LET here == ToSet(Profile[Requirement(c)]) IN
       IF \A d \in here : CanResolve(d)
       THEN proc' = [proc EXCEPT ![c].at = "hash",
               ![c].taken = [d \in {e \in here : IsLocal(e)} |-> LocalDependencies(Entry[d].path)]]
       ELSE Fail(c)
    /\ UNCHANGED <<sources, artifacts, manual, excused, troubles, edits>>

\* Then they are hashed.  A compile goes on to the next requirement and, with all
\* resolved, to the merger if it needs one; the check looks one up at a time.
HashInputs(c) ==
    LET found == proc[c].taken
        inputs == [d \in DOMAIN found |-> Read(found[d])]
        rest == Tail(proc[c].todo)
        known == [x \in {Requirement(c)} |-> inputs] ++ proc[c].inputs
        needed == \E d \in Documents(c) : ~IsOfficial(d)
    IN  /\ At(c, "hash")
        /\ IF \E d \in DOMAIN found : \E f \in found[d] : local[f] = "missing" THEN Fail(c)
           ELSE proc' = [proc EXCEPT ![c] =
             LET hashed == [@ EXCEPT !.taken = <<>>, !.inputs = known] IN
             IF c = Doctor THEN [hashed EXCEPT !.at = "identify"]
             ELSE IF rest # <<>> THEN [hashed EXCEPT !.at = "resolve", !.todo = rest]
             ELSE IF needed THEN [hashed EXCEPT !.at = "repository", !.goal = "merger"]
             ELSE [hashed EXCEPT !.at = "identify", !.todo = Distinct(Asked[c])]]
        /\ UNCHANGED <<sources, artifacts, manual, excused, troubles, edits>>

\* input_identity reads the documents once more.
Identify(c) ==
    LET r == Requirement(c) IN
    /\ At(c, "identify")
    /\ IF \A d \in ToSet(Profile[r]) : CASE IsLocal(d) -> local[Entry[d].path] # "missing"
                                         [] IsPinned(d) -> Entry[d].files \subseteq restored
                                         [] OTHER -> TRUE
       THEN proc' = [proc EXCEPT ![c].at = "look", ![c].key = Key(r, proc[c].inputs[r])]
       ELSE Fail(c)
    /\ UNCHANGED <<sources, artifacts, manual, excused, troubles, edits>>

---------------------------------------------------------------------------
(* Loading and building *)

\* The requirement at hand is ready under its key; on to the next one.
Finish(c) ==
    LET k == proc[c].key
        rest == Tail(proc[c].todo)
        seen == IF c = Doctor THEN [x \in {k} |-> artifacts[k].pages] ++ proc[c].pages ELSE <<>>
        ready == proc[c].ready \union {k}
    IN  /\ proc' = [proc EXCEPT ![c] =
               IF rest = <<>> THEN [Idle EXCEPT !.at = "done", !.ready = ready, !.pages = seen]
               ELSE [@ EXCEPT !.at = IF c = Doctor THEN "resolve" ELSE "identify",
                              !.todo = rest, !.ready = ready, !.pages = seen]]
        /\ excused' = excused \ {<<c, k>>}

\* Variant: a compile builds whatever is there.
LookAndBuild(c) ==
    /\ At(c, "look")
    /\ IF c = Doctor /\ Loads(proc[c].key) THEN Finish(c)
       ELSE /\ IF c = Doctor THEN Fail(c) ELSE GoTo(c, "remove")
            /\ UNCHANGED excused
    /\ UNCHANGED <<sources, artifacts, manual, troubles, edits>>

\* A directory that loads is used as it is; the check reports one that does not.
Look(c) ==
    /\ At(c, "look")
    /\ IF Loads(proc[c].key) THEN Finish(c)
       ELSE /\ IF c = Doctor THEN Fail(c) ELSE GoTo(c, "remove")
            /\ UNCHANGED excused
    /\ UNCHANGED <<sources, artifacts, manual, troubles, edits>>

\* _remove_incomplete takes whatever is at the path by now, file by file: the
\* directory of a rival that was published since c looked goes as well.
RemoveIncomplete(c) ==
    LET k == proc[c].key IN
    /\ At(c, "remove")
    /\ IF k \in DOMAIN artifacts
       THEN /\ artifacts' = [artifacts EXCEPT ![k].whole = FALSE]
            /\ excused' = IF Loads(k) /\ c \in artifacts[k].rivals
                          THEN excused \union (Processes \X {k}) ELSE excused
            /\ GoTo(c, "removing")
       ELSE UNCHANGED <<artifacts, excused>> /\ GoTo(c, "load pages")
    /\ UNCHANGED <<sources, manual, troubles, edits>>

\* rmtree ends, or finds that somebody else has been at it.
RemoveDirectory(c) ==
    LET k == proc[c].key IN
    /\ At(c, "removing")
    /\ IF k \in DOMAIN artifacts /\ ~artifacts[k].whole
       THEN artifacts' = Restrict(artifacts, DOMAIN artifacts \ {k})
            /\ GoTo(c, "load pages")
       ELSE UNCHANGED artifacts /\ Fail(c)
    /\ UNCHANGED <<sources, manual, excused, troubles, edits>>

\* The merger loads each document into a frame, where it is flattened: its text is
\* taken now.  The merger and the documents have to be there.
FlattenFrames(c) ==
    LET r == Requirement(c)
        html == {d \in ToSet(Profile[r]) : ~IsOfficial(d)}
    IN  /\ At(c, "load pages")
        /\ IF (html # {} => Merger \in restored)
              /\ \A d \in html : IF IsLocal(d) THEN local[Entry[d].path] # "missing"
                                ELSE Entry[d].path \in restored
           THEN proc' = [proc EXCEPT ![c].at = "print",
                   ![c].taken = [d \in html |-> IF IsLocal(d) THEN local[Entry[d].path] ELSE "pinned"]]
           ELSE Fail(c)
        /\ UNCHANGED <<sources, artifacts, manual, excused, troubles, edits>>

\* The flattened documents are printed with their assets as they are now, as far as the
\* server finds them; then the pages are assembled in profile order.  Only an image that is
\* not found ends the build, as one of the failures of Break.
PrintPages(c) ==
    LET r == Requirement(c)
        InTree(files) == [f \in files |-> IF f \in restored THEN "pinned" ELSE "missing"]
        now == Read(LocalFiles)
        Assets(d) == IF IsLocal(d) THEN Read(Requested(d, now) \ {Entry[d].path})
                     ELSE InTree(TreeDependencies(Entry[d].path))
        Stray(d) == InTree(IF IsLocal(d) THEN FromTree(d, now) ELSE {})
        printed == [i \in {j \in DOMAIN Profile[r] : ~IsOfficial(Profile[r][j])} |->
                       HtmlPages(Profile[r][i], RuleSeed[r], proc[c].taken[Profile[r][i]],
                                 Assets(Profile[r][i]), Stray(Profile[r][i]))]
    IN  /\ At(c, "print")
        /\ IF \A d \in ToSet(Profile[r]) : IsOfficial(d) => Entry[d].last <= OfficialPages
           THEN proc' = [proc EXCEPT ![c].at = "publish", ![c].taken = <<>>,
                                     ![c].pages = CombineDocuments(Profile[r], printed)]
           ELSE Fail(c)
        /\ UNCHANGED <<sources, artifacts, manual, excused, troubles, edits>>

\* rename: onto a directory that is there it fails, and the error is suppressed.
Publish(c) ==
    /\ At(c, "publish")
    /\ artifacts' = artifacts ++
           [k \in {proc[c].key} |-> [whole |-> TRUE, pages |-> proc[c].pages, calm |-> proc[c].calm,
                                     rivals |-> {d \in Compilers \ {c} : UnderWay(d)}]]
    /\ GoTo(c, "load")
    /\ UNCHANGED <<sources, manual, excused, troubles, edits>>

\* Variant: what was built is taken to be there.
FinishCompiled(c) ==
    /\ At(c, "load")
    /\ IF proc[c].key \in DOMAIN artifacts THEN Finish(c) ELSE Fail(c) /\ UNCHANGED excused
    /\ UNCHANGED <<sources, artifacts, manual, troubles, edits>>

\* Whatever is there now has to load.
LoadCompiled(c) ==
    /\ At(c, "load")
    /\ IF Loads(proc[c].key) THEN Finish(c) ELSE Fail(c) /\ UNCHANGED excused
    /\ UNCHANGED <<sources, artifacts, manual, troubles, edits>>

---------------------------------------------------------------------------
(* Players, failures, edits *)

\* A session configures a player, which loads the directory whose path the run got
\* from the check.  A directory that does not load ends the configuration.
PlayerLoads(k) ==
    /\ At(Doctor, "done") /\ manual = <<>>
    /\ k \in proc[Doctor].ready
    /\ manual' = <<k, IF Loads(k) THEN artifacts[k].pages ELSE <<>>>>
    /\ UNCHANGED <<sources, artifacts, proc, excused, troubles, edits>>

\* A download, git, the browser or the disk fails, an image that the manual shows is not
\* there, or the command is killed.  A clone that fails is removed by git; killed, it stays
\* as it is.
Break(c) ==
    /\ UnderWay(c) /\ troubles < MaxTroubles
    /\ Fail(c)
    /\ repository' \in IF At(c, "cloning") THEN {"absent", "broken"} ELSE {repository}
    /\ troubles' = troubles + 1
    /\ UNCHANGED <<local, catalog, restored, official, artifacts, manual, excused, edits>>

\* The author of a local document saves, adds or deletes a file.
Edit(f) ==
    /\ edits < MaxEdits
    /\ \E v \in LocalVersions \ {local[f]} : local' = [local EXCEPT ![f] = v]
    /\ proc' = [c \in Processes |->
                   IF At(c, "hash") \/ proc[c].inputs # <<>> THEN [proc[c] EXCEPT !.calm = FALSE]
                   ELSE proc[c]]
    /\ edits' = edits + 1
    /\ UNCHANGED <<catalog, repository, restored, official, artifacts, manual, excused,
                   troubles>>

\* A file of a compiled manual is changed, lost or added.
Damage(k) ==
    /\ edits < MaxEdits /\ Loads(k)
    /\ artifacts' = [artifacts EXCEPT ![k].whole = FALSE]
    /\ excused' = excused \union (Processes \X {k})
    /\ edits' = edits + 1
    /\ UNCHANGED <<sources, proc, manual, troubles>>

Next ==
    \/ \E c \in Compilers :
          \/ Plan(c) \/ LookForClone(c) \/ ResetAndClone(c) \/ EndClone(c) \/ FetchCommit(c)
          \/ RestoreBatch(c) \/ DownloadOfficial(c)
          \/ RemoveIncomplete(c) \/ RemoveDirectory(c) \/ FlattenFrames(c) \/ PrintPages(c)
          \/ Publish(c) \/ LoadCompiled(c) \/ Break(c)
    \/ \E c \in Processes : FollowReferences(c) \/ HashInputs(c) \/ Identify(c) \/ Look(c)
    \/ StartCheck
    \/ \E k \in DOMAIN artifacts : PlayerLoads(k) \/ Damage(k)
    \/ \E f \in LocalFiles : Edit(f)

Spec == Init /\ [][Next]_vars

---------------------------------------------------------------------------
(* Properties *)

\* A key is all a later compile, check or player goes by, so a directory that loads
\* shows the pages its key names: those documents, in that order, for that seed,
\* rendered from the very contents whose digests are in the key, without those a document
\* names in a way the render server does not follow.  Exempt are a build during which a
\* source was edited or the clone was reset, as the digests are taken before and the result
\* stays under the key, and documents for which the server finds a file of the tree where
\* the key has the digest of a local one.
KeyTellsContent ==
    \A k \in DOMAIN artifacts :
        Loads(k) /\ artifacts[k].calm => artifacts[k].pages = NamedBy(k) \/ ~Confined(k)

\* A compile or check that saw a requirement ready was right, and it stays so: its
\* directory is there until somebody damages it or a compile that was under way
\* when it was published, and had looked before, removes it.
SeenReadyIsReady ==
    \A c \in Processes : \A k \in proc[c].ready : Loads(k) \/ <<c, k>> \in excused

\* The manual a player reads is the one that was checked before the run started,
\* page by page, although it is loaded by path at any later time.
PlayersGetWhatWasChecked ==
    [][manual' # manual =>
          LET k == manual'[1] IN
          \/ manual'[2] = proc[Doctor].pages[k]
          \/ <<Doctor, k>> \in excused]_vars
=============================================================================
