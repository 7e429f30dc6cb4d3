----------------------------- MODULE BuildAssembly -----------------------------
(***************************************************************************)
(* How a build comes to be (publish/build.py, cli.py and the data job of   *)
(* .github/workflows/publish.yml): staged with a provisional manifest, so  *)
(* that the site can be built from it, finalized once the site is counted, *)
(* packaged, published and deployed.  Each command is a process of its own *)
(* and any step may be the last one of its session.                        *)
(*                                                                         *)
(* Publishing is one step here: module Publication has its inside.         *)
(***************************************************************************)
EXTENDS Integers, FiniteSets, FiniteSetsExt

CONSTANTS
    Versions,       \* what the congress store may hold, one after the other
    Joined,         \* the versions whose rows were joined to members
    InstSources,    \* what may hold the institutional data
    External,       \* those that are an accepted snapshot, not the store
    Verdict,        \* what the gates say of each: see Verdicts
    Expected,       \* whether the institutional module is an expected one
    MaxBuild, Faults, Hands,    \* bounds
    Torn, None

Verdicts == {"served", "withheld", "refused", "empty"}

ASSUME BuildAssemblyAssumption ==
    /\ Versions \subseteq Nat \ {0} /\ Joined \subseteq Versions
    /\ External \subseteq InstSources /\ Verdict \in [InstSources -> Verdicts]
    /\ Expected \in BOOLEAN /\ MaxBuild \in Nat \ {0}
    /\ Faults \in Nat /\ Hands \in Nat

Ids == 1..MaxBuild

(* An institutional database: its source, and whether the identifiers that *)
(* are withheld are replaced in it.                                        *)
File == [of : InstSources, redacted : BOOLEAN]

(* A signals lifecycle: the build it continues, and whether it may begin.  *)
Lifecycle == [prior : Ids \cup {None}, declared : BOOLEAN]

ASSUME NoneAssumption ==
    None \notin InstSources \cup File \cup Lifecycle \cup {Torn}

VARIABLES
    source,     \* the congress store's version, whether its SEC list was
                \* redacted by an earlier release, the institutional source
    repo,       \* populus-data: the build latest.json names, and builds/
    staging,    \* .staging/<build_id>
    work,       \* the workspace: dashboard/dist and the site artifact
    run,        \* the session
    site,       \* the artifact that was deployed last
    notice,     \* what publish last said of the institutional module
    hosted,     \* sessions start from a clean checkout
    left,       \* the faults and manual interventions still to come
    calm        \* TRUE once nothing of that kind happens any more

vars == <<source, repo, staging, work, run, site, notice, hosted, left, calm>>

Documents == {"stats", "feed", "source", "signals", "manifest"}

NoFiles == [d \in Documents |-> None]
NoDir == [db |-> None, agg |-> None, serving |-> None, files |-> NoFiles,
          derived |-> None, state |-> None, journal |-> None, gate |-> None]
NoWork == [dist |-> None, artifact |-> None]
Idle == [pc |-> "idle", id |-> None, fresh |-> FALSE, base |-> None,
         prior |-> None, declared |-> FALSE, count |-> None]

Walk(files) == {<<d, files[d]>> : d \in {d \in Documents : files[d] # None}}

Stats(of, count) == [of |-> of, count |-> count]

(* A build that was published before signals were.                         *)
Legacy ==
    LET v == Min(Versions)
        files == [NoFiles EXCEPT !["stats"] = Stats(v, None), !["feed"] = v]
        db == [of |-> v, sanitized |-> TRUE, opaque |-> FALSE, filed |-> None]
    IN [manifest |-> [entries |-> Walk(files), modules |-> {"congress"},
                      db |-> db, agg |-> None, serving |-> None,
                      previous |-> None],
        files |-> files, db |-> db, agg |-> None, serving |-> None]

NoRepo == [latest |-> None, builds |-> [b \in Ids |-> None]]

AssemblyInit ==
    /\ source \in [congress : {Min(Versions)}, opaque : {FALSE},
                   inst : InstSources]
    /\ repo \in {NoRepo, [NoRepo EXCEPT !.latest = 1, !.builds[1] = Legacy]}
    /\ staging = [b \in Ids |-> None]
    /\ work = NoWork /\ run = Idle /\ site = None /\ notice = None
    /\ hosted \in BOOLEAN /\ calm = FALSE
    /\ left = [faults |-> Faults, hands |-> Hands]

At(pc) == run.pc = pc
Goto(pc) == run' = [run EXCEPT !.pc = pc]
Fail == run' = Idle /\ UNCHANGED <<repo, staging, work, site, notice>>

Dir == staging[run.id]
PutDir(dir) == staging' = [staging EXCEPT ![run.id] = dir]

Given == UNCHANGED <<source, hosted, left, calm>>

(***************************************************************************)
(* Phase 1: stage-build.                                                   *)
(***************************************************************************)
Whole(j) == j \notin {None, Torn}

(* Staged with a journal, and without a release.                           *)
Candidates == {b \in Ids : /\ staging[b] # None /\ staging[b].journal # None
                           /\ repo.builds[b] = None}

NextBuildId ==
    1 + Max({0} \cup {b \in Ids : staging[b] # None \/ repo.builds[b] # None})

(* seed-corpus: a hosted session's store is the published one, grown.      *)
SeededFrom(b) == b # None /\ repo.builds[b].db.opaque

(* A session starts; its operator may have declared a new lifecycle.       *)
Begin(declared) ==
    /\ At("idle") /\ NextBuildId <= MaxBuild
    /\ ~calm => NextBuildId < MaxBuild
    /\ staging' = IF hosted THEN [b \in Ids |-> None] ELSE staging
    /\ work' = NoWork
    /\ run' = [Idle EXCEPT !.pc = "stage", !.base = repo.latest,
                           !.declared = declared]
    /\ source' = IF hosted THEN [source EXCEPT !.opaque = SeededFrom(repo.latest)]
                 ELSE source
    /\ UNCHANGED <<repo, site, notice, hosted, left, calm>>

(* A staged build with a valid journal is published as it is, and nothing  *)
(* of it is assembled again; its stage state is marked as not fresh.       *)
Preserve ==
    /\ At("stage") /\ Candidates # {} /\ Whole(staging[Max(Candidates)].journal)
    /\ run' = [run EXCEPT !.pc = "publish", !.id = Max(Candidates)]
    /\ staging' = [staging EXCEPT ![Max(Candidates)].state = None]
    /\ UNCHANGED <<repo, work, site, notice>> /\ Given

(* Otherwise an id is taken, that of an invalid journal first, and the     *)
(* store is copied.                                                        *)
TakeSnapshot ==
    /\ At("stage")
    /\ Candidates # {} => ~Whole(staging[Max(Candidates)].journal)
    /\ LET b == IF Candidates # {} THEN Max(Candidates) ELSE NextBuildId IN
       /\ run' = [run EXCEPT !.pc = "derive", !.id = b]
       /\ staging' = [staging EXCEPT ![b] =
             [NoDir EXCEPT !.db = [of |-> source.congress, sanitized |-> FALSE,
                                   opaque |-> source.opaque, filed |-> None]]]
    /\ UNCHANGED <<repo, work, site, notice>> /\ Given

Present(i) == Verdict[i] # "empty"

(* An institutional database, with every key of its source.                *)
Derived(i) == [of |-> i, redacted |-> FALSE]

(* The withheld identifiers are replaced in every column of it.            *)
Redacted(file) == [file EXCEPT !.redacted = TRUE]

(* inst_source.json: only a snapshot has an identity to publish.           *)
Provenance(i) == IF i \in External THEN i ELSE None

(* _derive_inst_module: the registry gate raises; below the coverage gate  *)
(* nothing but the reason comes back; otherwise the digests of both        *)
(* databases, taken after both were redacted.                              *)
DeriveInst(i) ==
    [agg |-> IF Verdict[i] = "served" THEN Redacted(Derived(i)) ELSE None,
     serving |-> IF Verdict[i] = "served" THEN Redacted(Derived(i)) ELSE None,
     withheld |-> IF Verdict[i] = "withheld" THEN i ELSE None,
     verdict |-> CASE Verdict[i] = "served"   -> "included"
                   [] Verdict[i] = "withheld" -> "withheld"
                   [] OTHER                   -> "absent"]

(* The aggregate of a withheld module stays behind in assets/.             *)
Derive ==
    /\ At("derive")
    /\ LET i == source.inst
           d == DeriveInst(i)
       IN \/ /\ Verdict[i] = "refused" /\ Fail
          \/ /\ Verdict[i] # "refused"
             /\ Goto("document")
             /\ PutDir([Dir EXCEPT
                   !.agg = IF ~Present(i) THEN None
                           ELSE IF d.agg # None THEN d.agg ELSE Derived(i),
                   !.serving = d.serving,
                   !.files["source"] = Provenance(i),
                   !.derived = d])
             /\ UNCHANGED <<repo, work, site, notice>>
    /\ Given

DescribedLive == source.congress

DescribedVersion == Dir.db.of

(* clear_inline_inst_data: the copy keeps no institutional row.            *)
Sanitized(db) == [db EXCEPT !.sanitized = TRUE]

(* The source whose filings said what to withhold: a module that is not    *)
(* published leaves none.                                                  *)
Filed(derived) == IF derived.agg # None THEN derived.agg.of ELSE None

(* A list that is opaque already cannot say which of its blocks were       *)
(* withheld: without a source that can, the build is refused.              *)
Redactable(db, filed) == db.opaque => filed # None

(* apply_registry_redaction, on the copy: its SEC list withholds what the  *)
(* institutional files do.                                                 *)
ListRedacted(db, filed) == [db EXCEPT !.opaque = TRUE, !.filed = filed]

(* The copy is sanitized and its list redacted, then the documents are     *)
(* written.                                                                *)
Document ==
    /\ At("document")
    /\ LET filed == Filed(Dir.derived)
           documented == Redactable(Dir.db, filed) /\ Dir.db.of \in Joined IN
       \/ /\ ~documented /\ Fail
       \/ /\ documented
          /\ Goto("provisional")
          /\ PutDir([Dir EXCEPT !.db = ListRedacted(Sanitized(@), filed),
                                !.files["stats"] = Stats(DescribedVersion, None),
                                !.files["feed"] = DescribedVersion])
          /\ UNCHANGED <<repo, work, site, notice>>
    /\ Given

(* The checkout's latest.json: a hosted one was taken when the session     *)
(* began.                                                                  *)
Latest == IF hosted THEN run.base ELSE repo.latest

(***************************************************************************)
(* _seal_build, twice: the walk over the build directory, the databases    *)
(* that the manifest lists, and the module gate.                           *)
(***************************************************************************)
WithoutManifest(files) == [files EXCEPT !["manifest"] = None]

Modules(derived) ==
    IF derived.agg # None THEN {"congress", "inst"} ELSE {"congress"}

Accounted(derived) == Expected => \/ "inst" \in Modules(derived)
                                  \/ derived.withheld # None

(* Both institutional databases, or neither.                               *)
CompleteInstModule(derived) == derived.agg # None => derived.serving # None

Sealable(derived) == CompleteInstModule(derived) /\ Accounted(derived)

Manifest(dir, files, previous) ==
    [entries  |-> Walk(files),
     modules  |-> Modules(dir.derived),
     db       |-> dir.db,
     agg      |-> dir.derived.agg,
     serving  |-> dir.derived.serving,
     previous |-> previous]

SealProvisional ==
    /\ At("provisional")
    /\ \/ ~Sealable(Dir.derived) /\ Fail
       \/ /\ Sealable(Dir.derived) /\ Goto("state")
          /\ PutDir([Dir EXCEPT !.files["manifest"] =
                        Manifest(Dir, Dir.files, Latest)])
          /\ UNCHANGED <<repo, work, site, notice>>
    /\ Given

(* write_stage_state: what a later process needs to finalize.              *)
WriteStageState ==
    /\ At("state") /\ Goto("prior")
    /\ PutDir([Dir EXCEPT !.state = [derived |-> Dir.derived,
                                     previous |-> Dir.files["manifest"].previous]])
    /\ UNCHANGED <<repo, work, site, notice>> /\ Given

(***************************************************************************)
(* The site is built from the staged build and from the signals of the     *)
(* build that latest.json names, and its signals become a document.        *)
(***************************************************************************)
SignalsOf(b) == IF b = None THEN None ELSE repo.builds[b].files["signals"]

ChainedToNewest ==
    LET all == {b \in Ids : repo.builds[b] # None}
    IN IF all = {} THEN None ELSE Max(all)

Chained == Latest

ResolvePrior ==
    /\ At("prior")
    /\ \/ /\ \/ Latest = None
             \/ SignalsOf(Chained) # None
             \/ run.declared
          /\ run' = [run EXCEPT !.pc = "site",
                        !.prior = IF SignalsOf(Chained) # None
                                  THEN Chained ELSE None]
          /\ UNCHANGED <<repo, staging, work, site, notice>>
       \/ Latest # None /\ SignalsOf(Chained) = None /\ ~run.declared /\ Fail
    /\ Given

(* How many files the site has: it reads the store and the manifest.       *)
Emitted(modules) == source.congress + Cardinality(modules)

BuildSite ==
    /\ At("site")
    /\ LET modules == Dir.files["manifest"].modules IN
       /\ work' = [work EXCEPT !.dist =
             [id |-> run.id, modules |-> modules, size |-> Emitted(modules),
              stats |-> Dir.files["stats"], signals |-> run.prior]]
       /\ run' = [run EXCEPT !.pc = "signals", !.count = Emitted(modules)]
    /\ UNCHANGED <<repo, staging, site, notice>> /\ Given

(* A lifecycle: the build it continues, and whether it may begin here.     *)
Signals(prior, declared) == [prior |-> prior, declared |-> declared]

CopySignals ==
    /\ At("signals") /\ Goto("finalize")
    /\ PutDir([Dir EXCEPT !.files["signals"] =
                  Signals(work.dist.signals, run.declared)])
    /\ UNCHANGED <<repo, work, site, notice>> /\ Given

(***************************************************************************)
(* Phase 2: finalize-build, from what stage-build left on disk.            *)
(***************************************************************************)
(* The congress digest is recomputed, the institutional ones are those of  *)
(* the stage state.                                                        *)
Stage == [Dir EXCEPT !.derived = Dir.state.derived]

Patched == Stats(Dir.files["stats"].of, run.count)

PatchStats ==
    /\ At("finalize")
    /\ Dir.state # None /\ Goto("served")
    /\ PutDir([Dir EXCEPT !.files["stats"] = Patched])
    /\ UNCHANGED <<repo, work, site, notice>> /\ Given

ServedAsBuilt == work.dist.stats

ServedStats == Dir.files["stats"]

PatchServed ==
    /\ At("served") /\ Goto("seal")
    /\ work' = [work EXCEPT !.dist.stats = ServedStats]
    /\ UNCHANGED <<repo, staging, site, notice>> /\ Given

(* The provisional manifest is unlinked before the walk.  What the module  *)
(* gate accepted once it accepts again.                                    *)
SealFinal ==
    /\ At("seal") /\ Sealable(Stage.derived) /\ Goto("journal")
    /\ PutDir([Dir EXCEPT !.files["manifest"] =
          Manifest(Stage, WithoutManifest(Dir.files), Dir.state.previous)])
    /\ UNCHANGED <<repo, work, site, notice>> /\ Given

(* The recovery journal comes last: with it the build is publishable.      *)
WriteJournal ==
    /\ At("journal") /\ Goto("record")
    /\ PutDir([Dir EXCEPT !.journal = [manifest |-> Dir.files["manifest"],
                                       files |-> WithoutManifest(Dir.files)]])
    /\ UNCHANGED <<repo, work, site, notice>> /\ Given

(* inst-gate.json; an absence never replaces a verdict.                    *)
GateRecord(dir, verdict) ==
    IF verdict = "absent" /\ dir.gate # None THEN dir.gate ELSE verdict

RecordGate ==
    /\ At("record") /\ Goto("package")
    /\ PutDir([Dir EXCEPT !.gate = GateRecord(Dir, Dir.state.derived.verdict)])
    /\ UNCHANGED <<repo, work, site, notice>> /\ Given

(* freeze_tree: the frozen copy is what is inventoried and uploaded.       *)
Package ==
    /\ At("package")
    /\ run' = [run EXCEPT !.pc = "publish", !.fresh = TRUE]
    /\ work' = [work EXCEPT !.artifact = work.dist]
    /\ UNCHANGED <<repo, staging, site, notice>> /\ Given

(***************************************************************************)
(* publish, verify and the push, and then the deploy job.                  *)
(***************************************************************************)
Target ==
    LET staged == {b \in Ids : staging[b] # None /\ staging[b].journal # None}
    IN IF staged = {} THEN None ELSE Max(staged)

Consistent(dir) ==
    /\ Whole(dir.journal)
    /\ \A d \in Documents \ {"manifest"} :
          dir.files[d] \in {None, dir.journal.files[d]}
    /\ dir.db = dir.journal.manifest.db
    /\ dir.journal.manifest.agg # None =>
          <<dir.agg, dir.serving>> =
             <<dir.journal.manifest.agg, dir.journal.manifest.serving>>

(* The record is read before a successful publish clears the staging.      *)
NoticeOf(b) ==
    IF "inst" \in staging[b].journal.manifest.modules THEN "published"
    ELSE IF staging[b].gate = None THEN "unrecorded" ELSE staging[b].gate

Publication(b) ==
    [manifest |-> staging[b].journal.manifest, files |-> staging[b].journal.files,
     db |-> staging[b].db, agg |-> staging[b].agg, serving |-> staging[b].serving]

PublishTarget ==
    /\ repo' = [repo EXCEPT !.latest = Target,
                            !.builds[Target] = Publication(Target)]
    /\ notice' = [id |-> Target, said |-> NoticeOf(Target)]
    /\ staging' = [staging EXCEPT ![Target] = None]

PublishableAsStaged ==
    /\ Target # None /\ Consistent(staging[Target])
    /\ staging[Target].state # None

(* A push onto another latest.json is refused.                             *)
Publishable ==
    /\ Target # None /\ Consistent(staging[Target])
    /\ repo.builds[Target] = None
    /\ hosted => repo.latest = run.base

Publish ==
    /\ At("publish")
    /\ \/ /\ Publishable /\ PublishTarget
          /\ IF run.fresh THEN Goto("deploy") ELSE run' = Idle
          /\ UNCHANGED <<work, site>>
       \/ ~Publishable /\ Fail
    /\ Given

Deploy ==
    /\ At("deploy") /\ run' = Idle
    /\ site' = work.artifact
    /\ UNCHANGED <<repo, staging, work, notice>> /\ Given

(***************************************************************************)
(* What else happens.                                                      *)
(***************************************************************************)
Fault == ~calm /\ left.faults > 0 /\ left' = [left EXCEPT !.faults = @ - 1]
Hand == ~calm /\ left.hands > 0 /\ left' = [left EXCEPT !.hands = @ - 1]

Die ==
    /\ ~At("idle") /\ Fault /\ run' = Idle
    /\ UNCHANGED <<source, repo, staging, work, site, notice, hosted, calm>>

DamageJournal(b) ==
    /\ Fault /\ staging[b] # None /\ staging[b].journal # None
    /\ staging' = [staging EXCEPT ![b].journal = Torn]
    /\ UNCHANGED <<source, repo, work, run, site, notice, hosted, calm>>

(* The ingest commits, or the snapshot variable is pointed elsewhere.      *)
SourceMoves ==
    /\ Hand
    /\ \/ \E v \in Versions : v > source.congress
             /\ source' = [source EXCEPT !.congress = v]
       \/ \E i \in InstSources \ {source.inst} :
             source' = [source EXCEPT !.inst = i]
    /\ UNCHANGED <<repo, staging, work, run, site, notice, hosted, calm>>

(* The session that failed last is taken up again at the site build, while *)
(* the pointer still names the build that it was staged against.           *)
Resume(b) ==
    /\ At("idle") /\ ~hosted /\ Hand
    /\ b = Max({c \in Ids : staging[c] # None} \cup {0})
    /\ staging[b].state # None /\ staging[b].state.previous = repo.latest
    /\ run' = [Idle EXCEPT !.pc = "prior", !.id = b]
    /\ work' = NoWork
    /\ UNCHANGED <<source, repo, staging, site, notice, hosted, calm>>

(* publish by hand, without an assembly before it.                         *)
PublishByHand ==
    /\ At("idle") /\ ~hosted /\ Hand
    /\ Publishable /\ PublishTarget
    /\ UNCHANGED <<source, work, run, site, hosted, calm>>

(* An operator's rollback; in a local repository, between two sessions.    *)
Rollback(b) ==
    /\ Hand /\ (At("idle") \/ hosted)
    /\ b # repo.latest /\ repo.builds[b] # None
    /\ repo' = [repo EXCEPT !.latest = b]
    /\ UNCHANGED <<source, staging, work, run, site, notice, hosted, calm>>

CalmDown ==
    /\ ~calm /\ calm' = TRUE
    /\ UNCHANGED <<source, repo, staging, work, run, site, notice, hosted, left>>

Command ==
    \/ Preserve \/ TakeSnapshot \/ Derive \/ Document \/ SealProvisional
    \/ WriteStageState \/ ResolvePrior \/ BuildSite \/ CopySignals
    \/ PatchStats \/ PatchServed \/ SealFinal \/ WriteJournal \/ RecordGate
    \/ Package \/ Publish \/ Deploy

AssemblyNext ==
    \/ Command
    \/ \E declared \in BOOLEAN : Begin(declared)
    \/ Die \/ SourceMoves \/ PublishByHand \/ CalmDown
    \/ \E b \in Ids : DamageJournal(b) \/ Resume(b) \/ Rollback(b)

AssemblySpec == AssemblyInit /\ [][AssemblyNext]_vars

(* A nightly session starts every day, and its steps run.                  *)
AssemblyFairSpec ==
    /\ AssemblySpec /\ WF_vars(Command) /\ WF_vars(Begin(FALSE))
    /\ WF_vars(CalmDown)

(***************************************************************************)
(* Properties.                                                             *)
(***************************************************************************)
Builds == {b \in Ids : repo.builds[b] # None}

(* A published manifest describes its build: every file of it with its     *)
(* bytes and never itself, the sanitized database with the documents that  *)
(* were computed from it, and both institutional databases, redacted and   *)
(* from the one source that the provenance names, or neither.  The SEC     *)
(* list of the database withholds what those two do.                       *)
BuildsAreDescribed ==
    \A b \in Builds :
        LET p == repo.builds[b]
            m == p.manifest
        IN /\ m.entries = Walk(p.files)
           /\ m.db = p.db /\ p.db.sanitized
           /\ p.files["stats"].of = p.db.of /\ p.files["feed"] = p.db.of
           /\ "inst" \in m.modules <=> m.agg # None
           /\ m.agg # None =>
                 /\ m.agg = p.agg /\ m.serving = p.serving
                 /\ p.agg = p.serving /\ p.agg.redacted
                 /\ p.db.opaque /\ p.db.filed = p.agg.of
                 /\ p.files["source"] = Provenance(p.agg.of)

(* What is deployed is a published build's own site: built from its        *)
(* modules, and with the byte-equal statistics, whose count is that of the *)
(* files that were packaged.                                               *)
DeployedSiteIsCounted ==
    site # None =>
        /\ site.id \in Builds
        /\ site.stats = repo.builds[site.id].files["stats"]
        /\ site.stats.count = site.size
        /\ site.modules = repo.builds[site.id].manifest.modules

(* A build without the expected institutional module was withheld by the   *)
(* gate on its own source, and that is what its publication says.          *)
NoModuleIsLost ==
    notice # None =>
        LET p == repo.builds[notice.id] IN
        "inst" \notin p.manifest.modules =>
            /\ notice.said \in {"withheld", "absent", "unrecorded"}
            /\ Expected => /\ p.agg # None /\ Verdict[p.agg.of] = "withheld"
                           /\ notice.said # "absent"
            /\ notice.said = "withheld" => Verdict[p.agg.of] = "withheld"

(* Both promises of a seal: its documents describe its databases, and a      *)
(* module that was published does not vanish unexplained.                    *)
SealedBuildsAreWhole == BuildsAreDescribed /\ NoModuleIsLost

(* The signals' lifecycle is unbroken: a build continues that of the build *)
(* it replaces, and begins a new one only where there is none or an        *)
(* operator declared it.                                                   *)
LifecycleIsChained ==
    \A b \in {c \in Builds : repo.builds[c] # Legacy} :
        LET s == repo.builds[b].files["signals"] IN
        /\ s # None
        /\ s.prior = repo.builds[b].manifest.previous \/ s.declared

(* Good: a hosted store was seeded from a release, whose list is opaque,   *)
(* so that a module withheld by the gate stops the congress build as well. *)
(*                                                                         *)
(* Once sessions run undisturbed and the source passes its gates, what is  *)
(* published and deployed catches up with it, whatever earlier sessions    *)
(* left behind, except a build that was finalized a second time and not    *)
(* journaled again.                                                        *)
Good == /\ source.congress \in Joined
        /\ Verdict[source.inst] # "refused"
        /\ hosted => Verdict[source.inst] = "served"
        /\ Expected => Verdict[source.inst] # "empty"
        /\ repo.latest # None => SignalsOf(repo.latest) # None

Wedged == \E b \in Candidates : Whole(staging[b].journal) /\ ~Consistent(staging[b])

CaughtUp == /\ repo.latest # None
            /\ repo.builds[repo.latest].db.of = source.congress
            /\ site # None /\ site.id = repo.latest

NightsCatchUp == [](calm /\ Good /\ ~Wedged => <>CaughtUp)

=============================================================================
