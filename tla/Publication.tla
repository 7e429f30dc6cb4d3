------------------------------ MODULE Publication ------------------------------
(***************************************************************************)
(* Publishing one day's builds (src/populus/publish/build.py, driven by    *)
(* .github/workflows/publish.yml and docs/operations/rollback.md).         *)
(*                                                                         *)
(* Workers run sessions against two shared stores: the release backend     *)
(* (drafts and immutable published releases) and the populus-data git      *)
(* origin (builds/ and latest.json).  A session works in a checkout of its *)
(* own and reaches origin only with its final push.  Any step may be the   *)
(* last one of its session; the next session recovers from what is         *)
(* durable.                                                                *)
(*                                                                         *)
(* A content k stands for one assembled build: its journal, congress.db,   *)
(* institutional databases and materialised files, all with their bytes.   *)
(***************************************************************************)
EXTENDS BuildPointer, FiniteSets, FiniteSetsExt

CONSTANTS
    Workers,       \* whoever runs sessions
    Nightly,       \* the worker of the data-publish concurrency group
    InstContents,  \* the contents that carry the institutional module
    Settings       \* the ways the publisher is set up

(* A setting says whether every session starts from a clean checkout, who  *)
(* runs rollback and publish by hand, whether a staged journal may be      *)
(* damaged on disk, and how far the counters go in it.                     *)
Setting == [fresh : BOOLEAN, operators : SUBSET Workers, damages : BOOLEAN,
            builds : Ids, contents : Contents, versions : 1..MaxVersion]

ASSUME PublicationAssumption ==
    /\ Nightly \subseteq Workers /\ InstContents \subseteq Contents
    /\ Settings \subseteq Setting

(* publish.yml runs one nightly session at a time (its concurrency group), *)
(* and a directory that survives between sessions has one user.            *)
ASSUME SessionsAssumption ==
    /\ \A v, w \in Nightly : v = w
    /\ \A s \in Settings : s.fresh \/ s.operators \subseteq Nightly

Garbage == -1                \* a staged journal.json that does not validate
Partial(k) == -k             \* builds/<id> with some files, no manifest.json
Whole(n) == n \in Contents

VARIABLES
    releases,    \* the release backend
    origin,      \* populus-data as everybody fetches it
    tree,        \* each worker's checkout: builds/, latest.json, and the
                 \* origin's latest.json it was taken from
    staging,     \* each worker's .staging/<build_id>
    mark,        \* each worker's .build-allocations.json
    pc,          \* where each worker's session is
    job,         \* what each session is doing
    assembled,   \* how many contents were ever assembled
    calm,        \* TRUE once sessions no longer die and nothing fails
    setting,     \* how this publisher is set up
    uploaded,    \* history: the contents ever uploaded under each build id
    pointed      \* history: the build ids origin's latest.json ever named

session == <<pc, job>>
local   == <<tree, staging, mark>>
history == <<uploaded, pointed>>
climate == <<calm, setting>>
pubVars == <<releases, origin, local, session, assembled, climate, history>>

Assets == {"journal", "db", "inst"}
NoRelease == [state |-> "absent", journal |-> 0, db |-> 0, inst |-> 0]
Unstaged == [made |-> FALSE, journal |-> 0, inst |-> 0]
NoJob == [command |-> "none", phase |-> "none", target |-> 0,
          build |-> 0, content |-> 0, back |-> "none", completed |-> {}]
NoStaging == [b \in Ids |-> Unstaged]

PubInit ==
    /\ releases = [b \in Ids |-> NoRelease]
    /\ origin = [builds |-> [b \in Ids |-> 0], latest |-> NoPointer]
    /\ tree = [w \in Workers |-> [builds |-> [b \in Ids |-> 0],
                                  latest |-> NoPointer, base |-> NoPointer]]
    /\ staging = [w \in Workers |-> NoStaging]
    /\ mark = [w \in Workers |-> 0]
    /\ pc = [w \in Workers |-> "off"]
    /\ job = [w \in Workers |-> NoJob]
    /\ assembled = 0
    /\ calm = FALSE
    /\ setting \in Settings
    /\ uploaded = [b \in Ids |-> {}]
    /\ pointed = {}

-----------------------------------------------------------------------------
(* Helpers.                                                                *)

Drafts    == {b \in Ids : releases[b].state = "draft"}
Published == {b \in Ids : releases[b].state = "published"}

NeedsInst(k) == k \in InstContents

(* Every asset the content's manifest enumerates verifies on the release.  *)
AssetsVerify(b, k) ==
    /\ releases[b].db = k
    /\ NeedsInst(k) => releases[b].inst = k

Step(w, s) == pc' = [pc EXCEPT ![w] = s]

EndSession(w) ==
    /\ Step(w, "off")
    /\ job' = [job EXCEPT ![w] = NoJob]

(* _recover_journal: the release's journal asset, else the staged copy.    *)
(* Both usable and different is refused; a release that cannot be read     *)
(* counts as unusable.                                                     *)
Recoverable(w, b) ==
    LET remote == releases[b].journal
        staged == staging[w][b].journal
    IN  {k \in Contents :
           \/ k = remote /\ staged \in {0, Garbage, remote}
           \/ k = staged /\ (remote = 0 \/ ~calm)}

Complete(w, b, back) ==
    \E k \in Recoverable(w, b) :
        /\ job' = [job EXCEPT ![w].build = b, ![w].content = k,
                              ![w].back = back]
        /\ Step(w, "preflight")

Remote == <<releases, origin>>

-----------------------------------------------------------------------------
(* reconcile_inflight: whatever is in flight is completed first.           *)

(* Mutant: reconciliation does not look for drafts.                        *)
ReconcileNoDrafts(w) ==
    /\ pc[w] = "drafts"
    /\ Step(w, "staged")
    /\ UNCHANGED <<Remote, local, job, assembled, climate, history>>

(* A draft is adopted and completed; several drafts are refused.           *)
ReconcileDrafts(w) ==
    /\ pc[w] = "drafts"
    /\ \/ Drafts = {} /\ Step(w, "staged") /\ UNCHANGED job
       \/ /\ Cardinality(Drafts) = 1
          /\ \E b \in Drafts : Complete(w, b, "staged")
    /\ UNCHANGED <<Remote, local, assembled, climate, history>>

StagedWithRelease(w) ==
    {b \in Ids : /\ staging[w][b].journal # 0
                 /\ releases[b].state # "absent"
                 /\ b \notin job[w].completed}

ReconcileStaged(w) ==
    LET todo == StagedWithRelease(w) IN
    /\ pc[w] = "staged"
    /\ \/ todo = {} /\ Step(w, "newest") /\ UNCHANGED job
       \/ todo # {} /\ Complete(w, Min(todo), "staged")
    /\ UNCHANGED <<Remote, local, assembled, climate, history>>

(* Mutant: the newest release is completed again whatever is committed.    *)
UncommittedAlways(w) ==
    LET others == Published \ job[w].completed IN
    IF others = {} THEN {} ELSE {Max(others)}

(* Only the newest published release is looked at.                         *)
Uncommitted(w) ==
    LET others == Published \ job[w].completed IN
    IF others = {} THEN {}
    ELSE {b \in {Max(others)} : ~Whole(tree[w].builds[b])}

ReconcileNewest(w) ==
    LET todo == Uncommitted(w) IN
    /\ pc[w] = "newest"
    /\ \/ todo = {} /\ Step(w, "reconciled") /\ UNCHANGED job
       \/ \E b \in todo : Complete(w, b, "reconciled")
    /\ UNCHANGED <<Remote, local, assembled, climate, history>>

(* Reconciliation is done: the command that ran it goes on.                *)
Reconciled(w) ==
    LET t == job[w].target IN
    /\ pc[w] = "reconciled"
    /\ \/ /\ job[w].phase = "stage"
          /\ Step(w, "stage") /\ UNCHANGED job
       \/ /\ job[w].phase = "rollback"
          /\ Step(w, "repoint") /\ UNCHANGED job
       \/ /\ job[w].phase = "publish"
          /\ IF t = 0 THEN job[w].completed # {} ELSE t \in job[w].completed
          /\ Step(w, "verify") /\ UNCHANGED job
       \/ /\ job[w].phase = "publish"
          /\ t # 0 /\ t \notin job[w].completed
          /\ Complete(w, t, "verify")
    /\ UNCHANGED <<Remote, local, assembled, climate, history>>

-----------------------------------------------------------------------------
(* stage_build and finalize_build.                                         *)

(* Staged journals whose build has no release, valid or not.               *)
StagedOnly(w) ==
    {b \in Ids : staging[w][b].journal # 0 /\ releases[b].state = "absent"}

(* Mutant: the recorded high-water mark is not considered.                 *)
NextBuildIdUnmarked(w) ==
    1 + Max({0} \cup Published
              \cup {b \in Ids : tree[w].builds[b] # 0 \/ staging[w][b].made})

(* One more than every id that left a trace: committed builds, published   *)
(* tags, staging directories and the recorded high-water mark.             *)
NextBuildId(w) ==
    1 + Max({0, mark[w]} \cup Published
              \cup {b \in Ids : tree[w].builds[b] # 0 \/ staging[w][b].made})

PreserveStaged(w) ==
    /\ pc[w] = "stage"
    /\ StagedOnly(w) # {}
    /\ Whole(staging[w][Max(StagedOnly(w))].journal)
    /\ Step(w, "choose")
    /\ UNCHANGED <<Remote, local, job, assembled, climate, history>>

(* The id is recorded, then the staging directory is assembled from the    *)
(* source database; a damaged staged journal has its id rebuilt.           *)
StageBuild(w) ==
    LET rebuild == StagedOnly(w)
        b == IF rebuild = {} THEN NextBuildId(w) ELSE Max(rebuild)
        k == assembled + 1
    IN
    /\ pc[w] = "stage"
    /\ rebuild # {} => staging[w][b].journal = Garbage
    /\ b <= setting.builds /\ k <= setting.contents
    /\ mark' = IF rebuild = {} THEN [mark EXCEPT ![w] = b] ELSE mark
    /\ staging' = [staging EXCEPT ![w][b] =
                     [made |-> TRUE, journal |-> 0,
                      inst |-> IF NeedsInst(k) THEN k ELSE 0]]
    /\ assembled' = k
    /\ job' = [job EXCEPT ![w].build = b, ![w].content = k]
    /\ Step(w, "finalize")
    /\ UNCHANGED <<Remote, tree, climate, history>>

(* No source database: a run that completed something is a success.        *)
StageWithoutSource(w) ==
    /\ pc[w] = "stage"
    /\ StagedOnly(w) = {}
    /\ job[w].completed # {}
    /\ Step(w, "choose")
    /\ UNCHANGED <<Remote, local, job, assembled, climate, history>>

(* The journal is staged last.                                             *)
FinalizeBuild(w) ==
    /\ pc[w] = "finalize"
    /\ staging' = [staging EXCEPT ![w][job[w].build].journal = job[w].content]
    /\ Step(w, "choose")
    /\ UNCHANGED <<Remote, tree, mark, job, assembled, climate, history>>

(* run_publish takes the newest staged build before it reconciles.         *)
ChooseTarget(w) ==
    LET staged == {b \in Ids : staging[w][b].journal # 0} IN
    /\ pc[w] = "choose"
    /\ job' = [job EXCEPT ![w] =
                 [NoJob EXCEPT !.command = job[w].command,
                               !.phase = "publish",
                               !.target = Max({0} \cup staged)]]
    /\ Step(w, "drafts")
    /\ UNCHANGED <<Remote, local, assembled, climate, history>>

-----------------------------------------------------------------------------
(* _complete_build: one journaled build, driven to the pointer.            *)

(* A committed build that differs, a module asset that is nowhere.         *)
Conflicts(w, b, k) == tree[w].builds[b] \notin {0, k, Partial(k)}
InstObtainable(w, b, k) ==
    NeedsInst(k) => k \in {releases[b].inst, staging[w][b].inst}

Preflight(w) ==
    LET b == job[w].build  k == job[w].content IN
    /\ pc[w] = "preflight"
    /\ ~Conflicts(w, b, k)
    /\ InstObtainable(w, b, k)
    /\ Step(w, CASE releases[b].state = "absent"    -> "draft"
                 [] releases[b].state = "draft"     -> "journal"
                 [] releases[b].state = "published" -> "verify_published")
    /\ UNCHANGED <<Remote, local, job, assembled, climate, history>>

EnsureDraft(w) ==
    LET b == job[w].build IN
    /\ pc[w] = "draft"
    /\ releases[b].state # "published"
    /\ releases' = [releases EXCEPT ![b].state = "draft"]
    /\ Step(w, "journal")
    /\ UNCHANGED <<origin, local, job, assembled, climate, history>>

(* Mutant: only the congress assets are uploaded before publishing.        *)
NextAssetOfCongress(w) == IF pc[w] = "journal" THEN "db" ELSE "publish"

(* journal first, then congress.db, then the module assets.                *)
NextAsset(w) ==
    CASE pc[w] = "journal" -> "db"
      [] pc[w] = "db"      -> IF NeedsInst(job[w].content) THEN "inst"
                                                           ELSE "publish"
      [] pc[w] = "inst"    -> "publish"

(* An asset that verifies is left alone; one that does not is clobbered,   *)
(* on a draft only, and verified again.  The database comes out of the     *)
(* journal, the institutional asset out of staging.                        *)
Upload(w) ==
    LET b == job[w].build  k == job[w].content  asset == pc[w] IN
    /\ asset \in Assets
    /\ \/ releases[b][asset] = k /\ UNCHANGED <<releases, uploaded>>
       \/ /\ releases[b][asset] # k
          /\ releases[b].state = "draft"
          /\ asset = "inst" => staging[w][b].inst = k
          /\ releases' = [releases EXCEPT ![b][asset] = k]
          /\ uploaded' = [uploaded EXCEPT ![b] = @ \cup {k}]
    /\ Step(w, NextAsset(w))
    /\ UNCHANGED <<origin, local, job, assembled, climate, pointed>>

(* The upload fails half way: the old asset is gone, the session ends.     *)
UploadFails(w) ==
    LET b == job[w].build  asset == pc[w] IN
    /\ asset \in Assets /\ ~calm
    /\ releases[b].state = "draft"
    /\ releases[b][asset] # job[w].content
    /\ releases' = [releases EXCEPT ![b][asset] = 0]
    /\ EndSession(w)
    /\ UNCHANGED <<origin, local, assembled, climate, history>>

PublishRelease(w) ==
    LET b == job[w].build IN
    /\ pc[w] = "publish"
    /\ releases[b].state # "absent"
    /\ releases' = [releases EXCEPT ![b].state = "published"]
    /\ Step(w, "materialize")
    /\ UNCHANGED <<origin, local, job, assembled, climate, history>>

(* A published release is verified, never mutated.                         *)
PublishedVerifies(b, k) == releases[b].journal = k /\ AssetsVerify(b, k)

VerifyPublished(w) ==
    /\ pc[w] = "verify_published"
    /\ PublishedVerifies(job[w].build, job[w].content)
    /\ Step(w, "materialize")
    /\ UNCHANGED <<Remote, local, job, assembled, climate, history>>

(* builds/<id>/ is written file by file from the journal.                  *)
Materialize(w) ==
    LET b == job[w].build  k == job[w].content IN
    /\ pc[w] = "materialize"
    /\ ~Conflicts(w, b, k)
    /\ \/ /\ tree' = [tree EXCEPT ![w].builds[b] = k]
          /\ Step(w, "pointer") /\ UNCHANGED job
       \/ /\ ~calm /\ tree[w].builds[b] = 0
          /\ tree' = [tree EXCEPT ![w].builds[b] = Partial(k)]
          /\ EndSession(w)
    /\ UNCHANGED <<Remote, staging, mark, assembled, climate, history>>

(* latest.json comes last; a pointer that already names this content is    *)
(* kept.                                                                   *)
Mint(w, b, k) ==
    /\ tree[w].latest.version < setting.versions
    /\ tree' = [tree EXCEPT ![w].latest =
                  [version |-> tree[w].latest.version + 1,
                   build |-> b, content |-> k]]

PointAt(w) ==
    LET b == job[w].build  k == job[w].content
        current == tree[w].latest.build = b /\ tree[w].latest.content = k
    IN
    /\ pc[w] = "pointer"
    /\ \/ current /\ UNCHANGED tree
       \/ ~current /\ Mint(w, b, k)
    /\ Step(w, "clear")
    /\ UNCHANGED <<Remote, staging, mark, job, assembled, climate, history>>

ClearStaging(w) ==
    LET b == job[w].build IN
    /\ pc[w] = "clear"
    /\ staging' = [staging EXCEPT ![w][b] = Unstaged]
    /\ job' = [job EXCEPT ![w].completed = @ \cup {b},
                          ![w].build = 0, ![w].content = 0,
                          ![w].back = "none"]
    /\ Step(w, job[w].back)
    /\ UNCHANGED <<Remote, tree, mark, assembled, climate, history>>

-----------------------------------------------------------------------------
(* _publish_rollback, run_verify, and the session's commit.                *)

RollbackVerifies(w, b) ==
    /\ Whole(tree[w].builds[b])
    /\ AssetsVerify(b, tree[w].builds[b])
    /\ tree[w].latest # NoPointer

Repoint(w) ==
    LET b == job[w].target IN
    /\ pc[w] = "repoint"
    /\ RollbackVerifies(w, b)
    /\ Mint(w, b, tree[w].builds[b])
    /\ Step(w, "verify")
    /\ UNCHANGED <<Remote, staging, mark, job, assembled, climate, history>>

Verify(w) ==
    LET p == tree[w].latest IN
    /\ pc[w] = "verify"
    /\ p # NoPointer /\ tree[w].builds[p.build] = p.content
    /\ Step(w, "push")
    /\ UNCHANGED <<Remote, local, job, assembled, climate, history>>

(* git rebases what does not overlap and refuses what does.                *)
Repointed(w) == tree[w].latest # tree[w].base

(* Mutant: a push that overwrites what moved in the meantime.              *)
MergeableByForce(w) == TRUE

Mergeable(w) ==
    /\ Repointed(w) => origin.latest = tree[w].base
    /\ \A b \in Ids : \/ tree[w].builds[b] = 0
                      \/ origin.builds[b] \in {0, tree[w].builds[b]}

SomethingToCommit(w) ==
    \/ Repointed(w)
    \/ \E b \in Ids : tree[w].builds[b] # 0 /\ origin.builds[b] = 0

Push(w) ==
    LET mine == tree[w]
        now == IF Repointed(w) THEN mine.latest ELSE origin.latest
    IN
    /\ pc[w] = "push"
    /\ Mergeable(w) /\ SomethingToCommit(w)
    /\ origin' = [builds |-> [b \in Ids |-> IF mine.builds[b] # 0
                                            THEN mine.builds[b]
                                            ELSE origin.builds[b]],
                  latest |-> now]
    /\ pointed' = pointed \cup {now.build}
    /\ EndSession(w)
    /\ UNCHANGED <<releases, local, assembled, climate, uploaded>>

-----------------------------------------------------------------------------
(* Sessions and the environment.                                           *)

(* git checkout: a fresh one starts from origin and nothing else, a        *)
(* persistent one keeps its staging, its mark and its unpushed work.       *)
Begin(w, command, phase, target, first) ==
    /\ pc[w] = "off"
    /\ \/ /\ setting.fresh
          /\ tree' = [tree EXCEPT ![w] = [builds |-> origin.builds,
                                          latest |-> origin.latest,
                                          base |-> origin.latest]]
          /\ staging' = [staging EXCEPT ![w] = NoStaging]
          /\ mark' = [mark EXCEPT ![w] = 0]
       \/ /\ ~setting.fresh
          /\ tree' = [tree EXCEPT ![w].base = origin.latest]
          /\ UNCHANGED <<staging, mark>>
    /\ job' = [job EXCEPT ![w] = [NoJob EXCEPT !.command = command,
                                               !.phase = phase,
                                               !.target = target]]
    /\ Step(w, first)
    /\ UNCHANGED <<Remote, assembled, climate, history>>

(* publish.yml: stage-build, finalize-build, publish, verify, push.        *)
BeginNightly(w) == w \in Nightly /\ Begin(w, "nightly", "stage", 0, "drafts")

(* populus publish --rollback-to b, and populus publish --build b.         *)
BeginByHand(w, b) ==
    /\ w \in setting.operators /\ ~calm /\ b <= setting.builds
    /\ \/ Begin(w, "rollback", "rollback", b, "drafts")
       \/ Begin(w, "publish", "publish", b, "drafts")

(* The code refuses: nothing further is written and the session ends.      *)
Refused(w) ==
    LET b == job[w].build  k == job[w].content  t == job[w].target IN
    CASE pc[w] = "drafts" -> \/ Cardinality(Drafts) > 1
                             \/ \E d \in Drafts : Recoverable(w, d) = {}
      [] pc[w] = "staged" -> /\ StagedWithRelease(w) # {}
                             /\ Recoverable(w, Min(StagedWithRelease(w))) = {}
      [] pc[w] = "newest" -> \E d \in Uncommitted(w) : Recoverable(w, d) = {}
      [] pc[w] = "reconciled" ->
             /\ job[w].phase = "publish" /\ t \notin job[w].completed
             /\ IF t = 0 THEN job[w].completed = {} ELSE Recoverable(w, t) = {}
      [] pc[w] = "stage" -> TRUE   \* no source database, no more ids
      [] pc[w] = "preflight" -> Conflicts(w, b, k) \/ ~InstObtainable(w, b, k)
      [] pc[w] = "draft" -> releases[b].state = "published"
      [] pc[w] \in Assets -> /\ releases[b][pc[w]] # k
                             /\ \/ releases[b].state # "draft"
                                \/ pc[w] = "inst" /\ staging[w][b].inst # k
      [] pc[w] = "publish" -> releases[b].state = "absent"
      [] pc[w] = "verify_published" -> ~PublishedVerifies(b, k)
      [] pc[w] = "materialize" -> Conflicts(w, b, k)
      [] pc[w] = "repoint" -> ~RollbackVerifies(w, t)
      [] pc[w] = "verify" -> \/ tree[w].latest = NoPointer
                             \/ tree[w].builds[tree[w].latest.build]
                                  # tree[w].latest.content
      [] pc[w] = "push" -> ~Mergeable(w) \/ ~SomethingToCommit(w)
      [] OTHER -> FALSE

(* A session ends early: the code refused, the clock ran out of versions   *)
(* to model, or, until things calm down, any crash, outage or failure.     *)
OutOfVersions(w) ==
    pc[w] \in {"pointer", "repoint"} /\ tree[w].latest.version = setting.versions

Abort(w) ==
    /\ pc[w] # "off"
    /\ ~calm \/ Refused(w) \/ OutOfVersions(w)
    /\ EndSession(w)
    /\ UNCHANGED <<Remote, local, assembled, climate, history>>

(* rollback.md, Appendix A: an operator discards a draft and its staging   *)
(* while nothing is running.                                               *)
DiscardDraft(b) ==
    /\ ~calm
    /\ \A w \in Workers : pc[w] = "off"
    /\ releases[b].state = "draft"
    /\ releases' = [releases EXCEPT ![b] = NoRelease]
    /\ staging' = [w \in Workers |-> [staging[w] EXCEPT ![b] = Unstaged]]
    /\ UNCHANGED <<origin, tree, mark, session, assembled, climate, history>>

DamageJournal(w, b) ==
    /\ setting.damages /\ ~calm
    /\ pc[w] = "off" /\ staging[w][b].journal # 0
    /\ staging' = [staging EXCEPT ![w][b].journal = Garbage]
    /\ UNCHANGED <<Remote, tree, mark, session, assembled, climate, history>>

CalmDown == ~calm /\ calm' = TRUE
            /\ UNCHANGED <<Remote, local, session, assembled, setting, history>>

-----------------------------------------------------------------------------

Reconcile(w) ==
    \/ ReconcileDrafts(w) \/ ReconcileStaged(w) \/ ReconcileNewest(w)
    \/ Reconciled(w)

Stage(w) ==
    \/ PreserveStaged(w) \/ StageBuild(w) \/ StageWithoutSource(w)
    \/ FinalizeBuild(w) \/ ChooseTarget(w)

CompleteBuild(w) ==
    \/ Preflight(w) \/ EnsureDraft(w) \/ Upload(w) \/ PublishRelease(w)
    \/ VerifyPublished(w) \/ Materialize(w) \/ PointAt(w) \/ ClearStaging(w)

Finish(w) == Repoint(w) \/ Verify(w) \/ Push(w)

Work(w) ==
    \/ BeginNightly(w) \/ Reconcile(w) \/ Stage(w) \/ CompleteBuild(w)
    \/ Finish(w) \/ Abort(w)

PubNext ==
    \/ \E w \in Workers :
         \/ Work(w)
         \/ UploadFails(w)
         \/ \E b \in Ids : BeginByHand(w, b) \/ DamageJournal(w, b)
    \/ \E b \in Ids : DiscardDraft(b)
    \/ CalmDown

PubSpec == PubInit /\ [][PubNext]_pubVars

(* The nightly schedule keeps starting sessions, and a session runs on.    *)
PubFairSpec == PubSpec /\ \A w \in Workers : WF_pubVars(Work(w))

-----------------------------------------------------------------------------
(* Properties.                                                             *)

(* The publisher implements the feed consumers are promised: a published   *)
(* release never changes, and origin's latest.json only moves to higher    *)
(* versions that name a release already public with that very content, so  *)
(* two pointers of one version can never both be served.                   *)
Available == [b \in Ids |-> IF releases[b].state = "published"
                            THEN releases[b].journal ELSE 0]
Consumers == INSTANCE PublishedFeed WITH available <- Available,
                                         latest <- origin.latest
ImplementsFeed == Consumers!Feed

(* What consumers can reach is whole: every published release carries all  *)
(* assets its manifest lists, and a committed build is complete and is the *)
(* content its release was published with.                                 *)
NeverTorn ==
    /\ \A b \in Published :
         releases[b].journal # 0 /\ AssetsVerify(b, releases[b].journal)
    /\ \A b \in Ids : origin.builds[b] # 0 =>
         b \in Published /\ origin.builds[b] = releases[b].journal

(* In a directory that survives, reconciliation keeps at most one release  *)
(* in flight, so reconcile_inflight never meets the state it refuses, and  *)
(* a build id, once used for an upload, never names other bytes: not after *)
(* a crash, a discarded draft or a rebuilt staging directory.              *)
AtMostOneDraft == Cardinality(Drafts) <= 1
IdsNameOneContent == \A b \in Ids : Cardinality(uploaded[b]) <= 1
InFlightIsUnambiguous == ~setting.fresh => AtMostOneDraft /\ IdsNameOneContent

(* No nightly undoes a rollback: what a nightly session moves latest.json  *)
(* to was never pointed at before.                                         *)
NightlyNeverRepoints ==
    [][\A w \in Workers :
         /\ job[w].command = "nightly"
         /\ Push(w)
         /\ origin'.latest # origin.latest
         => origin'.latest.build \notin pointed]_pubVars

(* A draft whose institutional asset was lost with its staging directory   *)
(* cannot be regenerated: an operator must discard it.                     *)
Unrecoverable(b) ==
    LET k == releases[b].journal IN
    \A w \in Nightly : k = 0 \/ ~InstObtainable(w, b, k)

(* Once failures stop, the nightly schedule completes an in-flight draft   *)
(* of the armed workflow.                                                  *)
InFlightCompletes ==
    \A b \in Ids : (setting.fresh /\ calm /\ releases[b].state = "draft")
                     ~> (releases[b].state = "published" \/ Unrecoverable(b))

=============================================================================
