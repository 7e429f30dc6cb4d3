-------------------------- MODULE BuildAssemblyProofs --------------------------
(***************************************************************************)
(* For any versions, sources, verdicts and bounds: a published manifest    *)
(* describes its build, no module is lost unexplained, the signals'        *)
(* lifecycle is unbroken, and a deployed site is its build's own.          *)
(***************************************************************************)
EXTENDS BuildAssembly, WellFoundedInduction, TLAPS

-----------------------------------------------------------------------------
(* Maxima of bounded sets of naturals.                                     *)

LEMMA MinInSet ==
    ASSUME NEW S \in SUBSET Nat, S # {}
    PROVE  Min(S) \in S /\ \A y \in S : Min(S) <= y
<1>1. PICK x \in S : \A y \in S : ~(<<y, x>> \in OpToRel(<, Nat))
  BY NatLessThanWellFounded, WFMin
<1>2. \A y \in S : ~(y < x)
  BY <1>1, Zenon DEF OpToRel
<1>3. \A y \in S : x <= y
  BY <1>2
<1> QED
  BY <1>3, Zenon DEF Min

(* NextBuildId's and every other Max is that of a bounded set of ids.      *)
LEMMA MaxInSet ==
    ASSUME NEW n \in Nat, NEW S \in SUBSET (0..n), S # {}
    PROVE  Max(S) \in S /\ \A y \in S : y <= Max(S)
<1> DEFINE T == {n - x : x \in S}
<1>1. T \subseteq Nat
  OBVIOUS
<1>2. T # {}
  <2>1. PICK x \in S : TRUE
    OBVIOUS
  <2>2. n - x \in T
    BY <2>1
  <2> QED
    BY <2>2
<1>3. Min(T) \in T /\ \A y \in T : Min(T) <= y
  <2> HIDE DEF T
  <2> QED
    BY <1>1, <1>2, MinInSet
<1>4. PICK x \in S : Min(T) = n - x
  BY <1>3
<1>5. \A y \in S : x >= y
  BY <1>3, <1>4
<1>6. Max(S) \in S /\ \A y \in S : Max(S) >= y
  BY <1>5, Zenon DEF Max
<1>7. \A y \in S : y \in Int
  OBVIOUS
<1> QED
  BY <1>6, <1>7

-----------------------------------------------------------------------------
(* The shapes of what the variables hold.                                  *)

IsDir(d) ==
    /\ d = [db |-> d.db, agg |-> d.agg, serving |-> d.serving,
            files |-> d.files, derived |-> d.derived, state |-> d.state,
            journal |-> d.journal, gate |-> d.gate]
    /\ d.files = [k \in Documents |-> d.files[k]]

(* None is none of the records of a build.                                 *)
Distinct ==
    /\ \A m, f : [manifest |-> m, files |-> f] # None
    /\ \A m, f, db, a, s : [manifest |-> m, files |-> f, db |-> db,
                            agg |-> a, serving |-> s] # None
    /\ \A d : IsDir(d) => d # None

IsDb(db) == db = [of |-> db.of, sanitized |-> db.sanitized,
                  opaque |-> db.opaque, filed |-> db.filed]

MaybeId == Ids \cup {None}

Shapes ==
    /\ source = [congress |-> source.congress, opaque |-> source.opaque,
                 inst |-> source.inst]
    /\ source.inst \in InstSources
    /\ repo = [latest |-> repo.latest, builds |-> repo.builds]
    /\ repo.builds = [b \in Ids |-> repo.builds[b]]
    /\ repo.latest \in MaybeId
    /\ staging = [b \in Ids |-> staging[b]]
    /\ work = [dist |-> work.dist, artifact |-> work.artifact]
    /\ run = [pc |-> run.pc, id |-> run.id, fresh |-> run.fresh,
              base |-> run.base, prior |-> run.prior,
              declared |-> run.declared, count |-> run.count]
    /\ run.fresh \in BOOLEAN
    /\ run.declared \in BOOLEAN /\ run.base \in MaybeId /\ run.prior \in MaybeId

-----------------------------------------------------------------------------
(* What a staged directory keeps, from its derivation on.                  *)

(* The digests a module is published with are those of the two databases   *)
(* in assets/, and a verdict is that of the source they came from.         *)
DerivedOk(d) ==
    LET v == d.derived IN
    /\ v.agg # None =>
         /\ v.serving = v.agg /\ v.agg.redacted
         /\ d.agg = v.agg /\ d.serving = v.agg
         /\ d.files["source"] = Provenance(v.agg.of)
    /\ v.agg = None => v.verdict \in {"withheld", "absent"}
    /\ v.withheld # None => v.verdict = "withheld"
    /\ v.verdict = "withheld" => d.agg # None /\ Verdict[d.agg.of] = "withheld"

(* The documents were computed from the sanitized copy, whose list         *)
(* withholds what the module does.                                         *)
Documented(d) ==
    /\ DerivedOk(d)
    /\ d.db.sanitized /\ d.db.opaque /\ d.db.filed = Filed(d.derived)
    /\ d.files["stats"].of = d.db.of /\ d.files["feed"] = d.db.of

Continues(files, previous) ==
    LET s == files["signals"] IN
    s # None /\ (s.prior = previous \/ s.declared)

Lists(m, d, files) ==
    /\ m.entries = Walk(files) /\ m.db = d.db
    /\ m.modules = Modules(d.derived)
    /\ m.agg = d.derived.agg /\ m.serving = d.derived.serving

(* A journal is what its directory was sealed as.                          *)
JournalOk(d) ==
    LET j == d.journal IN
    /\ Lists(j.manifest, d, j.files)
    /\ j.files["stats"].of = d.db.of /\ j.files["feed"] = d.db.of
    /\ j.files["source"] = d.files["source"]
    /\ Accounted(d.derived)
    /\ Continues(j.files, j.manifest.previous)

Held(d) ==
    /\ IsDir(d)
    /\ d.state # None => /\ Documented(d) /\ d.state.derived = d.derived
                         /\ d.files["manifest"].modules = Modules(d.derived)
    /\ Whole(d.journal) => Documented(d) /\ JournalOk(d)
    /\ d.gate # None => d.gate = d.derived.verdict

-----------------------------------------------------------------------------
(* What a session has established at each of its steps.                    *)

Finalizing == {"prior", "site", "signals", "finalize", "served", "seal",
               "journal", "record", "package"}
Working == {"derive", "document", "provisional", "state"} \cup Finalizing

(* There is an id left to take.                                            *)
Room == \E n \in 0..(MaxBuild - 1) : \A b \in Ids :
          staging[b] # None \/ repo.builds[b] # None => b <= n

(* At pc, with the directory d, the lifecycle it continues being l.        *)
Reached(pc, d, l) ==
    /\ Held(d)
    /\ pc \in {"derive", "document"} =>
         ~Whole(d.journal) /\ d.state = None /\ d.gate = None /\ IsDb(d.db)
    /\ pc = "document" => DerivedOk(d)
    /\ pc \in Finalizing \cup {"provisional", "state"} => Documented(d)
    /\ pc = "state" => d.files["manifest"].previous = l
    /\ pc \in Finalizing =>
         d.state.derived = d.derived /\ d.state.previous = l
    /\ pc \in {"finalize", "served", "seal", "journal"} =>
         Continues(d.files, d.state.previous)
    /\ pc = "journal" =>
         /\ Lists(d.files["manifest"], d, WithoutManifest(d.files))
         /\ d.files["manifest"].previous = d.state.previous
         /\ Accounted(d.derived)

(* What the site is of, when the directory id holds d, and the count n was *)
(* taken of the site w.                                                    *)
Serving(id, d, w) ==
    /\ w = [id |-> w.id, modules |-> w.modules, size |-> w.size,
            stats |-> w.stats, signals |-> w.signals]
    /\ w.id = id /\ w.modules = Modules(d.derived)

Counted(pc, id, d, w, n) ==
    /\ pc \in {"state"} \cup Finalizing =>
         d.files["manifest"].modules = Modules(d.derived)
    /\ pc \in {"signals", "finalize", "served"} =>
         Serving(id, d, w) /\ n = w.size
    /\ pc = "served" => d.files["stats"].count = w.size
    /\ pc \in {"seal", "journal", "record", "package"} =>
         /\ Serving(id, d, w)
         /\ w.stats = d.files["stats"] /\ w.stats.count = w.size
    /\ pc \in {"record", "package"} =>
         /\ Distinct => d.journal # None
         /\ Whole(d.journal) => d.journal.files["stats"] = w.stats

(* The directory a session writes to is not published, and no later one    *)
(* has a journal.                                                          *)
Newest(id) ==
    /\ repo.builds[id] = None
    /\ \A c \in Ids : c > id => staging[c] = None \/ staging[c].journal = None

(* A site that was packaged is its directory's, as it was journaled.       *)
Packaged ==
    /\ run.id \in Ids /\ Newest(run.id)
    /\ Distinct => Dir # None /\ Dir.journal # None
    /\ work.artifact.id = run.id
    /\ work.artifact.stats.count = work.artifact.size
    /\ Whole(Dir.journal) =>
         /\ Dir.journal.files["stats"] = work.artifact.stats
         /\ Dir.journal.manifest.modules = work.artifact.modules

(* What is about to be deployed is a published build's own site.           *)
ArtifactIsCounted ==
    LET s == work.artifact IN
    /\ s.id \in Builds
    /\ s.stats = repo.builds[s.id].files["stats"]
    /\ s.stats.count = s.size
    /\ s.modules = repo.builds[s.id].manifest.modules

Session ==
    /\ run.pc = "stage" => Room
    /\ run.pc \in Working \cup {"stage"} => ~run.fresh
    /\ run.pc \in Working =>
         /\ run.id \in Ids /\ Newest(run.id) /\ Reached(run.pc, Dir, Latest)
         /\ Counted(run.pc, run.id, Dir, work.dist, run.count)
    /\ run.pc = "publish" /\ run.fresh => Packaged
    /\ Distinct /\ run.pc = "deploy" => ArtifactIsCounted
    /\ run.pc = "site" => run.prior = Latest \/ run.declared
    /\ run.pc = "signals" =>
         /\ work.dist.signals \in MaybeId
         /\ work.dist.signals = Latest \/ run.declared

(* A release leaves no staging behind.                                     *)
Stored == \A b \in Ids : staging[b] # None =>
            Held(staging[b]) /\ repo.builds[b] = None

AssemblyInv ==
    Shapes /\ Session /\ Stored
      /\ (Distinct => DeployedSiteIsCounted)
      /\ BuildsAreDescribed /\ NoModuleIsLost /\ LifecycleIsChained

-----------------------------------------------------------------------------
(* Frames: what a step leaves of the invariant when it leaves a variable.  *)

Described ==
    /\ BuildsAreDescribed /\ NoModuleIsLost /\ LifecycleIsChained
    /\ Distinct => DeployedSiteIsCounted

LEMMA SameRepo ==
    ASSUME Described, repo'.builds = repo.builds, UNCHANGED <<notice, site>>
    PROVE  Described'
<1>1. BuildsAreDescribed' /\ LifecycleIsChained'
  BY DEF Described, BuildsAreDescribed, LifecycleIsChained, Builds
<1>2. NoModuleIsLost' /\ (Distinct => DeployedSiteIsCounted)'
  BY DEF Described, NoModuleIsLost, DeployedSiteIsCounted, Builds
<1> QED BY <1>1, <1>2 DEF Described

LEMMA GotoChanges ==
    ASSUME Shapes, NEW pc, Goto(pc)
    PROVE  /\ run' = [pc |-> run'.pc, id |-> run'.id, fresh |-> run'.fresh,
                      base |-> run'.base, prior |-> run'.prior,
                      declared |-> run'.declared, count |-> run'.count]
           /\ run'.pc = pc /\ run'.id = run.id /\ run'.base = run.base
           /\ run'.prior = run.prior /\ run'.declared = run.declared
           /\ run'.fresh = run.fresh /\ run'.count = run.count
BY DEF Shapes, Goto

(* What the checkout's latest.json says does not change during a session.  *)
LEMMA SameLatest ==
    ASSUME UNCHANGED hosted, run'.base = run.base,
           ~hosted => repo'.latest = repo.latest
    PROVE  Latest' = Latest
BY DEF Latest

(* One directory is replaced by one that is as whole.                      *)
LEMMA PutKeepsStored ==
    ASSUME Stored, NEW i \in Ids, NEW e, Held(e),
           repo.builds[i] = None, repo'.builds = repo.builds,
           staging = [b \in Ids |-> staging[b]],
           staging' = [staging EXCEPT ![i] = e]
    PROVE  /\ Stored' /\ staging' = [b \in Ids |-> staging'[b]]
           /\ staging'[i] = e
<1>1. staging' = [b \in Ids |-> staging'[b]] /\ staging'[i] = e
  OBVIOUS
<1>2. ASSUME NEW b \in Ids, staging'[b] # None
      PROVE  Held(staging'[b]) /\ repo'.builds[b] = None
  <2>1. CASE b = i
    BY <1>1, <2>1
  <2>2. CASE b # i
    <3>1. staging'[b] = staging[b]
      BY <2>2
    <3> QED BY <1>2, <3>1 DEF Stored
  <2> QED BY <2>1, <2>2
<1>3. Stored'
  BY <1>2 DEF Stored, Held, Documented, DerivedOk, JournalOk, IsDir
<1> QED BY <1>1, <1>3

(* A session's step writes one directory and goes on.                      *)
LEMMA WorkStep ==
    ASSUME AssemblyInv, run.pc \in Working, NEW pc \in Working, NEW e,
           \/ staging' = [staging EXCEPT ![run.id] = e]
           \/ e = Dir /\ UNCHANGED staging,
           Reached(pc, e, Latest),
           run' = [pc |-> run'.pc, id |-> run'.id, fresh |-> run'.fresh,
                   base |-> run'.base, prior |-> run'.prior,
                   declared |-> run'.declared, count |-> run'.count],
           run'.pc = pc, run'.id = run.id, run'.base = run.base,
           run'.declared = run.declared, run'.prior \in MaybeId,
           run'.fresh = run.fresh,
           Counted(pc, run.id, e, work'.dist, run'.count),
           work' = [dist |-> work'.dist, artifact |-> work'.artifact],
           pc = "site" => run'.prior = Latest \/ run.declared,
           pc = "signals" => /\ work'.dist.signals \in MaybeId
                             /\ work'.dist.signals = Latest \/ run.declared,
           UNCHANGED <<source, hosted, repo, notice, site>>
    PROVE  AssemblyInv'
<1>0. /\ Shapes /\ Stored /\ Described /\ run.id \in Ids /\ Newest(run.id)
      /\ ~run.fresh
  BY DEF AssemblyInv, Described, Session
<1>1. Latest' = Latest
  BY SameLatest
<1>2. Held(e)
  BY DEF Reached
<1>3. Stored' /\ staging' = [b \in Ids |-> staging'[b]] /\ staging'[run.id] = e
  <2>1. CASE staging' = [staging EXCEPT ![run.id] = e]
    BY <1>0, <1>2, <2>1, PutKeepsStored DEF Shapes, Newest
  <2>2. CASE e = Dir /\ UNCHANGED staging
    BY <1>0, <2>2 DEF Shapes, Stored, Dir
  <2> QED BY <2>1, <2>2
<1>4. Shapes'
  BY <1>0, <1>3 DEF Shapes
<1>5. Dir' = e
  BY <1>3 DEF Dir
<1>6. pc \notin {"stage", "publish", "deploy"}
  BY DEF Working, Finalizing
<1>7. Session'
  <2>1. \A b \in Ids : b # run.id => staging'[b] = staging[b]
    BY <1>0 DEF Shapes
  <2>2. \A c \in Ids : c > run.id => c # run.id
    BY <1>0 DEF Ids
  <2>3. Newest(run.id)'
    BY <1>0, <2>1, <2>2 DEF Newest
  <2> QED BY <1>0, <1>1, <1>5, <1>6, <2>3 DEF Session
<1>8. Described'
  BY <1>0, SameRepo
<1> QED BY <1>3, <1>4, <1>7, <1>8 DEF AssemblyInv, Described

(* A session ends, or waits, and nothing that is stored was changed.       *)
LEMMA EndStep ==
    ASSUME AssemblyInv,
           run' = [pc |-> run'.pc, id |-> run'.id, fresh |-> run'.fresh,
                   base |-> run'.base, prior |-> run'.prior,
                   declared |-> run'.declared, count |-> run'.count],
           run'.pc \notin Working \cup {"stage", "site", "signals"},
           run'.declared \in BOOLEAN, run'.fresh \in BOOLEAN,
           run'.pc = "publish" /\ run'.fresh => Packaged',
           Distinct /\ run'.pc = "deploy" => ArtifactIsCounted',
           run'.base \in MaybeId, run'.prior \in MaybeId,
           work' = [dist |-> work'.dist, artifact |-> work'.artifact],
           Stored', staging' = [b \in Ids |-> staging'[b]],
           source' = [congress |-> source'.congress, opaque |-> source'.opaque,
                      inst |-> source'.inst],
           source'.inst \in InstSources,
           repo' = [latest |-> repo'.latest, builds |-> repo'.builds],
           repo'.builds = [b \in Ids |-> repo'.builds[b]],
           repo'.latest \in MaybeId, Described'
    PROVE  AssemblyInv'
<1>1. Shapes'
  BY DEF Shapes, MaybeId, Ids
<1>2. Session'
  BY DEF Session
<1> QED BY <1>1, <1>2 DEF AssemblyInv, Described

LEMMA FailStep ==
    ASSUME AssemblyInv, run' = Idle, UNCHANGED <<source, repo, staging, work, notice, site>>
    PROVE  AssemblyInv'
<1>1. /\ run' = [pc |-> run'.pc, id |-> run'.id, fresh |-> run'.fresh,
                 base |-> run'.base, prior |-> run'.prior,
                 declared |-> run'.declared, count |-> run'.count]
      /\ run'.pc = "idle" /\ run'.declared \in BOOLEAN
      /\ run'.fresh \in BOOLEAN
      /\ run'.base \in MaybeId /\ run'.prior \in MaybeId
  BY DEF Idle, MaybeId
<1>2. "idle" \notin Working \cup {"stage", "site", "signals"}
  BY DEF Working, Finalizing
<1>3. Described'
  BY SameRepo DEF AssemblyInv, Described
<1>4. Stored'
  BY DEF AssemblyInv, Stored
<1> QED BY <1>1, <1>2, <1>3, <1>4, EndStep DEF AssemblyInv, Shapes

LEMMA InitHolds == AssemblyInit => AssemblyInv
<1> SUFFICES ASSUME AssemblyInit PROVE AssemblyInv
  OBVIOUS
<1> DEFINE v == Min(Versions)
<1>1. /\ source \in [congress : {v}, opaque : {FALSE}, inst : InstSources]
      /\ repo \in {NoRepo, [NoRepo EXCEPT !.latest = 1, !.builds[1] = Legacy]}
      /\ staging = [b \in Ids |-> None] /\ work = NoWork /\ run = Idle
      /\ notice = None
  BY DEF AssemblyInit
<1>2. 1 \in Ids
  BY BuildAssemblyAssumption DEF Ids
<1>3. /\ repo = [latest |-> repo.latest, builds |-> repo.builds]
      /\ repo.builds = [b \in Ids |-> repo.builds[b]]
      /\ repo.latest \in MaybeId
      /\ \A b \in Ids : repo.builds[b] \in {None, Legacy}
  <2>1. CASE repo = NoRepo
    BY <2>1 DEF NoRepo, MaybeId
  <2>2. CASE repo = [NoRepo EXCEPT !.latest = 1, !.builds[1] = Legacy]
    <3>1. repo = [latest |-> 1, builds |-> [NoRepo.builds EXCEPT ![1] = Legacy]]
      BY <2>2 DEF NoRepo
    <3>2. NoRepo.builds = [b \in Ids |-> None]
      BY DEF NoRepo
    <3> QED BY <1>2, <3>1, <3>2 DEF MaybeId
  <2> QED BY <1>1, <2>1, <2>2
<1>4. Shapes
  BY <1>1, <1>3 DEF Shapes, NoWork, Idle, MaybeId
<1>5. Session
  BY <1>1 DEF Session, Idle, Working, Finalizing
<1>6. Stored
  BY <1>1 DEF Stored
<1> DEFINE files == [NoFiles EXCEPT !["stats"] = Stats(v, None), !["feed"] = v]
<1>7. /\ files["stats"].of = v /\ files["feed"] = v
  BY DEF NoFiles, Documents, Stats
<1>8. /\ Legacy.files = files /\ Legacy.manifest.entries = Walk(files)
      /\ Legacy.manifest.db = Legacy.db /\ Legacy.db.sanitized /\ Legacy.db.of = v
      /\ Legacy.manifest.modules = {"congress"} /\ Legacy.manifest.agg = None
  BY DEF Legacy
<1> HIDE DEF files
<1>9. BuildsAreDescribed
  BY <1>3, <1>7, <1>8 DEF BuildsAreDescribed, Builds
<1>10. NoModuleIsLost /\ LifecycleIsChained
  BY <1>1, <1>3 DEF NoModuleIsLost, LifecycleIsChained, Builds
<1>11. DeployedSiteIsCounted
  BY DEF AssemblyInit, DeployedSiteIsCounted
<1> QED BY <1>4, <1>5, <1>6, <1>9, <1>10, <1>11 DEF AssemblyInv

-----------------------------------------------------------------------------
(* Phase 1: a directory is taken, derived, documented and sealed.          *)

(* A session that has begun has an id to take.                             *)
LEMMA RoomIsAnId ==
    ASSUME Room PROVE NextBuildId \in Ids
<1> DEFINE S == {0} \cup {b \in Ids : staging[b] # None \/ repo.builds[b] # None}
<1>1. PICK n \in 0..(MaxBuild - 1) : \A b \in Ids :
        staging[b] # None \/ repo.builds[b] # None => b <= n
  BY DEF Room
<1>2. n \in Nat /\ MaxBuild \in Nat /\ n <= MaxBuild - 1
  BY BuildAssemblyAssumption
<1>3. S \subseteq 0..n /\ S # {}
  BY <1>1, <1>2 DEF Ids
<1>4. NextBuildId = 1 + Max(S)
  BY DEF NextBuildId
<1>5. \A x \in S : x \in Nat /\ x <= n
  BY <1>3, <1>2
<1> HIDE DEF S
<1>6. Max(S) \in S
  BY <1>2, <1>3, MaxInSet
<1>7. PICK x \in S : x = Max(S)
  BY <1>6
<1>8. 1 + x \in Ids
  BY <1>2, <1>5, <1>7 DEF Ids
<1> QED BY <1>4, <1>7, <1>8

LEMMA AnIdIsRoom ==
    ASSUME NextBuildId <= MaxBuild PROVE Room
<1> DEFINE S == {0} \cup {b \in Ids : staging[b] # None \/ repo.builds[b] # None}
<1>1. MaxBuild \in Nat \ {0}
  BY BuildAssemblyAssumption
<1>2. S \subseteq 0..MaxBuild /\ S # {}
  BY <1>1 DEF Ids
<1>3. NextBuildId = 1 + Max(S)
  BY DEF NextBuildId
<1>4. \A x \in S : x \in Nat
  BY <1>2, <1>1
<1>5. \A b \in Ids : staging[b] # None \/ repo.builds[b] # None => b \in S
  OBVIOUS
<1> HIDE DEF S
<1>6. Max(S) \in S /\ \A y \in S : y <= Max(S)
  BY <1>1, <1>2, MaxInSet
<1>7. PICK x \in S : x = Max(S)
  BY <1>6
<1>8. 1 + x <= MaxBuild /\ x \in Nat
  BY <1>3, <1>4, <1>7
<1>9. x \in 0..(MaxBuild - 1)
  BY <1>1, <1>8
<1>10. \A b \in Ids : staging[b] # None \/ repo.builds[b] # None => b <= x
  BY <1>5, <1>6, <1>7
<1> QED BY <1>9, <1>10 DEF Room

LEMMA BeginKeepsInv ==
    ASSUME AssemblyInv, NEW declared \in BOOLEAN, Begin(declared)
    PROVE  AssemblyInv'
<1>0. Shapes /\ Stored /\ Described
  BY DEF AssemblyInv, Described
<1>1. /\ NextBuildId <= MaxBuild /\ work' = NoWork
      /\ staging' = IF hosted THEN [b \in Ids |-> None] ELSE staging
      /\ run' = [Idle EXCEPT !.pc = "stage", !.base = repo.latest,
                             !.declared = declared]
      /\ source' = IF hosted THEN [source EXCEPT !.opaque = SeededFrom(repo.latest)]
                   ELSE source
      /\ UNCHANGED <<repo, notice, site, hosted>>
  BY DEF Begin
<1>2. run' = [pc |-> "stage", id |-> None, fresh |-> FALSE, base |-> repo.latest,
              prior |-> None, declared |-> declared, count |-> None]
  BY <1>1 DEF Idle
<1>3. /\ staging' = [b \in Ids |-> staging'[b]]
      /\ \A b \in Ids : staging'[b] # None => staging'[b] = staging[b]
                                              /\ staging[b] # None
  BY <1>0, <1>1 DEF Shapes
<1>4. Stored'
  BY <1>0, <1>1, <1>3 DEF Stored
<1>5. /\ source' = [congress |-> source'.congress, opaque |-> source'.opaque,
                    inst |-> source'.inst]
      /\ source'.inst = source.inst
  BY <1>0, <1>1 DEF Shapes
<1>6. work' = [dist |-> work'.dist, artifact |-> work'.artifact]
  BY <1>1 DEF NoWork
<1>7. Shapes'
  <2>1. /\ run' = [pc |-> run'.pc, id |-> run'.id, fresh |-> run'.fresh,
                   base |-> run'.base, prior |-> run'.prior,
                   declared |-> run'.declared, count |-> run'.count]
        /\ run'.declared \in BOOLEAN /\ run'.fresh \in BOOLEAN
        /\ run'.base \in MaybeId
        /\ run'.prior \in MaybeId
    BY <1>0, <1>2 DEF Shapes, MaybeId
  <2>2. /\ repo' = [latest |-> repo'.latest, builds |-> repo'.builds]
        /\ repo'.builds = [b \in Ids |-> repo'.builds[b]]
        /\ repo'.latest \in MaybeId
    BY <1>0, <1>1 DEF Shapes
  <2>3. MaybeId' = MaybeId
    BY DEF MaybeId
  <2>4. source'.inst \in InstSources
    BY <1>0, <1>5 DEF Shapes
  <2> QED BY <1>3, <1>5, <1>6, <2>1, <2>2, <2>3, <2>4, Zenon DEF Shapes
<1>8. Room'
  <2>1. Room
    BY <1>1, AnIdIsRoom
  <2> QED BY <1>1, <1>3, <2>1 DEF Room
<1>9. Session'
  BY <1>2, <1>8 DEF Session, Working, Finalizing
<1>10. Described'
  BY <1>0, <1>1, SameRepo
<1> QED BY <1>4, <1>7, <1>9, <1>10 DEF AssemblyInv, Described

(* The candidate is one.                                                   *)
LEMMA CandidateIsHeld ==
    ASSUME AssemblyInv, Candidates # {}
    PROVE  /\ Max(Candidates) \in Ids
           /\ Held(staging[Max(Candidates)])
           /\ repo.builds[Max(Candidates)] = None
           /\ \A b \in Candidates : b \in Ids
<1>1. MaxBuild \in Nat /\ Candidates \subseteq 0..MaxBuild
  BY BuildAssemblyAssumption DEF Candidates, Ids
<1>2. Max(Candidates) \in Candidates
  BY <1>1, MaxInSet
<1>3. PICK b \in Candidates : b = Max(Candidates)
  BY <1>2
<1>4. /\ b \in Ids /\ staging[b] # None /\ repo.builds[b] = None
      /\ \A c \in Candidates : c \in Ids
  BY <1>3 DEF Candidates
<1> QED BY <1>3, <1>4 DEF AssemblyInv, Stored

LEMMA PreserveKeepsInv ==
    ASSUME AssemblyInv, Preserve PROVE AssemblyInv'
<1>0. Shapes /\ Stored /\ Described /\ ~run.fresh
  BY DEF AssemblyInv, Described, Session, Preserve, At
<1>1. PICK i \in Ids : i = Max(Candidates) /\ Held(staging[i])
                       /\ repo.builds[i] = None
  BY CandidateIsHeld DEF Preserve
<1>2. PICK d : d = staging[i]
  OBVIOUS
<1>3. PICK e : e = [d EXCEPT !.state = None]
  OBVIOUS
<1>4. staging' = [staging EXCEPT ![i] = e]
  BY <1>0, <1>1, <1>2, <1>3 DEF Preserve, Shapes
<1>5. IsDir(d)
  BY <1>1, <1>2 DEF Held
<1>6. /\ IsDir(e) /\ e.state = None /\ e.db = d.db /\ e.agg = d.agg
      /\ e.serving = d.serving /\ e.files = d.files /\ e.derived = d.derived
      /\ e.journal = d.journal /\ e.gate = d.gate
  BY <1>3, <1>5 DEF IsDir
<1>7. Held(e)
  BY <1>1, <1>2, <1>6 DEF Held, Documented, DerivedOk, JournalOk, Lists
<1>8. UNCHANGED <<repo, work, notice, site, source>>
  BY DEF Preserve, Given
<1>9. Stored' /\ staging' = [b \in Ids |-> staging'[b]]
  BY <1>0, <1>1, <1>4, <1>7, <1>8, PutKeepsStored DEF Shapes
<1>10. /\ run' = [pc |-> run'.pc, id |-> run'.id, fresh |-> run'.fresh,
                 base |-> run'.base, prior |-> run'.prior,
                 declared |-> run'.declared, count |-> run'.count]
      /\ run'.pc = "publish" /\ run'.base = run.base /\ run'.prior = run.prior
      /\ run'.declared = run.declared /\ run'.fresh = run.fresh
  BY <1>0 DEF Preserve, Shapes
<1>11. "publish" \notin Working \cup {"stage", "site", "signals"}
  BY DEF Working, Finalizing
<1>12. Described'
  BY <1>0, <1>8, SameRepo
<1> QED BY <1>0, <1>9, <1>10, <1>11, <1>8, <1>12, EndStep DEF Shapes

(* The id a session takes is not published, and no later one is journaled. *)
LEMMA TakenIsNewest ==
    ASSUME AssemblyInv, NEW i \in Ids,
           i = IF Candidates # {} THEN Max(Candidates) ELSE NextBuildId
    PROVE  Newest(i)
<1>0. /\ MaxBuild \in Nat /\ Candidates \subseteq 0..MaxBuild
      /\ \A c \in Ids : c \in Int
  BY BuildAssemblyAssumption DEF Candidates, Ids
<1>1. \A c \in Ids : staging[c] # None /\ staging[c].journal # None => c \in Candidates
  BY DEF AssemblyInv, Stored, Candidates
<1>2. CASE Candidates # {}
  <2>1. repo.builds[i] = None
    BY <1>2, CandidateIsHeld
  <2>2. \A c \in Candidates : c <= i
    BY <1>0, <1>2, MaxInSet
  <2>3. \A c \in Ids : c > i => c \notin Candidates
    BY <1>0, <2>2
  <2> QED BY <1>1, <2>1, <2>3 DEF Newest
<1>3. CASE Candidates = {}
  <2> DEFINE S == {0} \cup {b \in Ids : staging[b] # None \/ repo.builds[b] # None}
  <2>1. S \subseteq 0..MaxBuild /\ S # {} /\ i = 1 + Max(S)
    BY <1>0, <1>3 DEF Ids, NextBuildId
  <2>2. repo.builds[i] # None => i \in S
    OBVIOUS
  <2>3. \A x \in S : x \in Int
    BY <1>0
  <2> HIDE DEF S
  <2>4. Max(S) \in S /\ \A y \in S : y <= Max(S)
    BY <1>0, <2>1, MaxInSet
  <2>5. PICK x \in S : x = Max(S)
    BY <2>4
  <2>6. i \notin S
    <3>1. i = 1 + x /\ x \in Int /\ \A y \in S : y <= x
      BY <2>1, <2>3, <2>4, <2>5
    <3> QED BY <3>1
  <2> QED BY <1>1, <1>3, <2>2, <2>6 DEF Newest
<1> QED BY <1>2, <1>3

LEMMA TakeSnapshotKeepsInv ==
    ASSUME AssemblyInv, TakeSnapshot PROVE AssemblyInv'
<1>0. Shapes /\ Stored /\ Described /\ Room /\ ~run.fresh
  BY DEF AssemblyInv, Described, Session, TakeSnapshot, At
<1>1. PICK i \in Ids :
        i = IF Candidates # {} THEN Max(Candidates) ELSE NextBuildId
  BY <1>0, CandidateIsHeld, RoomIsAnId
<1>2. PICK db : db = [of |-> source.congress, sanitized |-> FALSE,
                      opaque |-> source.opaque, filed |-> None]
  OBVIOUS
<1>3. PICK e : e = [NoDir EXCEPT !.db = db]
  OBVIOUS
<1>4. Newest(i)
  BY <1>1, TakenIsNewest
<1>5. /\ staging' = [staging EXCEPT ![i] = e]
      /\ run' = [run EXCEPT !.pc = "derive", !.id = i]
      /\ UNCHANGED <<repo, work, notice, site, source, hosted>>
  BY <1>1, <1>2, <1>3 DEF TakeSnapshot, Given
<1>6. /\ IsDir(e) /\ e.db = db /\ e.state = None /\ e.journal = None
      /\ e.gate = None /\ IsDb(db)
  BY <1>2, <1>3 DEF IsDir, IsDb, NoDir, NoFiles
<1>7. Held(e)
  BY <1>6 DEF Held, Whole
<1>8. Stored' /\ staging' = [b \in Ids |-> staging'[b]] /\ staging'[i] = e
  BY <1>0, <1>4, <1>5, <1>7, PutKeepsStored DEF Shapes, Newest
<1>9. /\ run' = [pc |-> run'.pc, id |-> run'.id, fresh |-> run'.fresh,
                 base |-> run'.base, prior |-> run'.prior,
                 declared |-> run'.declared, count |-> run'.count]
      /\ run'.pc = "derive" /\ run'.id = i /\ run'.base = run.base
      /\ run'.prior = run.prior /\ run'.declared = run.declared
      /\ run'.fresh = run.fresh
  BY <1>0, <1>5 DEF Shapes
<1>10. Shapes'
  BY <1>0, <1>5, <1>8, <1>9 DEF Shapes
<1>11. Dir' = e
  BY <1>8, <1>9 DEF Dir
<1>12. Reached("derive", Dir', Latest')
  BY <1>6, <1>7, <1>11 DEF Reached, Whole, Finalizing
<1>13. Session'
  <2>1. \A c \in Ids : c > i => staging'[c] = staging[c]
    BY <1>0, <1>5 DEF Shapes, Ids
  <2>2. Newest(i)'
    BY <1>4, <1>5, <2>1 DEF Newest
  <2>3. Counted("derive", i, Dir', work'.dist, run'.count)
    BY DEF Counted, Finalizing
  <2> QED BY <1>0, <1>1, <1>9, <1>12, <2>2, <2>3 DEF Session
<1>14. Described'
  BY <1>0, <1>5, SameRepo
<1> QED BY <1>8, <1>10, <1>13, <1>14 DEF AssemblyInv, Described

(* A session that works is at its directory, which is whole so far.        *)
LEMMA AtWork ==
    ASSUME AssemblyInv, run.pc \in Working
    PROVE  /\ Shapes /\ Held(Dir) /\ IsDir(Dir) /\ Reached(run.pc, Dir, Latest)
           /\ run.id \in Ids /\ run.prior \in MaybeId
           /\ Counted(run.pc, run.id, Dir, work.dist, run.count)
           /\ work = [dist |-> work.dist, artifact |-> work.artifact]
BY DEF AssemblyInv, Session, Reached, Held, Shapes

(* Most steps write to the directory and go to the next one.               *)
LEMMA GotoStep ==
    ASSUME AssemblyInv, run.pc \in Working,
           NEW pc \in Working \ {"site", "signals"}, NEW e,
           \/ staging' = [staging EXCEPT ![run.id] = e]
           \/ e = Dir /\ UNCHANGED staging,
           Reached(pc, e, Latest), Goto(pc),
           Counted(pc, run.id, e, work'.dist, run.count),
           work' = [dist |-> work'.dist, artifact |-> work'.artifact],
           UNCHANGED <<source, hosted, repo, notice, site>>
    PROVE  AssemblyInv'
<1>1. Shapes /\ run.prior \in MaybeId
  BY AtWork
<1>2. /\ run' = [pc |-> run'.pc, id |-> run'.id, fresh |-> run'.fresh,
                 base |-> run'.base, prior |-> run'.prior,
                 declared |-> run'.declared, count |-> run'.count]
      /\ run'.pc = pc /\ run'.id = run.id /\ run'.base = run.base
      /\ run'.prior = run.prior /\ run'.declared = run.declared
      /\ run'.fresh = run.fresh /\ run'.count = run.count
  BY <1>1, GotoChanges
<1> QED BY <1>1, <1>2, WorkStep

LEMMA RedactedDerivation ==
    ASSUME NEW i
    PROVE  /\ Redacted(Derived(i)).of = i /\ Redacted(Derived(i)).redacted
           /\ Derived(i).of = i
BY DEF Redacted, Derived

(* What DeriveInst returns, and what the directory then holds.             *)
LEMMA DerivationIsOk ==
    ASSUME NEW i \in InstSources, Verdict[i] # "refused", NEW e,
           NEW v, v = DeriveInst(i),
           e.agg = IF ~Present(i) THEN None
                   ELSE IF v.agg # None THEN v.agg ELSE Derived(i),
           e.serving = v.serving, e.derived = v,
           e.files["source"] = Provenance(i)
    PROVE  DerivedOk(e)
<1>1. PICK r : r = Redacted(Derived(i))
  OBVIOUS
<1>2. PICK a : a = Derived(i)
  OBVIOUS
<1>3. r.of = i /\ r.redacted /\ a.of = i
  BY <1>1, <1>2, RedactedDerivation
<1>4. r # None /\ a # None /\ i # None
  <2>1. a \in File /\ r \in File
    BY <1>1, <1>2 DEF File, Derived, Redacted
  <2> QED BY <2>1, NoneAssumption
<1>5. Verdict[i] \in {"served", "withheld", "empty"}
  BY BuildAssemblyAssumption DEF Verdicts
<1>6. /\ v.agg = IF Verdict[i] = "served" THEN r ELSE None
      /\ v.serving = v.agg
      /\ v.withheld = IF Verdict[i] = "withheld" THEN i ELSE None
      /\ Verdict[i] = "served" => v.verdict = "included"
      /\ Verdict[i] = "withheld" => v.verdict = "withheld"
      /\ Verdict[i] = "empty" => v.verdict = "absent"
  BY <1>1, <1>5 DEF DeriveInst
<1>7. CASE Verdict[i] = "served"
  <2>1. v.agg = r /\ v.serving = r /\ v.withheld = None /\ v.verdict = "included"
    BY <1>6, <1>7
  <2>2. e.agg = r /\ e.serving = r
    BY <1>4, <1>7, <2>1 DEF Present
  <2> QED BY <1>3, <1>4, <2>1, <2>2 DEF DerivedOk
<1>8. CASE Verdict[i] = "withheld"
  BY <1>8, <1>2, <1>3, <1>4, <1>6 DEF DerivedOk, Present
<1>9. CASE Verdict[i] = "empty"
  BY <1>9, <1>6 DEF DerivedOk
<1> QED BY <1>5, <1>7, <1>8, <1>9

LEMMA DeriveKeepsInv ==
    ASSUME AssemblyInv, Derive PROVE AssemblyInv'
<1>1. CASE Fail
  BY <1>1, FailStep DEF Derive, Fail, Given
<1>2. CASE ~Fail
  <2>1. PICK d : d = Dir
    OBVIOUS
  <2>2. PICK i : i = source.inst
    OBVIOUS
  <2>3. run.pc = "derive" /\ run.pc \in Working
    BY DEF Derive, At, Working
  <2>4. /\ Held(d) /\ IsDir(d) /\ Reached("derive", d, Latest) /\ i \in InstSources
        /\ work = [dist |-> work.dist, artifact |-> work.artifact]
    BY <2>1, <2>2, <2>3, AtWork DEF Shapes
  <2>5. PICK e :
          e = [d EXCEPT
                 !.agg = IF ~Present(i) THEN None
                         ELSE IF DeriveInst(i).agg # None
                              THEN DeriveInst(i).agg ELSE Derived(i),
                 !.serving = DeriveInst(i).serving,
                 !.files["source"] = Provenance(i),
                 !.derived = DeriveInst(i)]
    OBVIOUS
  <2>6. /\ Verdict[i] # "refused" /\ Goto("document")
        /\ staging' = [staging EXCEPT ![run.id] = e]
        /\ UNCHANGED <<repo, work, notice, site, source, hosted>>
    BY <1>2, <2>1, <2>2, <2>5 DEF Derive, PutDir, Given
  <2>7. /\ IsDir(e) /\ DerivedOk(e) /\ e.db = d.db /\ e.state = d.state
        /\ e.journal = d.journal /\ e.gate = d.gate
    <3>1. PICK v : v = DeriveInst(i)
      OBVIOUS
    <3>2. PICK g : g = IF ~Present(i) THEN None
                       ELSE IF v.agg # None THEN v.agg ELSE Derived(i)
      OBVIOUS
    <3>3. PICK f : f = [d.files EXCEPT !["source"] = Provenance(i)]
      OBVIOUS
    <3>4. f = [k \in Documents |-> f[k]] /\ f["source"] = Provenance(i)
      BY <2>4, <3>3 DEF IsDir, Documents
    <3>5. e = [db |-> d.db, agg |-> g, serving |-> v.serving, files |-> f,
               derived |-> v, state |-> d.state, journal |-> d.journal,
               gate |-> d.gate]
      BY <2>4, <2>5, <3>1, <3>2, <3>3 DEF IsDir
    <3>6. /\ e.agg = g /\ e.serving = v.serving /\ e.files = f /\ e.derived = v
          /\ e.db = d.db /\ e.state = d.state /\ e.journal = d.journal
          /\ e.gate = d.gate
      BY <3>5
    <3>7. IsDir(e)
      BY <3>4, <3>5, <3>6 DEF IsDir
    <3>8. DerivedOk(e)
      BY <2>4, <2>6, <3>1, <3>2, <3>4, <3>6, DerivationIsOk
    <3> QED BY <3>6, <3>7, <3>8
  <2>8. ~Whole(d.journal) /\ d.state = None /\ d.gate = None /\ IsDb(d.db)
    BY <2>4 DEF Reached
  <2>9. Reached("document", e, Latest)
    BY <2>7, <2>8 DEF Reached, Held, Finalizing
  <2>10. Counted("document", run.id, e, work'.dist, run.count)
    BY DEF Counted, Finalizing
  <2> QED BY <2>3, <2>4, <2>6, <2>9, <2>10, GotoStep DEF Working
<1> QED BY <1>1, <1>2

(* A document is written, and the rest of the directory is left alone.     *)
LEMMA OneFile ==
    ASSUME NEW d, IsDir(d), NEW k \in Documents, NEW x, NEW f, NEW e,
           f = [d.files EXCEPT ![k] = x],
           e = [db |-> d.db, agg |-> d.agg, serving |-> d.serving, files |-> f,
                derived |-> d.derived, state |-> d.state,
                journal |-> d.journal, gate |-> d.gate]
    PROVE  /\ IsDir(e) /\ e.files[k] = x
           /\ \A j \in Documents \ {k} : e.files[j] = d.files[j]
           /\ e.db = d.db /\ e.agg = d.agg /\ e.serving = d.serving
           /\ e.derived = d.derived /\ e.state = d.state
           /\ e.journal = d.journal /\ e.gate = d.gate
<1>1. /\ f = [j \in Documents |-> f[j]] /\ f[k] = x
      /\ \A j \in Documents \ {k} : f[j] = d.files[j]
  BY DEF IsDir
<1>2. /\ e.files = f
      /\ e.db = d.db /\ e.agg = d.agg /\ e.serving = d.serving
      /\ e.derived = d.derived /\ e.state = d.state
      /\ e.journal = d.journal /\ e.gate = d.gate
  OBVIOUS
<1>3. IsDir(e)
  BY <1>1, <1>2 DEF IsDir
<1> QED BY <1>1, <1>2, <1>3

(* What keeps a directory whole: nothing it was derived from changes, and  *)
(* its documents are still about its databases.                            *)
LEMMA HeldStill ==
    ASSUME NEW d, NEW e, Held(d), IsDir(e),
           e.db = d.db, e.agg = d.agg, e.serving = d.serving,
           e.derived = d.derived, e.journal = d.journal,
           e.files["source"] = d.files["source"],
           e.files["stats"].of = d.files["stats"].of,
           e.files["feed"] = d.files["feed"],
           e.gate = d.gate \/ e.gate = d.derived.verdict,
           \/ e.files["manifest"] = d.files["manifest"]
           \/ e.files["manifest"].modules = Modules(d.derived),
           \/ e.state = d.state
           \/ /\ Documented(d) /\ e.state.derived = d.derived
              /\ e.files["manifest"].modules = Modules(d.derived)
    PROVE  Held(e) /\ (Documented(d) => Documented(e))
<1>1. Documented(d) => Documented(e)
  BY DEF Documented, DerivedOk
<1>2. Whole(e.journal) => JournalOk(e)
  BY DEF Held, JournalOk, Lists
<1> QED BY <1>1, <1>2 DEF Held

LEMMA DocumentKeepsInv ==
    ASSUME AssemblyInv, Document PROVE AssemblyInv'
<1>1. CASE Fail
  BY <1>1, FailStep DEF Document, Fail, Given
<1>2. CASE ~Fail
  <2>1. PICK d : d = Dir
    OBVIOUS
  <2>2. run.pc = "document" /\ run.pc \in Working
    BY DEF Document, At, Working
  <2>3. /\ Held(d) /\ IsDir(d) /\ Reached("document", d, Latest)
        /\ work = [dist |-> work.dist, artifact |-> work.artifact]
    BY <2>1, <2>2, AtWork DEF Shapes
  <2>4. PICK db : db = ListRedacted(Sanitized(d.db), Filed(d.derived))
    OBVIOUS
  <2>5. PICK s : s = Stats(d.db.of, None)
    OBVIOUS
  <2>6. PICK e : e = [d EXCEPT !.db = db, !.files["stats"] = s,
                               !.files["feed"] = d.db.of]
    OBVIOUS
  <2>7. Goto("provisional") /\ UNCHANGED <<repo, work, notice, site, source, hosted>>
    BY <1>2 DEF Document, Given
  <2>8. staging' = [staging EXCEPT ![run.id] = e]
    BY <1>2, <2>1, <2>4, <2>5, <2>6 DEF Document, PutDir, DescribedVersion
  <2>9. /\ ~Whole(d.journal) /\ d.state = None /\ d.gate = None
        /\ IsDb(d.db) /\ DerivedOk(d)
    BY <2>3 DEF Reached
  <2>10. /\ db.of = d.db.of /\ db.sanitized /\ db.opaque
         /\ db.filed = Filed(d.derived)
    BY <2>4, <2>9 DEF ListRedacted, Sanitized, IsDb
  <2>11. s.of = d.db.of
    BY <2>5 DEF Stats
  <2>12. PICK f : f = [d.files EXCEPT !["stats"] = s, !["feed"] = d.db.of]
    OBVIOUS
  <2>13. /\ f = [k \in Documents |-> f[k]] /\ f["stats"] = s
         /\ f["feed"] = d.db.of /\ f["source"] = d.files["source"]
    BY <2>3, <2>12 DEF IsDir, Documents
  <2>14. e = [db |-> db, agg |-> d.agg, serving |-> d.serving, files |-> f,
              derived |-> d.derived, state |-> d.state,
              journal |-> d.journal, gate |-> d.gate]
    BY <2>3, <2>6, <2>12 DEF IsDir
  <2>15. /\ e.db = db /\ e.agg = d.agg /\ e.serving = d.serving /\ e.files = f
         /\ e.derived = d.derived /\ e.state = d.state
         /\ e.journal = d.journal /\ e.gate = d.gate
    BY <2>14
  <2>16. IsDir(e)
    BY <2>13, <2>14, <2>15 DEF IsDir
  <2>17. Documented(e)
    BY <2>9, <2>10, <2>11, <2>13, <2>15 DEF Documented, DerivedOk
  <2>18. Reached("provisional", e, Latest)
    BY <2>9, <2>15, <2>16, <2>17 DEF Reached, Held, Finalizing
  <2>19. Counted("provisional", run.id, e, work'.dist, run.count)
    BY DEF Counted, Finalizing
  <2> QED BY <2>2, <2>3, <2>7, <2>8, <2>18, <2>19, GotoStep DEF Working
<1> QED BY <1>1, <1>2

LEMMA SealProvisionalKeepsInv ==
    ASSUME AssemblyInv, SealProvisional PROVE AssemblyInv'
<1>1. CASE Fail
  BY <1>1, FailStep DEF SealProvisional, Fail, Given
<1>2. CASE ~Fail
  <2>1. PICK d : d = Dir
    OBVIOUS
  <2>2. run.pc = "provisional" /\ run.pc \in Working
    BY DEF SealProvisional, At, Working
  <2>3. /\ Held(d) /\ IsDir(d) /\ Reached("provisional", d, Latest)
        /\ work = [dist |-> work.dist, artifact |-> work.artifact]
    BY <2>1, <2>2, AtWork DEF Shapes
  <2>4. PICK m : m = Manifest(d, d.files, Latest)
    OBVIOUS
  <2>5. PICK e : e = [d EXCEPT !.files["manifest"] = m]
    OBVIOUS
  <2>6. Goto("state") /\ UNCHANGED <<repo, work, notice, site, source, hosted>>
    BY <1>2 DEF SealProvisional, Given
  <2>7. staging' = [staging EXCEPT ![run.id] = e]
    BY <1>2, <2>1, <2>4, <2>5 DEF SealProvisional, PutDir
  <2>8. m.previous = Latest /\ m.modules = Modules(d.derived)
    BY <2>4 DEF Manifest
  <2>9. PICK f : f = [d.files EXCEPT !["manifest"] = m]
    OBVIOUS
  <2>10. e = [db |-> d.db, agg |-> d.agg, serving |-> d.serving, files |-> f,
              derived |-> d.derived, state |-> d.state,
              journal |-> d.journal, gate |-> d.gate]
    BY <2>3, <2>5, <2>9 DEF IsDir
  <2>11. /\ IsDir(e) /\ e.files["manifest"] = m
         /\ \A j \in Documents \ {"manifest"} : e.files[j] = d.files[j]
         /\ e.db = d.db /\ e.agg = d.agg /\ e.serving = d.serving
         /\ e.derived = d.derived /\ e.state = d.state
         /\ e.journal = d.journal /\ e.gate = d.gate
    BY <2>3, <2>9, <2>10, OneFile DEF Documents
  <2>12. Documented(d)
    BY <2>3 DEF Reached
  <2>13. Held(e) /\ Documented(e)
    <3>1. /\ e.files["source"] = d.files["source"]
          /\ e.files["stats"] = d.files["stats"]
          /\ e.files["feed"] = d.files["feed"]
      BY <2>11 DEF Documents
    <3> QED BY <2>3, <2>8, <2>11, <2>12, <3>1, HeldStill
  <2>14. Reached("state", e, Latest)
    BY <2>8, <2>11, <2>13 DEF Reached, Finalizing
  <2>15. Counted("state", run.id, e, work'.dist, run.count)
    BY <2>8, <2>11 DEF Counted, Finalizing
  <2> QED BY <2>2, <2>3, <2>6, <2>7, <2>14, <2>15, GotoStep DEF Working
<1> QED BY <1>1, <1>2

LEMMA WriteStageStateKeepsInv ==
    ASSUME AssemblyInv, WriteStageState PROVE AssemblyInv'
<1>1. PICK d : d = Dir
  OBVIOUS
<1>2. run.pc = "state" /\ run.pc \in Working
  BY DEF WriteStageState, At, Working
<1>3. /\ Held(d) /\ IsDir(d) /\ Reached("state", d, Latest)
      /\ work = [dist |-> work.dist, artifact |-> work.artifact]
      /\ d.files["manifest"].modules = Modules(d.derived)
  BY <1>1, <1>2, AtWork DEF Counted
<1>4. PICK s : s = [derived |-> d.derived,
                    previous |-> d.files["manifest"].previous]
  OBVIOUS
<1>5. PICK e : e = [d EXCEPT !.state = s]
  OBVIOUS
<1>6. /\ Goto("prior") /\ UNCHANGED <<repo, work, notice, site, source, hosted>>
      /\ staging' = [staging EXCEPT ![run.id] = e]
  BY <1>1, <1>4, <1>5 DEF WriteStageState, PutDir, Given
<1>7. /\ IsDir(e) /\ e.state = s /\ e.db = d.db /\ e.agg = d.agg
      /\ e.serving = d.serving /\ e.files = d.files /\ e.derived = d.derived
      /\ e.journal = d.journal /\ e.gate = d.gate
  BY <1>3, <1>5 DEF IsDir
<1>8. Documented(d) /\ d.files["manifest"].previous = Latest
  BY <1>3 DEF Reached
<1>9. s.derived = d.derived /\ s.previous = Latest
  BY <1>4, <1>8
<1>10. Held(e) /\ Documented(e)
  BY <1>3, <1>7, <1>8, <1>9, HeldStill
<1>11. Reached("prior", e, Latest)
  BY <1>7, <1>9, <1>10 DEF Reached, Finalizing
<1>12. Counted("prior", run.id, e, work'.dist, run.count)
  BY <1>3, <1>7 DEF Counted
<1> QED BY <1>2, <1>3, <1>6, <1>11, <1>12, GotoStep DEF Working, Finalizing

-----------------------------------------------------------------------------
(* The site is built from the staged build.                                *)

LEMMA ResolvePriorKeepsInv ==
    ASSUME AssemblyInv, ResolvePrior PROVE AssemblyInv'
<1>1. CASE Fail
  BY <1>1, FailStep DEF ResolvePrior, Fail, Given
<1>2. CASE ~Fail
  <2>1. run.pc = "prior" /\ run.pc \in Working
    BY DEF ResolvePrior, At, Working, Finalizing
  <2>2. /\ Shapes /\ Reached("prior", Dir, Latest)
        /\ Counted("prior", run.id, Dir, work.dist, run.count)
        /\ work = [dist |-> work.dist, artifact |-> work.artifact]
    BY <2>1, AtWork
  <2>3. PICK l : l = Latest /\ l \in MaybeId
    BY <2>2 DEF Shapes, Latest
  <2>4. PICK p : p = IF SignalsOf(l) # None THEN l ELSE None
    OBVIOUS
  <2>5. /\ l = None \/ SignalsOf(l) # None \/ run.declared
        /\ run' = [run EXCEPT !.pc = "site", !.prior = p]
        /\ UNCHANGED <<repo, staging, work, notice, site, source, hosted>>
    BY <1>2, <2>3, <2>4 DEF ResolvePrior, Chained, Given
  <2>6. /\ run' = [pc |-> run'.pc, id |-> run'.id, fresh |-> run'.fresh,
                   base |-> run'.base, prior |-> run'.prior,
                   declared |-> run'.declared, count |-> run'.count]
        /\ run'.pc = "site" /\ run'.id = run.id /\ run'.base = run.base
        /\ run'.prior = p /\ run'.declared = run.declared
        /\ run'.fresh = run.fresh
    BY <2>2, <2>5 DEF Shapes
  <2>7. p \in MaybeId /\ (p = l \/ run.declared)
    BY <2>3, <2>4, <2>5 DEF MaybeId, SignalsOf
  <2>8. Reached("site", Dir, Latest)
    BY <2>2 DEF Reached, Finalizing
  <2>9. Counted("site", run.id, Dir, work'.dist, run'.count)
    BY <2>2 DEF Counted, Finalizing
  <2> QED BY <2>1, <2>2, <2>3, <2>5, <2>6, <2>7, <2>8, <2>9, WorkStep DEF Working, Finalizing
<1> QED BY <1>1, <1>2

LEMMA BuildSiteKeepsInv ==
    ASSUME AssemblyInv, BuildSite PROVE AssemblyInv'
<1>1. run.pc = "site" /\ run.pc \in Working
  BY DEF BuildSite, At, Working, Finalizing
<1>2. /\ Shapes /\ Reached("site", Dir, Latest) /\ run.prior \in MaybeId
      /\ run.prior = Latest \/ run.declared
      /\ Counted("site", run.id, Dir, work.dist, run.count)
      /\ work = [dist |-> work.dist, artifact |-> work.artifact]
  BY <1>1, AtWork DEF AssemblyInv, Session
<1>3. PICK n : n = Emitted(Dir.files["manifest"].modules)
  OBVIOUS
<1>4. PICK t : t = [id |-> run.id, modules |-> Dir.files["manifest"].modules,
                    size |-> n, stats |-> Dir.files["stats"],
                    signals |-> run.prior]
  OBVIOUS
<1>5. /\ run' = [run EXCEPT !.pc = "signals", !.count = n]
      /\ work' = [work EXCEPT !.dist = t]
      /\ UNCHANGED <<repo, staging, notice, site, source, hosted>>
  BY <1>3, <1>4 DEF BuildSite, Given
<1>6. /\ run' = [pc |-> run'.pc, id |-> run'.id, fresh |-> run'.fresh,
                 base |-> run'.base, prior |-> run'.prior,
                 declared |-> run'.declared, count |-> run'.count]
      /\ run'.pc = "signals" /\ run'.id = run.id /\ run'.base = run.base
      /\ run'.prior = run.prior /\ run'.declared = run.declared
      /\ run'.fresh = run.fresh /\ run'.count = n
  BY <1>2, <1>5 DEF Shapes
<1>7. /\ work' = [dist |-> work'.dist, artifact |-> work'.artifact]
      /\ work'.dist = t /\ work'.dist.signals = run.prior
  <2>1. work'.dist = t /\ work' = [dist |-> work'.dist, artifact |-> work'.artifact]
    BY <1>2, <1>5
  <2>2. t.signals = run.prior
    BY <1>4
  <2> QED BY <2>1, <2>2
<1>8. Reached("signals", Dir, Latest)
  BY <1>2 DEF Reached, Finalizing
<1>9. Counted("signals", run.id, Dir, work'.dist, run'.count)
  <2>1. Dir.files["manifest"].modules = Modules(Dir.derived)
    BY <1>2 DEF Counted, Finalizing
  <2>2. /\ t = [id |-> t.id, modules |-> t.modules, size |-> t.size,
                stats |-> t.stats, signals |-> t.signals]
        /\ t.id = run.id /\ t.size = n
        /\ t.modules = Dir.files["manifest"].modules
    BY <1>4
  <2>3. Serving(run.id, Dir, t)
    BY <2>1, <2>2 DEF Serving
  <2> QED BY <1>6, <1>7, <2>1, <2>2, <2>3 DEF Counted
<1> QED BY <1>1, <1>2, <1>5, <1>6, <1>7, <1>8, <1>9, WorkStep DEF Working, Finalizing

LEMMA CopySignalsKeepsInv ==
    ASSUME AssemblyInv, CopySignals PROVE AssemblyInv'
<1>1. PICK d : d = Dir
  OBVIOUS
<1>2. run.pc = "signals" /\ run.pc \in Working
  BY DEF CopySignals, At, Working, Finalizing
<1>3. /\ Held(d) /\ IsDir(d) /\ Reached("signals", d, Latest)
      /\ work = [dist |-> work.dist, artifact |-> work.artifact]
      /\ run.declared \in BOOLEAN
      /\ work.dist.signals \in MaybeId
      /\ work.dist.signals = Latest \/ run.declared
      /\ Counted("signals", run.id, d, work.dist, run.count)
  BY <1>1, <1>2, AtWork DEF AssemblyInv, Session, Shapes
<1>4. PICK s : s = Signals(work.dist.signals, run.declared)
  OBVIOUS
<1>5. s # None /\ (s.prior = Latest \/ s.declared)
  <2>1. s.prior = work.dist.signals /\ s.declared = run.declared /\ s \in Lifecycle
    BY <1>3, <1>4 DEF Signals, Lifecycle, MaybeId
  <2> QED BY <1>3, <2>1, NoneAssumption
<1>6. PICK e : e = [d EXCEPT !.files["signals"] = s]
  OBVIOUS
<1>7. /\ Goto("finalize") /\ UNCHANGED <<repo, work, notice, site, source, hosted>>
      /\ staging' = [staging EXCEPT ![run.id] = e]
  BY <1>1, <1>4, <1>6 DEF CopySignals, PutDir, Given
<1>8. PICK f : f = [d.files EXCEPT !["signals"] = s]
  OBVIOUS
<1>9. e = [db |-> d.db, agg |-> d.agg, serving |-> d.serving, files |-> f,
           derived |-> d.derived, state |-> d.state,
           journal |-> d.journal, gate |-> d.gate]
  BY <1>3, <1>6, <1>8 DEF IsDir
<1>10. /\ IsDir(e) /\ e.files["signals"] = s
       /\ \A j \in Documents \ {"signals"} : e.files[j] = d.files[j]
       /\ e.db = d.db /\ e.agg = d.agg /\ e.serving = d.serving
       /\ e.derived = d.derived /\ e.state = d.state
       /\ e.journal = d.journal /\ e.gate = d.gate
  BY <1>3, <1>8, <1>9, OneFile DEF Documents
<1>11. /\ Documented(d) /\ d.state.derived = d.derived
       /\ d.state.previous = Latest
  BY <1>3 DEF Reached, Finalizing
<1>12. Held(e) /\ Documented(e)
  <2>1. /\ e.files["source"] = d.files["source"]
        /\ e.files["stats"] = d.files["stats"]
        /\ e.files["feed"] = d.files["feed"]
        /\ e.files["manifest"] = d.files["manifest"]
    BY <1>10 DEF Documents
  <2> QED BY <1>3, <1>10, <1>11, <2>1, HeldStill
<1>13. Reached("finalize", e, Latest)
  BY <1>5, <1>10, <1>11, <1>12 DEF Reached, Continues
<1>14. Counted("finalize", run.id, e, work'.dist, run.count)
  <2>1. e.files["manifest"] = d.files["manifest"] /\ work'.dist = work.dist
    BY <1>7, <1>10 DEF Documents
  <2> QED BY <1>3, <1>10, <2>1 DEF Counted, Serving, Finalizing
<1> QED BY <1>2, <1>3, <1>7, <1>13, <1>14, GotoStep DEF Working, Finalizing

-----------------------------------------------------------------------------
(* Phase 2: the build is counted, sealed again and journaled.              *)

(* The count is written beside what the statistics are of.                 *)
LEMMA PatchStatsKeepsInv ==
    ASSUME AssemblyInv, PatchStats PROVE AssemblyInv'
<1>1. PICK d : d = Dir
  OBVIOUS
<1>2. run.pc = "finalize" /\ run.pc \in Working
  BY DEF PatchStats, At, Working, Finalizing
<1>3. /\ Held(d) /\ IsDir(d) /\ Reached("finalize", d, Latest)
      /\ Counted("finalize", run.id, d, work.dist, run.count)
      /\ work = [dist |-> work.dist, artifact |-> work.artifact]
  BY <1>1, <1>2, AtWork
<1>4. PICK s : s = Stats(d.files["stats"].of, run.count)
  OBVIOUS
<1>5. s.of = d.files["stats"].of /\ s.count = run.count
  BY <1>4 DEF Stats
<1>6. PICK e : e = [d EXCEPT !.files["stats"] = s]
  OBVIOUS
<1>7. /\ Goto("served") /\ UNCHANGED <<repo, work, notice, site, source, hosted>>
      /\ staging' = [staging EXCEPT ![run.id] = e]
  BY <1>1, <1>4, <1>6 DEF PatchStats, Patched, PutDir, Given
<1>8. PICK f : f = [d.files EXCEPT !["stats"] = s]
  OBVIOUS
<1>9. e = [db |-> d.db, agg |-> d.agg, serving |-> d.serving, files |-> f,
           derived |-> d.derived, state |-> d.state,
           journal |-> d.journal, gate |-> d.gate]
  BY <1>3, <1>6, <1>8 DEF IsDir
<1>10. /\ IsDir(e) /\ e.files["stats"] = s
       /\ \A j \in Documents \ {"stats"} : e.files[j] = d.files[j]
       /\ e.db = d.db /\ e.agg = d.agg /\ e.serving = d.serving
       /\ e.derived = d.derived /\ e.state = d.state
       /\ e.journal = d.journal /\ e.gate = d.gate
  BY <1>3, <1>8, <1>9, OneFile DEF Documents
<1>11. /\ e.files["source"] = d.files["source"]
       /\ e.files["feed"] = d.files["feed"]
       /\ e.files["signals"] = d.files["signals"]
       /\ e.files["manifest"] = d.files["manifest"]
  BY <1>10 DEF Documents
<1>12. /\ Documented(d) /\ d.state.derived = d.derived
       /\ d.state.previous = Latest /\ Continues(d.files, d.state.previous)
  BY <1>3 DEF Reached, Finalizing
<1>13. Held(e) /\ Documented(e)
  BY <1>3, <1>5, <1>10, <1>11, <1>12, HeldStill
<1>14. Reached("served", e, Latest)
  BY <1>10, <1>11, <1>12, <1>13 DEF Reached, Continues
<1>15. Counted("served", run.id, e, work'.dist, run.count)
  BY <1>3, <1>5, <1>7, <1>10, <1>11 DEF Counted, Serving, Finalizing
<1> QED BY <1>2, <1>3, <1>7, <1>14, <1>15, GotoStep DEF Working, Finalizing

LEMMA PatchServedKeepsInv ==
    ASSUME AssemblyInv, PatchServed PROVE AssemblyInv'
<1>1. run.pc = "served" /\ run.pc \in Working
  BY DEF PatchServed, At, Working, Finalizing
<1>2. /\ Reached("served", Dir, Latest)
      /\ Counted("served", run.id, Dir, work.dist, run.count)
      /\ work = [dist |-> work.dist, artifact |-> work.artifact]
  BY <1>1, AtWork
<1>3. /\ Goto("seal") /\ UNCHANGED <<repo, staging, notice, site, source, hosted>>
      /\ work' = [work EXCEPT !.dist.stats = ServedStats]
  BY DEF PatchServed, Given
<1>4. work' = [dist |-> work'.dist, artifact |-> work'.artifact]
  BY <1>2, <1>3
<1>5. Reached("seal", Dir, Latest)
  BY <1>2 DEF Reached, Finalizing
<1>6. Counted("seal", run.id, Dir, work'.dist, run.count)
  <2>1. PICK w : w = work.dist
    OBVIOUS
  <2>2. PICK x : x = [w EXCEPT !.stats = ServedStats]
    OBVIOUS
  <2>3. work'.dist = x
    BY <1>2, <1>3, <2>1, <2>2
  <2>4. /\ Serving(run.id, Dir, w) /\ Dir.files["stats"].count = w.size
        /\ Dir.files["manifest"].modules = Modules(Dir.derived)
    BY <1>2, <2>1 DEF Counted, Finalizing
  <2>5. x = [id |-> w.id, modules |-> w.modules, size |-> w.size,
             stats |-> ServedStats, signals |-> w.signals]
    BY <2>2, <2>4 DEF Serving
  <2>6. /\ Serving(run.id, Dir, x) /\ x.size = w.size
        /\ x.stats = Dir.files["stats"]
    BY <2>4, <2>5 DEF Serving, ServedStats
  <2> QED BY <2>3, <2>4, <2>6 DEF Counted
<1> QED BY <1>1, <1>3, <1>4, <1>5, <1>6, GotoStep DEF Working, Finalizing

LEMMA WithoutManifestIs ==
    ASSUME NEW f, f = [k \in Documents |-> f[k]]
    PROVE  /\ WithoutManifest(f) = [k \in Documents |-> WithoutManifest(f)[k]]
           /\ WithoutManifest(f)["manifest"] = None
           /\ \A k \in Documents \ {"manifest"} : WithoutManifest(f)[k] = f[k]
BY DEF WithoutManifest, Documents

LEMMA SealFinalKeepsInv ==
    ASSUME AssemblyInv, SealFinal PROVE AssemblyInv'
<1>1. PICK d : d = Dir
  OBVIOUS
<1>2. run.pc = "seal" /\ run.pc \in Working
  BY DEF SealFinal, At, Working, Finalizing
<1>3. /\ Held(d) /\ IsDir(d) /\ Reached("seal", d, Latest)
      /\ Counted("seal", run.id, d, work.dist, run.count)
      /\ work = [dist |-> work.dist, artifact |-> work.artifact]
  BY <1>1, <1>2, AtWork
<1>4. /\ Documented(d) /\ d.state.derived = d.derived
      /\ d.state.previous = Latest /\ Continues(d.files, d.state.previous)
  BY <1>3 DEF Reached, Finalizing
<1>5. PICK w : w = WithoutManifest(d.files)
  OBVIOUS
<1>6. PICK s : s = Stage
  OBVIOUS
<1>7. s.derived = d.derived /\ s.db = d.db
  BY <1>1, <1>3, <1>4, <1>6 DEF Stage, IsDir
<1>8. PICK m : m = Manifest(s, w, d.state.previous)
  OBVIOUS
<1>9. /\ m.entries = Walk(w) /\ m.modules = Modules(d.derived) /\ m.db = d.db
      /\ m.agg = d.derived.agg /\ m.serving = d.derived.serving
      /\ m.previous = d.state.previous
  BY <1>7, <1>8 DEF Manifest
<1>10. PICK e : e = [d EXCEPT !.files["manifest"] = m]
  OBVIOUS
<1>11. /\ Goto("journal") /\ UNCHANGED <<repo, work, notice, site, source, hosted>>
       /\ staging' = [staging EXCEPT ![run.id] = e] /\ Sealable(s.derived)
  BY <1>1, <1>5, <1>6, <1>8, <1>10 DEF SealFinal, PutDir, Given
<1>12. PICK f : f = [d.files EXCEPT !["manifest"] = m]
  OBVIOUS
<1>13. e = [db |-> d.db, agg |-> d.agg, serving |-> d.serving, files |-> f,
            derived |-> d.derived, state |-> d.state,
            journal |-> d.journal, gate |-> d.gate]
  BY <1>3, <1>10, <1>12 DEF IsDir
<1>14. /\ IsDir(e) /\ e.files["manifest"] = m
       /\ \A j \in Documents \ {"manifest"} : e.files[j] = d.files[j]
       /\ e.db = d.db /\ e.agg = d.agg /\ e.serving = d.serving
       /\ e.derived = d.derived /\ e.state = d.state
       /\ e.journal = d.journal /\ e.gate = d.gate
  BY <1>3, <1>12, <1>13, OneFile DEF Documents
<1>15. /\ e.files["source"] = d.files["source"]
       /\ e.files["stats"] = d.files["stats"]
       /\ e.files["feed"] = d.files["feed"]
       /\ e.files["signals"] = d.files["signals"]
  BY <1>14 DEF Documents
<1>16. Held(e) /\ Documented(e)
  BY <1>3, <1>4, <1>9, <1>14, <1>15, HeldStill
<1>17. WithoutManifest(e.files) = w
  <2>1. PICK g : g = e.files
    OBVIOUS
  <2>2. PICK h : h = d.files
    OBVIOUS
  <2>3. g = [k \in Documents |-> g[k]] /\ h = [k \in Documents |-> h[k]]
    BY <1>3, <1>14, <2>1, <2>2 DEF IsDir
  <2>4. \A k \in Documents \ {"manifest"} : g[k] = h[k]
    BY <1>14, <2>1, <2>2
  <2>5. WithoutManifest(g) = WithoutManifest(h)
    BY <2>3, <2>4 DEF WithoutManifest, Documents
  <2> QED BY <1>5, <2>1, <2>2, <2>5
<1>18. Lists(m, e, WithoutManifest(e.files))
  BY <1>9, <1>14, <1>17 DEF Lists
<1>19. Accounted(e.derived)
  BY <1>7, <1>11, <1>14 DEF Sealable
<1>20. Reached("journal", e, Latest)
  BY <1>4, <1>9, <1>14, <1>15, <1>16, <1>18, <1>19 DEF Reached, Continues
<1>21. Counted("journal", run.id, e, work'.dist, run.count)
  BY <1>3, <1>9, <1>11, <1>14, <1>15 DEF Counted, Serving
<1> QED BY <1>2, <1>3, <1>11, <1>20, <1>21, GotoStep DEF Working, Finalizing

LEMMA WriteJournalKeepsInv ==
    ASSUME AssemblyInv, WriteJournal PROVE AssemblyInv'
<1>1. PICK d : d = Dir
  OBVIOUS
<1>2. run.pc = "journal" /\ run.pc \in Working
  BY DEF WriteJournal, At, Working, Finalizing
<1>3. /\ Held(d) /\ IsDir(d) /\ Reached("journal", d, Latest)
      /\ Counted("journal", run.id, d, work.dist, run.count)
      /\ work = [dist |-> work.dist, artifact |-> work.artifact]
  BY <1>1, <1>2, AtWork
<1>4. /\ Documented(d) /\ d.state.derived = d.derived
      /\ d.state.previous = Latest /\ Continues(d.files, d.state.previous)
      /\ Lists(d.files["manifest"], d, WithoutManifest(d.files))
      /\ d.files["manifest"].previous = d.state.previous
      /\ Accounted(d.derived)
  BY <1>3 DEF Reached, Finalizing
<1>5. PICK w : w = WithoutManifest(d.files)
  OBVIOUS
<1>6. PICK j : j = [manifest |-> d.files["manifest"], files |-> w]
  OBVIOUS
<1>7. PICK e : e = [d EXCEPT !.journal = j]
  OBVIOUS
<1>8. /\ Goto("record") /\ UNCHANGED <<repo, work, notice, site, source, hosted>>
      /\ staging' = [staging EXCEPT ![run.id] = e]
  BY <1>1, <1>5, <1>6, <1>7 DEF WriteJournal, PutDir, Given
<1>9. /\ IsDir(e) /\ e.journal = j /\ e.db = d.db /\ e.agg = d.agg
      /\ e.serving = d.serving /\ e.files = d.files /\ e.derived = d.derived
      /\ e.state = d.state /\ e.gate = d.gate
  BY <1>3, <1>7 DEF IsDir
<1>10. j.manifest = d.files["manifest"] /\ j.files = w
  BY <1>6
<1>11. /\ w["stats"] = d.files["stats"] /\ w["feed"] = d.files["feed"]
       /\ w["source"] = d.files["source"] /\ w["signals"] = d.files["signals"]
  BY <1>3, <1>5, WithoutManifestIs DEF IsDir, Documents
<1>12. JournalOk(e)
  <2>1. Lists(j.manifest, e, j.files)
    BY <1>4, <1>5, <1>9, <1>10 DEF Lists
  <2>2. Continues(j.files, j.manifest.previous)
    BY <1>4, <1>10, <1>11 DEF Continues
  <2> QED BY <1>4, <1>9, <1>10, <1>11, <2>1, <2>2 DEF JournalOk, Documented
<1>13. Documented(e)
  BY <1>4, <1>9 DEF Documented, DerivedOk
<1>14. Held(e)
  BY <1>3, <1>4, <1>9, <1>12, <1>13 DEF Held
<1>15. Reached("record", e, Latest)
  BY <1>4, <1>9, <1>13, <1>14 DEF Reached
<1>16. Counted("record", run.id, e, work'.dist, run.count)
  <2>1. Distinct => e.journal # None
    BY <1>6, <1>9 DEF Distinct
  <2>2. e.journal.files["stats"] = e.files["stats"]
    BY <1>9, <1>10, <1>11
  <2> QED BY <1>3, <1>8, <1>9, <2>1, <2>2 DEF Counted, Serving, Finalizing
<1> QED BY <1>2, <1>3, <1>8, <1>15, <1>16, GotoStep DEF Working, Finalizing

LEMMA RecordGateKeepsInv ==
    ASSUME AssemblyInv, RecordGate PROVE AssemblyInv'
<1>1. PICK d : d = Dir
  OBVIOUS
<1>2. run.pc = "record" /\ run.pc \in Working
  BY DEF RecordGate, At, Working, Finalizing
<1>3. /\ Held(d) /\ IsDir(d) /\ Reached("record", d, Latest)
      /\ Counted("record", run.id, d, work.dist, run.count)
      /\ work = [dist |-> work.dist, artifact |-> work.artifact]
  BY <1>1, <1>2, AtWork
<1>4. /\ Documented(d) /\ d.state.derived = d.derived
      /\ d.state.previous = Latest
  BY <1>3 DEF Reached, Finalizing
<1>5. PICK g : g = GateRecord(d, d.state.derived.verdict)
  OBVIOUS
<1>6. g = d.derived.verdict
  BY <1>3, <1>4, <1>5 DEF GateRecord, Held
<1>7. PICK e : e = [d EXCEPT !.gate = g]
  OBVIOUS
<1>8. /\ Goto("package") /\ UNCHANGED <<repo, work, notice, site, source, hosted>>
      /\ staging' = [staging EXCEPT ![run.id] = e]
  BY <1>1, <1>5, <1>7 DEF RecordGate, PutDir, Given
<1>9. /\ IsDir(e) /\ e.gate = g /\ e.db = d.db /\ e.agg = d.agg
      /\ e.serving = d.serving /\ e.files = d.files /\ e.derived = d.derived
      /\ e.state = d.state /\ e.journal = d.journal
  BY <1>3, <1>7 DEF IsDir
<1>10. Held(e) /\ Documented(e)
  BY <1>3, <1>4, <1>6, <1>9, HeldStill
<1>11. Reached("package", e, Latest)
  BY <1>4, <1>9, <1>10 DEF Reached
<1>12. Counted("package", run.id, e, work'.dist, run.count)
  BY <1>3, <1>8, <1>9 DEF Counted, Serving, Finalizing
<1> QED BY <1>2, <1>3, <1>8, <1>11, <1>12, GotoStep DEF Working, Finalizing

LEMMA PackageKeepsInv ==
    ASSUME AssemblyInv, Package PROVE AssemblyInv'
<1>0. Shapes /\ Stored /\ Described
  BY DEF AssemblyInv, Described
<1>1. /\ run' = [run EXCEPT !.pc = "publish", !.fresh = TRUE]
      /\ work' = [work EXCEPT !.artifact = work.dist]
      /\ UNCHANGED <<repo, staging, notice, site, source, hosted>>
  BY DEF Package, Given
<1>2. /\ run' = [pc |-> run'.pc, id |-> run'.id, fresh |-> run'.fresh,
                 base |-> run'.base, prior |-> run'.prior,
                 declared |-> run'.declared, count |-> run'.count]
      /\ run'.pc = "publish" /\ run'.base = run.base /\ run'.prior = run.prior
      /\ run'.declared = run.declared /\ run'.fresh \in BOOLEAN
      /\ run'.id = run.id
  BY <1>0, <1>1 DEF Shapes
<1>3. work' = [dist |-> work'.dist, artifact |-> work'.artifact]
  BY <1>0, <1>1 DEF Shapes
<1>4. Stored' /\ staging' = [b \in Ids |-> staging'[b]]
  BY <1>0, <1>1 DEF Shapes, Stored
<1>5. "publish" \notin Working \cup {"stage", "site", "signals"}
  BY DEF Working, Finalizing
<1>6. Described'
  BY <1>0, <1>1, SameRepo
<1>7. Packaged'
  <2>1. run.pc = "package" /\ run.pc \in Working
    BY DEF Package, At, Working, Finalizing
  <2>2. /\ Held(Dir) /\ IsDir(Dir) /\ run.id \in Ids /\ Newest(run.id)
        /\ Counted("package", run.id, Dir, work.dist, run.count)
    BY <2>1, AtWork DEF AssemblyInv, Session
  <2>3. Whole(Dir.journal) =>
          Dir.journal.manifest.modules = Modules(Dir.derived)
    BY <2>2 DEF Held, JournalOk, Lists
  <2>4. Dir' = Dir /\ work'.artifact = work.dist /\ run'.id = run.id
    BY <1>0, <1>1, <1>2 DEF Dir, Shapes
  <2>5. Newest(run.id)'
    BY <1>1, <2>2 DEF Newest
  <2>6. Distinct => Dir # None /\ Dir.journal # None
    BY <2>2 DEF Counted, Distinct
  <2> QED BY <2>2, <2>3, <2>4, <2>5, <2>6 DEF Packaged, Counted, Serving
<1> QED BY <1>0, <1>1, <1>2, <1>3, <1>4, <1>5, <1>6, <1>7, EndStep DEF Shapes

-----------------------------------------------------------------------------
(* Publication.                                                            *)

LEMMA TargetIsHeld ==
    ASSUME AssemblyInv, Target # None
    PROVE  Target \in Ids /\ Held(staging[Target])
<1> DEFINE S == {b \in Ids : staging[b] # None /\ staging[b].journal # None}
<1>1. S # {} /\ Target = Max(S)
  BY DEF Target
<1>2. MaxBuild \in Nat /\ S \subseteq 0..MaxBuild
  BY BuildAssemblyAssumption DEF Ids
<1>3. \A b \in S : b \in Ids /\ Held(staging[b])
  BY DEF AssemblyInv, Stored
<1> HIDE DEF S
<1>4. Max(S) \in S
  BY <1>1, <1>2, MaxInSet
<1>5. PICK b \in S : b = Max(S)
  BY <1>4
<1> QED BY <1>1, <1>3, <1>5

(* What is published is described: the journal is what was sealed, and the *)
(* directory that it is compared with still holds it.                      *)
LEMMA PublishedIsDescribed ==
    ASSUME NEW d, Held(d), Consistent(d), NEW p,
           p = [manifest |-> d.journal.manifest, files |-> d.journal.files,
                db |-> d.db, agg |-> d.agg, serving |-> d.serving]
    PROVE  /\ p.manifest.entries = Walk(p.files)
           /\ p.manifest.db = p.db /\ p.db.sanitized
           /\ p.files["stats"].of = p.db.of /\ p.files["feed"] = p.db.of
           /\ "inst" \in p.manifest.modules <=> p.manifest.agg # None
           /\ p.manifest.agg # None =>
                 /\ p.manifest.agg = p.agg /\ p.manifest.serving = p.serving
                 /\ p.agg = p.serving /\ p.agg.redacted
                 /\ p.db.opaque /\ p.db.filed = p.agg.of
                 /\ p.files["source"] = Provenance(p.agg.of)
           /\ p.manifest.agg = d.derived.agg
           /\ Continues(p.files, p.manifest.previous)
<1>1. Whole(d.journal) /\ Documented(d) /\ JournalOk(d)
  BY DEF Consistent, Held
<1>2. /\ p.manifest = d.journal.manifest /\ p.files = d.journal.files
      /\ p.db = d.db /\ p.agg = d.agg /\ p.serving = d.serving
  OBVIOUS
<1>3. /\ p.manifest.entries = Walk(p.files) /\ p.manifest.db = p.db
      /\ p.manifest.modules = Modules(d.derived)
      /\ p.manifest.agg = d.derived.agg /\ p.manifest.serving = d.derived.serving
      /\ p.files["stats"].of = p.db.of /\ p.files["feed"] = p.db.of
      /\ p.files["source"] = d.files["source"]
      /\ Continues(p.files, p.manifest.previous)
  BY <1>1, <1>2 DEF JournalOk, Lists
<1>4. "inst" \in p.manifest.modules <=> p.manifest.agg # None
  BY <1>3 DEF Modules
<1>5. p.db.sanitized /\ p.db.opaque /\ p.db.filed = Filed(d.derived)
  BY <1>1, <1>2 DEF Documented
<1>6. ASSUME p.manifest.agg # None
      PROVE  /\ p.manifest.agg = p.agg /\ p.manifest.serving = p.serving
             /\ p.agg = p.serving /\ p.agg.redacted
             /\ p.db.opaque /\ p.db.filed = p.agg.of
             /\ p.files["source"] = Provenance(p.agg.of)
  <2>1. /\ d.derived.serving = d.derived.agg /\ d.derived.agg.redacted
        /\ d.agg = d.derived.agg /\ d.serving = d.derived.agg
        /\ d.files["source"] = Provenance(d.derived.agg.of)
    BY <1>1, <1>3, <1>6 DEF Documented, DerivedOk
  <2>2. Filed(d.derived) = d.derived.agg.of
    BY <1>3, <1>6 DEF Filed
  <2> QED BY <1>2, <1>3, <1>5, <2>1, <2>2
<1> QED BY <1>3, <1>4, <1>5, <1>6

(* What is said of a module that is not published is what its gate said.   *)
LEMMA AbsenceIsExplained ==
    ASSUME NEW d, Held(d), Consistent(d), d.derived.agg = None, NEW said,
           said = IF d.gate = None THEN "unrecorded" ELSE d.gate
    PROVE  /\ said \in {"withheld", "absent", "unrecorded"}
           /\ Expected => /\ d.agg # None /\ Verdict[d.agg.of] = "withheld"
                          /\ said # "absent"
           /\ said = "withheld" => Verdict[d.agg.of] = "withheld"
<1>1. Documented(d) /\ JournalOk(d) /\ (d.gate # None => d.gate = d.derived.verdict)
  BY DEF Consistent, Held
<1>2. /\ d.derived.verdict \in {"withheld", "absent"}
      /\ d.derived.withheld # None => d.derived.verdict = "withheld"
      /\ d.derived.verdict = "withheld" =>
           d.agg # None /\ Verdict[d.agg.of] = "withheld"
  BY <1>1 DEF Documented, DerivedOk
<1>3. Expected => d.derived.withheld # None
  BY <1>1 DEF JournalOk, Accounted, Modules
<1> QED BY <1>1, <1>2, <1>3

LEMMA PublishKeepsDescribed ==
    ASSUME AssemblyInv, Publishable, PublishTarget, UNCHANGED site
    PROVE  /\ Described' /\ Stored'
           /\ staging' = [b \in Ids |-> staging'[b]]
           /\ repo' = [latest |-> repo'.latest, builds |-> repo'.builds]
           /\ repo'.builds = [b \in Ids |-> repo'.builds[b]]
           /\ repo'.latest \in MaybeId
<1>0. Shapes /\ Stored /\ Described
  BY DEF AssemblyInv, Described
<1>1. PICK t \in Ids : t = Target /\ Held(staging[t])
  BY TargetIsHeld DEF Publishable
<1>2. PICK d : d = staging[t]
  OBVIOUS
<1>3. PICK p : p = [manifest |-> d.journal.manifest, files |-> d.journal.files,
                    db |-> d.db, agg |-> d.agg, serving |-> d.serving]
  OBVIOUS
<1>4. Held(d) /\ Consistent(d) /\ repo.builds[t] = None
  BY <1>1, <1>2 DEF Publishable
<1>5. /\ repo' = [repo EXCEPT !.latest = t, !.builds[t] = p]
      /\ notice' = [id |-> t, said |-> NoticeOf(t)]
      /\ staging' = [staging EXCEPT ![t] = None]
  BY <1>1, <1>2, <1>3 DEF PublishTarget, Publication
<1>6. /\ repo' = [latest |-> repo'.latest, builds |-> repo'.builds]
      /\ repo'.latest = t
      /\ repo'.builds = [b \in Ids |-> repo'.builds[b]]
      /\ repo'.builds[t] = p
      /\ \A b \in Ids \ {t} : repo'.builds[b] = repo.builds[b]
  BY <1>0, <1>5 DEF Shapes
<1>7. /\ staging' = [b \in Ids |-> staging'[b]] /\ staging'[t] = None
      /\ \A b \in Ids \ {t} : staging'[b] = staging[b]
  BY <1>0, <1>5 DEF Shapes
<1>8. Stored'
  BY <1>0, <1>6, <1>7 DEF Stored
<1>9. BuildsAreDescribed'
  <2>1. ASSUME NEW b \in Builds'
        PROVE  LET q == repo'.builds[b]
                   m == q.manifest
               IN /\ m.entries = Walk(q.files)
                  /\ m.db = q.db /\ q.db.sanitized
                  /\ q.files["stats"].of = q.db.of /\ q.files["feed"] = q.db.of
                  /\ "inst" \in m.modules <=> m.agg # None
                  /\ m.agg # None =>
                        /\ m.agg = q.agg /\ m.serving = q.serving
                        /\ q.agg = q.serving /\ q.agg.redacted
                        /\ q.db.opaque /\ q.db.filed = q.agg.of
                        /\ q.files["source"] = Provenance(q.agg.of)
    <3>1. CASE b = t
      BY <3>1, <1>3, <1>4, <1>6, PublishedIsDescribed
    <3>2. CASE b # t
      <4>1. b \in Builds /\ repo'.builds[b] = repo.builds[b]
        BY <2>1, <3>2, <1>6 DEF Builds
      <4> QED BY <4>1, <1>0 DEF Described, BuildsAreDescribed
    <3> QED BY <3>1, <3>2
  <2> QED BY <2>1 DEF BuildsAreDescribed
<1>10. NoModuleIsLost'
  <2>1. PICK said : said = NoticeOf(t)
    OBVIOUS
  <2>2. notice'.id = t /\ notice'.said = said
    BY <1>5, <2>1
  <2>3. p.manifest = d.journal.manifest /\ p.agg = d.agg
    BY <1>3
  <2>4. /\ p.manifest.agg = d.derived.agg
        /\ "inst" \in p.manifest.modules <=> p.manifest.agg # None
    BY <1>3, <1>4, PublishedIsDescribed
  <2>5. ASSUME "inst" \notin p.manifest.modules
        PROVE  /\ said \in {"withheld", "absent", "unrecorded"}
               /\ Expected => /\ p.agg # None /\ Verdict[p.agg.of] = "withheld"
                              /\ said # "absent"
               /\ said = "withheld" => Verdict[p.agg.of] = "withheld"
    <3>1. said = IF d.gate = None THEN "unrecorded" ELSE d.gate
      BY <1>2, <2>1, <2>3, <2>5 DEF NoticeOf
    <3>2. d.derived.agg = None
      BY <2>4, <2>5
    <3> QED BY <1>4, <2>3, <3>1, <3>2, AbsenceIsExplained
  <2> QED BY <1>6, <2>2, <2>5 DEF NoModuleIsLost
<1>11. LifecycleIsChained'
  <2>1. ASSUME NEW b \in Builds', repo'.builds[b] # Legacy
        PROVE  Continues(repo'.builds[b].files, repo'.builds[b].manifest.previous)
    <3>1. CASE b = t
      BY <3>1, <1>3, <1>4, <1>6, PublishedIsDescribed
    <3>2. CASE b # t
      <4>1. b \in Builds /\ repo'.builds[b] = repo.builds[b]
        BY <2>1, <3>2, <1>6 DEF Builds
      <4> QED BY <4>1, <2>1, <1>0 DEF Described, LifecycleIsChained, Continues
    <3> QED BY <3>1, <3>2
  <2> QED BY <2>1 DEF LifecycleIsChained, Continues
<1>12. repo'.latest \in MaybeId
  BY <1>6 DEF MaybeId
<1>13. (Distinct => DeployedSiteIsCounted)'
  <2>1. \A b \in Builds : b \in Builds' /\ repo'.builds[b] = repo.builds[b]
    BY <1>4, <1>6 DEF Builds
  <2> QED BY <1>0, <2>1 DEF Described, DeployedSiteIsCounted
<1> QED BY <1>6, <1>7, <1>8, <1>9, <1>10, <1>11, <1>12, <1>13 DEF Described

(* What a session that assembled a build publishes is that build: its      *)
(* journal is the newest there is.                                         *)
LEMMA PublishedSiteIsCounted ==
    ASSUME AssemblyInv, run.pc = "publish", run.fresh, Publishable,
           PublishTarget, UNCHANGED work, Distinct
    PROVE  ArtifactIsCounted'
<1>1. PICK i \in Ids : i = run.id
  BY DEF AssemblyInv, Session, Packaged
<1>2. PICK d : d = staging[i]
  OBVIOUS
<1>3. PICK s : s = work.artifact
  OBVIOUS
<1>4. /\ Newest(i) /\ d # None /\ d.journal # None
      /\ s.id = i /\ s.stats.count = s.size
      /\ Whole(d.journal) => /\ d.journal.files["stats"] = s.stats
                             /\ d.journal.manifest.modules = s.modules
  BY <1>1, <1>2, <1>3 DEF AssemblyInv, Session, Packaged, Dir
<1>5. Target = i
  <2> DEFINE S == {b \in Ids : staging[b] # None /\ staging[b].journal # None}
  <2>1. MaxBuild \in Nat /\ S \subseteq 0..MaxBuild /\ i \in S
    BY <1>2, <1>4, BuildAssemblyAssumption DEF Ids
  <2>2. \A c \in S : c \in Int /\ ~(c > i)
    BY <1>4 DEF Newest, Ids
  <2>3. Target = Max(S)
    BY <2>1 DEF Target
  <2> HIDE DEF S
  <2>4. Max(S) \in S /\ \A y \in S : y <= Max(S)
    BY <2>1, MaxInSet
  <2>5. PICK x \in S : x = Max(S)
    BY <2>4
  <2>6. x = i
    BY <2>1, <2>2, <2>4, <2>5
  <2> QED BY <2>3, <2>5, <2>6
<1>6. PICK p : p = [manifest |-> d.journal.manifest, files |-> d.journal.files,
                    db |-> d.db, agg |-> d.agg, serving |-> d.serving]
  OBVIOUS
<1>7. repo' = [repo EXCEPT !.latest = i, !.builds[i] = p]
  BY <1>2, <1>5, <1>6 DEF PublishTarget, Publication
<1>8. repo'.builds[i] = p
  BY <1>7 DEF AssemblyInv, Shapes
<1>9. Whole(d.journal)
  BY <1>2, <1>5 DEF Publishable, Consistent
<1>10. p.files["stats"] = s.stats /\ p.manifest.modules = s.modules
  BY <1>4, <1>6, <1>9
<1>11. p # None
  BY <1>6 DEF Distinct
<1> QED BY <1>1, <1>3, <1>4, <1>8, <1>10, <1>11 DEF ArtifactIsCounted, Builds

LEMMA PublishKeepsInv ==
    ASSUME AssemblyInv, Publish PROVE AssemblyInv'
<1>1. CASE Fail
  BY <1>1, FailStep DEF Publish, Fail, Given
<1>2. CASE ~Fail
  <2>0. Shapes
    BY DEF AssemblyInv
  <2>1. /\ Publishable /\ PublishTarget /\ UNCHANGED <<work, source, site>>
        /\ (run.fresh /\ Goto("deploy")) \/ run' = Idle
    BY <1>2 DEF Publish, Given
  <2>2. /\ run' = [pc |-> run'.pc, id |-> run'.id, fresh |-> run'.fresh,
                   base |-> run'.base, prior |-> run'.prior,
                   declared |-> run'.declared, count |-> run'.count]
        /\ run'.pc = "idle" \/ (run'.pc = "deploy" /\ run.fresh)
        /\ run'.base \in MaybeId /\ run'.prior \in MaybeId
        /\ run'.declared \in BOOLEAN /\ run'.fresh \in BOOLEAN
    <3>1. CASE run.fresh /\ Goto("deploy")
      BY <2>0, <3>1, GotoChanges DEF Shapes
    <3>2. CASE run' = Idle
      BY <3>2 DEF Idle, MaybeId
    <3> QED BY <2>1, <3>1, <3>2
  <2>3. run'.pc \notin Working \cup {"stage", "site", "signals", "publish"}
    BY <2>2 DEF Working, Finalizing
  <2>4. /\ Described' /\ Stored' /\ staging' = [b \in Ids |-> staging'[b]]
        /\ repo' = [latest |-> repo'.latest, builds |-> repo'.builds]
        /\ repo'.builds = [b \in Ids |-> repo'.builds[b]]
        /\ repo'.latest \in MaybeId
    BY <2>1, PublishKeepsDescribed
  <2>5. Distinct /\ run'.pc = "deploy" => ArtifactIsCounted'
    BY <2>1, <2>2, PublishedSiteIsCounted DEF Publish, At
  <2> QED BY <2>0, <2>1, <2>2, <2>3, <2>4, <2>5, EndStep DEF Shapes
<1> QED BY <1>1, <1>2

LEMMA PublishByHandKeepsInv ==
    ASSUME AssemblyInv, PublishByHand PROVE AssemblyInv'
<1>0. Shapes
  BY DEF AssemblyInv
<1>1. /\ Publishable /\ PublishTarget /\ UNCHANGED <<work, source, run, site>>
      /\ run.pc = "idle"
  BY DEF PublishByHand, At
<1>2. run'.pc \notin Working \cup {"stage", "site", "signals", "publish", "deploy"}
  BY <1>1 DEF Working, Finalizing
<1>3. /\ Described' /\ Stored' /\ staging' = [b \in Ids |-> staging'[b]]
      /\ repo' = [latest |-> repo'.latest, builds |-> repo'.builds]
      /\ repo'.builds = [b \in Ids |-> repo'.builds[b]]
      /\ repo'.latest \in MaybeId
  BY <1>1, PublishKeepsDescribed
<1> QED BY <1>0, <1>1, <1>2, <1>3, EndStep DEF Shapes

LEMMA DeployKeepsInv ==
    ASSUME AssemblyInv, Deploy PROVE AssemblyInv'
<1>0. Shapes /\ Stored /\ Described
  BY DEF AssemblyInv, Described
<1>1. /\ run.pc = "deploy" /\ run' = Idle /\ site' = work.artifact
      /\ UNCHANGED <<repo, staging, work, notice, source>>
  BY DEF Deploy, At, Given
<1>2. /\ run' = [pc |-> run'.pc, id |-> run'.id, fresh |-> run'.fresh,
                 base |-> run'.base, prior |-> run'.prior,
                 declared |-> run'.declared, count |-> run'.count]
      /\ run'.pc = "idle" /\ run'.declared \in BOOLEAN
      /\ run'.fresh \in BOOLEAN
      /\ run'.base \in MaybeId /\ run'.prior \in MaybeId
  BY <1>1 DEF Idle, MaybeId
<1>3. "idle" \notin Working \cup {"stage", "site", "signals"}
  BY DEF Working, Finalizing
<1>4. (Distinct => DeployedSiteIsCounted)'
  BY <1>1 DEF AssemblyInv, Session, ArtifactIsCounted, DeployedSiteIsCounted, Builds
<1>5. BuildsAreDescribed' /\ LifecycleIsChained'
  BY <1>0, <1>1 DEF Described, BuildsAreDescribed, LifecycleIsChained, Builds
<1>6. NoModuleIsLost'
  BY <1>0, <1>1 DEF Described, NoModuleIsLost
<1>7. Stored'
  BY <1>0, <1>1 DEF Stored
<1> QED BY <1>0, <1>1, <1>2, <1>3, <1>4, <1>5, <1>6, <1>7, EndStep DEF Shapes, Described

-----------------------------------------------------------------------------
(* What else happens.                                                      *)

(* A step that the session does not notice.                                *)
LEMMA StillStep ==
    ASSUME AssemblyInv, UNCHANGED <<staging, work, run, notice, site, hosted>>,
           source' = [congress |-> source'.congress, opaque |-> source'.opaque,
                      inst |-> source'.inst],
           source'.inst \in InstSources,
           repo' = [latest |-> repo'.latest, builds |-> repo.builds],
           repo'.latest \in MaybeId,
           hosted \/ run.pc = "idle" \/ repo'.latest = repo.latest
    PROVE  AssemblyInv'
<1>0. Shapes /\ Stored /\ Session /\ Described
  BY DEF AssemblyInv, Described
<1>1. repo'.builds = repo.builds
  OBVIOUS
<1>2. Shapes'
  BY <1>0, <1>1 DEF Shapes
<1>3. Stored' /\ Dir' = Dir
  BY <1>0 DEF Stored, Dir
<1>4. Described'
  BY <1>0, <1>1, SameRepo
<1>5. Session'
  <2>1. Room => Room'
    BY <1>1 DEF Room
  <2>2. CASE run.pc = "idle"
    BY <2>2 DEF Session, Working, Finalizing
  <2>3. CASE run.pc # "idle"
    <3>1. Latest' = Latest
      BY <2>3, SameLatest
    <3>2. \A i : Newest(i) => Newest(i)'
      BY <1>1 DEF Newest
    <3>3. Packaged => Packaged'
      BY <1>3, <3>2 DEF Packaged
    <3>4. ArtifactIsCounted => ArtifactIsCounted'
      BY <1>1 DEF ArtifactIsCounted, Builds
    <3> QED BY <1>0, <1>3, <2>1, <3>1, <3>2, <3>3, <3>4 DEF Session
  <2> QED BY <2>2, <2>3
<1> QED BY <1>2, <1>3, <1>4, <1>5 DEF AssemblyInv, Described

LEMMA SourceMovesKeepsInv ==
    ASSUME AssemblyInv, SourceMoves PROVE AssemblyInv'
<1>1. Shapes
  BY DEF AssemblyInv
<1>2. /\ source' = [congress |-> source'.congress, opaque |-> source'.opaque,
                    inst |-> source'.inst]
      /\ source'.inst \in InstSources
  BY <1>1 DEF SourceMoves, Shapes
<1>3. UNCHANGED <<repo, staging, work, run, notice, site, hosted>>
  BY DEF SourceMoves
<1>4. repo' = [latest |-> repo'.latest, builds |-> repo.builds]
      /\ repo'.latest \in MaybeId
  BY <1>1, <1>3 DEF Shapes
<1> QED BY <1>2, <1>3, <1>4, StillStep

LEMMA RollbackKeepsInv ==
    ASSUME AssemblyInv, NEW b \in Ids, Rollback(b) PROVE AssemblyInv'
<1>1. Shapes
  BY DEF AssemblyInv
<1>2. /\ UNCHANGED <<source, staging, work, run, notice, site, hosted>>
      /\ repo' = [repo EXCEPT !.latest = b] /\ (run.pc = "idle" \/ hosted)
  BY DEF Rollback, At
<1>3. repo' = [latest |-> repo'.latest, builds |-> repo.builds]
      /\ repo'.latest \in MaybeId
  BY <1>1, <1>2 DEF Shapes, MaybeId
<1> QED BY <1>1, <1>2, <1>3, StillStep DEF Shapes

LEMMA CalmKeepsInv ==
    ASSUME AssemblyInv, CalmDown \/ UNCHANGED vars PROVE AssemblyInv'
<1>1. Shapes /\ UNCHANGED <<source, repo, staging, work, run, notice, site, hosted>>
  BY DEF AssemblyInv, CalmDown, vars
<1> QED BY <1>1, StillStep DEF Shapes

(* A journal that is torn promises nothing any more.                       *)
LEMMA DamageKeepsInv ==
    ASSUME AssemblyInv, NEW i \in Ids, DamageJournal(i) PROVE AssemblyInv'
<1>0. Shapes /\ Stored /\ Session /\ Described
  BY DEF AssemblyInv, Described
<1>1. PICK d : d = staging[i]
  OBVIOUS
<1>2. PICK e : e = [d EXCEPT !.journal = Torn]
  OBVIOUS
<1>3. /\ staging' = [staging EXCEPT ![i] = e] /\ d # None /\ d.journal # None
      /\ UNCHANGED <<source, repo, work, run, notice, site, hosted>>
  BY <1>0, <1>1, <1>2 DEF DamageJournal, Shapes
<1>4. Held(d) /\ IsDir(d)
  BY <1>0, <1>1, <1>3 DEF Stored, Held
<1>5. /\ IsDir(e) /\ e.journal = Torn /\ e.db = d.db /\ e.agg = d.agg
      /\ e.serving = d.serving /\ e.files = d.files /\ e.derived = d.derived
      /\ e.state = d.state /\ e.gate = d.gate
  BY <1>2, <1>4 DEF IsDir
<1>6. ~Whole(e.journal)
  BY <1>5 DEF Whole
<1>7. (Documented(d) => Documented(e)) /\ (DerivedOk(d) => DerivedOk(e))
  BY <1>5 DEF Documented, DerivedOk
<1>8. Held(e)
  BY <1>4, <1>5, <1>6, <1>7 DEF Held
<1>9. Stored' /\ staging' = [b \in Ids |-> staging'[b]] /\ staging'[i] = e
  BY <1>0, <1>1, <1>3, <1>8, PutKeepsStored DEF Shapes, Stored
<1>10. \A b \in Ids \ {i} : staging'[b] = staging[b]
  BY <1>0, <1>3 DEF Shapes
<1>11. Shapes'
  BY <1>0, <1>3, <1>9 DEF Shapes
<1>12. Described'
  BY <1>0, <1>3, SameRepo
<1>13. Latest' = Latest
  BY <1>3, SameLatest
<1>14. Room => Room'
  BY <1>1, <1>3, <1>10 DEF Room
<1>15. ASSUME NEW pc, NEW l, Reached(pc, d, l) PROVE Reached(pc, e, l)
  <2>1. Lists(d.files["manifest"], d, WithoutManifest(d.files)) =>
          Lists(e.files["manifest"], e, WithoutManifest(e.files))
    BY <1>5 DEF Lists
  <2> QED BY <1>5, <1>6, <1>7, <1>8, <1>15, <2>1 DEF Reached
<1>16. ASSUME NEW pc, NEW w, NEW n, Counted(pc, i, d, w, n)
       PROVE  Counted(pc, i, e, w, n)
  <2>1. Torn # None
    BY NoneAssumption
  <2> QED BY <1>5, <1>6, <1>16, <2>1 DEF Counted, Serving
<1>17. ASSUME NEW j \in Ids, Newest(j) PROVE Newest(j)'
  <2>1. ~(i > j)
    BY <1>1, <1>3, <1>17 DEF Newest
  <2> QED BY <1>3, <1>10, <1>17, <2>1 DEF Newest
<1>18. Packaged => Packaged'
  <2> SUFFICES ASSUME Packaged PROVE Packaged'
    OBVIOUS
  <2>0. PICK j \in Ids : j = run.id /\ Newest(j)
    BY DEF Packaged
  <2>1. run'.id = run.id /\ run.id \in Ids /\ Newest(run.id)'
    BY <1>3, <1>17, <2>0
  <2>2. CASE run.id = i
    <3>1. Dir' = e
      BY <1>3, <1>9, <2>2 DEF Dir
    <3>2. Distinct => e # None /\ e.journal # None
      BY <1>5, NoneAssumption DEF Distinct
    <3> QED BY <1>3, <1>6, <2>1, <3>1, <3>2 DEF Packaged
  <2>3. CASE run.id # i
    <3>1. Dir' = Dir
      BY <1>3, <1>10, <2>1, <2>3 DEF Dir
    <3> QED BY <1>3, <2>1, <3>1 DEF Packaged
  <2> QED BY <2>2, <2>3
<1>19. ArtifactIsCounted => ArtifactIsCounted'
  BY <1>3 DEF ArtifactIsCounted, Builds
<1>20. ASSUME run.pc \in Working
       PROVE  /\ run'.id \in Ids /\ Newest(run.id)'
              /\ Reached(run'.pc, Dir', Latest')
              /\ Counted(run'.pc, run'.id, Dir', work'.dist, run'.count)
  <2>0. PICK j \in Ids : j = run.id /\ Newest(j)
    BY <1>0, <1>20 DEF Session
  <2>1. /\ run.id \in Ids /\ Reached(run.pc, Dir, Latest) /\ Newest(run.id)'
        /\ Counted(run.pc, run.id, Dir, work.dist, run.count)
    BY <1>0, <1>3, <1>20, <1>17, <2>0 DEF Session
  <2>2. CASE run.id = i
    <3>1. Dir = d /\ Dir' = e
      BY <1>1, <1>3, <1>9, <2>2 DEF Dir
    <3> QED BY <1>3, <1>13, <1>15, <1>16, <2>1, <2>2, <3>1
  <2>3. CASE run.id # i
    <3>1. Dir' = Dir
      BY <1>3, <1>10, <2>1, <2>3 DEF Dir
    <3> QED BY <1>3, <1>13, <2>1, <3>1
  <2> QED BY <2>2, <2>3
<1>21. Session'
  BY <1>0, <1>3, <1>13, <1>14, <1>20, <1>18, <1>19 DEF Session
<1> QED BY <1>9, <1>11, <1>12, <1>21 DEF AssemblyInv, Described

LEMMA ResumeKeepsInv ==
    ASSUME AssemblyInv, NEW b \in Ids, Resume(b) PROVE AssemblyInv'
<1>0. Shapes /\ Stored /\ Described
  BY DEF AssemblyInv, Described
<1>1. PICK d : d = staging[b]
  OBVIOUS
<1>2. /\ ~hosted /\ d.state # None /\ d.state.previous = repo.latest
      /\ run' = [Idle EXCEPT !.pc = "prior", !.id = b] /\ work' = NoWork
      /\ UNCHANGED <<source, repo, staging, notice, site, hosted>>
  BY <1>1 DEF Resume
<1>3. d # None /\ Newest(b)
  <2> DEFINE S == {c \in Ids : staging[c] # None} \cup {0}
  <2>1. MaxBuild \in Nat /\ S \subseteq 0..MaxBuild /\ S # {}
    BY BuildAssemblyAssumption DEF Ids
  <2>2. b = Max(S)
    BY DEF Resume
  <2>3. b # 0
    BY DEF Ids
  <2>4. \A c \in S : c # 0 => staging[c] # None
    OBVIOUS
  <2> HIDE DEF S
  <2>5. b \in S /\ \A c \in S : c <= b
    BY <2>1, <2>2, MaxInSet
  <2>6. \A c \in Ids : staging[c] # None => c \in S
    BY DEF S
  <2>7. \A c \in Ids : c > b => staging[c] = None
    BY <2>5, <2>6 DEF Ids
  <2>8. repo.builds[b] = None
    BY <1>0, <2>3, <2>4, <2>5 DEF Stored
  <2> QED BY <1>1, <2>3, <2>4, <2>5, <2>7, <2>8 DEF Newest
<1>4. Held(d)
  BY <1>0, <1>1, <1>3 DEF Stored
<1>5. run' = [pc |-> "prior", id |-> b, fresh |-> FALSE, base |-> None,
              prior |-> None, declared |-> FALSE, count |-> None]
  BY <1>2 DEF Idle
<1>6. /\ run' = [pc |-> run'.pc, id |-> run'.id, fresh |-> run'.fresh,
                 base |-> run'.base, prior |-> run'.prior,
                 declared |-> run'.declared, count |-> run'.count]
      /\ run'.pc = "prior" /\ run'.id = b /\ run'.declared \in BOOLEAN
      /\ run'.fresh = FALSE
      /\ run'.base \in MaybeId /\ run'.prior \in MaybeId
  BY <1>5 DEF MaybeId
<1>7. work' = [dist |-> work'.dist, artifact |-> work'.artifact]
  BY <1>2 DEF NoWork
<1>8. Shapes'
  BY <1>0, <1>2, <1>6, <1>7 DEF Shapes
<1>9. Latest' = repo.latest /\ Dir' = d
  BY <1>1, <1>2, <1>6 DEF Latest, Dir
<1>10. /\ Documented(d) /\ d.state.derived = d.derived
       /\ d.files["manifest"].modules = Modules(d.derived)
  BY <1>2, <1>4 DEF Held
<1>11. Reached("prior", d, repo.latest)
  BY <1>2, <1>4, <1>10 DEF Reached
<1>12. Session'
  <2>1. Newest(b)'
    BY <1>2, <1>3 DEF Newest
  <2>2. Counted("prior", b, d, work'.dist, run'.count)
    BY <1>10 DEF Counted
  <2>3. "prior" \notin {"stage", "site", "signals", "publish", "deploy"}
    OBVIOUS
  <2> QED BY <1>6, <1>9, <1>11, <2>1, <2>2, <2>3 DEF Session
<1>13. Described'
  BY <1>0, <1>2, SameRepo
<1>14. Stored'
  BY <1>0, <1>2 DEF Stored
<1> QED BY <1>8, <1>12, <1>13, <1>14 DEF AssemblyInv, Described

-----------------------------------------------------------------------------
(* The theorems.                                                           *)

LEMMA CommandKeepsInv == AssemblyInv /\ Command => AssemblyInv'
BY PreserveKeepsInv, TakeSnapshotKeepsInv, DeriveKeepsInv, DocumentKeepsInv,
   SealProvisionalKeepsInv, WriteStageStateKeepsInv, ResolvePriorKeepsInv,
   BuildSiteKeepsInv, CopySignalsKeepsInv, PatchStatsKeepsInv,
   PatchServedKeepsInv, SealFinalKeepsInv, WriteJournalKeepsInv,
   RecordGateKeepsInv, PackageKeepsInv, PublishKeepsInv, DeployKeepsInv
   DEF Command

LEMMA DieKeepsInv ==
    ASSUME AssemblyInv, Die PROVE AssemblyInv'
BY FailStep DEF Die

LEMMA StepKeepsInv == AssemblyInv /\ [AssemblyNext]_vars => AssemblyInv'
<1> SUFFICES ASSUME AssemblyInv, [AssemblyNext]_vars PROVE AssemblyInv'
  OBVIOUS
<1>1. CASE Command
  BY <1>1, CommandKeepsInv
<1>2. CASE \E declared \in BOOLEAN : Begin(declared)
  BY <1>2, BeginKeepsInv
<1>3. CASE Die
  BY <1>3, DieKeepsInv
<1>4. CASE SourceMoves
  BY <1>4, SourceMovesKeepsInv
<1>5. CASE PublishByHand
  BY <1>5, PublishByHandKeepsInv
<1>6. CASE CalmDown \/ UNCHANGED vars
  BY <1>6, CalmKeepsInv
<1>7. CASE \E b \in Ids : DamageJournal(b) \/ Resume(b) \/ Rollback(b)
  BY <1>7, DamageKeepsInv, ResumeKeepsInv, RollbackKeepsInv
<1> QED BY <1>1, <1>2, <1>3, <1>4, <1>5, <1>6, <1>7 DEF AssemblyNext

(* What every session, every staged directory and every release is like,   *)
(* through deaths, damaged journals, resumptions and rollbacks.            *)
THEOREM AssemblyInvariant == AssemblySpec => []AssemblyInv
<1>1. AssemblyInit => AssemblyInv
  BY InitHolds
<1>2. AssemblyInv /\ [AssemblyNext]_vars => AssemblyInv'
  BY StepKeepsInv
<1> QED BY <1>1, <1>2, PTL DEF AssemblySpec

(* Whatever a session finds staged, a published manifest describes its     *)
(* build, and no institutional module is lost without an explanation.      *)
THEOREM SealsAreWhole == AssemblySpec => []SealedBuildsAreWhole
<1>1. AssemblyInv => SealedBuildsAreWhole
  BY DEF AssemblyInv, SealedBuildsAreWhole
<1> QED BY <1>1, AssemblyInvariant, PTL

(* A build continues the signals' lifecycle of the build it replaces, or   *)
(* its operator declared a new one, even when it was resumed, preserved or *)
(* published by hand.                                                      *)
THEOREM LifecycleStaysChained == AssemblySpec => []LifecycleIsChained
<1>1. AssemblyInv => LifecycleIsChained
  BY DEF AssemblyInv
<1> QED BY <1>1, AssemblyInvariant, PTL

(* The deployed site is that of a published build, with the statistics     *)
(* that build was sealed with and the count of its own files: what a       *)
(* session publishes is the directory that it packaged.                    *)
THEOREM DeployedSitesAreCounted ==
    ASSUME Distinct PROVE AssemblySpec => []DeployedSiteIsCounted
<1>1. AssemblyInv => DeployedSiteIsCounted
  BY DEF AssemblyInv
<1> QED BY <1>1, AssemblyInvariant, PTL

=============================================================================
