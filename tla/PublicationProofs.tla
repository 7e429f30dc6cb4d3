--------------------------- MODULE PublicationProofs ---------------------------
(***************************************************************************)
(* For any workers, settings, ids, contents and versions: a published      *)
(* release never changes, at most one is in flight, and origin's           *)
(* latest.json only moves forward, to releases that are public: the        *)
(* publisher implements the feed consumers are promised.                   *)
(*                                                                         *)
(* The second half is about what a surviving directory keeps between       *)
(* sessions: a build id is used for one content only, at most one release  *)
(* is in flight, and no partial build is ever committed.  And about what   *)
(* no night does, in whatever directory it runs: move latest.json back to  *)
(* a build it once named.                                                  *)
(***************************************************************************)
EXTENDS Publication, FiniteSetTheorems, WellFoundedInduction, TLAPS

Completing == {"preflight", "draft", "journal", "db", "inst", "publish",
               "verify_published", "materialize", "pointer", "clear"}
Places == Completing \cup {"off", "drafts", "staged", "newest", "reconciled",
               "stage", "finalize", "choose", "repoint", "verify", "push"}

Release == [state : {"absent", "draft", "published"}, journal : {0} \cup Contents,
            db : {0} \cup Contents, inst : {0} \cup Contents]
Staged == [made : BOOLEAN, journal : {0, Garbage} \cup Contents,
           inst : {0} \cup Contents]
Job == [command : {"none", "nightly", "rollback", "publish"},
        phase : {"none", "stage", "rollback", "publish"},
        target : {0} \cup Ids, build : {0} \cup Ids, content : {0} \cup Contents,
        back : {"none", "staged", "reconciled", "verify"}, completed : SUBSET Ids]

SessionTypes ==
    /\ releases \in [Ids -> Release]
    /\ staging \in [Workers -> [Ids -> Staged]]
    /\ pc \in [Workers -> Places]
    /\ job \in [Workers -> Job]
    /\ mark \in [Workers -> Nat] /\ assembled \in Nat
    /\ setting \in Settings

(* What a release holds by its state, one draft at most among them.        *)
ReleasesAreWhole ==
    /\ \A b \in Ids :
         /\ releases[b].state = "absent" => releases[b].journal = 0
         /\ releases[b].state = "published" =>
              releases[b].journal # 0 /\ AssetsVerify(b, releases[b].journal)
    /\ \A b, d \in Drafts : b = d

(* Nobody but the nightly worker stages, and a surviving directory is its. *)
StagesNothing(w) ==
    /\ \A b \in Ids : staging[w][b].journal = 0
    /\ pc[w] \notin {"stage", "finalize", "choose"} /\ job[w].phase # "stage"
    /\ ~setting.fresh => pc[w] = "off"

(* The nightly worker meets no draft but the one it completes, and its     *)
(* staged journals agree with the releases'.                               *)
StagesAlone(n) ==
    /\ pc[n] \in {"staged", "newest", "reconciled", "stage"} => Drafts = {}
    /\ pc[n] \in Completing => Drafts \subseteq {job[n].build}
    /\ pc[n] = "finalize" =>
         /\ job[n].build \in Ids /\ job[n].content \in Contents
         /\ releases[job[n].build].state = "absent"
    /\ \A b \in Ids : releases[b].journal # 0 =>
         staging[n][b].journal \in {0, Garbage, releases[b].journal}

(* A session that completes build b has its one content k, and by its step *)
(* the release holds as much of it.                                        *)
Agrees(w, b, k) ==
    /\ b \in Ids /\ k \in Contents /\ job[w].back # "none"
    /\ releases[b].journal \in {0, k}
    /\ staging[w][b].journal \in {0, Garbage, k}
    /\ w \notin Nightly => releases[b].journal = k
    /\ pc[w] \notin {"preflight", "draft"} => releases[b].state # "absent"
    /\ pc[w] \in {"db", "inst", "publish"} => releases[b].journal = k
    /\ pc[w] \in {"inst", "publish"} => releases[b].db = k
    /\ pc[w] = "publish" => AssetsVerify(b, k)
    /\ pc[w] \in {"verify_published", "materialize", "pointer", "clear"} =>
         releases[b].state = "published"
    /\ pc[w] \in {"materialize", "pointer", "clear"} =>
         releases[b].journal = k

(* A rollback has a build to go back to.                                   *)
Aims(w) ==
    /\ pc[w] = "repoint" => job[w].phase = "rollback"
    /\ job[w].phase = "rollback" => job[w].target \in Ids

Session(w) ==
    /\ Aims(w)
    /\ w \notin Nightly => StagesNothing(w)
    /\ w \in Nightly => StagesAlone(w)
    /\ pc[w] \in Completing => Agrees(w, job[w].build, job[w].content)

Sessions ==
    SessionTypes /\ ReleasesAreWhole /\ \A w \in Workers : Session(w)

-----------------------------------------------------------------------------
(* What latest.json and builds/ say, in origin and in every checkout.      *)

Origin == [builds : [Ids -> Int], latest : Pointer]
Tree   == [builds : [Ids -> Int], latest : Pointer, base : Pointer]

(* A pointer names a release published with that content.                  *)
Names(p) ==
    \/ p = NoPointer
    \/ p.build \in Published /\ releases[p.build].journal = p.content

(* So does every build that is committed whole.                            *)
Commits(builds) ==
    \A b \in Ids : Whole(builds[b]) =>
      b \in Published /\ releases[b].journal = builds[b]

Ahead(p, q) == p = q \/ p.version > q.version

Checkout(t) ==
    /\ Commits(t.builds) /\ Names(t.latest) /\ Names(t.base)
    /\ Ahead(t.latest, t.base)

(* A surviving directory is never behind origin, its only writer.          *)
Checkouts ==
    /\ origin \in Origin /\ tree \in [Workers -> Tree]
    /\ Commits(origin.builds) /\ Names(origin.latest)
    /\ \A w \in Workers : Checkout(tree[w])
    /\ ~setting.fresh => \A n \in Nightly : Ahead(tree[n].latest, origin.latest)


-----------------------------------------------------------------------------
(* Facts about the constants.                                              *)

LEMMA ContentsAreNumbers ==
    /\ Ids \subseteq Nat /\ Contents \subseteq Nat
    /\ 0 \notin Ids /\ 0 \notin Contents /\ Garbage \notin Contents
    /\ Garbage # 0
  BY FeedAssumption DEF FeedAssumption, Ids, Contents, Garbage

(* One session at a time stages: publish.yml's concurrency group.          *)
LEMMA NightlyIsOne ==
    ASSUME NEW v \in Nightly, NEW w \in Nightly
    PROVE  v = w
  BY SessionsAssumption DEF SessionsAssumption

LEMMA MinIsAMember ==
    ASSUME NEW S \in SUBSET Nat, S # {}
    PROVE  Min(S) \in S
<1>1. PICK x \in S : \A y \in S : ~(<<y, x>> \in OpToRel(<, Nat))
  BY NatLessThanWellFounded, WFMin
<1>2. \A y \in S : ~(y < x)
  BY <1>1, Zenon DEF OpToRel
<1>3. \A y \in S : x <= y
  BY <1>2
<1> QED
  BY <1>3, Zenon DEF Min

LEMMA MaxIsAMember ==
    ASSUME NEW n \in Nat, NEW S \in SUBSET (0..n), S # {}
    PROVE  Max(S) \in S /\ \A y \in S : Max(S) >= y
<1> DEFINE T == {n - x : x \in S}
<1>1. T \subseteq Nat /\ T # {}
  <2>1. PICK x \in S : TRUE
    OBVIOUS
  <2>2. n - x \in T
    BY <2>1
  <2>3. \A y \in S : n - y \in Nat
    OBVIOUS
  <2> QED BY <2>2, <2>3
<1>2. PICK m \in T : \A y \in T : ~(<<y, m>> \in OpToRel(<, Nat))
  <2> HIDE DEF T
  <2> QED BY <1>1, NatLessThanWellFounded, WFMin
<1>3. \A y \in T : ~(y < m)
  BY <1>1, <1>2, Zenon DEF OpToRel
<1>4. PICK x \in S : m = n - x
  BY <1>2
<1>5. \A y \in S : x >= y
  BY <1>3, <1>4
<1> QED BY <1>5, Zenon DEF Max

-----------------------------------------------------------------------------
(* Steps of one session that leave the releases alone.                     *)

LEMMA StagingGoesOn ==
    ASSUME Sessions, NEW w \in Workers, UNCHANGED <<releases, setting>>,
           staging' \in [Workers -> [Ids -> Staged]],
           mark' \in [Workers -> Nat], assembled' \in Nat,
           pc' \in [Workers -> Places], job' \in [Workers -> Job],
           \A v \in Workers \ {w} : /\ pc'[v] = pc[v] /\ job'[v] = job[v]
                                   /\ staging'[v] = staging[v],
           Session(w)'
    PROVE  Sessions'
<1>1. SessionTypes' /\ ReleasesAreWhole'
  BY DEF Sessions, SessionTypes, ReleasesAreWhole, Drafts, AssetsVerify
<1>2. ASSUME NEW v \in Workers \ {w} PROVE Session(v)'
  BY <1>2 DEF Sessions, Session, StagesNothing, StagesAlone, Agrees, Aims,
     Drafts, AssetsVerify
<1> QED BY <1>1, <1>2 DEF Sessions

LEMMA OthersGoOn ==
    ASSUME Sessions, NEW w \in Workers,
           UNCHANGED <<releases, staging, mark, assembled, setting>>,
           pc' \in [Workers -> Places], job' \in [Workers -> Job],
           \A v \in Workers \ {w} : pc'[v] = pc[v] /\ job'[v] = job[v],
           Session(w)'
    PROVE  Sessions'
  BY StagingGoesOn DEF Sessions, SessionTypes

(* The session goes to a step outside of _complete_build.                  *)
LEMMA SessionGoesTo ==
    ASSUME Sessions, NEW w \in Workers, NEW s \in Places \ Completing,
           s # "finalize", pc[w] # "off",
           s \in {"stage", "choose"} => w \in Nightly,
           s = "repoint" => job[w].phase = "rollback",
           w \in Nightly /\ s \in {"staged", "newest", "reconciled", "stage"}
             => Drafts = {},
           Step(w, s), job' = job,
           UNCHANGED <<releases, staging, mark, assembled, setting>>
    PROVE  Sessions'
<1>1. pc' \in [Workers -> Places] /\ pc'[w] = s
      /\ \A v \in Workers \ {w} : pc'[v] = pc[v]
  BY DEF Sessions, SessionTypes, Step
<1>2. Session(w)
  BY DEF Sessions
<1>3. w \notin Nightly => StagesNothing(w)'
  BY <1>1, <1>2 DEF Session, StagesNothing
<1>4. w \in Nightly => StagesAlone(w)'
  BY <1>1, <1>2 DEF Session, StagesAlone, Completing, Drafts
<1>5. Session(w)'
  BY <1>1, <1>2, <1>3, <1>4 DEF Session, Aims
<1>6. job' \in [Workers -> Job]
  BY DEF Sessions, SessionTypes
<1> QED BY <1>1, <1>5, <1>6, OthersGoOn

(* A session ends, by itself or not.                                       *)
LEMMA SessionEnds ==
    ASSUME Sessions, NEW w \in Workers, EndSession(w),
           UNCHANGED <<releases, staging, mark, assembled, setting>>
    PROVE  Sessions'
<1>1. NoJob \in Job
  BY DEF NoJob, Job
<1>2. /\ pc' \in [Workers -> Places] /\ pc'[w] = "off"
      /\ job' \in [Workers -> Job] /\ job'[w] = NoJob
      /\ \A v \in Workers \ {w} : pc'[v] = pc[v] /\ job'[v] = job[v]
  BY <1>1 DEF Sessions, SessionTypes, EndSession, Step, Places
<1>3. Session(w)'
  BY <1>2 DEF Sessions, Session, StagesNothing, StagesAlone, Aims, Completing, NoJob
<1> QED BY <1>2, <1>3, OthersGoOn

(* _recover_journal finds the one content of the build.                    *)
LEMMA RecoversItsContent ==
    ASSUME Sessions, NEW w \in Workers, NEW b \in Ids, NEW k \in Recoverable(w, b)
    PROVE  /\ k \in Contents /\ releases[b].journal \in {0, k}
           /\ staging[w][b].journal \in {0, Garbage, k}
           /\ w \notin Nightly => releases[b].journal = k
           /\ releases[b].journal = 0 => staging[w][b].journal = k
<1>1. k \in Contents
      /\ \/ k = releases[b].journal
              /\ staging[w][b].journal \in {0, Garbage, releases[b].journal}
         \/ k = staging[w][b].journal
  BY DEF Recoverable
<1>2. w \notin Nightly => staging[w][b].journal = 0
  BY DEF Sessions, Session, StagesNothing
<1>3. w \in Nightly /\ releases[b].journal # 0 =>
        staging[w][b].journal \in {0, Garbage, releases[b].journal}
  BY DEF Sessions, Session, StagesAlone
<1> QED BY <1>1, <1>2, <1>3, ContentsAreNumbers

LEMMA CompleteKeeps ==
    ASSUME Sessions, NEW w \in Workers, NEW b \in Ids,
           NEW back \in {"staged", "reconciled", "verify"},
           pc[w] \in {"drafts", "staged", "newest", "reconciled"},
           w \in Nightly => Drafts \subseteq {b},
           Complete(w, b, back),
           UNCHANGED <<releases, staging, mark, assembled, setting>>
    PROVE  Sessions'
<1>1. PICK k \in Recoverable(w, b) :
        /\ job' = [job EXCEPT ![w].build = b, ![w].content = k, ![w].back = back]
        /\ Step(w, "preflight")
  BY DEF Complete
<1>2. /\ k \in Contents /\ releases[b].journal \in {0, k}
      /\ staging[w][b].journal \in {0, Garbage, k}
      /\ w \notin Nightly => releases[b].journal = k
  BY RecoversItsContent
<1>3. job' \in [Workers -> Job] /\ job'[w].build = b /\ job'[w].content = k
      /\ job'[w].phase = job[w].phase /\ job'[w].target = job[w].target
      /\ job'[w].back # "none"
      /\ \A v \in Workers \ {w} : job'[v] = job[v]
  <2> DEFINE j == [job[w] EXCEPT !.build = b, !.content = k, !.back = back]
  <2>1. job \in [Workers -> Job]
    BY DEF Sessions, SessionTypes
  <2>2. job' = [job EXCEPT ![w] = j]
    BY <1>1, <2>1
  <2>3. j \in Job /\ j.build = b /\ j.content = k /\ j.phase = job[w].phase
        /\ j.target = job[w].target /\ j.back # "none"
    BY <1>2, <2>1 DEF Job
  <2> HIDE DEF j
  <2> QED BY <2>1, <2>2, <2>3
<1>4. pc' \in [Workers -> Places] /\ pc'[w] = "preflight"
      /\ \A v \in Workers \ {w} : pc'[v] = pc[v]
  BY <1>1 DEF Sessions, SessionTypes, Step, Places, Completing
<1>5. w \notin Nightly => StagesNothing(w)'
  BY <1>3, <1>4 DEF Sessions, Session, StagesNothing
<1>6. w \in Nightly => StagesAlone(w)'
  BY <1>3, <1>4 DEF Sessions, Session, StagesAlone, Completing, Drafts
<1>7. Agrees(w, b, k)'
  BY <1>2, <1>3, <1>4 DEF Agrees
<1>8. Session(w)'
  BY <1>3, <1>4, <1>5, <1>6, <1>7 DEF Sessions, Session, Aims
<1> QED BY <1>3, <1>4, <1>8, OthersGoOn

(* A step of _complete_build that only moves on.                           *)
LEMMA CompletingGoesOn ==
    ASSUME Sessions, NEW w \in Workers, NEW s \in Completing,
           pc[w] \in Completing, Step(w, s), job' = job,
           Agrees(w, job[w].build, job[w].content)',
           UNCHANGED <<releases, staging, mark, assembled, setting>>
    PROVE  Sessions'
<1>1. pc' \in [Workers -> Places] /\ pc'[w] = s
      /\ \A v \in Workers \ {w} : pc'[v] = pc[v]
  BY DEF Sessions, SessionTypes, Step, Places
<1>2. w \notin Nightly => StagesNothing(w)'
  BY <1>1 DEF Sessions, Session, StagesNothing, Completing
<1>3. w \in Nightly => StagesAlone(w)'
  BY <1>1 DEF Sessions, Session, StagesAlone, Completing, Drafts
<1>4. Session(w)' /\ job' \in [Workers -> Job]
  BY <1>1, <1>2, <1>3 DEF Sessions, SessionTypes, Session, Aims, Completing
<1> QED BY <1>1, <1>4, OthersGoOn

-----------------------------------------------------------------------------
(* Steps of one session that change the release it completes.              *)

(* A session only ever adds its content to a draft, so no other session    *)
(* loses what it relies on.                                                *)
LEMMA ReleaseGoesOn ==
    ASSUME Sessions, NEW w \in Workers, pc[w] \in Completing,
           NEW b, b = job[w].build, NEW k, k = job[w].content,
           releases' \in [Ids -> Release],
           \A d \in Ids \ {b} : releases'[d] = releases[d],
           \/ releases'[b].journal = releases[b].journal
           \/ w \in Nightly /\ releases[b].journal = 0 /\ releases'[b].journal = k,
           releases[b].journal = k /\ releases[b].db = k => releases'[b].db = k,
           releases[b].journal = k /\ releases[b].inst = k => releases'[b].inst = k,
           releases[b].state = "published" => releases'[b] = releases[b],
           releases'[b].state = "absent" =>
             releases[b].state = "absent" /\ releases'[b].journal = 0,
           releases'[b].state = "draft" => releases[b].state = "draft" \/ w \in Nightly,
           releases'[b].state = "published" /\ releases[b].state # "published" =>
             releases'[b].journal = k /\ AssetsVerify(b, k)',
           pc' \in [Workers -> Places], job' \in [Workers -> Job],
           \A v \in Workers \ {w} : pc'[v] = pc[v] /\ job'[v] = job[v],
           UNCHANGED <<staging, mark, assembled, setting>>,
           Session(w)'
    PROVE  Sessions'
<1>1. Agrees(w, b, k) /\ b \in Ids /\ k \in Contents
  BY DEF Sessions, Session, Agrees
<1> PICK r : r = releases'[b]
  OBVIOUS
<1>2. /\ releases \in [Ids -> Release] /\ releases' \in [Ids -> Release]
      /\ releases'[b] = r /\ \A d \in Ids \ {b} : releases'[d] = releases[d]
  BY <1>1 DEF Sessions, SessionTypes
<1>3. SessionTypes'
  BY <1>2 DEF Sessions, SessionTypes
<1>4. \A d \in Drafts' : d \in Drafts \/ (d = b /\ w \in Nightly)
  <2> SUFFICES ASSUME NEW d \in Ids, releases'[d].state = "draft"
               PROVE  releases[d].state = "draft" \/ (d = b /\ w \in Nightly)
    BY DEF Drafts
  <2>1. CASE d = b
    BY <1>2, <2>1
  <2>2. CASE d # b
    BY <1>2, <2>2
  <2> QED BY <2>1, <2>2
<1>5. w \in Nightly => Drafts \subseteq {b}
  BY DEF Sessions, Session, StagesAlone
<1>6. ReleasesAreWhole'
  <2>1. \A d, e \in Drafts' : d = e
    BY <1>4, <1>5 DEF Sessions, ReleasesAreWhole
  <2>2. ASSUME NEW d \in Ids PROVE
          /\ releases'[d].state = "absent" => releases'[d].journal = 0
          /\ releases'[d].state = "published" =>
               releases'[d].journal # 0 /\ AssetsVerify(d, releases[d].journal)'
    <3>1. CASE d # b
      BY <1>2, <3>1 DEF Sessions, ReleasesAreWhole, AssetsVerify
    <3>2. CASE d = b /\ releases[b].state = "published"
      BY <1>2, <3>2 DEF Sessions, ReleasesAreWhole, AssetsVerify
    <3>3. CASE d = b /\ releases[b].state # "published" /\ r.state = "published"
      <4>1. releases'[b].journal = k /\ AssetsVerify(b, k)'
        BY <1>2, <3>3
      <4> QED BY <1>1, <3>3, <4>1, ContentsAreNumbers DEF AssetsVerify
    <3>4. CASE d = b /\ r.state # "published"
      BY <1>2, <3>4
    <3> QED BY <3>1, <3>2, <3>3, <3>4
  <2> QED BY <2>1, <2>2 DEF ReleasesAreWhole
<1>7. ASSUME NEW v \in Workers \ {w} PROVE Session(v)'
  <2>0. Session(v) /\ pc'[v] = pc[v] /\ job'[v] = job[v] /\ staging' = staging
    BY DEF Sessions
  <2>1. v \notin Nightly => StagesNothing(v)'
    BY <2>0 DEF Session, StagesNothing
  <2>2. v \in Nightly => StagesAlone(v)'
    <3> SUFFICES ASSUME v \in Nightly PROVE StagesAlone(v)'
      OBVIOUS
    <3>1. w \notin Nightly /\ releases[b].journal = k
      BY <1>1, NightlyIsOne DEF Agrees
    <3>2. r.journal = releases[b].journal /\ releases[b].state # "absent"
          /\ r.state # "absent"
      BY <1>1, <3>1, ContentsAreNumbers DEF Sessions, ReleasesAreWhole
    <3>3. Drafts' \subseteq Drafts
      BY <1>4, <3>1
    <3>4. \A d \in Ids : releases'[d].journal = releases[d].journal
      BY <1>2, <3>2
    <3>5. pc[v] = "finalize" =>
            releases'[job[v].build].state = "absent"
      BY <1>2, <2>0, <3>2 DEF Session, StagesAlone
    <3> QED BY <2>0, <3>3, <3>4, <3>5 DEF Session, StagesAlone
  <2>3. ASSUME pc[v] \in Completing
        PROVE  Agrees(v, job[v].build, job[v].content)'
    <3>1. Agrees(v, job[v].build, job[v].content)
      BY <2>0, <2>3 DEF Session
    <3>2. CASE job[v].build # b
      BY <1>2, <2>0, <3>1, <3>2 DEF Agrees, AssetsVerify
    <3>3. CASE job[v].build = b
      <4> DEFINE l == job[v].content
      <4>1. l \in Contents /\ releases[b].journal \in {0, l}
            /\ (v \notin Nightly => releases[b].journal = l)
        BY <3>1, <3>3 DEF Agrees
      <4>2. releases[b].journal # 0 => l = k /\ r.journal = l
        BY <1>1, <4>1 DEF Agrees
      <4>3. w \in Nightly => v \notin Nightly /\ releases[b].journal = l
        BY <4>1, NightlyIsOne
      <4>4. r.journal \in {0, l} /\ (v \notin Nightly => r.journal = l)
        BY <4>1, <4>2, <4>3, ContentsAreNumbers
      <4>5. releases[b].state # "absent" => r.state # "absent"
        OBVIOUS
      <4>6. releases[b].journal = l /\ releases[b].db = l => r.db = l
        BY <4>1, <4>2, ContentsAreNumbers
      <4>7. releases[b].journal = l /\ releases[b].inst = l => r.inst = l
        BY <4>1, <4>2, ContentsAreNumbers
      <4>8. releases[b].journal = l => r.journal = l
        BY <4>1, <4>2, ContentsAreNumbers
      <4>9. pc[v] = "publish" => releases[b].journal = l /\ releases[b].db = l
              /\ (NeedsInst(l) => releases[b].inst = l)
        BY <3>1, <3>3 DEF Agrees, AssetsVerify
      <4>10. pc[v] \in {"verify_published", "materialize", "pointer", "clear"} =>
               r = releases[b]
        BY <3>1, <3>3 DEF Agrees
      <4>11. pc[v] = "publish" => AssetsVerify(b, l)'
        BY <1>2, <4>6, <4>7, <4>9 DEF AssetsVerify
      <4> QED BY <1>1, <1>2, <2>0, <3>1, <3>3, <4>4, <4>5, <4>6, <4>8, <4>10,
                 <4>11 DEF Agrees
    <3> QED BY <3>2, <3>3
  <2> QED BY <2>0, <2>1, <2>2, <2>3 DEF Session, Aims
<1> QED BY <1>3, <1>6, <1>7 DEF Sessions

(* The session itself: it completes on, or it ends.                        *)
LEMMA OwnSessionGoesOn ==
    ASSUME Sessions, NEW w \in Workers, pc[w] \in Completing,
           NEW b, b = job[w].build, NEW k, k = job[w].content,
           releases' \in [Ids -> Release],
           \A d \in Ids \ {b} : releases'[d] = releases[d],
           \/ releases'[b].journal = releases[b].journal
           \/ w \in Nightly /\ releases[b].journal = 0 /\ releases'[b].journal = k,
           UNCHANGED <<staging, setting>>,
           \/ pc'[w] \in Completing /\ job'[w] = job[w] /\ Agrees(w, b, k)'
           \/ pc'[w] = "off" /\ job'[w] = NoJob
    PROVE  Session(w)'
<1>1. Session(w) /\ Agrees(w, b, k) /\ b \in Ids
  BY DEF Sessions, Session, Agrees
<1> PICK r : r = releases'[b]
  OBVIOUS
<1>2. releases'[b] = r /\ \A d \in Ids \ {b} : releases'[d] = releases[d]
  BY <1>1 DEF Sessions, SessionTypes
<1>3. w \notin Nightly => StagesNothing(w)'
  BY <1>1 DEF Session, StagesNothing, Completing, NoJob
<1>4. w \in Nightly => StagesAlone(w)'
  <2> SUFFICES ASSUME w \in Nightly PROVE StagesAlone(w)'
    OBVIOUS
  <2>1. Drafts' \subseteq {b}
    BY <1>1, <1>2 DEF Session, StagesAlone, Drafts
  <2>2. ASSUME NEW d \in Ids, releases'[d].journal # 0
        PROVE  staging[w][d].journal \in {0, Garbage, releases'[d].journal}
    <3>1. CASE d # b
      BY <1>1, <1>2, <2>2, <3>1 DEF Session, StagesAlone
    <3>2. CASE d = b /\ r.journal = releases[b].journal
      BY <1>1, <1>2, <2>2, <3>2 DEF Session, StagesAlone
    <3>3. CASE d = b /\ r.journal = k
      BY <1>1, <1>2, <3>3 DEF Agrees
    <3> QED BY <3>1, <3>2, <3>3
  <2>3. pc'[w] \in Completing => job'[w].build = b
    BY DEF Completing
  <2> QED BY <2>1, <2>2, <2>3 DEF StagesAlone, Completing
<1>5. pc'[w] \in Completing => Agrees(w, job[w].build, job[w].content)'
  BY DEF Completing
<1> QED BY <1>1, <1>3, <1>4, <1>5 DEF Session, Aims, Completing, NoJob

-----------------------------------------------------------------------------
(* reconcile_inflight keeps the sessions' invariant.                       *)

LEMMA NightlySeesNoDraft ==
    ASSUME Sessions, NEW w \in Workers, w \in Nightly,
           pc[w] \in {"staged", "newest", "reconciled", "stage"}
    PROVE  Drafts = {}
  BY DEF Sessions, Session, StagesAlone

LEMMA ReconcileDraftsKeeps ==
    ASSUME Sessions, NEW w \in Workers, ReconcileDrafts(w)
    PROVE  Sessions'
<1>1. pc[w] = "drafts" /\ UNCHANGED <<releases, staging, mark, assembled, setting>>
  BY DEF ReconcileDrafts, Remote, local, climate
<1>2. CASE Drafts = {} /\ Step(w, "staged") /\ UNCHANGED job
  BY <1>1, <1>2, SessionGoesTo DEF Places, Completing
<1>3. ASSUME NEW b \in Drafts, Complete(w, b, "staged") PROVE Sessions'
  <2>1. Drafts \subseteq {b} /\ b \in Ids
    BY DEF Sessions, ReleasesAreWhole, Drafts
  <2> QED BY <1>1, <1>3, <2>1, CompleteKeeps
<1> QED BY <1>2, <1>3 DEF ReconcileDrafts

LEMMA ReconcileStagedKeeps ==
    ASSUME Sessions, NEW w \in Workers, ReconcileStaged(w)
    PROVE  Sessions'
<1> DEFINE todo == StagedWithRelease(w)
<1>1. pc[w] = "staged" /\ UNCHANGED <<releases, staging, mark, assembled, setting>>
  BY DEF ReconcileStaged, Remote, local, climate
<1>2. w \in Nightly => Drafts = {}
  BY <1>1, NightlySeesNoDraft
<1>3. CASE todo = {} /\ Step(w, "newest") /\ UNCHANGED job
  BY <1>1, <1>2, <1>3, SessionGoesTo DEF Places, Completing
<1>4. CASE todo # {} /\ Complete(w, Min(todo), "staged")
  <2>1. todo \subseteq Ids
    BY DEF StagedWithRelease
  <2>2. Min(todo) \in Ids
    <3> HIDE DEF todo
    <3> QED BY <1>4, <2>1, MinIsAMember, ContentsAreNumbers
  <2> HIDE DEF todo
  <2> QED BY <1>1, <1>2, <1>4, <2>2, CompleteKeeps
<1> QED BY <1>3, <1>4 DEF ReconcileStaged

LEMMA MaxOfIds ==
    ASSUME NEW S \in SUBSET Ids, S # {}
    PROVE  Max(S) \in S /\ \A y \in S : y <= Max(S)
<1>1. MaxBuilds \in Nat /\ S \in SUBSET (0..MaxBuilds)
  BY FeedAssumption DEF FeedAssumption, Ids
<1>2. Max(S) \in S /\ \A y \in S : Max(S) >= y
  BY <1>1, MaxIsAMember
<1> QED BY <1>2, ContentsAreNumbers

LEMMA UncommittedIsAnId ==
    ASSUME NEW w \in Workers
    PROVE  Uncommitted(w) \subseteq Ids
<1> DEFINE others == Published \ job[w].completed
<1>1. others # {} => Max(others) \in Ids
  <2>1. others \subseteq Ids
    BY DEF Published
  <2> HIDE DEF others
  <2> QED BY <2>1, MaxOfIds
<1> QED BY <1>1 DEF Uncommitted

LEMMA ReconcileNewestKeeps ==
    ASSUME Sessions, NEW w \in Workers, ReconcileNewest(w)
    PROVE  Sessions'
<1>1. pc[w] = "newest" /\ UNCHANGED <<releases, staging, mark, assembled, setting>>
  BY DEF ReconcileNewest, Remote, local, climate
<1>2. w \in Nightly => Drafts = {}
  BY <1>1, NightlySeesNoDraft
<1>3. CASE Step(w, "reconciled") /\ UNCHANGED job
  BY <1>1, <1>2, <1>3, SessionGoesTo DEF Places, Completing
<1>4. ASSUME NEW b \in Uncommitted(w), Complete(w, b, "reconciled")
      PROVE  Sessions'
  BY <1>1, <1>2, <1>4, UncommittedIsAnId, CompleteKeeps
<1> QED BY <1>3, <1>4 DEF ReconcileNewest

LEMMA ReconciledKeeps ==
    ASSUME Sessions, NEW w \in Workers, Reconciled(w)
    PROVE  Sessions'
<1>1. pc[w] = "reconciled"
      /\ UNCHANGED <<releases, staging, mark, assembled, setting>>
  BY DEF Reconciled, Remote, local, climate
<1>2. w \in Nightly => Drafts = {}
  BY <1>1, NightlySeesNoDraft
<1>3. CASE job[w].phase = "stage" /\ Step(w, "stage") /\ UNCHANGED job
  <2>1. w \in Nightly
    BY <1>3 DEF Sessions, Session, StagesNothing
  <2> QED BY <1>1, <1>2, <1>3, <2>1, SessionGoesTo DEF Places, Completing
<1>4. CASE /\ \/ job[w].phase = "rollback" /\ Step(w, "repoint")
              \/ Step(w, "verify")
           /\ UNCHANGED job
  BY <1>1, <1>4, SessionGoesTo DEF Places, Completing
<1>5. CASE job[w].target # 0 /\ Complete(w, job[w].target, "verify")
  <2>1. job[w].target \in Ids
    BY <1>5 DEF Sessions, SessionTypes, Job
  <2> QED BY <1>1, <1>2, <1>5, <2>1, CompleteKeeps
<1> QED BY <1>3, <1>4, <1>5 DEF Reconciled

-----------------------------------------------------------------------------
(* Staging keeps it.                                                       *)

LEMMA OnlyNightlyStages ==
    ASSUME Sessions, NEW w \in Workers, pc[w] \in {"stage", "finalize", "choose"}
    PROVE  w \in Nightly
  BY DEF Sessions, Session, StagesNothing

LEMMA PreserveStagedKeeps ==
    ASSUME Sessions, NEW w \in Workers, PreserveStaged(w) \/ StageWithoutSource(w)
    PROVE  Sessions'
<1>1. /\ pc[w] = "stage" /\ Step(w, "choose") /\ job' = job
      /\ UNCHANGED <<releases, staging, mark, assembled, setting>>
  BY DEF PreserveStaged, StageWithoutSource, Remote, local, climate
<1> QED BY <1>1, OnlyNightlyStages, SessionGoesTo DEF Places, Completing

(* The next build id is free: nothing is in flight when it is chosen.      *)
LEMMA NextBuildIdIsFree ==
    ASSUME Sessions, NEW w \in Workers
    PROVE  /\ NextBuildId(w) \in Nat \ {0} /\ NextBuildId(w) > mark[w]
           /\ \A b \in Published : NextBuildId(w) > b
<1> DEFINE traces == {0, mark[w]} \cup Published
             \cup {b \in Ids : tree[w].builds[b] # 0 \/ staging[w][b].made}
<1>1. mark[w] \in Nat /\ MaxBuilds \in Nat
  BY FeedAssumption DEF Sessions, SessionTypes, FeedAssumption
<1>2. traces \in SUBSET (0..(mark[w] + MaxBuilds)) /\ traces # {}
      /\ traces \subseteq Nat /\ mark[w] \in traces /\ Published \subseteq traces
  BY <1>1 DEF Published, Ids
<1>3. Max(traces) \in traces /\ \A y \in traces : Max(traces) >= y
  <2> DEFINE n == mark[w] + MaxBuilds
  <2>1. n \in Nat /\ traces \in SUBSET (0..n)
    BY <1>1, <1>2
  <2> HIDE DEF traces, n
  <2> QED BY <1>2, <2>1, MaxIsAMember
<1>4. NextBuildId(w) = 1 + Max(traces)
  BY DEF NextBuildId
<1> HIDE DEF traces
<1>5. PICK m : m = Max(traces)
  OBVIOUS
<1>6. m \in Nat /\ m >= mark[w] /\ \A b \in Published : m >= b
  BY <1>2, <1>3, <1>5
<1>7. \A b \in Published : b \in Nat
  BY <1>2
<1> QED BY <1>1, <1>4, <1>5, <1>6, <1>7

LEMMA BuildIdIsFree ==
    ASSUME Sessions, NEW w \in Workers, Drafts = {}, NEW b,
           b = IF StagedOnly(w) = {} THEN NextBuildId(w) ELSE Max(StagedOnly(w)),
           b <= setting.builds
    PROVE  b \in Ids /\ releases[b].state = "absent"
<1>1. CASE StagedOnly(w) = {}
  <2>1. b \in Nat \ {0} /\ \A d \in Published : b > d
    BY <1>1, NextBuildIdIsFree
  <2>2. setting.builds \in Ids
    BY PublicationAssumption DEF PublicationAssumption, Setting, Sessions, SessionTypes
  <2>3. b \in Ids
    BY <2>1, <2>2, FeedAssumption DEF Ids, FeedAssumption
  <2>4. b \notin Published /\ b \notin Drafts
    BY <2>1
  <2> QED BY <2>3, <2>4 DEF Sessions, SessionTypes, Release, Published, Drafts
<1>2. CASE StagedOnly(w) # {}
  <2>1. StagedOnly(w) \subseteq Ids
    BY DEF StagedOnly
  <2>2. b \in StagedOnly(w)
    BY <1>2, <2>1, MaxOfIds
  <2> QED BY <2>2 DEF StagedOnly
<1> QED BY <1>1, <1>2

LEMMA StageBuildKeeps ==
    ASSUME Sessions, NEW w \in Workers, StageBuild(w)
    PROVE  Sessions'
<1> DEFINE rebuild == StagedOnly(w)
           b == IF rebuild = {} THEN NextBuildId(w) ELSE Max(rebuild)
           k == assembled + 1
           s == [made |-> TRUE, journal |-> 0,
                 inst |-> IF NeedsInst(k) THEN k ELSE 0]
           j == [job[w] EXCEPT !.build = b, !.content = k]
<1>1. /\ pc[w] = "stage" /\ b <= setting.builds /\ k <= setting.contents
      /\ mark' = IF rebuild = {} THEN [mark EXCEPT ![w] = b] ELSE mark
      /\ staging' = [staging EXCEPT ![w][b] = s]
      /\ assembled' = k
      /\ job' = [job EXCEPT ![w].build = b, ![w].content = k]
      /\ Step(w, "finalize") /\ UNCHANGED <<releases, setting>>
  BY DEF StageBuild, Remote, climate
<1>2. w \in Nightly /\ Drafts = {}
  BY <1>1, OnlyNightlyStages, NightlySeesNoDraft
<1>3. b \in Ids /\ releases[b].state = "absent" /\ (rebuild = {} => b \in Nat)
  BY <1>1, <1>2, BuildIdIsFree, ContentsAreNumbers
<1>4. k \in Contents /\ assembled \in Nat
  <2>1. setting.contents \in Contents /\ assembled \in Nat
    BY PublicationAssumption DEF PublicationAssumption, Setting, Sessions, SessionTypes
  <2> QED BY <1>1, <2>1, FeedAssumption DEF Contents, FeedAssumption
<1> HIDE DEF b, k, rebuild
<1>5. /\ s \in Staged /\ s.journal = 0
      /\ staging \in [Workers -> [Ids -> Staged]] /\ job \in [Workers -> Job]
      /\ mark \in [Workers -> Nat] /\ pc \in [Workers -> Places]
  BY <1>4 DEF Staged, Sessions, SessionTypes
<1>6. /\ j \in Job /\ j.build = b /\ j.content = k
      /\ j.phase = job[w].phase /\ j.target = job[w].target
  BY <1>3, <1>4, <1>5 DEF Job
<1>7. job' = [job EXCEPT ![w] = j]
  BY <1>1, <1>5
<1> HIDE DEF s, j
<1>8. /\ staging' \in [Workers -> [Ids -> Staged]]
      /\ staging'[w] = [staging[w] EXCEPT ![b] = s]
      /\ \A v \in Workers \ {w} : staging'[v] = staging[v]
  BY <1>1, <1>3, <1>5
<1>9. /\ job' \in [Workers -> Job] /\ job'[w] = j
      /\ \A v \in Workers \ {w} : job'[v] = job[v]
  BY <1>5, <1>6, <1>7
<1>10. /\ pc' \in [Workers -> Places] /\ pc'[w] = "finalize"
       /\ \A v \in Workers \ {w} : pc'[v] = pc[v]
  BY <1>1, <1>5 DEF Step, Places
<1>11. mark' \in [Workers -> Nat] /\ assembled' \in Nat
  BY <1>1, <1>3, <1>4, <1>5, ContentsAreNumbers
<1>12. StagesAlone(w)'
  <2>1. \A d \in Ids : staging'[w][d].journal \in {0, staging[w][d].journal}
    BY <1>3, <1>5, <1>8
  <2>2. \A d \in Ids : releases[d].journal # 0 =>
          staging[w][d].journal \in {0, Garbage, releases[d].journal}
    BY <1>2 DEF Sessions, Session, StagesAlone
  <2>3. job'[w].build = b /\ job'[w].content = k /\ releases' = releases
    BY <1>1, <1>6, <1>9
  <2> QED BY <1>3, <1>4, <1>10, <2>1, <2>2, <2>3 DEF StagesAlone, Completing
<1>13. Session(w)'
  BY <1>2, <1>6, <1>9, <1>10, <1>12 DEF Sessions, Session, Aims, Completing
<1> QED BY <1>1, <1>8, <1>9, <1>10, <1>11, <1>13, StagingGoesOn

LEMMA FinalizeBuildKeeps ==
    ASSUME Sessions, NEW w \in Workers, FinalizeBuild(w)
    PROVE  Sessions'
<1> DEFINE b == job[w].build
           s == [staging[w][b] EXCEPT !.journal = job[w].content]
<1>1. /\ pc[w] = "finalize" /\ Step(w, "choose")
      /\ staging' = [staging EXCEPT ![w][job[w].build].journal = job[w].content]
      /\ UNCHANGED <<releases, mark, job, assembled, setting>>
  BY DEF FinalizeBuild, Remote, climate
<1>2. w \in Nightly /\ b \in Ids /\ job[w].content \in Contents
      /\ releases[b].state = "absent" /\ releases[b].journal = 0
  <2>1. w \in Nightly
    BY <1>1, OnlyNightlyStages
  <2> QED BY <1>1, <2>1 DEF Sessions, Session, StagesAlone, ReleasesAreWhole
<1>3. s \in Staged /\ staging' = [staging EXCEPT ![w][b] = s]
      /\ staging \in [Workers -> [Ids -> Staged]]
  <2>1. staging \in [Workers -> [Ids -> Staged]]
    BY DEF Sessions, SessionTypes
  <2>2. s \in Staged
    <3>1. staging[w][b] \in Staged
      BY <1>2, <2>1
    <3> HIDE DEF b
    <3> QED BY <1>2, <3>1 DEF Staged
  <2>3. staging' = [staging EXCEPT ![w][b] = s]
    BY <1>1, <2>1
  <2> QED BY <2>1, <2>2, <2>3
<1> HIDE DEF b, s
<1>4. /\ staging' \in [Workers -> [Ids -> Staged]]
      /\ \A d \in Ids \ {b} : staging'[w][d] = staging[w][d]
      /\ \A v \in Workers \ {w} : staging'[v] = staging[v]
  BY <1>2, <1>3
<1>5. /\ pc' \in [Workers -> Places] /\ pc'[w] = "choose"
      /\ \A v \in Workers \ {w} : pc'[v] = pc[v]
  BY <1>1 DEF Sessions, SessionTypes, Step, Places
<1>6. StagesAlone(w)'
  BY <1>1, <1>2, <1>4, <1>5 DEF Sessions, Session, StagesAlone, Completing
<1>7. Session(w)'
  BY <1>1, <1>2, <1>5, <1>6 DEF Sessions, Session, Aims, Completing
<1>8. mark' \in [Workers -> Nat] /\ assembled' \in Nat /\ job' \in [Workers -> Job]
  BY <1>1 DEF Sessions, SessionTypes
<1> QED BY <1>1, <1>4, <1>5, <1>7, <1>8, StagingGoesOn

LEMMA ChooseTargetKeeps ==
    ASSUME Sessions, NEW w \in Workers, ChooseTarget(w)
    PROVE  Sessions'
<1> DEFINE staged == {b \in Ids : staging[w][b].journal # 0}
           t == Max({0} \cup staged)
           j == [NoJob EXCEPT !.command = job[w].command, !.phase = "publish",
                              !.target = t]
<1>1. /\ pc[w] = "choose" /\ Step(w, "drafts") /\ job' = [job EXCEPT ![w] = j]
      /\ UNCHANGED <<releases, staging, mark, assembled, setting>>
  BY DEF ChooseTarget, Remote, local, climate
<1>2. t \in {0} \cup Ids
  <2>1. MaxBuilds \in Nat /\ {0} \cup staged \in SUBSET (0..MaxBuilds)
    BY FeedAssumption DEF FeedAssumption, Ids
  <2>2. {0} \cup staged # {} /\ staged \subseteq Ids
    OBVIOUS
  <2> HIDE DEF staged
  <2> QED BY <2>1, <2>2, MaxIsAMember
<1> HIDE DEF t
<1>3. j \in Job /\ j.phase = "publish"
  BY <1>2 DEF Sessions, SessionTypes, Job, NoJob
<1> HIDE DEF j
<1>4. /\ pc' \in [Workers -> Places] /\ pc'[w] = "drafts"
      /\ job' \in [Workers -> Job] /\ job'[w] = j
      /\ \A v \in Workers \ {w} : pc'[v] = pc[v] /\ job'[v] = job[v]
  BY <1>1, <1>3 DEF Sessions, SessionTypes, Step, Places
<1>5. w \in Nightly
  BY <1>1, OnlyNightlyStages
<1>6. Session(w)'
  BY <1>1, <1>3, <1>4, <1>5 DEF Sessions, Session, StagesAlone, Aims, Completing
<1> QED BY <1>1, <1>4, <1>6, OthersGoOn

-----------------------------------------------------------------------------
(* _complete_build keeps it.                                               *)

LEMMA CompletingAgrees ==
    ASSUME Sessions, NEW w \in Workers, pc[w] \in Completing
    PROVE  /\ Agrees(w, job[w].build, job[w].content)
           /\ job[w].build \in Ids /\ job[w].content \in Contents
           /\ releases[job[w].build] \in Release
  BY DEF Sessions, Session, SessionTypes, Agrees

LEMMA PreflightKeeps ==
    ASSUME Sessions, NEW w \in Workers, Preflight(w)
    PROVE  Sessions'
<1> PICK b, k : b = job[w].build /\ k = job[w].content
  OBVIOUS
<1> DEFINE s == CASE releases[b].state = "absent"    -> "draft"
                  [] releases[b].state = "draft"     -> "journal"
                  [] releases[b].state = "published" -> "verify_published"
<1>1. /\ pc[w] = "preflight" /\ Step(w, s) /\ job' = job
      /\ UNCHANGED <<releases, staging, mark, assembled, setting>>
  BY DEF Preflight, Remote, local, climate
<1>2. Agrees(w, b, k) /\ releases[b].state \in {"absent", "draft", "published"}
  BY <1>1, CompletingAgrees DEF Completing, Release
<1>3. s \in {"draft", "journal", "verify_published"}
      /\ (s # "draft" => releases[b].state # "absent")
      /\ (s = "verify_published" => releases[b].state = "published")
  BY <1>2
<1> HIDE DEF s
<1>4. pc'[w] = s
  BY <1>1 DEF Sessions, SessionTypes, Step
<1>5. Agrees(w, b, k)'
  BY <1>1, <1>2, <1>3, <1>4 DEF Agrees
<1> QED BY <1>1, <1>3, <1>5, CompletingGoesOn DEF Completing

LEMMA EnsureDraftKeeps ==
    ASSUME Sessions, NEW w \in Workers, EnsureDraft(w)
    PROVE  Sessions'
<1> PICK b, k : b = job[w].build /\ k = job[w].content
  OBVIOUS
<1> PICK r : r = [releases[b] EXCEPT !.state = "draft"]
  OBVIOUS
<1>1. /\ pc[w] = "draft" /\ Step(w, "journal") /\ job' = job
      /\ releases[b].state # "published"
      /\ releases' = [releases EXCEPT ![b].state = "draft"]
      /\ UNCHANGED <<staging, mark, assembled, setting>>
  BY DEF EnsureDraft, local, climate
<1>2. /\ Agrees(w, b, k) /\ b \in Ids /\ k \in Contents
      /\ releases[b] \in Release
  BY <1>1, CompletingAgrees DEF Completing
<1>3. /\ releases \in [Ids -> Release]
      /\ pc \in [Workers -> Places] /\ job \in [Workers -> Job]
  BY DEF Sessions, SessionTypes
<1>4. releases' = [releases EXCEPT ![b] = r]
  BY <1>1, <1>2, <1>3
<1>5. /\ r \in Release /\ r.state = "draft" /\ r.journal = releases[b].journal
      /\ r.db = releases[b].db /\ r.inst = releases[b].inst
  BY <1>2 DEF Release
<1>10. /\ releases' \in [Ids -> Release] /\ releases'[b] = r
      /\ \A d \in Ids \ {b} : releases'[d] = releases[d]
  BY <1>2, <1>3, <1>4, <1>5
<1>6. r.state = "draft" => releases[b].state = "draft" \/ w \in Nightly
  BY <1>1, <1>2, ContentsAreNumbers DEF Agrees, Sessions, ReleasesAreWhole, Release
<1>7. /\ pc' \in [Workers -> Places] /\ job' \in [Workers -> Job]
      /\ pc'[w] = "journal"
      /\ \A v \in Workers \ {w} : pc'[v] = pc[v] /\ job'[v] = job[v]
  BY <1>1, <1>3 DEF Step, Places, Completing
<1>8. Agrees(w, b, k)'
  BY <1>1, <1>2, <1>3, <1>4, <1>5, <1>7 DEF Agrees
<1>9. Session(w)'
  BY <1>1, <1>5, <1>7, <1>8, <1>10, OwnSessionGoesOn DEF Completing
<1> QED BY <1>1, <1>5, <1>6, <1>7, <1>9, <1>10, ReleaseGoesOn DEF Completing

(* An asset is attached to the draft; the journal by the nightly worker.   *)
LEMMA UploadKeeps ==
    ASSUME Sessions, NEW w \in Workers, Upload(w)
    PROVE  Sessions'
<1> PICK b, k : b = job[w].build /\ k = job[w].content
  OBVIOUS
<1> PICK asset : asset = pc[w]
  OBVIOUS
<1> DEFINE s == NextAsset(w)
<1>1. /\ asset \in Assets /\ Step(w, s) /\ job' = job
      /\ UNCHANGED <<staging, mark, assembled, setting>>
  BY DEF Upload, local, climate
<1>2. /\ Agrees(w, b, k) /\ b \in Ids /\ k \in Contents
      /\ releases[b] \in Release /\ pc[w] \in Completing
  BY <1>1, CompletingAgrees DEF Assets, Completing
<1>3. /\ releases \in [Ids -> Release]
      /\ pc \in [Workers -> Places] /\ job \in [Workers -> Job]
  BY DEF Sessions, SessionTypes
<1>4. /\ asset = "journal" => s = "db"
      /\ asset = "db" => s = IF NeedsInst(k) THEN "inst" ELSE "publish"
      /\ asset = "inst" => s = "publish"
  BY DEF NextAsset
<1>5. s \in {"db", "inst", "publish"} /\ s \in Completing
  BY <1>1, <1>4 DEF Assets, Completing
<1>0. PICK r : r =
         CASE asset = "journal" -> [releases[b] EXCEPT !.journal = k]
           [] asset = "db"      -> [releases[b] EXCEPT !.db = k]
           [] asset = "inst"    -> [releases[b] EXCEPT !.inst = k]
  OBVIOUS
<1>6. CASE UNCHANGED releases /\ releases[b][asset] = k
  <2>1. /\ asset = "journal" => releases[b].journal = k
        /\ asset = "db" => releases[b].db = k
        /\ asset = "inst" => releases[b].inst = k
    BY <1>6
  <2> HIDE DEF s
  <2>2. pc'[w] = s
    BY <1>1, <1>3 DEF Step
  <2>3. Agrees(w, b, k)'
    BY <1>1, <1>2, <1>4, <1>5, <1>6, <2>1, <2>2 DEF Agrees, AssetsVerify, Assets
  <2> QED BY <1>1, <1>2, <1>5, <1>6, <2>3, CompletingGoesOn
<1>7. CASE /\ releases[b][asset] # k /\ releases[b].state = "draft"
           /\ releases' = [releases EXCEPT ![b][asset] = k]
  <2>1. /\ asset = "journal" => releases[b].journal # k
        /\ asset = "db" => releases[b].db # k
        /\ asset = "inst" => releases[b].inst # k
    BY <1>7
  <2>2. releases' = [releases EXCEPT ![b] = r]
    BY <1>0, <1>1, <1>2, <1>3, <1>7 DEF Assets
  <2> HIDE DEF s
  <2>3. /\ r \in Release /\ r.state = "draft"
        /\ r.journal = IF asset = "journal" THEN k ELSE releases[b].journal
        /\ r.db = IF asset = "db" THEN k ELSE releases[b].db
        /\ r.inst = IF asset = "inst" THEN k ELSE releases[b].inst
    BY <1>0, <1>1, <1>2, <1>7 DEF Release, Assets
  <2>9. /\ releases' \in [Ids -> Release] /\ releases'[b] = r
        /\ \A d \in Ids \ {b} : releases'[d] = releases[d]
    BY <1>2, <1>3, <2>2, <2>3
  <2>4. asset = "journal" => w \in Nightly /\ releases[b].journal = 0
    BY <1>2, <2>1 DEF Agrees
  <2>5. /\ pc' \in [Workers -> Places] /\ job' \in [Workers -> Job]
        /\ pc'[w] = s
        /\ \A v \in Workers \ {w} : pc'[v] = pc[v] /\ job'[v] = job[v]
    BY <1>1, <1>3, <1>5 DEF Step, Places, Completing
  <2>6. Agrees(w, b, k)'
    <3>1. releases'[b] = r
      BY <1>2, <1>3, <2>2
    <3>2. r.journal = k
      BY <1>1, <1>2, <2>3 DEF Agrees, Assets
    <3>3. s \in {"inst", "publish"} => r.db = k
      BY <1>1, <1>2, <1>4, <2>3 DEF Agrees, Assets
    <3>4. s = "publish" => (NeedsInst(k) => r.inst = k)
      BY <1>1, <1>4, <2>3 DEF Assets
    <3> QED BY <1>1, <1>2, <1>5, <2>3, <2>5, <3>1, <3>2, <3>3, <3>4
          DEF Agrees, AssetsVerify
  <2>7. \/ r.journal = releases[b].journal
        \/ w \in Nightly /\ releases[b].journal = 0 /\ r.journal = k
    BY <2>3, <2>4
  <2>8. Session(w)'
    BY <1>1, <1>2, <1>5, <2>5, <2>6, <2>7, <2>9, OwnSessionGoesOn
  <2>10. /\ releases'[b].state = "draft" /\ releases[b].state = "draft"
         /\ \/ releases'[b].journal = releases[b].journal
            \/ w \in Nightly /\ releases[b].journal = 0 /\ releases'[b].journal = k
         /\ releases[b].journal = k /\ releases[b].db = k =>
              releases'[b].db = k
         /\ releases[b].journal = k /\ releases[b].inst = k =>
              releases'[b].inst = k
    BY <1>7, <2>3, <2>7, <2>9
  <2> QED BY <1>1, <1>2, <2>5, <2>8, <2>9, <2>10, ReleaseGoesOn
<1> QED BY <1>6, <1>7 DEF Upload

(* A failed upload takes nothing a session relies on.                      *)
LEMMA UploadFailsKeeps ==
    ASSUME Sessions, NEW w \in Workers, UploadFails(w)
    PROVE  Sessions'
<1> PICK b, k : b = job[w].build /\ k = job[w].content
  OBVIOUS
<1> PICK asset : asset = pc[w]
  OBVIOUS
<1>0. PICK r : r =
         CASE asset = "journal" -> [releases[b] EXCEPT !.journal = 0]
           [] asset = "db"      -> [releases[b] EXCEPT !.db = 0]
           [] asset = "inst"    -> [releases[b] EXCEPT !.inst = 0]
  OBVIOUS
<1>1. /\ asset \in Assets /\ EndSession(w) /\ releases[b].state = "draft"
      /\ releases[b][asset] # k
      /\ releases' = [releases EXCEPT ![b][asset] = 0]
      /\ UNCHANGED <<staging, mark, assembled, setting>>
  BY DEF UploadFails, local, climate
<1>2. /\ Agrees(w, b, k) /\ b \in Ids /\ k \in Contents
      /\ releases[b] \in Release /\ pc[w] \in Completing
  BY <1>1, CompletingAgrees DEF Assets, Completing
<1>3. /\ releases \in [Ids -> Release]
      /\ pc \in [Workers -> Places] /\ job \in [Workers -> Job]
  BY DEF Sessions, SessionTypes
<1>4. /\ asset = "journal" => releases[b].journal # k
      /\ asset = "db" => releases[b].db # k
      /\ asset = "inst" => releases[b].inst # k
  BY <1>1
<1>5. releases' = [releases EXCEPT ![b] = r]
  BY <1>0, <1>1, <1>2, <1>3 DEF Assets
<1>6. /\ r \in Release /\ r.state = "draft"
      /\ r.journal = IF asset = "journal" THEN 0 ELSE releases[b].journal
      /\ r.db = IF asset = "db" THEN 0 ELSE releases[b].db
      /\ r.inst = IF asset = "inst" THEN 0 ELSE releases[b].inst
  BY <1>0, <1>1, <1>2 DEF Release, Assets
<1>10. /\ releases' \in [Ids -> Release] /\ releases'[b] = r
      /\ \A d \in Ids \ {b} : releases'[d] = releases[d]
  BY <1>2, <1>3, <1>5, <1>6
<1>7. r.journal = releases[b].journal
  BY <1>2, <1>4, <1>6 DEF Agrees
<1>8. /\ pc' \in [Workers -> Places] /\ job' \in [Workers -> Job]
      /\ pc'[w] = "off" /\ job'[w] = NoJob
      /\ \A v \in Workers \ {w} : pc'[v] = pc[v] /\ job'[v] = job[v]
  <2>1. NoJob \in Job
    BY DEF NoJob, Job
  <2> QED BY <1>1, <1>3, <2>1 DEF EndSession, Step, Places
<1>9. Session(w)'
  BY <1>1, <1>2, <1>6, <1>7, <1>8, <1>10, OwnSessionGoesOn
<1>11. /\ releases'[b].state = "draft" /\ releases[b].state = "draft"
       /\ releases'[b].journal = releases[b].journal
       /\ UNCHANGED <<staging, mark, assembled, setting>>
       /\ releases[b].journal = k /\ releases[b].db = k =>
            releases'[b].db = k
       /\ releases[b].journal = k /\ releases[b].inst = k =>
            releases'[b].inst = k
  BY <1>1, <1>4, <1>6, <1>7, <1>10
<1> QED BY <1>2, <1>8, <1>9, <1>10, <1>11, ReleaseGoesOn

LEMMA PublishReleaseKeeps ==
    ASSUME Sessions, NEW w \in Workers, PublishRelease(w)
    PROVE  Sessions'
<1> PICK b, k : b = job[w].build /\ k = job[w].content
  OBVIOUS
<1> PICK r : r = [releases[b] EXCEPT !.state = "published"]
  OBVIOUS
<1>1. /\ pc[w] = "publish" /\ Step(w, "materialize") /\ job' = job
      /\ releases' = [releases EXCEPT ![b].state = "published"]
      /\ UNCHANGED <<staging, mark, assembled, setting>>
  BY DEF PublishRelease, local, climate
<1>2. /\ Agrees(w, b, k) /\ b \in Ids /\ k \in Contents
      /\ releases[b] \in Release
  BY <1>1, CompletingAgrees DEF Completing
<1>3. /\ releases \in [Ids -> Release]
      /\ pc \in [Workers -> Places] /\ job \in [Workers -> Job]
  BY DEF Sessions, SessionTypes
<1>4. releases' = [releases EXCEPT ![b] = r]
  BY <1>1, <1>2, <1>3
<1>5. /\ r \in Release /\ r.state = "published"
      /\ r.journal = releases[b].journal /\ r.db = releases[b].db
      /\ r.inst = releases[b].inst
      /\ releases[b].state = "published" => r = releases[b]
  BY <1>2 DEF Release
<1>10. /\ releases' \in [Ids -> Release] /\ releases'[b] = r
      /\ \A d \in Ids \ {b} : releases'[d] = releases[d]
  BY <1>2, <1>3, <1>4, <1>5
<1>6. releases[b].journal = k /\ AssetsVerify(b, k) /\ AssetsVerify(b, k)'
  BY <1>1, <1>2, <1>5, <1>10 DEF Agrees, AssetsVerify
<1>7. /\ pc' \in [Workers -> Places] /\ job' \in [Workers -> Job]
      /\ pc'[w] = "materialize"
      /\ \A v \in Workers \ {w} : pc'[v] = pc[v] /\ job'[v] = job[v]
  BY <1>1, <1>3 DEF Step, Places, Completing
<1>8. Agrees(w, b, k)'
  BY <1>1, <1>2, <1>3, <1>4, <1>5, <1>6, <1>7 DEF Agrees
<1>9. Session(w)'
  BY <1>1, <1>5, <1>7, <1>8, <1>10, OwnSessionGoesOn DEF Completing
<1> QED BY <1>1, <1>5, <1>6, <1>7, <1>9, <1>10, ReleaseGoesOn DEF Completing

LEMMA VerifyPublishedKeeps ==
    ASSUME Sessions, NEW w \in Workers, VerifyPublished(w)
    PROVE  Sessions'
<1> PICK b, k : b = job[w].build /\ k = job[w].content
  OBVIOUS
<1>1. /\ pc[w] = "verify_published" /\ Step(w, "materialize") /\ job' = job
      /\ releases[b].journal = k
      /\ UNCHANGED <<releases, staging, mark, assembled, setting>>
  BY DEF VerifyPublished, PublishedVerifies, Remote, local, climate
<1>2. Agrees(w, b, k)
  BY <1>1, CompletingAgrees DEF Completing
<1>3. pc'[w] = "materialize"
  BY <1>1 DEF Sessions, SessionTypes, Step
<1>4. Agrees(w, b, k)'
  BY <1>1, <1>2, <1>3 DEF Agrees
<1> QED BY <1>1, <1>4, CompletingGoesOn DEF Completing

(* The two steps that write the checkout: builds/<id> and latest.json.     *)
LEMMA MaterializeKeeps ==
    ASSUME Sessions, NEW w \in Workers, Materialize(w) \/ PointAt(w)
    PROVE  Sessions'
<1> PICK b, k : b = job[w].build /\ k = job[w].content
  OBVIOUS
<1>1. /\ pc[w] \in {"materialize", "pointer"}
      /\ UNCHANGED <<releases, staging, mark, assembled, setting>>
      /\ \/ EndSession(w)
         \/ (Step(w, "pointer") \/ Step(w, "clear")) /\ job' = job
  BY DEF Materialize, PointAt, Remote, climate
<1>2. CASE EndSession(w)
  BY <1>1, <1>2, SessionEnds
<1>3. ASSUME NEW s \in {"pointer", "clear"}, Step(w, s), job' = job
      PROVE  Sessions'
  <2>1. Agrees(w, b, k)
    BY <1>1, CompletingAgrees DEF Completing
  <2>2. pc'[w] = s
    BY <1>3 DEF Sessions, SessionTypes, Step
  <2>3. Agrees(w, b, k)'
    BY <1>1, <1>3, <2>1, <2>2 DEF Agrees
  <2> QED BY <1>1, <1>3, <2>3, CompletingGoesOn DEF Completing
<1> QED BY <1>1, <1>2, <1>3

LEMMA ClearStagingKeeps ==
    ASSUME Sessions, NEW w \in Workers, ClearStaging(w)
    PROVE  Sessions'
<1> PICK b, s : b = job[w].build /\ s = job[w].back
  OBVIOUS
<1> PICK j : j = [job[w] EXCEPT !.completed = @ \cup {b}, !.build = 0,
                                !.content = 0, !.back = "none"]
  OBVIOUS
<1>1. /\ pc[w] = "clear" /\ Step(w, s)
      /\ staging' = [staging EXCEPT ![w][b] = Unstaged]
      /\ job' = [job EXCEPT ![w].completed = @ \cup {b}, ![w].build = 0,
                            ![w].content = 0, ![w].back = "none"]
      /\ UNCHANGED <<releases, mark, assembled, setting>>
  BY DEF ClearStaging, Remote, climate
<1>2. /\ b \in Ids /\ s \in {"staged", "reconciled", "verify"}
      /\ releases[b].state = "published"
  BY <1>1 DEF Sessions, Session, SessionTypes, Agrees, Completing, Job
<1>3. /\ job \in [Workers -> Job] /\ pc \in [Workers -> Places]
      /\ staging \in [Workers -> [Ids -> Staged]]
      /\ mark \in [Workers -> Nat] /\ assembled \in Nat
  BY DEF Sessions, SessionTypes
<1>4. job' = [job EXCEPT ![w] = j]
  BY <1>1, <1>3
<1>5. j \in Job /\ j.phase = job[w].phase /\ j.target = job[w].target
  BY <1>2, <1>3 DEF Job
<1>6. Unstaged \in Staged /\ Unstaged.journal = 0
  BY DEF Staged, Unstaged
<1>7. /\ staging' \in [Workers -> [Ids -> Staged]]
      /\ staging'[w] = [staging[w] EXCEPT ![b] = Unstaged]
      /\ \A v \in Workers \ {w} : staging'[v] = staging[v]
  BY <1>1, <1>2, <1>3, <1>6
<1>8. \A d \in Ids : staging'[w][d].journal \in {0, staging[w][d].journal}
  BY <1>2, <1>3, <1>6, <1>7
<1>9. /\ pc' \in [Workers -> Places] /\ pc'[w] = s
      /\ job' \in [Workers -> Job] /\ job'[w] = j
      /\ \A v \in Workers \ {w} : pc'[v] = pc[v] /\ job'[v] = job[v]
  BY <1>1, <1>2, <1>3, <1>4, <1>5 DEF Step, Places
<1>10. w \notin Nightly => StagesNothing(w)'
  BY <1>1, <1>2, <1>5, <1>8, <1>9 DEF Sessions, Session, StagesNothing
<1>11. w \in Nightly => StagesAlone(w)'
  <2>1. w \in Nightly => Drafts = {} /\ Drafts' = {}
    BY <1>1, <1>2 DEF Sessions, Session, StagesAlone, Drafts, Completing
  <2> QED BY <1>1, <1>2, <1>8, <1>9, <2>1
        DEF Sessions, Session, StagesAlone, Completing
<1>12. Session(w)'
  BY <1>2, <1>5, <1>9, <1>10, <1>11 DEF Sessions, Session, Aims, Completing
<1> QED BY <1>1, <1>3, <1>7, <1>9, <1>12, StagingGoesOn

-----------------------------------------------------------------------------
(* The rest of a session, and the environment, keep it.                    *)

LEMMA FinishKeeps ==
    ASSUME Sessions, NEW w \in Workers, Finish(w) \/ Abort(w)
    PROVE  Sessions'
<1>1. UNCHANGED <<releases, staging, mark, assembled, setting>>
  BY DEF Finish, Repoint, Verify, Push, Abort, Remote, local, climate
<1>2. CASE EndSession(w)
  BY <1>1, <1>2, SessionEnds
<1>3. ASSUME NEW s \in {"verify", "push"}, pc[w] \in {"repoint", "verify"},
             Step(w, s), job' = job
      PROVE  Sessions'
  BY <1>1, <1>3, SessionGoesTo DEF Places, Completing
<1> QED BY <1>2, <1>3 DEF Finish, Repoint, Verify, Push, Abort

(* A surviving directory only ever has the nightly worker's sessions.      *)
LEMMA BeginKeeps ==
    ASSUME Sessions, NEW w \in Workers,
           BeginNightly(w) \/ \E b \in Ids : BeginByHand(w, b)
    PROVE  Sessions'
<1>1. PICK command \in {"nightly", "rollback", "publish"},
           phase \in {"stage", "rollback", "publish"}, t \in {0} \cup Ids :
        /\ Begin(w, command, phase, t, "drafts")
        /\ phase = "stage" => w \in Nightly
        /\ phase = "rollback" => t \in Ids
        /\ w \in Nightly \/ w \in setting.operators
  <2>1. CASE BeginNightly(w)
    BY <2>1 DEF BeginNightly
  <2>2. CASE \E b \in Ids : BeginByHand(w, b)
    BY <2>2 DEF BeginByHand
  <2> QED BY <2>1, <2>2
<1> PICK j : j = [NoJob EXCEPT !.command = command, !.phase = phase,
                               !.target = t]
  OBVIOUS
<1>2. /\ Step(w, "drafts") /\ job' = [job EXCEPT ![w] = j]
      /\ UNCHANGED <<releases, assembled, setting>>
      /\ \/ /\ setting.fresh
            /\ staging' = [staging EXCEPT ![w] = NoStaging]
            /\ mark' = [mark EXCEPT ![w] = 0]
         \/ ~setting.fresh /\ UNCHANGED <<staging, mark>>
  BY <1>1 DEF Begin, Remote, climate
<1>3. j \in Job /\ j.phase = phase /\ j.target = t
  BY DEF Job, NoJob
<1>4. /\ job \in [Workers -> Job] /\ pc \in [Workers -> Places]
      /\ staging \in [Workers -> [Ids -> Staged]]
      /\ mark \in [Workers -> Nat] /\ assembled \in Nat
  BY DEF Sessions, SessionTypes
<1>5. NoStaging \in [Ids -> Staged] /\ \A d \in Ids : NoStaging[d].journal = 0
  BY DEF NoStaging, Unstaged, Staged
<1>6. /\ staging' \in [Workers -> [Ids -> Staged]]
      /\ mark' \in [Workers -> Nat] /\ assembled' \in Nat
      /\ \A v \in Workers \ {w} : staging'[v] = staging[v]
      /\ \A d \in Ids : staging'[w][d].journal \in {0, staging[w][d].journal}
  <2>1. CASE /\ staging' = [staging EXCEPT ![w] = NoStaging]
             /\ mark' = [mark EXCEPT ![w] = 0]
    <3>1. staging'[w] = NoStaging
      BY <1>4, <2>1
    <3>2. \A d \in Ids : staging'[w][d].journal = 0
      BY <1>5, <3>1
    <3> QED BY <1>2, <1>4, <1>5, <2>1, <3>2
  <2>2. CASE UNCHANGED <<staging, mark>>
    BY <1>2, <1>4, <2>2
  <2> QED BY <1>2, <2>1, <2>2
<1>7. /\ pc' \in [Workers -> Places] /\ pc'[w] = "drafts"
      /\ job' \in [Workers -> Job] /\ job'[w] = j
      /\ \A v \in Workers \ {w} : pc'[v] = pc[v] /\ job'[v] = job[v]
  BY <1>2, <1>3, <1>4 DEF Step, Places
<1>8. w \notin Nightly => StagesNothing(w)'
  <2>1. w \notin Nightly => setting.fresh
    BY <1>1, SessionsAssumption
       DEF SessionsAssumption, Sessions, SessionTypes
  <2> QED BY <1>1, <1>2, <1>3, <1>6, <1>7, <2>1
        DEF Sessions, Session, StagesNothing
<1>9. w \in Nightly => StagesAlone(w)'
  BY <1>2, <1>6, <1>7 DEF Sessions, Session, StagesAlone, Completing
<1>10. Session(w)'
  BY <1>1, <1>3, <1>7, <1>8, <1>9 DEF Session, Aims, Completing
<1> QED BY <1>2, <1>6, <1>7, <1>10, StagingGoesOn

(* rollback.md, Appendix A: nothing runs while a draft is discarded.       *)
LEMMA DiscardDraftKeeps ==
    ASSUME Sessions, NEW b \in Ids, DiscardDraft(b)
    PROVE  Sessions'
<1>1. /\ \A w \in Workers : pc[w] = "off"
      /\ releases' = [releases EXCEPT ![b] = NoRelease]
      /\ staging' = [w \in Workers |-> [staging[w] EXCEPT ![b] = Unstaged]]
      /\ UNCHANGED <<mark, pc, job, assembled, setting>>
  BY DEF DiscardDraft, session, climate
<1>2. /\ NoRelease \in Release /\ NoRelease.state = "absent"
      /\ NoRelease.journal = 0
      /\ Unstaged \in Staged /\ Unstaged.journal = 0
  BY DEF NoRelease, Release, Unstaged, Staged
<1>3. /\ releases \in [Ids -> Release] /\ staging \in [Workers -> [Ids -> Staged]]
  BY DEF Sessions, SessionTypes
<1>4. /\ releases' \in [Ids -> Release] /\ releases'[b] = NoRelease
      /\ \A d \in Ids \ {b} : releases'[d] = releases[d]
  BY <1>1, <1>2, <1>3
<1>5. /\ staging' \in [Workers -> [Ids -> Staged]]
      /\ \A w \in Workers, d \in Ids :
           staging'[w][d].journal \in {0, staging[w][d].journal}
  BY <1>1, <1>2, <1>3
<1>6. SessionTypes'
  BY <1>1, <1>4, <1>5 DEF Sessions, SessionTypes
<1>7. ReleasesAreWhole'
  <2>1. Drafts' \subseteq Drafts
    BY <1>2, <1>4 DEF Drafts
  <2>2. ASSUME NEW d \in Ids PROVE
          /\ releases'[d].state = "absent" => releases'[d].journal = 0
          /\ releases'[d].state = "published" =>
               releases'[d].journal # 0 /\ AssetsVerify(d, releases[d].journal)'
    BY <1>2, <1>4 DEF Sessions, ReleasesAreWhole, AssetsVerify
  <2> QED BY <2>1, <2>2 DEF Sessions, ReleasesAreWhole
<1>8. ASSUME NEW w \in Workers PROVE Session(w)'
  <2>1. /\ pc'[w] = "off" /\ job'[w] = job[w] /\ setting' = setting
        /\ pc[w] = "off"
    BY <1>1
  <2>2. w \notin Nightly => StagesNothing(w)'
    BY <1>5, <2>1 DEF Sessions, Session, StagesNothing
  <2>3. w \in Nightly => StagesAlone(w)'
    <3>1. \A d \in Ids : releases'[d].journal # 0 => releases'[d] = releases[d]
      BY <1>2, <1>4
    <3> QED BY <1>5, <2>1, <3>1
          DEF Sessions, Session, StagesAlone, Completing
  <2> QED BY <2>1, <2>2, <2>3 DEF Sessions, Session, Aims, Completing
<1> QED BY <1>6, <1>7, <1>8 DEF Sessions

LEMMA DamageJournalKeeps ==
    ASSUME Sessions, NEW w \in Workers, NEW b \in Ids, DamageJournal(w, b)
    PROVE  Sessions'
<1> PICK s : s = [staging[w][b] EXCEPT !.journal = Garbage]
  OBVIOUS
<1>1. /\ pc[w] = "off" /\ staging[w][b].journal # 0
      /\ staging' = [staging EXCEPT ![w][b].journal = Garbage]
      /\ UNCHANGED <<releases, mark, pc, job, assembled, setting>>
  BY DEF DamageJournal, Remote, session, climate
<1>2. w \in Nightly
  BY <1>1 DEF Sessions, Session, StagesNothing
<1>3. staging \in [Workers -> [Ids -> Staged]] /\ staging[w][b] \in Staged
  BY DEF Sessions, SessionTypes
<1>4. staging' = [staging EXCEPT ![w][b] = s]
  BY <1>1, <1>3
<1>5. s \in Staged /\ s.journal = Garbage
  BY <1>3 DEF Staged
<1>6. /\ staging' \in [Workers -> [Ids -> Staged]]
      /\ staging'[w][b].journal = Garbage
      /\ \A d \in Ids \ {b} : staging'[w][d] = staging[w][d]
      /\ \A v \in Workers \ {w} : staging'[v] = staging[v]
  BY <1>3, <1>4, <1>5
<1>7. StagesAlone(w)'
  BY <1>1, <1>2, <1>6 DEF Sessions, Session, StagesAlone, Completing
<1>8. Session(w)'
  BY <1>1, <1>2, <1>7 DEF Sessions, Session, Aims, Completing
<1>9. /\ mark' \in [Workers -> Nat] /\ assembled' \in Nat
      /\ pc' \in [Workers -> Places] /\ job' \in [Workers -> Job]
  BY <1>1 DEF Sessions, SessionTypes
<1> QED BY <1>1, <1>6, <1>8, <1>9, StagingGoesOn

LEMMA NothingHappensKeeps ==
    ASSUME Sessions, UNCHANGED <<releases, staging, mark, pc, job, assembled, setting>>
    PROVE  Sessions'
  BY DEF Sessions, SessionTypes, ReleasesAreWhole, Session, StagesNothing,
     StagesAlone, Agrees, Aims, Drafts, AssetsVerify

LEMMA StepKeepsSessions ==
    ASSUME Sessions, [PubNext]_pubVars
    PROVE  Sessions'
<1>1. ASSUME NEW w \in Workers, Work(w) PROVE Sessions'
  <2>1. CASE BeginNightly(w)
    BY <2>1, BeginKeeps
  <2>2. CASE Reconcile(w)
    BY <2>2, ReconcileDraftsKeeps, ReconcileStagedKeeps, ReconcileNewestKeeps,
       ReconciledKeeps DEF Reconcile
  <2>3. CASE Stage(w)
    BY <2>3, PreserveStagedKeeps, StageBuildKeeps, FinalizeBuildKeeps,
       ChooseTargetKeeps DEF Stage
  <2>4. CASE CompleteBuild(w)
    BY <2>4, PreflightKeeps, EnsureDraftKeeps, UploadKeeps, PublishReleaseKeeps,
       VerifyPublishedKeeps, MaterializeKeeps, ClearStagingKeeps DEF CompleteBuild
  <2>5. CASE Finish(w) \/ Abort(w)
    BY <2>5, FinishKeeps
  <2> QED BY <1>1, <2>1, <2>2, <2>3, <2>4, <2>5 DEF Work
<1>2. ASSUME NEW w \in Workers, UploadFails(w) PROVE Sessions'
  BY <1>2, UploadFailsKeeps
<1>3. ASSUME NEW w \in Workers, NEW b \in Ids,
             BeginByHand(w, b) \/ DamageJournal(w, b)
      PROVE  Sessions'
  BY <1>3, BeginKeeps, DamageJournalKeeps
<1>4. ASSUME NEW b \in Ids, DiscardDraft(b) PROVE Sessions'
  BY <1>4, DiscardDraftKeeps
<1>5. CASE CalmDown \/ UNCHANGED pubVars
  BY <1>5, NothingHappensKeeps DEF CalmDown, pubVars, Remote, local, session, climate
<1> QED BY <1>1, <1>2, <1>3, <1>4, <1>5 DEF PubNext

LEMMA InitHasSessions ==
    ASSUME PubInit
    PROVE  Sessions
<1>1. SessionTypes
  BY DEF PubInit, SessionTypes, NoRelease, Release, NoStaging, Unstaged, Staged,
     NoJob, Job, Places
<1>2. ReleasesAreWhole
  BY DEF PubInit, ReleasesAreWhole, NoRelease, Drafts
<1>3. ASSUME NEW w \in Workers PROVE Session(w)
  BY DEF PubInit, Session, StagesNothing, StagesAlone, Aims, NoRelease, NoStaging,
     Unstaged, NoJob, Completing
<1> QED BY <1>1, <1>2, <1>3 DEF Sessions

(* In every run the sessions' invariant holds: what a session relies on    *)
(* when it completes a build is never taken from it by another one.        *)
THEOREM SessionsInvariant == PubSpec => []Sessions
  BY InitHasSessions, StepKeepsSessions, PTL DEF PubSpec

-----------------------------------------------------------------------------
(* Pointers name published releases.                                       *)

(* What is public stays as it is.                                          *)
LEMMA PublishedStays ==
    ASSUME Sessions, [PubNext]_pubVars, NEW b \in Published
    PROVE  b \in Published' /\ releases'[b] = releases[b]
<1>1. /\ b \in Ids /\ releases[b].state = "published"
      /\ releases \in [Ids -> Release]
  BY DEF Published, Sessions, SessionTypes
<1>2. ASSUME NEW w \in Workers, Work(w)
      PROVE  \/ releases' = releases \/ EnsureDraft(w) \/ Upload(w)
             \/ PublishRelease(w)
  BY <1>2 DEF Work, BeginNightly, Begin, Reconcile,
     ReconcileDrafts, ReconcileStaged, ReconcileNewest, Reconciled, Stage,
     PreserveStaged, StageBuild, StageWithoutSource, FinalizeBuild, ChooseTarget,
     CompleteBuild, Preflight, VerifyPublished, Materialize, PointAt, ClearStaging,
     Finish, Repoint, Verify, Push, Abort, Remote
<1>3. ASSUME NEW d \in Ids, DiscardDraft(d) PROVE releases'[b] = releases[b]
  BY <1>1, <1>3 DEF DiscardDraft
<1>4. ASSUME NEW w \in Workers, EnsureDraft(w) PROVE releases'[b] = releases[b]
  BY <1>1, <1>4 DEF EnsureDraft
<1>5. ASSUME NEW w \in Workers, Upload(w) \/ UploadFails(w)
      PROVE  releases'[b] = releases[b]
  BY <1>1, <1>5 DEF Upload, UploadFails
<1>6. ASSUME NEW w \in Workers, PublishRelease(w)
      PROVE  releases'[b] = releases[b]
  <2>1. releases[b] \in Release
    BY <1>1
  <2>2. releases' = [releases EXCEPT ![job[w].build].state = "published"]
    BY <1>6 DEF PublishRelease
  <2>3. CASE job[w].build = b
    BY <1>1, <2>1, <2>2, <2>3 DEF Release
  <2>4. CASE job[w].build # b
    BY <1>1, <2>2, <2>4
  <2> QED BY <2>3, <2>4
<1>7. ASSUME NEW w \in Workers, NEW d \in Ids,
             BeginByHand(w, d) \/ DamageJournal(w, d)
      PROVE  releases' = releases
  BY <1>7 DEF BeginByHand, Begin, DamageJournal, Remote
<1>8. ASSUME CalmDown \/ UNCHANGED pubVars PROVE releases' = releases
  BY <1>8 DEF CalmDown, pubVars, Remote
<1>9. releases'[b] = releases[b]
  BY <1>2, <1>3, <1>4, <1>5, <1>6, <1>7, <1>8 DEF PubNext
<1> QED BY <1>1, <1>9 DEF Published

LEMMA NamesStay ==
    ASSUME \A b \in Published : b \in Published' /\ releases'[b] = releases[b],
           NEW p, Names(p)
    PROVE  Names(p)'
  BY DEF Names

LEMMA CommitsStay ==
    ASSUME \A b \in Published : b \in Published' /\ releases'[b] = releases[b],
           NEW builds, Commits(builds)
    PROVE  Commits(builds)'
  BY DEF Commits

LEMMA CheckoutStays ==
    ASSUME \A b \in Published : b \in Published' /\ releases'[b] = releases[b],
           NEW t, Checkout(t)
    PROVE  Checkout(t)'
  BY NamesStay, CommitsStay DEF Checkout

(* One session's checkout changes, or none.                                *)
LEMMA OneCheckoutMoves ==
    ASSUME Checkouts, NEW w \in Workers, UNCHANGED <<origin, setting>>,
           \A b \in Published : b \in Published' /\ releases'[b] = releases[b],
           tree' \in [Workers -> Tree],
           \A v \in Workers \ {w} : tree'[v] = tree[v],
           Checkout(tree[w])',
           Ahead(tree[w].latest, origin.latest) =>
             Ahead(tree'[w].latest, origin.latest)
    PROVE  Checkouts'
<1>1. Commits(origin.builds)' /\ Names(origin.latest)'
  <2> PICK o : o = origin
    OBVIOUS
  <2>1. Commits(o.builds)' /\ Names(o.latest)'
    BY NamesStay, CommitsStay DEF Checkouts
  <2> QED BY <2>1
<1>2. ASSUME NEW v \in Workers \ {w} PROVE Checkout(tree[v])'
  <2> PICK t : t = tree[v]
    OBVIOUS
  <2>1. Checkout(t)'
    BY CheckoutStays DEF Checkouts
  <2> QED BY <2>1
<1>3. ASSUME ~setting.fresh, NEW n \in Nightly
      PROVE  Ahead(tree'[n].latest, origin.latest)
  BY <1>3, PublicationAssumption DEF Checkouts, PublicationAssumption
<1>4. origin' \in Origin
  BY DEF Checkouts
<1> QED BY <1>1, <1>2, <1>3, <1>4 DEF Checkouts, Ahead

LEMMA MintIsNewer ==
    ASSUME Sessions, Checkouts, NEW w \in Workers, NEW b \in Published,
           NEW k, k = releases[b].journal, Mint(w, b, k)
    PROVE  /\ tree' \in [Workers -> Tree]
           /\ \A v \in Workers \ {w} : tree'[v] = tree[v]
           /\ tree'[w].builds = tree[w].builds /\ tree'[w].base = tree[w].base
           /\ tree'[w].latest.build = b /\ tree'[w].latest.content = k
           /\ tree'[w].latest.version > tree[w].latest.version
<1> PICK p : p = [version |-> tree[w].latest.version + 1, build |-> b, content |-> k]
  OBVIOUS
<1> PICK t : t = [tree[w] EXCEPT !.latest = p]
  OBVIOUS
<1>1. /\ tree \in [Workers -> Tree] /\ tree[w] \in Tree /\ b \in Ids
      /\ k \in Contents /\ setting.versions \in 1..MaxVersion
  <2>1. k \in {0} \cup Contents /\ k # 0 /\ b \in Ids
    BY DEF Published, Sessions, SessionTypes, ReleasesAreWhole, Release
  <2>2. setting.versions \in 1..MaxVersion
    BY PublicationAssumption
       DEF PublicationAssumption, Sessions, SessionTypes, Setting
  <2> QED BY <2>1, <2>2 DEF Checkouts
<1>2. /\ tree[w].latest.version < setting.versions
      /\ tree' = [tree EXCEPT ![w].latest = p]
  BY DEF Mint
<1>3. tree' = [tree EXCEPT ![w] = t]
  BY <1>1, <1>2
<1>4. tree[w].latest \in Pointer
  BY <1>1 DEF Tree
<1>5. p \in Pointer
  <2>1. tree[w].latest.version \in 0..MaxVersion
    BY <1>4 DEF Pointer
  <2>2. p.version \in 0..MaxVersion
    BY <1>1, <1>2, <2>1, FeedAssumption DEF FeedAssumption
  <2> QED BY <1>1, <2>2 DEF Pointer, Ids, Contents
<1>6. /\ t \in Tree /\ t.builds = tree[w].builds /\ t.base = tree[w].base
      /\ t.latest = p
  BY <1>1, <1>5 DEF Tree
<1>7. p.version > tree[w].latest.version /\ p.build = b /\ p.content = k
  BY <1>4, FeedAssumption DEF Pointer, FeedAssumption
<1> QED BY <1>1, <1>3, <1>6, <1>7

(* A new pointer keeps the checkout in order.                              *)
LEMMA MintKeepsCheckouts ==
    ASSUME Sessions, Checkouts, NEW w \in Workers, NEW b \in Published,
           NEW k, k = releases[b].journal, Mint(w, b, k),
           UNCHANGED <<releases, origin, setting>>
    PROVE  Checkouts'
<1> PICK t, p : t = tree'[w] /\ p = tree'[w].latest
  OBVIOUS
<1>1. /\ tree' \in [Workers -> Tree]
      /\ \A v \in Workers \ {w} : tree'[v] = tree[v]
      /\ t.builds = tree[w].builds /\ t.base = tree[w].base
      /\ p.build = b /\ p.content = k /\ t.latest = p
      /\ p.version > tree[w].latest.version
  BY MintIsNewer
<1>2. Published' = Published
  BY DEF Published
<1>3. /\ Commits(tree[w].builds) /\ Names(tree[w].base)
      /\ Ahead(tree[w].latest, tree[w].base) /\ tree[w] \in Tree
      /\ origin.latest \in Pointer
  BY DEF Checkouts, Checkout, Origin
<1>4. /\ tree[w].latest.version \in Int /\ tree[w].base.version \in Int
      /\ p.version \in Int /\ origin.latest.version \in Int
  <2>1. t \in Tree
    BY <1>1
  <2> QED BY <1>1, <1>3, <2>1, FeedAssumption DEF Tree, Pointer, FeedAssumption
<1>5. Commits(t.builds)' /\ Names(t.base)' /\ Names(p)'
  <2>1. Commits(t.builds) /\ Names(t.base) /\ Names(p)
    BY <1>1, <1>3 DEF Names
  <2> QED BY <1>2, <2>1 DEF Commits, Names
<1>6. Ahead(p, tree[w].base)
      /\ (Ahead(tree[w].latest, origin.latest) => Ahead(p, origin.latest))
  BY <1>1, <1>3, <1>4 DEF Ahead
<1>7. Checkout(t)'
  BY <1>1, <1>5, <1>6 DEF Checkout
<1>8. Checkout(tree[w])'
  BY <1>7
<1> QED BY <1>1, <1>2, <1>6, <1>8, OneCheckoutMoves

LEMMA PointAtKeepsCheckouts ==
    ASSUME Sessions, Checkouts, NEW w \in Workers, PointAt(w)
    PROVE  Checkouts'
<1> PICK b, k : b = job[w].build /\ k = job[w].content
  OBVIOUS
<1>1. /\ pc[w] = "pointer" /\ UNCHANGED <<releases, origin, setting>>
      /\ UNCHANGED tree \/ Mint(w, b, k)
  BY DEF PointAt, Remote, climate
<1>2. b \in Published /\ k = releases[b].journal
  BY <1>1, CompletingAgrees DEF Completing, Agrees, Published
<1>3. CASE UNCHANGED tree
  <2>1. Published' = Published
    BY <1>1 DEF Published
  <2> QED BY <1>1, <1>3, <2>1 DEF Checkouts, Checkout, Commits, Names
<1>4. CASE Mint(w, b, k)
  BY <1>1, <1>2, <1>4, MintKeepsCheckouts
<1> QED BY <1>1, <1>3, <1>4

LEMMA RepointKeepsCheckouts ==
    ASSUME Sessions, Checkouts, NEW w \in Workers, Repoint(w)
    PROVE  Checkouts'
<1> PICK b, k : b = job[w].target /\ k = tree[w].builds[b]
  OBVIOUS
<1>1. /\ UNCHANGED <<releases, origin, setting>> /\ Mint(w, b, k)
      /\ Whole(tree[w].builds[b])
  BY DEF Repoint, RollbackVerifies, Remote, climate
<1>2. b \in Ids
  BY DEF Repoint, Sessions, Session, Aims
<1>3. b \in Published /\ k = releases[b].journal
  BY <1>1, <1>2 DEF Checkouts, Checkout, Commits
<1> QED BY <1>1, <1>3, MintKeepsCheckouts

LEMMA MaterializeKeepsCheckouts ==
    ASSUME Sessions, Checkouts, NEW w \in Workers, Materialize(w)
    PROVE  Checkouts'
<1> PICK b, k : b = job[w].build /\ k = job[w].content
  OBVIOUS
<1>1. /\ pc[w] = "materialize" /\ UNCHANGED <<releases, origin, setting>>
      /\ \E c \in {k, Partial(k)} : tree' = [tree EXCEPT ![w].builds[b] = c]
  BY DEF Materialize, Remote, climate
<1>2. PICK c \in {k, Partial(k)} : tree' = [tree EXCEPT ![w].builds[b] = c]
  BY <1>1
<1>3. b \in Ids /\ b \in Published /\ k = releases[b].journal /\ k \in Contents
  BY <1>1, CompletingAgrees DEF Completing, Agrees, Published
<1>4. c \in Int /\ (Whole(c) => c = k)
  BY <1>3 DEF Whole, Partial, Contents
<1>5. tree \in [Workers -> Tree] /\ tree[w] \in Tree
  BY DEF Checkouts
<1> PICK t : t = [tree[w] EXCEPT !.builds = [@ EXCEPT ![b] = c]]
  OBVIOUS
<1>6. tree' = [tree EXCEPT ![w] = t]
  BY <1>2, <1>5
<1>7. /\ t \in Tree /\ t.latest = tree[w].latest /\ t.base = tree[w].base
      /\ t.builds[b] = c /\ \A d \in Ids \ {b} : t.builds[d] = tree[w].builds[d]
  BY <1>3, <1>4, <1>5 DEF Tree
<1>8. /\ tree' \in [Workers -> Tree] /\ tree'[w] = t
      /\ \A v \in Workers \ {w} : tree'[v] = tree[v]
  BY <1>5, <1>6, <1>7
<1>9. Published' = Published
  BY <1>1 DEF Published
<1>10. Checkout(t)
  <2>1. Checkout(tree[w])
    BY DEF Checkouts
  <2>2. Commits(t.builds)
    BY <1>3, <1>4, <1>7, <2>1 DEF Checkout, Commits
  <2> QED BY <1>7, <2>1, <2>2 DEF Checkout
<1>11. Checkout(t)'
  BY <1>1, <1>9, <1>10, CheckoutStays
<1>12. Checkout(tree[w])'
  BY <1>8, <1>11
<1> QED BY <1>1, <1>7, <1>8, <1>9, <1>12, OneCheckoutMoves

(* A session starts from what origin says now.                             *)
LEMMA BeginKeepsCheckouts ==
    ASSUME Sessions, Checkouts, NEW w \in Workers,
           BeginNightly(w) \/ \E b \in Ids : BeginByHand(w, b)
    PROVE  Checkouts'
<1>1. /\ UNCHANGED <<releases, origin, setting>>
      /\ w \in Nightly \/ w \in setting.operators
      /\ \/ /\ setting.fresh
            /\ tree' = [tree EXCEPT ![w] = [builds |-> origin.builds,
                                            latest |-> origin.latest,
                                            base |-> origin.latest]]
         \/ /\ ~setting.fresh
            /\ tree' = [tree EXCEPT ![w].base = origin.latest]
  BY DEF BeginNightly, BeginByHand, Begin, Remote, climate
<1>2. /\ tree \in [Workers -> Tree] /\ tree[w] \in Tree /\ origin \in Origin
      /\ Commits(origin.builds) /\ Names(origin.latest) /\ Checkout(tree[w])
  BY DEF Checkouts
<1>3. Published' = Published
  BY <1>1 DEF Published
<1> SUFFICES ASSUME NEW t \in Tree, Checkout(t), tree' = [tree EXCEPT ![w] = t],
                    Ahead(tree[w].latest, origin.latest) =>
                      Ahead(t.latest, origin.latest)
             PROVE  Checkouts'
  <2>1. CASE setting.fresh
    <3> PICK t : t = [builds |-> origin.builds, latest |-> origin.latest,
                      base |-> origin.latest]
      OBVIOUS
    <3>1. t \in Tree /\ tree' = [tree EXCEPT ![w] = t]
          /\ t.builds = origin.builds /\ t.latest = origin.latest
          /\ t.base = origin.latest
      BY <1>1, <1>2, <2>1 DEF Tree, Origin
    <3>2. Checkout(t)
      BY <1>2, <3>1 DEF Checkout, Ahead
    <3> QED BY <3>1, <3>2 DEF Ahead
  <2>2. CASE ~setting.fresh
    <3> PICK t : t = [tree[w] EXCEPT !.base = origin.latest]
      OBVIOUS
    <3>1. t \in Tree /\ t.builds = tree[w].builds /\ t.latest = tree[w].latest
          /\ t.base = origin.latest
      BY <1>2 DEF Tree, Origin
    <3>2. tree' = [tree EXCEPT ![w] = t]
      BY <1>1, <1>2, <2>2
    <3>3. w \in Nightly
      BY <1>1, <2>2, SessionsAssumption
         DEF SessionsAssumption, Sessions, SessionTypes
    <3>4. Ahead(t.latest, t.base)
      BY <2>2, <3>1, <3>3 DEF Checkouts
    <3>5. Checkout(t)
      BY <1>2, <3>1, <3>4 DEF Checkout
    <3> QED BY <3>1, <3>2, <3>5
  <2> QED BY <2>1, <2>2
<1>4. /\ tree' \in [Workers -> Tree] /\ tree'[w] = t
      /\ \A v \in Workers \ {w} : tree'[v] = tree[v]
  BY <1>2
<1>5. Checkout(t)'
  BY <1>1, <1>3, CheckoutStays
<1>6. Checkout(tree[w])'
  BY <1>4, <1>5
<1> QED BY <1>1, <1>3, <1>4, <1>6, OneCheckoutMoves

(* What origin gets is what the checkout had, over what it had already.    *)
LEMMA PushKeepsCheckouts ==
    ASSUME Sessions, Checkouts, NEW w \in Workers, Push(w)
    PROVE  Checkouts'
<1> PICK mine : mine = tree[w]
  OBVIOUS
<1> PICK now : now = IF Repointed(w) THEN mine.latest ELSE origin.latest
  OBVIOUS
<1> PICK o : o = [builds |-> [b \in Ids |-> IF mine.builds[b] # 0
                                            THEN mine.builds[b]
                                            ELSE origin.builds[b]],
                  latest |-> now]
  OBVIOUS
<1>1. /\ pc[w] = "push" /\ origin' = o
      /\ UNCHANGED <<releases, tree, setting>>
  BY DEF Push, local, climate
<1>2. /\ tree \in [Workers -> Tree] /\ mine \in Tree /\ origin \in Origin
      /\ Commits(origin.builds) /\ Names(origin.latest) /\ Checkout(mine)
  BY DEF Checkouts
<1>3. o \in Origin /\ o.latest = now
      /\ \A b \in Ids : o.builds[b] \in {mine.builds[b], origin.builds[b]}
  BY <1>2 DEF Tree, Origin
<1>4. Published' = Published
  BY <1>1 DEF Published
<1>5. Commits(o.builds) /\ Names(now)
  BY <1>2, <1>3 DEF Commits, Checkout
<1>6. Commits(o.builds)' /\ Names(now)' /\ \A v \in Workers : Checkout(tree[v])'
  BY <1>1, <1>4, <1>5 DEF Commits, Names, Checkout, Checkouts
<1>7. ASSUME ~setting.fresh, NEW n \in Nightly
      PROVE  Ahead(tree[n].latest, now)
  <2>1. w \in Nightly
    BY <1>1, <1>7 DEF Sessions, Session, StagesNothing
  <2>2. n = w
    BY <2>1, NightlyIsOne
  <2> QED BY <1>7, <2>2 DEF Checkouts, Ahead
<1> QED BY <1>1, <1>2, <1>3, <1>6, <1>7 DEF Checkouts, Ahead

LEMMA StepKeepsCheckouts ==
    ASSUME Sessions, Checkouts, [PubNext]_pubVars
    PROVE  Checkouts'
<1>1. ASSUME UNCHANGED <<tree, origin, setting>> PROVE Checkouts'
  <2>1. \A b \in Published : b \in Published' /\ releases'[b] = releases[b]
    BY PublishedStays
  <2>2. Commits(origin.builds)' /\ Names(origin.latest)'
    <3> PICK o : o = origin
      OBVIOUS
    <3>1. Commits(o.builds)' /\ Names(o.latest)'
      BY <2>1, NamesStay, CommitsStay DEF Checkouts
    <3> QED BY <1>1, <3>1
  <2>3. ASSUME NEW v \in Workers PROVE Checkout(tree[v])'
    <3> PICK t : t = tree[v]
      OBVIOUS
    <3>1. Checkout(t)'
      BY <2>1, CheckoutStays DEF Checkouts
    <3> QED BY <1>1, <3>1
  <2> QED BY <1>1, <2>2, <2>3 DEF Checkouts, Ahead
<1>2. ASSUME NEW w \in Workers, Work(w) PROVE Checkouts'
  <2>1. CASE BeginNightly(w)
    BY <2>1, BeginKeepsCheckouts
  <2>2. CASE Reconcile(w)
    BY <1>1, <2>2 DEF Reconcile, ReconcileDrafts, ReconcileStaged,
       ReconcileNewest, Reconciled, Remote, local, climate
  <2>3. CASE Stage(w)
    BY <1>1, <2>3 DEF Stage, PreserveStaged, StageBuild, StageWithoutSource,
       FinalizeBuild, ChooseTarget, Remote, local, climate
  <2>4. CASE CompleteBuild(w)
    <3>1. CASE Materialize(w)
      BY <3>1, MaterializeKeepsCheckouts
    <3>2. CASE PointAt(w)
      BY <3>2, PointAtKeepsCheckouts
    <3>3. CASE \/ Preflight(w) \/ EnsureDraft(w) \/ Upload(w) \/ PublishRelease(w)
               \/ VerifyPublished(w) \/ ClearStaging(w)
      BY <1>1, <3>3 DEF Preflight, EnsureDraft, Upload, PublishRelease,
         VerifyPublished, ClearStaging, Remote, local, climate
    <3> QED BY <2>4, <3>1, <3>2, <3>3 DEF CompleteBuild
  <2>5. CASE Finish(w)
    BY <1>1, <2>5, RepointKeepsCheckouts, PushKeepsCheckouts
       DEF Finish, Verify, Remote, local, climate
  <2>6. CASE Abort(w)
    BY <1>1, <2>6 DEF Abort, Remote, local, climate
  <2> QED BY <1>2, <2>1, <2>2, <2>3, <2>4, <2>5, <2>6 DEF Work
<1>3. ASSUME NEW w \in Workers, UploadFails(w) PROVE Checkouts'
  BY <1>1, <1>3 DEF UploadFails, local, climate
<1>4. ASSUME NEW w \in Workers, NEW b \in Ids,
             BeginByHand(w, b) \/ DamageJournal(w, b)
      PROVE  Checkouts'
  BY <1>1, <1>4, BeginKeepsCheckouts DEF DamageJournal, Remote, climate
<1>5. ASSUME NEW b \in Ids, DiscardDraft(b) PROVE Checkouts'
  BY <1>1, <1>5 DEF DiscardDraft, climate
<1>6. ASSUME CalmDown \/ UNCHANGED pubVars PROVE Checkouts'
  BY <1>1, <1>6 DEF CalmDown, pubVars, Remote, local, climate
<1> QED BY <1>2, <1>3, <1>4, <1>5, <1>6 DEF PubNext

LEMMA InitHasCheckouts ==
    ASSUME PubInit
    PROVE  Checkouts
<1>1. NoPointer \in Pointer
  BY FeedAssumption DEF NoPointer, Pointer, FeedAssumption
<1>2. origin \in Origin /\ tree \in [Workers -> Tree]
  BY <1>1 DEF PubInit, Origin, Tree
<1>3. /\ origin.latest = NoPointer /\ \A b \in Ids : origin.builds[b] = 0
      /\ \A w \in Workers : /\ \A b \in Ids : tree[w].builds[b] = 0
                            /\ tree[w].latest = NoPointer
                            /\ tree[w].base = NoPointer
  BY DEF PubInit
<1>4. \A w \in Workers : Checkout(tree[w])
  BY <1>3, ContentsAreNumbers DEF Checkout, Commits, Names, Ahead, Whole
<1>5. Commits(origin.builds) /\ Names(origin.latest)
  BY <1>3, ContentsAreNumbers DEF Commits, Names, Whole
<1>6. \A n \in Nightly : Ahead(tree[n].latest, origin.latest)
  BY <1>3, PublicationAssumption DEF Ahead, PublicationAssumption
<1> QED BY <1>2, <1>4, <1>5, <1>6 DEF Checkouts

-----------------------------------------------------------------------------
(* Every step of the publisher is a step of the feed, or none.             *)

LEMMA AvailableStays ==
    ASSUME \A b \in Published : b \in Published' /\ releases'[b] = releases[b],
           Published' \subseteq Published
    PROVE  Available' = Available
<1> SUFFICES ASSUME NEW b \in Ids PROVE Available'[b] = Available[b]
  BY DEF Available
<1> QED BY DEF Available, Published

(* Only PublishRelease makes a release public.                             *)
LEMMA OthersPublishNothing ==
    ASSUME Sessions, PubNext, \A w \in Workers : ~PublishRelease(w)
    PROVE  Published' \subseteq Published
<1> SUFFICES ASSUME NEW b \in Ids, releases'[b].state = "published"
             PROVE  releases[b].state = "published"
  BY DEF Published
<1>1. releases \in [Ids -> Release]
  BY DEF Sessions, SessionTypes
<1>2. ASSUME NEW w \in Workers, Work(w)
      PROVE  \/ releases' = releases \/ EnsureDraft(w) \/ Upload(w)
  BY <1>2 DEF Work, BeginNightly, Begin, Reconcile,
     ReconcileDrafts, ReconcileStaged, ReconcileNewest, Reconciled, Stage,
     PreserveStaged, StageBuild, StageWithoutSource, FinalizeBuild, ChooseTarget,
     CompleteBuild, Preflight, VerifyPublished, Materialize, PointAt, ClearStaging,
     Finish, Repoint, Verify, Push, Abort, Remote
<1>3. ASSUME NEW w \in Workers, EnsureDraft(w)
      PROVE  releases[b].state = "published"
  BY <1>1, <1>3 DEF EnsureDraft
<1>4. ASSUME NEW w \in Workers, NEW a \in Assets, NEW c, NEW d \in Ids,
             releases' = [releases EXCEPT ![d][a] = c]
      PROVE  releases'[b].state = releases[b].state
  <2>1. CASE d # b
    BY <1>1, <1>4, <2>1
  <2>2. CASE d = b
    <3>1. releases[b] \in Release
      BY <1>1
    <3>2. releases'[b] = [releases[b] EXCEPT ![a] = c]
      BY <1>1, <1>4, <2>2
    <3> QED BY <3>1, <3>2 DEF Release, Assets
  <2> QED BY <2>1, <2>2
<1>5. ASSUME NEW w \in Workers, Upload(w) \/ UploadFails(w)
      PROVE  releases'[b].state = releases[b].state
  <2>1. pc[w] \in Assets /\ job[w].build \in Ids
    BY <1>5, CompletingAgrees DEF Upload, UploadFails, Assets, Completing
  <2> QED BY <1>4, <1>5, <2>1 DEF Upload, UploadFails
<1>6. ASSUME NEW d \in Ids, DiscardDraft(d) PROVE releases[b].state = "published"
  BY <1>1, <1>6 DEF DiscardDraft, NoRelease
<1>7. ASSUME NEW w \in Workers, NEW d \in Ids,
             BeginByHand(w, d) \/ DamageJournal(w, d)
      PROVE  releases' = releases
  BY <1>7 DEF BeginByHand, Begin, DamageJournal, Remote
<1>8. ASSUME CalmDown PROVE releases' = releases
  BY <1>8 DEF CalmDown, Remote
<1> QED BY <1>2, <1>3, <1>5, <1>6, <1>7, <1>8 DEF PubNext

LEMMA PublishReleaseReleases ==
    ASSUME Sessions, NEW w \in Workers, PublishRelease(w)
    PROVE  [Consumers!FeedNext]_(Consumers!feed)
<1> PICK b, k : b = job[w].build /\ k = job[w].content
  OBVIOUS
<1>1. /\ pc[w] = "publish" /\ origin' = origin
      /\ releases' = [releases EXCEPT ![b].state = "published"]
  BY DEF PublishRelease
<1>2. b \in Ids /\ k \in Contents /\ releases[b].journal = k
      /\ releases \in [Ids -> Release] /\ releases[b] \in Release
  BY <1>1, CompletingAgrees DEF Completing, Agrees, Sessions, SessionTypes
<1>3. /\ releases'[b].state = "published" /\ releases'[b].journal = k
      /\ \A d \in Ids \ {b} : releases'[d] = releases[d]
  BY <1>1, <1>2 DEF Release
<1>4. CASE releases[b].state = "published"
  <2>1. \A d \in Ids : Available'[d] = Available[d]
    BY <1>2, <1>3, <1>4 DEF Available
  <2>2. Available' = Available
    BY <2>1 DEF Available
  <2> QED BY <1>1, <2>2 DEF Consumers!feed
<1>5. CASE releases[b].state # "published"
  <2>1. Available[b] = 0
    BY <1>2, <1>5 DEF Available
  <2>2. Available' = [Available EXCEPT ![b] = k]
    <3> SUFFICES ASSUME NEW d \in Ids
                 PROVE  Available'[d] = [Available EXCEPT ![b] = k][d]
      BY DEF Available
    <3> QED BY <1>2, <1>3 DEF Available
  <2>3. Consumers!Release(b, k)
    BY <1>1, <2>1, <2>2 DEF Consumers!Release
  <2> QED BY <1>2, <2>3 DEF Consumers!FeedNext, Consumers!Ids, Consumers!Contents,
        Ids, Contents
<1> QED BY <1>4, <1>5

LEMMA PushPoints ==
    ASSUME Sessions, Checkouts, NEW w \in Workers, Push(w)
    PROVE  [Consumers!FeedNext]_(Consumers!feed)
<1> PICK p : p = tree[w].latest
  OBVIOUS
<1>1. /\ releases' = releases /\ Mergeable(w)
      /\ origin'.latest = IF Repointed(w) THEN p ELSE origin.latest
  BY DEF Push
<1>2. Available' = Available
  BY <1>1 DEF Available
<1>3. CASE ~Repointed(w)
  BY <1>1, <1>2, <1>3 DEF Consumers!feed
<1>4. CASE Repointed(w)
  <2>1. origin.latest = tree[w].base /\ p # tree[w].base
    BY <1>1, <1>4 DEF Mergeable, Repointed
  <2>2. Ahead(p, tree[w].base) /\ Names(p) /\ p \in Pointer
        /\ origin.latest \in Pointer
    BY DEF Checkouts, Checkout, Tree, Origin
  <2>3. p.version > origin.latest.version
    BY <2>1, <2>2 DEF Ahead
  <2>4. p # NoPointer
    BY <2>2, <2>3, FeedAssumption DEF NoPointer, Pointer, FeedAssumption
  <2>5. p.build \in Published /\ releases[p.build].journal = p.content
    BY <2>2, <2>4 DEF Names
  <2>6. p.build \in Ids /\ Available[p.build] = p.content /\ p.content # 0
    BY <2>5 DEF Available, Published, Sessions, ReleasesAreWhole
  <2>7. Consumers!Point(p)
    BY <1>1, <1>2, <1>4, <2>3, <2>6 DEF Consumers!Point, Consumers!Ids, Ids
  <2> QED BY <2>2, <2>7 DEF Consumers!FeedNext, Consumers!Pointer, Pointer
<1> QED BY <1>3, <1>4

LEMMA OriginStays ==
    ASSUME PubNext, \A w \in Workers : ~Push(w)
    PROVE  origin' = origin
<1>1. ASSUME NEW w \in Workers, Work(w) PROVE origin' = origin
  BY <1>1 DEF Work, BeginNightly, Begin, Reconcile, ReconcileDrafts,
     ReconcileStaged, ReconcileNewest, Reconciled, Stage, PreserveStaged,
     StageBuild, StageWithoutSource, FinalizeBuild, ChooseTarget, CompleteBuild,
     Preflight, EnsureDraft, Upload, PublishRelease, VerifyPublished, Materialize,
     PointAt, ClearStaging, Finish, Repoint, Verify, Abort, Remote
<1>2. ASSUME NEW w \in Workers, NEW b \in Ids,
             BeginByHand(w, b) \/ DamageJournal(w, b)
      PROVE  origin' = origin
  BY <1>2 DEF BeginByHand, Begin, DamageJournal, Remote
<1>3. ASSUME NEW w \in Workers, UploadFails(w) PROVE origin' = origin
  BY <1>3 DEF UploadFails
<1>4. ASSUME NEW b \in Ids, DiscardDraft(b) PROVE origin' = origin
  BY <1>4 DEF DiscardDraft
<1>5. ASSUME CalmDown PROVE origin' = origin
  BY <1>5 DEF CalmDown, Remote
<1> QED BY <1>1, <1>2, <1>3, <1>4, <1>5 DEF PubNext

LEMMA StepIsAFeedStep ==
    ASSUME Sessions, Checkouts, [PubNext]_pubVars
    PROVE  [Consumers!FeedNext]_(Consumers!feed)
<1>1. CASE UNCHANGED pubVars
  BY <1>1 DEF pubVars, Consumers!feed, Available
<1>2. CASE \E w \in Workers : PublishRelease(w)
  BY <1>2, PublishReleaseReleases
<1>3. CASE \E w \in Workers : Push(w)
  BY <1>3, PushPoints
<1>4. CASE PubNext /\ \A w \in Workers : ~PublishRelease(w) /\ ~Push(w)
  <2>1. Available' = Available
    BY <1>4, PublishedStays, OthersPublishNothing, AvailableStays
  <2>2. origin' = origin
    BY <1>4, OriginStays
  <2> QED BY <2>1, <2>2 DEF Consumers!feed
<1> QED BY <1>1, <1>2, <1>3, <1>4

(* The publisher implements the feed consumers are promised: whatever the  *)
(* sessions, crashes and operators do, a published release never changes   *)
(* and origin's latest.json only moves to higher versions that name a      *)
(* release already public with that very content.                          *)
THEOREM PublisherImplementsFeed == PubSpec => ImplementsFeed
<1>1. PubInit => Consumers!FeedInit
  BY DEF PubInit, Consumers!FeedInit, Consumers!Ids, Ids, Consumers!NoPointer,
     NoPointer, Available, NoRelease
<1>2. PubInit => Sessions /\ Checkouts
  BY InitHasSessions, InitHasCheckouts
<1>3. Sessions /\ Checkouts /\ [PubNext]_pubVars =>
        Sessions' /\ Checkouts' /\ [Consumers!FeedNext]_(Consumers!feed)
  BY StepKeepsSessions, StepKeepsCheckouts, StepIsAFeedStep
<1> QED BY <1>1, <1>2, <1>3, PTL DEF PubSpec, ImplementsFeed, Consumers!Feed

-----------------------------------------------------------------------------
(* What a surviving directory keeps between sessions.                      *)


(* The session stages or completes build b.                                *)
Working(n, b) == pc[n] \in Completing \cup {"finalize"} /\ job[n].build = b

(* What the high-water mark of a surviving directory covers.               *)
InUse(n, b) ==
    \/ releases[b].state # "absent" \/ uploaded[b] # {}
    \/ staging[n][b].journal # 0 \/ Working(n, b)

(* An id whose uploaded draft was discarded is never staged again.         *)
Spent(b) == releases[b].state = "absent" /\ uploaded[b] # {}

UsedOnce(n, b) ==
    /\ InUse(n, b) => b <= mark[n]
    /\ Spent(b) => staging[n][b].journal = 0 /\ ~Working(n, b)

Uploads ==
    /\ uploaded \in [Ids -> SUBSET Contents]
    /\ ~setting.fresh =>
         /\ \A b \in Ids, k, l \in Contents :
              k \in uploaded[b] /\ l \in uploaded[b] => k = l
         /\ \A b \in Ids : releases[b].state # "absent" =>
              uploaded[b] \subseteq {releases[b].journal}
         /\ \A n \in Nightly, b \in Ids : UsedOnce(n, b)

-----------------------------------------------------------------------------
(* A build id names one content.                                           *)

(* Without fresh checkouts only the nightly worker runs.                   *)
LEMMA OnlyNightlyRuns ==
    ASSUME Sessions, ~setting.fresh, NEW w \in Workers, pc[w] # "off"
    PROVE  w \in Nightly /\ \A n \in Nightly : n = w
  BY NightlyIsOne DEF Sessions, Session, StagesNothing

(* Steps that upload and stage nothing; what they go on with is durable.   *)
LEMMA UploadsStay ==
    ASSUME Sessions, Uploads,
           UNCHANGED <<releases, uploaded, staging, mark, setting>>,
           ~setting.fresh => \A n \in Nightly, b \in Ids : Working(n, b)' =>
             \/ Working(n, b)
             \/ staging[n][b].journal # 0 \/ releases[b].journal # 0
    PROVE  Uploads'
<1> SUFFICES ASSUME ~setting.fresh, NEW n \in Nightly, NEW b \in Ids
             PROVE  UsedOnce(n, b)'
  BY DEF Uploads
<1>1. UsedOnce(n, b)
  BY DEF Uploads
<1>2. releases[b].journal # 0 => releases[b].state # "absent"
  BY DEF Sessions, ReleasesAreWhole
<1> QED BY <1>1, <1>2 DEF UsedOnce, InUse, Spent

LEMMA CompletingStays ==
    ASSUME Sessions, Uploads, NEW w \in Workers, NEW b \in Ids, NEW back,
           Complete(w, b, back), pc[w] # "off",
           UNCHANGED <<releases, uploaded, staging, mark, setting>>
    PROVE  Uploads'
<1>1. PICK k \in Recoverable(w, b) :
        job' = [job EXCEPT ![w].build = b, ![w].content = k, ![w].back = back]
  BY DEF Complete
<1>2. staging[w][b].journal # 0 \/ releases[b].journal # 0
  BY RecoversItsContent, ContentsAreNumbers
<1>3. job'[w].build = b
  <2>1. job[w] \in Job /\ job \in [Workers -> Job]
    BY DEF Sessions, SessionTypes
  <2> QED BY <1>1, <2>1 DEF Job
<1>4. ASSUME ~setting.fresh, NEW n \in Nightly, NEW d \in Ids, Working(n, d)'
      PROVE  staging[n][d].journal # 0 \/ releases[d].journal # 0
  BY <1>2, <1>3, <1>4, OnlyNightlyRuns DEF Working
<1> QED BY <1>4, UploadsStay

(* The actions that leave releases, staging and what is completed alone.   *)
LEMMA QuietKeepsUploads ==
    ASSUME Sessions, Uploads, NEW w \in Workers,
           UNCHANGED <<releases, uploaded, staging, mark, setting>>,
           w \in Nightly => pc'[w] \notin Completing \cup {"finalize"}
             \/ (job'[w] = job[w] /\ pc[w] \in Completing),
           \A v \in Workers \ {w} : pc'[v] = pc[v] /\ job'[v] = job[v]
    PROVE  Uploads'
<1>1. ASSUME NEW n \in Nightly, NEW b \in Ids, Working(n, b)' PROVE Working(n, b)
  BY <1>1, PublicationAssumption DEF Working, PublicationAssumption
<1> QED BY <1>1, UploadsStay

LEMMA ReconcileKeepsUploads ==
    ASSUME Sessions, Uploads, NEW w \in Workers, Reconcile(w)
    PROVE  Uploads'
<1>1. UNCHANGED <<releases, uploaded, staging, mark, setting>> /\ pc[w] # "off"
  BY DEF Reconcile, ReconcileDrafts, ReconcileStaged, ReconcileNewest, Reconciled,
     Remote, local, climate, history
<1>2. ASSUME NEW s \in {"staged", "newest", "reconciled", "stage", "repoint",
                        "verify"}, Step(w, s), job' = job
      PROVE  Uploads'
  <2>1. pc'[w] = s /\ \A v \in Workers \ {w} : pc'[v] = pc[v] /\ job'[v] = job[v]
    BY <1>2 DEF Step, Sessions, SessionTypes
  <2> QED BY <1>1, <1>2, <2>1, QuietKeepsUploads DEF Completing
<1>3. ASSUME NEW b \in Ids, NEW back, Complete(w, b, back) PROVE Uploads'
  BY <1>1, <1>3, CompletingStays
<1>4. ASSUME NEW b \in Drafts, Complete(w, b, "staged") PROVE b \in Ids
  BY DEF Drafts
<1>5. StagedWithRelease(w) # {} => Min(StagedWithRelease(w)) \in Ids
  <2>1. StagedWithRelease(w) \subseteq Ids
    BY DEF StagedWithRelease
  <2> QED BY <2>1, MinIsAMember, ContentsAreNumbers
<1>6. job[w].target # 0 => job[w].target \in Ids
  BY DEF Sessions, SessionTypes, Job
<1>7. CASE ReconcileDrafts(w)
  BY <1>2, <1>3, <1>4, <1>7 DEF ReconcileDrafts
<1>8. CASE ReconcileStaged(w)
  BY <1>2, <1>3, <1>5, <1>8 DEF ReconcileStaged
<1>9. CASE ReconcileNewest(w)
  BY <1>2, <1>3, <1>9, UncommittedIsAnId DEF ReconcileNewest
<1>10. CASE Reconciled(w)
  BY <1>2, <1>3, <1>6, <1>10 DEF Reconciled
<1> QED BY <1>7, <1>8, <1>9, <1>10 DEF Reconcile

(* StageBuild takes a new id, above the mark, or one that is staged.       *)
LEMMA StageBuildKeepsUploads ==
    ASSUME Sessions, Uploads, NEW w \in Workers, StageBuild(w)
    PROVE  Uploads'
<1> PICK b : b = IF StagedOnly(w) = {} THEN NextBuildId(w) ELSE Max(StagedOnly(w))
  OBVIOUS
<1> PICK s : s = [made |-> TRUE, journal |-> 0,
                  inst |-> IF NeedsInst(assembled + 1) THEN assembled + 1 ELSE 0]
  OBVIOUS
<1>1. /\ pc[w] = "stage" /\ b <= setting.builds
      /\ mark' = IF StagedOnly(w) = {} THEN [mark EXCEPT ![w] = b] ELSE mark
      /\ staging' = [staging EXCEPT ![w][b] = s] /\ s.journal = 0
      /\ job' = [job EXCEPT ![w].build = b, ![w].content = assembled + 1]
      /\ Step(w, "finalize") /\ UNCHANGED <<releases, uploaded, setting>>
  BY DEF StageBuild, Remote, climate, history
<1>2. /\ job \in [Workers -> Job] /\ mark \in [Workers -> Nat]
      /\ staging \in [Workers -> [Ids -> Staged]]
  BY DEF Sessions, SessionTypes
<1>3. w \in Nightly /\ Drafts = {}
  BY <1>1, OnlyNightlyStages, NightlySeesNoDraft
<1>4. b \in Ids /\ releases[b].state = "absent"
  BY <1>1, <1>3, BuildIdIsFree
<1>5. job'[w].build = b
  BY <1>1, <1>2 DEF Job
<1>6. \A d \in Ids : staging'[w][d].journal \in {0, staging[w][d].journal}
  BY <1>1, <1>2, <1>4
<1> SUFFICES ASSUME ~setting.fresh, NEW n \in Nightly, NEW d \in Ids
             PROVE  UsedOnce(n, d)'
  BY <1>1 DEF Uploads
<1>7. n = w /\ UsedOnce(w, d) /\ UsedOnce(w, b)
  BY <1>3, <1>4, NightlyIsOne DEF Uploads
<1>8. CASE StagedOnly(w) = {}
  <2>1. b \in Nat /\ b > mark[w] /\ mark'[w] = b
    BY <1>1, <1>2, <1>8, NextBuildIdIsFree
  <2>2. ~InUse(w, b)
    BY <1>2, <1>7, <2>1 DEF UsedOnce
  <2>3. InUse(w, d)' => d <= mark'[w]
    BY <1>1, <1>2, <1>5, <1>6, <1>7, <2>1, ContentsAreNumbers
       DEF UsedOnce, InUse, Working
  <2>4. Spent(d)' => staging'[w][d].journal = 0 /\ ~Working(w, d)'
    BY <1>1, <1>5, <1>6, <1>7, <2>2 DEF UsedOnce, InUse, Spent, Working
  <2> QED BY <1>7, <2>3, <2>4 DEF UsedOnce
<1>9. CASE StagedOnly(w) # {}
  <2>1. b \in StagedOnly(w)
    <3>1. StagedOnly(w) \subseteq Ids
      BY DEF StagedOnly
    <3> QED BY <1>9, <3>1, MaxOfIds
  <2>2. InUse(w, b) /\ ~Spent(b) /\ mark' = mark
    BY <1>1, <1>7, <1>9, <2>1 DEF StagedOnly, InUse, UsedOnce
  <2>3. InUse(w, d)' => d <= mark'[w]
    BY <1>1, <1>5, <1>6, <1>7, <2>2 DEF UsedOnce, InUse, Working
  <2>4. Spent(d)' => staging'[w][d].journal = 0 /\ ~Working(w, d)'
    BY <1>1, <1>5, <1>6, <1>7, <2>2 DEF UsedOnce, Spent, Working
  <2> QED BY <1>7, <2>3, <2>4 DEF UsedOnce
<1> QED BY <1>8, <1>9

(* Staging changes for the build the session works on, or only shrinks.    *)
LEMMA StagingKeepsUploads ==
    ASSUME Sessions, Uploads, NEW w \in Workers,
           FinalizeBuild(w) \/ ClearStaging(w)
             \/ \E b \in Ids : DamageJournal(w, b)
    PROVE  Uploads'
<1>1. /\ UNCHANGED <<releases, uploaded, mark, setting>>
      /\ staging \in [Workers -> [Ids -> Staged]]
      /\ job \in [Workers -> Job]
  BY DEF FinalizeBuild, ClearStaging, DamageJournal, Remote, climate, history,
     Sessions, SessionTypes
<1> SUFFICES ASSUME ~setting.fresh, NEW n \in Nightly, NEW d \in Ids
             PROVE  UsedOnce(n, d)'
  BY <1>1 DEF Uploads
<1>2. UsedOnce(n, d)
  BY DEF Uploads
<1> SUFFICES /\ Working(n, d)' => Working(n, d)
             /\ staging'[n][d].journal # 0 =>
                  Working(n, d) \/ staging[n][d].journal # 0
  BY <1>1, <1>2 DEF UsedOnce, InUse, Spent
<1>3. CASE FinalizeBuild(w)
  <2>1. /\ pc[w] = "finalize" /\ Step(w, "choose") /\ job' = job
        /\ staging' = [staging EXCEPT ![w][job[w].build].journal = job[w].content]
    BY <1>3 DEF FinalizeBuild
  <2>2. n = w /\ job[w].build \in Ids
    BY <2>1, OnlyNightlyStages, NightlyIsOne DEF Sessions, Session, StagesAlone
  <2>3. ~Working(n, d)'
    BY <2>1, <2>2 DEF Working, Step, Sessions, SessionTypes, Completing
  <2>4. d # job[w].build => staging'[n][d] = staging[n][d]
    BY <1>1, <2>1, <2>2
  <2> QED BY <2>1, <2>2, <2>3, <2>4 DEF Working
<1>4. CASE ClearStaging(w)
  <2>1. /\ pc[w] = "clear" /\ Step(w, job[w].back)
        /\ staging' = [staging EXCEPT ![w][job[w].build] = Unstaged]
        /\ \A v \in Workers \ {w} : job'[v] = job[v]
    BY <1>1, <1>4 DEF ClearStaging
  <2>2. n = w /\ job[w].build \in Ids
        /\ job[w].back \in {"staged", "reconciled", "verify"}
    BY <2>1, OnlyNightlyRuns
       DEF Sessions, Session, Agrees, Completing, SessionTypes, Job
  <2>3. ~Working(n, d)'
    BY <2>1, <2>2 DEF Working, Step, Sessions, SessionTypes, Completing
  <2>4. staging'[n][d].journal \in {0, staging[n][d].journal}
    BY <1>1, <2>1, <2>2 DEF Unstaged
  <2> QED BY <2>3, <2>4
<1>5. ASSUME NEW b \in Ids, DamageJournal(w, b)
      PROVE  /\ Working(n, d)' => Working(n, d)
             /\ staging'[n][d].journal # 0 => staging[n][d].journal # 0
  <2>1. /\ UNCHANGED <<pc, job>> /\ staging[w][b].journal # 0
        /\ staging' = [staging EXCEPT ![w][b].journal = Garbage]
    BY <1>5 DEF DamageJournal, session
  <2>2. staging'[n][d] = staging[n][d] \/ (n = w /\ d = b)
    BY <1>1, <2>1
  <2> QED BY <2>1, <2>2 DEF Working
<1> QED BY <1>3, <1>4, <1>5

(* The release a session completes is not spent, whatever it does to it.   *)
LEMMA ReleaseKeepsUploads ==
    ASSUME Sessions, Uploads, NEW w \in Workers, pc[w] \in Completing,
           NEW b, b = job[w].build, NEW k, k = job[w].content,
           \A d \in Ids \ {b} : releases'[d] = releases[d]
                              /\ uploaded'[d] = uploaded[d],
           uploaded' \in [Ids -> SUBSET Contents],
           releases'[b].journal \in {releases[b].journal, k},
           \A x \in Contents : x \in uploaded'[b] =>
             x \in uploaded[b] \/ (x = k /\ releases'[b].journal = k),
           releases'[b].state # "absent",
           \/ pc'[w] \in Completing /\ job'[w] = job[w]
           \/ pc'[w] = "off",
           \A v \in Workers \ {w} : pc'[v] = pc[v] /\ job'[v] = job[v],
           UNCHANGED <<staging, mark, setting>>
    PROVE  Uploads'
<1>1. /\ Agrees(w, b, k) /\ b \in Ids /\ k \in Contents
  BY CompletingAgrees
<1> SUFFICES ASSUME ~setting.fresh
             PROVE  /\ \A d \in Ids, x, y \in Contents :
                         x \in uploaded'[d] /\ y \in uploaded'[d] => x = y
                    /\ \A d \in Ids : releases'[d].state # "absent" =>
                         uploaded'[d] \subseteq {releases'[d].journal}
                    /\ \A n \in Nightly, d \in Ids : UsedOnce(n, d)'
  BY DEF Uploads
<1>2. w \in Nightly /\ \A n \in Nightly : n = w
  BY OnlyNightlyRuns DEF Completing
<1>3. Working(w, b) /\ UsedOnce(w, b) /\ ~Spent(b) /\ b <= mark[w]
  BY <1>1, <1>2 DEF Working, Uploads, UsedOnce, InUse
<1>4. uploaded[b] \subseteq {k} /\ releases'[b].journal \in {0, k}
  BY <1>1, <1>3, ContentsAreNumbers DEF Uploads, Agrees, Spent
<1>5. uploaded[b] \subseteq {releases'[b].journal}
  <2>1. CASE uploaded[b] = {}
    BY <2>1
  <2>2. CASE uploaded[b] # {}
    BY <1>1, <1>3, <1>4, <2>2, ContentsAreNumbers DEF Spent, Uploads
  <2> QED BY <2>1, <2>2
<1>6. uploaded'[b] \subseteq {releases'[b].journal}
  BY <1>1, <1>5
<1>7. ASSUME NEW d \in Ids PROVE UsedOnce(w, d)'
  <2>1. UsedOnce(w, d) /\ (Working(w, d)' => Working(w, d))
    BY <1>2, <1>7 DEF Uploads, Working, Completing
  <2>2. CASE d = b
    BY <1>3, <2>2 DEF UsedOnce, Spent
  <2>3. CASE d # b
    BY <1>7, <2>1, <2>3 DEF UsedOnce, InUse, Spent
  <2> QED BY <2>2, <2>3
<1> QED BY <1>1, <1>2, <1>6, <1>7 DEF Uploads

LEMMA RemoteStepsKeepUploads ==
    ASSUME Sessions, Uploads, NEW w \in Workers,
           EnsureDraft(w) \/ Upload(w) \/ UploadFails(w) \/ PublishRelease(w)
    PROVE  Uploads'
<1> PICK b, k : b = job[w].build /\ k = job[w].content
  OBVIOUS
<1>1. pc[w] \in {"draft", "journal", "db", "inst", "publish"}
  BY DEF EnsureDraft, Upload, UploadFails, PublishRelease, Assets
<1>2. /\ Agrees(w, b, k) /\ b \in Ids /\ k \in Contents /\ pc[w] \in Completing
      /\ releases \in [Ids -> Release] /\ releases[b] \in Release
      /\ uploaded \in [Ids -> SUBSET Contents]
      /\ pc \in [Workers -> Places] /\ job \in [Workers -> Job]
  BY <1>1, CompletingAgrees DEF Completing, Sessions, SessionTypes, Uploads
<1>3. UNCHANGED <<staging, mark, setting>>
  BY DEF EnsureDraft, Upload, UploadFails, PublishRelease, local, climate
<1>4. /\ \/ pc'[w] \in Completing /\ job'[w] = job[w]
         \/ pc'[w] = "off"
      /\ \A v \in Workers \ {w} : pc'[v] = pc[v] /\ job'[v] = job[v]
  <2>1. CASE UploadFails(w)
    BY <1>2, <2>1 DEF UploadFails, EndSession, Step
  <2>2. NextAsset(w) \in Completing \/ pc[w] \notin Assets
    BY DEF NextAsset, Assets, Completing
  <2>3. CASE EnsureDraft(w) \/ Upload(w) \/ PublishRelease(w)
    BY <1>2, <2>2, <2>3
       DEF EnsureDraft, Upload, PublishRelease, Step, Completing
  <2> QED BY <2>1, <2>3
<1>5. CASE UNCHANGED releases /\ UNCHANGED uploaded
  BY <1>1, <1>2, <1>3, <1>4, <1>5, QuietKeepsUploads DEF Completing
<1>6. CASE EnsureDraft(w) \/ PublishRelease(w)
  <2>1. PICK s \in {"draft", "published"} :
          releases' = [releases EXCEPT ![b].state = s] /\ uploaded' = uploaded
    BY <1>6 DEF EnsureDraft, PublishRelease, history
  <2>2. /\ \A d \in Ids \ {b} : releases'[d] = releases[d]
        /\ releases'[b].journal = releases[b].journal
        /\ releases'[b].state # "absent"
    BY <1>2, <2>1 DEF Release
  <2> QED BY <1>2, <1>3, <1>4, <2>1, <2>2, ReleaseKeepsUploads
<1>7. CASE \/ Upload(w) /\ releases[b][pc[w]] # k
           \/ UploadFails(w)
  <2>1. PICK asset \in Assets, c \in {0, k} :
          /\ releases' = [releases EXCEPT ![b][asset] = c]
          /\ releases[b].state = "draft"
          /\ asset = pc[w] /\ releases[b][asset] # k
          /\ \/ c = 0 /\ uploaded' = uploaded
             \/ c = k /\ uploaded' = [uploaded EXCEPT ![b] = @ \cup {k}]
    BY <1>7 DEF Upload, UploadFails, history
  <2>2. /\ \A d \in Ids \ {b} : releases'[d] = releases[d]
        /\ releases'[b] = [releases[b] EXCEPT ![asset] = c]
    BY <1>2, <2>1
  <2>3. /\ releases'[b].state = "draft"
        /\ asset = "journal" => releases'[b].journal = c
        /\ asset # "journal" => releases'[b].journal = releases[b].journal
    BY <1>2, <2>1, <2>2 DEF Release, Assets
  <2>4. releases[b].journal \in {0, k} /\ (asset # "journal" => releases[b].journal = k)
    BY <1>1, <1>2, <2>1 DEF Agrees, Assets
  <2>5. asset = "journal" => releases[b].journal = 0
    BY <2>1, <2>4
  <2>6. /\ releases'[b].journal \in {releases[b].journal, k}
        /\ (c = k => releases'[b].journal = k)
    BY <2>1, <2>3, <2>4, <2>5
  <2>7. /\ uploaded' \in [Ids -> SUBSET Contents]
        /\ \A d \in Ids \ {b} : uploaded'[d] = uploaded[d]
        /\ \A x \in Contents : x \in uploaded'[b] =>
             x \in uploaded[b] \/ (x = k /\ c = k)
    BY <1>2, <2>1
  <2>8. \A d \in Ids \ {b} : releases'[d] = releases[d]
                              /\ uploaded'[d] = uploaded[d]
    BY <2>2, <2>7
  <2>9. \A x \in Contents : x \in uploaded'[b] =>
          x \in uploaded[b] \/ (x = k /\ releases'[b].journal = k)
    BY <2>6, <2>7
  <2>10. releases'[b].state # "absent" /\ pc[w] \in Completing
    BY <1>2, <2>3
  <2>11. releases'[b].journal \in {releases[b].journal, k}
    BY <2>6
  <2>12. uploaded' \in [Ids -> SUBSET Contents]
    BY <2>7
  <2> QED BY <1>3, <1>4, <2>8, <2>9, <2>10, <2>11, <2>12, ReleaseKeepsUploads
<1>8. Upload(w) /\ releases[b][pc[w]] = k => UNCHANGED <<releases, uploaded>>
  BY DEF Upload
<1> QED BY <1>5, <1>6, <1>7, <1>8

LEMMA DiscardDraftKeepsUploads ==
    ASSUME Sessions, Uploads, NEW b \in Ids, DiscardDraft(b)
    PROVE  Uploads'
<1>1. /\ \A w \in Workers : pc[w] = "off" /\ pc'[w] = "off"
      /\ releases' = [releases EXCEPT ![b] = NoRelease]
      /\ staging' = [w \in Workers |-> [staging[w] EXCEPT ![b] = Unstaged]]
      /\ UNCHANGED <<mark, uploaded, setting>>
      /\ releases[b].state = "draft"
  BY DEF DiscardDraft, session, climate, history
<1>2. /\ releases \in [Ids -> Release] /\ staging \in [Workers -> [Ids -> Staged]]
  BY DEF Sessions, SessionTypes
<1>3. /\ releases'[b].state = "absent"
      /\ \A d \in Ids \ {b} : releases'[d] = releases[d]
  BY <1>1, <1>2 DEF NoRelease
<1>4. \A n \in Workers : /\ staging'[n][b].journal = 0
                         /\ \A d \in Ids \ {b} : staging'[n][d] = staging[n][d]
  BY <1>1, <1>2 DEF Unstaged
<1> SUFFICES ASSUME ~setting.fresh
             PROVE  \A n \in Nightly, d \in Ids : UsedOnce(n, d)'
  BY <1>1, <1>3 DEF Uploads
<1> SUFFICES ASSUME NEW n \in Nightly, NEW d \in Ids PROVE UsedOnce(n, d)'
  OBVIOUS
<1>5. n \in Workers /\ UsedOnce(n, d) /\ ~Working(n, d)'
  BY <1>1, PublicationAssumption
     DEF Uploads, PublicationAssumption, Working, Completing
<1>6. CASE d = b
  BY <1>1, <1>3, <1>4, <1>5, <1>6 DEF UsedOnce, InUse
<1>7. CASE d # b
  BY <1>1, <1>3, <1>4, <1>5, <1>7 DEF UsedOnce, InUse, Spent
<1> QED BY <1>6, <1>7

LEMMA BeginKeepsUploads ==
    ASSUME Sessions, Uploads, NEW w \in Workers,
           BeginNightly(w) \/ \E b \in Ids : BeginByHand(w, b)
    PROVE  Uploads'
<1>1. PICK j : /\ job' = [job EXCEPT ![w] = j] /\ Step(w, "drafts")
               /\ UNCHANGED <<releases, uploaded, setting>>
               /\ setting.fresh \/ UNCHANGED <<staging, mark>>
  BY DEF BeginNightly, BeginByHand, Begin, Remote, climate, history
<1>2. CASE setting.fresh
  BY <1>1, <1>2 DEF Uploads
<1>3. CASE ~setting.fresh
  <2>1. /\ pc'[w] = "drafts"
        /\ \A v \in Workers \ {w} : pc'[v] = pc[v] /\ job'[v] = job[v]
    BY <1>1 DEF Step, Sessions, SessionTypes
  <2> QED BY <1>1, <1>3, <2>1, QuietKeepsUploads DEF Completing
<1> QED BY <1>2, <1>3

LEMMA OtherStepsKeepUploads ==
    ASSUME Sessions, Uploads, NEW w \in Workers,
           \/ PreserveStaged(w) \/ StageWithoutSource(w) \/ ChooseTarget(w)
           \/ Preflight(w) \/ VerifyPublished(w) \/ Materialize(w) \/ PointAt(w)
           \/ Finish(w) \/ Abort(w)
    PROVE  Uploads'
<1>1. UNCHANGED <<releases, uploaded, staging, mark, setting>>
  BY DEF PreserveStaged, StageWithoutSource, ChooseTarget, Preflight,
     VerifyPublished, Materialize, PointAt, Finish, Repoint, Verify, Push, Abort,
     Remote, local, climate, history
<1>2. pc \in [Workers -> Places] /\ job \in [Workers -> Job]
  BY DEF Sessions, SessionTypes
<1>3. ASSUME NEW s, Step(w, s), s \in Completing => pc[w] \in Completing,
             s # "finalize",
             \/ job' = job
             \/ s \notin Completing /\ \E j : job' = [job EXCEPT ![w] = j]
      PROVE  Uploads'
  <2>1. /\ pc'[w] = s
        /\ \A v \in Workers \ {w} : pc'[v] = pc[v] /\ job'[v] = job[v]
    BY <1>2, <1>3 DEF Step
  <2>2. \/ s \notin Completing \cup {"finalize"}
        \/ job'[w] = job[w] /\ pc[w] \in Completing
    BY <1>3
  <2> QED BY <1>1, <2>1, <2>2, QuietKeepsUploads
<1>4. CASE EndSession(w)
  BY <1>3, <1>4 DEF EndSession, Completing
<1>5. CASE PreserveStaged(w) \/ StageWithoutSource(w) \/ ChooseTarget(w)
  BY <1>3, <1>5 DEF PreserveStaged, StageWithoutSource, ChooseTarget, Completing
<1>6. CASE Preflight(w)
  <2>1. PICK s \in {"draft", "journal", "verify_published"} : Step(w, s)
    BY <1>6, CompletingAgrees DEF Preflight, Completing, Release
  <2>2. pc[w] \in Completing /\ job' = job
    BY <1>6 DEF Preflight, Completing
  <2> QED BY <1>3, <2>1, <2>2
<1>7. CASE VerifyPublished(w) \/ Materialize(w) \/ PointAt(w)
  BY <1>3, <1>4, <1>7 DEF VerifyPublished, Materialize, PointAt, Completing
<1>8. CASE Finish(w)
  BY <1>3, <1>4, <1>8 DEF Finish, Repoint, Verify, Push, Completing
<1> QED BY <1>4, <1>5, <1>6, <1>7, <1>8 DEF Abort

LEMMA StepKeepsUploads ==
    ASSUME Sessions, Uploads, [PubNext]_pubVars
    PROVE  Uploads'
<1>1. ASSUME NEW w \in Workers, Work(w) PROVE Uploads'
  BY <1>1, BeginKeepsUploads, ReconcileKeepsUploads, StageBuildKeepsUploads,
     StagingKeepsUploads, RemoteStepsKeepUploads, OtherStepsKeepUploads
     DEF Work, Stage, CompleteBuild
<1>2. ASSUME NEW w \in Workers, NEW b \in Ids,
             BeginByHand(w, b) \/ DamageJournal(w, b)
      PROVE  Uploads'
  BY <1>2, BeginKeepsUploads, StagingKeepsUploads
<1>3. ASSUME CalmDown \/ UNCHANGED pubVars PROVE Uploads'
  <2>1. UNCHANGED <<releases, uploaded, staging, mark, setting, pc, job>>
    BY <1>3 DEF CalmDown, pubVars, Remote, local, session, history, climate
  <2>2. \A n \in Nightly, b \in Ids : Working(n, b)' => Working(n, b)
    BY <2>1 DEF Working
  <2> QED BY <2>1, <2>2, UploadsStay
<1> QED BY <1>1, <1>2, <1>3, RemoteStepsKeepUploads, DiscardDraftKeepsUploads
      DEF PubNext

LEMMA InitHasUploads ==
    ASSUME PubInit
    PROVE  Uploads
  BY PublicationAssumption DEF PubInit, Uploads, UsedOnce, InUse, Spent, Working,
     Completing, NoRelease, NoStaging, Unstaged, PublicationAssumption

LEMMA AtMostOne ==
    ASSUME NEW S, NEW T \in SUBSET S, IsFiniteSet(S), \A x, y \in T : x = y
    PROVE  Cardinality(T) <= 1
<1>1. CASE T = {}
  BY <1>1, FS_EmptySet
<1>2. ASSUME NEW x \in T PROVE Cardinality(T) <= 1
  <2>1. T = {x}
    BY <1>2
  <2>2. Cardinality({x}) = 1
    BY FS_Singleton
  <2> QED BY <2>1, <2>2
<1> QED BY <1>1, <1>2

(* At most one release is in flight in a directory that survives, and a    *)
(* build id, once used for an upload, never names other bytes: not after a *)
(* crash, a discarded draft or a rebuilt staging directory.                *)
THEOREM InFlightStaysUnambiguous == PubSpec => []InFlightIsUnambiguous
<1>1. Sessions /\ Uploads => InFlightIsUnambiguous
  <2> SUFFICES ASSUME Sessions, Uploads, ~setting.fresh
               PROVE  AtMostOneDraft /\ IdsNameOneContent
    BY DEF InFlightIsUnambiguous
  <2>1. IsFiniteSet(Ids) /\ IsFiniteSet(Contents)
    BY FS_Interval, FeedAssumption DEF Ids, Contents, FeedAssumption
  <2>2. AtMostOneDraft
    <3>1. Drafts \subseteq Ids /\ \A b, d \in Drafts : b = d
      BY DEF Drafts, Sessions, ReleasesAreWhole
    <3> QED BY <2>1, <3>1, AtMostOne DEF AtMostOneDraft
  <2>3. IdsNameOneContent
    BY <2>1, AtMostOne DEF IdsNameOneContent, Uploads
  <2> QED BY <2>2, <2>3
<1>2. PubInit => Sessions /\ Uploads
  BY InitHasSessions, InitHasUploads
<1>3. Sessions /\ Uploads /\ [PubNext]_pubVars => Sessions' /\ Uploads'
  BY StepKeepsSessions, StepKeepsUploads
<1> QED BY <1>1, <1>2, <1>3, PTL DEF PubSpec
-----------------------------------------------------------------------------
(* Partial builds are completed before anything is pushed.                 *)

Committed(n, S) == \A b \in Published : b \in S \/ Whole(tree[n].builds[b])

Newest(b) == \A d \in Published : d <= b

(* What a surviving directory holds between sessions: only the newest      *)
(* published release may be missing from builds/, and nothing is in flight *)
(* while it is.                                                            *)
Stored(n) ==
    /\ \A b \in Ids : tree[n].builds[b] \notin {0} \cup Contents => b \in Published
    /\ \A b \in Published : Whole(tree[n].builds[b]) \/ Newest(b)
    /\ Drafts # {} => Committed(n, {})
    /\ \A b \in Drafts : Newest(b)
    /\ \A b \in StagedOnly(n) :
         Newest(b) /\ Drafts = {} /\ \A d \in StagedOnly(n) : d = b

(* What its session adds to that, step by step.                            *)
Placed(n) ==
    /\ pc[n] # "off" => \A b \in job[n].completed : Whole(tree[n].builds[b])
    /\ pc[n] \in {"reconciled", "stage", "finalize", "repoint", "verify", "push"}
         => Committed(n, {})
    /\ pc[n] = "finalize" =>
         Newest(job[n].build) /\ Drafts = {} /\ StagedOnly(n) \subseteq {job[n].build}
    /\ pc[n] \in Completing =>
         /\ job[n].back # "staged" => Committed(n, {job[n].build})
         /\ releases[job[n].build].state = "absent" =>
              job[n].build \in StagedOnly(n) /\ job[n].back # "staged"
    /\ pc[n] \in {"pointer", "clear"} => Whole(tree[n].builds[job[n].build])

NoPartial(builds) == \A b \in Ids : builds[b] \in {0} \cup Contents

WholeBuilds ==
    /\ NoPartial(origin.builds)
    /\ setting.fresh => \A w \in Workers : pc[w] # "off" => NoPartial(tree[w].builds)
    /\ ~setting.fresh => \A n \in Nightly : Stored(n) /\ Placed(n)

LEMMA SurvivingDirectory ==
    ASSUME Sessions, WholeBuilds, ~setting.fresh, NEW w \in Workers, pc[w] # "off"
    PROVE  w \in Nightly /\ Stored(w) /\ Placed(w)
  BY OnlyNightlyRuns DEF WholeBuilds

LEMMA StoredStays ==
    ASSUME NEW n, Stored(n), Published' = Published, Drafts' = Drafts,
           StagedOnly(n)' \subseteq StagedOnly(n),
           tree'[n].builds = tree[n].builds
    PROVE  Stored(n)' /\ Committed(n, {})' = Committed(n, {})
  BY DEF Stored, Committed, Newest

LEMMA SameReleasesSameStates ==
    ASSUME NEW n, UNCHANGED <<releases, staging>>
    PROVE  Published' = Published /\ Drafts' = Drafts /\ StagedOnly(n)' = StagedOnly(n)
  BY DEF Published, Drafts, StagedOnly

(* The session goes on or ends; nothing that lasts has changed.            *)
LEMMA GoesToKeepsPlaces ==
    ASSUME Sessions, NEW w \in Workers, Stored(w), Placed(w), pc[w] # "off",
           NEW s \in Places \ Completing, s # "finalize", Step(w, s),
           UNCHANGED <<releases, staging>>, tree'[w].builds = tree[w].builds,
           s \in {"reconciled", "stage", "repoint", "verify", "push"} =>
             Committed(w, {}),
           job'[w] = job[w] \/ s = "off"
    PROVE  Stored(w)' /\ Placed(w)'
<1>1. pc'[w] = s
  BY DEF Step, Sessions, SessionTypes
<1>2. Stored(w)' /\ Committed(w, {})' = Committed(w, {})
  BY SameReleasesSameStates, StoredStays
<1>3. Placed(w)'
  BY <1>1, <1>2 DEF Placed, Completing
<1> QED BY <1>2, <1>3

LEMMA CompletePlaces ==
    ASSUME Sessions, NEW w \in Workers, Stored(w), Placed(w), pc[w] # "off",
           NEW b \in Ids, NEW back, Complete(w, b, back),
           UNCHANGED <<releases, staging, tree>>,
           back # "staged" => Committed(w, {b}),
           releases[b].state = "absent" => back # "staged"
    PROVE  Stored(w)' /\ Placed(w)'
<1>1. PICK k \in Recoverable(w, b) :
        job' = [job EXCEPT ![w].build = b, ![w].content = k, ![w].back = back]
  BY DEF Complete
<1>2. pc'[w] = "preflight"
  BY DEF Complete, Step, Sessions, SessionTypes
<1>3. job'[w].build = b /\ job'[w].back = back /\ job'[w].completed = job[w].completed
  BY <1>1 DEF Sessions, SessionTypes, Job
<1>4. releases[b].state = "absent" => b \in StagedOnly(w)
  BY RecoversItsContent, ContentsAreNumbers
     DEF Sessions, ReleasesAreWhole, StagedOnly
<1>5. Stored(w)' /\ Published' = Published /\ StagedOnly(w)' = StagedOnly(w)
  BY SameReleasesSameStates, StoredStays
<1>6. Committed(w, {b})' = Committed(w, {b})
  BY <1>5 DEF Committed
<1>7. Placed(w)'
  <2>1. \A d \in job'[w].completed : Whole(tree'[w].builds[d])
    BY <1>3 DEF Placed
  <2> QED BY <1>2, <1>3, <1>4, <1>5, <1>6, <2>1 DEF Placed
<1> QED BY <1>5, <1>7

(* Reconciliation looks at the newest published release only, and that is  *)
(* the only one that can be missing.                                       *)
LEMMA NewestIsEnough ==
    ASSUME Sessions, NEW w \in Workers, Stored(w), Placed(w), pc[w] # "off"
    PROVE  /\ Uncommitted(w) = {} => Committed(w, {})
           /\ \A b \in Uncommitted(w) : b \in Published /\ Committed(w, {b})
<1> DEFINE others == Published \ job[w].completed
<1>1. others \subseteq Ids /\ Published \subseteq Ids
  BY DEF Published
<1>2. others # {} => Max(others) \in others /\ \A b \in others : b <= Max(others)
  <2> HIDE DEF others
  <2> QED BY <1>1, MaxOfIds
<1>3. ASSUME NEW b \in Published, ~Whole(tree[w].builds[b])
      PROVE  b \in others /\ b = Max(others)
  <2>1. b \in others
    BY <1>3 DEF Placed
  <2>2. \A d \in Published : d <= b
    BY <1>3 DEF Stored, Newest
  <2>3. Max(others) \in Published /\ b <= Max(others)
    BY <1>2, <2>1
  <2>4. Max(others) <= b
    BY <2>2, <2>3
  <2>5. b \in Nat /\ Max(others) \in Nat
    BY <1>1, <2>3, ContentsAreNumbers
  <2> HIDE DEF others
  <2> QED BY <2>1, <2>3, <2>4, <2>5
<1> HIDE DEF others
<1>4. Uncommitted(w) = IF others = {} THEN {}
                       ELSE {b \in {Max(others)} : ~Whole(tree[w].builds[b])}
  BY DEF Uncommitted, others
<1>5. ASSUME Uncommitted(w) = {} PROVE Committed(w, {})
  BY <1>2, <1>3, <1>4, <1>5 DEF Committed
<1>6. ASSUME NEW b \in Uncommitted(w)
      PROVE  b \in Published /\ Committed(w, {b})
  <2>1. b = Max(others) /\ others # {}
    BY <1>4, <1>6
  <2>2. b \in Published
    BY <1>2, <2>1 DEF others
  <2> QED BY <1>3, <2>1, <2>2 DEF Committed
<1> QED BY <1>5, <1>6

LEMMA ReconcilePlaces ==
    ASSUME Sessions, WholeBuilds, ~setting.fresh, NEW w \in Workers, Reconcile(w)
    PROVE  Stored(w)' /\ Placed(w)'
<1>1. /\ UNCHANGED <<releases, staging, tree>>
      /\ pc[w] \in {"drafts", "staged", "newest", "reconciled"}
  BY DEF Reconcile, ReconcileDrafts, ReconcileStaged, ReconcileNewest, Reconciled,
     Remote, local
<1>2. Stored(w) /\ Placed(w)
  BY <1>1, SurvivingDirectory
<1>3. CASE ReconcileDrafts(w)
  <2>1. CASE Step(w, "staged") /\ UNCHANGED job
    BY <1>1, <1>2, <2>1, GoesToKeepsPlaces DEF Places, Completing
  <2>2. ASSUME NEW b \in Drafts, Complete(w, b, "staged")
        PROVE  Stored(w)' /\ Placed(w)'
    <3>1. b \in Ids /\ releases[b].state # "absent"
      BY DEF Drafts
    <3> QED BY <1>1, <1>2, <2>2, <3>1, CompletePlaces
  <2> QED BY <1>3, <2>1, <2>2 DEF ReconcileDrafts
<1>4. CASE ReconcileStaged(w)
  <2>1. CASE Step(w, "newest") /\ UNCHANGED job
    BY <1>1, <1>2, <2>1, GoesToKeepsPlaces DEF Places, Completing
  <2>2. CASE /\ StagedWithRelease(w) # {}
             /\ Complete(w, Min(StagedWithRelease(w)), "staged")
    <3>1. StagedWithRelease(w) \subseteq Ids
      BY DEF StagedWithRelease
    <3>2. Min(StagedWithRelease(w)) \in StagedWithRelease(w)
      BY <2>2, <3>1, MinIsAMember, ContentsAreNumbers
    <3>3. Min(StagedWithRelease(w)) \in Ids
          /\ releases[Min(StagedWithRelease(w))].state # "absent"
      BY <3>2 DEF StagedWithRelease
    <3> QED BY <1>1, <1>2, <2>2, <3>3, CompletePlaces
  <2> QED BY <1>4, <2>1, <2>2 DEF ReconcileStaged
<1>5. CASE ReconcileNewest(w)
  <2>1. CASE Uncommitted(w) = {} /\ Step(w, "reconciled") /\ UNCHANGED job
    BY <1>1, <1>2, <2>1, NewestIsEnough, GoesToKeepsPlaces DEF Places, Completing
  <2>2. ASSUME NEW b \in Uncommitted(w), Complete(w, b, "reconciled")
        PROVE  Stored(w)' /\ Placed(w)'
    <3>1. b \in Ids /\ Committed(w, {b})
      BY <1>1, <1>2, NewestIsEnough, UncommittedIsAnId
    <3> QED BY <1>1, <1>2, <2>2, <3>1, CompletePlaces
  <2> QED BY <1>5, <2>1, <2>2 DEF ReconcileNewest
<1>6. CASE Reconciled(w)
  <2>1. pc[w] = "reconciled" /\ Committed(w, {})
    BY <1>2, <1>6 DEF Reconciled, Placed
  <2>2. ASSUME NEW s \in {"stage", "repoint", "verify"}, Step(w, s), UNCHANGED job
        PROVE  Stored(w)' /\ Placed(w)'
    BY <1>1, <1>2, <2>1, <2>2, GoesToKeepsPlaces DEF Places, Completing
  <2>3. CASE job[w].target # 0 /\ Complete(w, job[w].target, "verify")
    <3>1. job[w].target \in Ids
      BY <2>3 DEF Sessions, SessionTypes, Job
    <3>2. Committed(w, {job[w].target})
      BY <2>1 DEF Committed
    <3> QED BY <1>1, <1>2, <2>3, <3>1, <3>2, CompletePlaces
  <2> QED BY <1>6, <2>2, <2>3 DEF Reconciled
<1> QED BY <1>3, <1>4, <1>5, <1>6 DEF Reconcile

(* A step of _complete_build that leaves builds/ and staging alone and no  *)
(* release in another state.                                               *)
LEMMA CompletingPlaces ==
    ASSUME Sessions, NEW w \in Workers, Stored(w), Placed(w), pc[w] \in Completing,
           NEW s \in Completing, Step(w, s), job'[w] = job[w],
           s \in {"pointer", "clear"} => pc[w] \in {"pointer", "clear"},
           Published' = Published, Drafts' = Drafts,
           StagedOnly(w)' = StagedOnly(w), tree'[w].builds = tree[w].builds,
           releases'[job[w].build].state = "absent" =>
             releases[job[w].build].state = "absent"
    PROVE  Stored(w)' /\ Placed(w)'
<1>1. pc'[w] = s
  BY DEF Step, Sessions, SessionTypes
<1>2. Stored(w)'
  BY StoredStays
<1>3. Placed(w)'
  BY <1>1 DEF Placed, Committed, Completing
<1> QED BY <1>2, <1>3

(* A release that changes and keeps its state.                             *)
LEMMA SameStates ==
    ASSUME NEW n, UNCHANGED staging,
           \A b \in Ids : releases'[b].state = releases[b].state
    PROVE  Published' = Published /\ Drafts' = Drafts /\ StagedOnly(n)' = StagedOnly(n)
  BY DEF Published, Drafts, StagedOnly

LEMMA MintKeepsBuilds ==
    ASSUME NEW w, NEW b, NEW k, Mint(w, b, k)
    PROVE  tree'[w].builds = tree[w].builds
<1>1. PICK p : tree' = [tree EXCEPT ![w].latest = p]
  BY DEF Mint
<1> QED BY <1>1

LEMMA QuietPlaces ==
    ASSUME Sessions, WholeBuilds, ~setting.fresh, NEW w \in Workers,
           \/ PreserveStaged(w) \/ StageWithoutSource(w) \/ ChooseTarget(w)
           \/ Preflight(w) \/ VerifyPublished(w) \/ PointAt(w) \/ Finish(w)
           \/ Abort(w)
    PROVE  Stored(w)' /\ Placed(w)'
<1>1. pc[w] # "off" /\ UNCHANGED <<releases, staging>>
  BY DEF PreserveStaged, StageWithoutSource, ChooseTarget, Preflight,
     VerifyPublished, PointAt, Finish, Repoint, Verify, Push, Abort, Remote, local
<1>2. Stored(w) /\ Placed(w)
  BY <1>1, SurvivingDirectory
<1>3. tree'[w].builds = tree[w].builds
  <2>2. CASE PointAt(w) \/ Repoint(w)
    BY <2>2, MintKeepsBuilds DEF PointAt, Repoint
  <2>3. ~(PointAt(w) \/ Repoint(w)) => UNCHANGED tree
    BY DEF PreserveStaged, StageWithoutSource, ChooseTarget, Preflight,
       VerifyPublished, Finish, Verify, Push, Abort, Remote, local
  <2> QED BY <2>2, <2>3
<1>4. CASE EndSession(w)
  BY <1>1, <1>2, <1>3, <1>4, GoesToKeepsPlaces DEF EndSession, Places, Completing
<1>5. CASE PreserveStaged(w) \/ StageWithoutSource(w)
  BY <1>1, <1>2, <1>3, <1>5, GoesToKeepsPlaces
     DEF PreserveStaged, StageWithoutSource, Places, Completing
<1>6. CASE ChooseTarget(w)
  <2> PICK j : j = [NoJob EXCEPT !.command = job[w].command,
                                 !.phase = "publish",
                                 !.target = Max({0} \cup
                                   {b \in Ids : staging[w][b].journal # 0})]
    OBVIOUS
  <2>1. job' = [job EXCEPT ![w] = j] /\ j.completed = {}
    BY <1>6 DEF ChooseTarget, NoJob
  <2>2. pc'[w] = "drafts" /\ job'[w].completed = {}
    BY <1>6, <2>1 DEF ChooseTarget, Step, Sessions, SessionTypes
  <2>3. Stored(w)'
    BY <1>1, <1>2, <1>3, SameReleasesSameStates, StoredStays
  <2> QED BY <2>2, <2>3 DEF Placed, Completing
<1>7. CASE Verify(w) \/ Repoint(w)
  <2>1. Committed(w, {})
    BY <1>2, <1>7 DEF Verify, Repoint, Placed
  <2> QED BY <1>1, <1>2, <1>3, <1>7, <2>1, GoesToKeepsPlaces
        DEF Verify, Repoint, Places, Completing
<1>8. CASE Preflight(w) \/ VerifyPublished(w) \/ PointAt(w)
  <2>1. pc[w] \in Completing /\ job' = job
    BY <1>8 DEF Preflight, VerifyPublished, PointAt, Completing
  <2>2. PICK s \in Completing :
          Step(w, s) /\ (s \in {"pointer", "clear"} => pc[w] \in {"pointer", "clear"})
    BY <1>8, <2>1, CompletingAgrees
       DEF Preflight, VerifyPublished, PointAt, Completing, Release
  <2> QED BY <1>1, <1>2, <1>3, <2>1, <2>2, SameReleasesSameStates, CompletingPlaces
<1> QED BY <1>4, <1>5, <1>6, <1>7, <1>8 DEF Finish, Push, Abort

LEMMA UploadPlaces ==
    ASSUME Sessions, WholeBuilds, ~setting.fresh, NEW w \in Workers,
           Upload(w) \/ UploadFails(w)
    PROVE  Stored(w)' /\ Placed(w)'
<1> PICK b : b = job[w].build
  OBVIOUS
<1>1. pc[w] \in Assets /\ pc[w] \in Completing /\ UNCHANGED <<staging, tree>>
  BY DEF Upload, UploadFails, Assets, Completing, local
<1>2. Stored(w) /\ Placed(w) /\ b \in Ids
  BY <1>1, SurvivingDirectory, CompletingAgrees DEF Completing
<1>3. \A d \in Ids : releases'[d].state = releases[d].state
  <2>1. releases \in [Ids -> Release] /\ releases[b] \in Release
    BY <1>2 DEF Sessions, SessionTypes
  <2>2. ASSUME NEW a \in Assets, NEW c, releases' = [releases EXCEPT ![b][a] = c]
        PROVE  releases'[b].state = releases[b].state
    <3>1. releases'[b] = [releases[b] EXCEPT ![a] = c]
      BY <1>2, <2>1, <2>2
    <3> QED BY <2>1, <3>1 DEF Release, Assets
  <2>3. releases' = releases \/ \E c : releases' = [releases EXCEPT ![b][pc[w]] = c]
    BY DEF Upload, UploadFails
  <2> QED BY <1>1, <1>2, <2>1, <2>2, <2>3
<1>4. Published' = Published /\ Drafts' = Drafts /\ StagedOnly(w)' = StagedOnly(w)
  BY <1>1, <1>3, SameStates
<1>5. CASE Upload(w)
  <2>1. PICK s \in {"db", "inst", "publish"} : Step(w, s) /\ job' = job
    BY <1>5 DEF Upload, NextAsset, Assets
  <2> QED BY <1>1, <1>2, <1>3, <1>4, <2>1, CompletingPlaces DEF Completing
<1>6. CASE UploadFails(w)
  <2>1. pc'[w] = "off"
    BY <1>6 DEF UploadFails, EndSession, Step, Sessions, SessionTypes
  <2> QED BY <1>1, <1>2, <1>4, <2>1, StoredStays DEF Placed, Completing
<1> QED BY <1>5, <1>6

(* A draft appears for the one staged build; everything else is committed. *)
LEMMA EnsureDraftPlaces ==
    ASSUME Sessions, WholeBuilds, ~setting.fresh, NEW w \in Workers, EnsureDraft(w)
    PROVE  Stored(w)' /\ Placed(w)'
<1> PICK b : b = job[w].build
  OBVIOUS
<1>1. /\ pc[w] = "draft" /\ Step(w, "journal") /\ UNCHANGED <<staging, tree, job>>
      /\ releases' = [releases EXCEPT ![b].state = "draft"]
      /\ releases[b].state # "published"
  BY DEF EnsureDraft, local
<1>2. /\ Stored(w) /\ Placed(w) /\ b \in Ids /\ pc'[w] = "journal"
      /\ releases \in [Ids -> Release] /\ releases[b] \in Release
  BY <1>1, SurvivingDirectory, CompletingAgrees
     DEF Completing, Step, Sessions, SessionTypes
<1>3. releases'[b].state = "draft" /\ \A d \in Ids \ {b} : releases'[d] = releases[d]
  BY <1>1, <1>2 DEF Release
<1>4. Published' = Published
  BY <1>1, <1>3 DEF Published
<1>5. CASE releases[b].state = "draft"
  <2>1. \A d \in Ids : releases'[d].state = releases[d].state
    BY <1>3, <1>5
  <2> QED BY <1>1, <1>2, <2>1, SameStates, CompletingPlaces DEF Completing
<1>6. CASE releases[b].state = "absent"
  <2>1. b \in StagedOnly(w) /\ Committed(w, {b}) /\ b \notin Published
    BY <1>1, <1>2, <1>6 DEF Placed, Completing, Published
  <2>2. Committed(w, {}) /\ Newest(b) /\ Drafts = {} /\ \A d \in StagedOnly(w) : d = b
    BY <1>2, <2>1 DEF Committed, Stored
  <2>3. Drafts' \subseteq {b} /\ StagedOnly(w)' = {}
    BY <1>1, <1>3, <2>2 DEF Drafts, StagedOnly
  <2>4. Stored(w)'
    BY <1>1, <1>2, <1>4, <2>2, <2>3 DEF Stored, Committed, Newest
  <2>5. Placed(w)'
    BY <1>1, <1>2, <1>3, <1>4, <2>1 DEF Placed, Committed, Completing
  <2> QED BY <2>4, <2>5
<1> QED BY <1>1, <1>2, <1>5, <1>6 DEF Release

(* What is published was the one draft, newer than all; it may be missing. *)
LEMMA PublishReleasePlaces ==
    ASSUME Sessions, WholeBuilds, ~setting.fresh, NEW w \in Workers,
           PublishRelease(w)
    PROVE  Stored(w)' /\ Placed(w)'
<1> PICK b : b = job[w].build
  OBVIOUS
<1>1. /\ pc[w] = "publish" /\ Step(w, "materialize")
      /\ UNCHANGED <<staging, tree, job>>
      /\ releases' = [releases EXCEPT ![b].state = "published"]
      /\ releases[b].state # "absent"
  BY DEF PublishRelease, local
<1>2. /\ w \in Nightly /\ Stored(w) /\ Placed(w) /\ b \in Ids
      /\ pc'[w] = "materialize"
      /\ releases \in [Ids -> Release] /\ releases[b] \in Release
  BY <1>1, SurvivingDirectory, CompletingAgrees
     DEF Completing, Step, Sessions, SessionTypes
<1>3. releases'[b].state = "published"
      /\ \A d \in Ids \ {b} : releases'[d] = releases[d]
  BY <1>1, <1>2 DEF Release
<1>4. StagedOnly(w)' = StagedOnly(w)
  BY <1>1, <1>3 DEF StagedOnly
<1>5. CASE releases[b].state = "published"
  <2>1. \A d \in Ids : releases'[d].state = releases[d].state
    BY <1>3, <1>5
  <2> QED BY <1>1, <1>2, <2>1, SameStates, CompletingPlaces DEF Completing
<1>6. CASE releases[b].state = "draft"
  <2>1. b \in Drafts /\ Drafts \subseteq {b}
    BY <1>1, <1>2, <1>6 DEF Drafts, Sessions, Session, StagesAlone, Completing
  <2>2. Committed(w, {}) /\ Newest(b) /\ StagedOnly(w) = {}
    BY <1>2, <2>1 DEF Stored
  <2>3. Drafts' = {} /\ Published' = Published \cup {b}
    BY <1>2, <1>3, <2>1 DEF Drafts, Published
  <2>4. b \in Nat
    BY <1>2, ContentsAreNumbers
  <2>5. Newest(b)'
    BY <2>2, <2>3, <2>4 DEF Newest
  <2>6. Stored(w)'
    BY <1>1, <1>2, <1>4, <2>2, <2>3, <2>5 DEF Stored, Committed
  <2>7. Placed(w)'
    BY <1>1, <1>2, <1>3, <2>2, <2>3 DEF Placed, Committed, Completing
  <2> QED BY <2>6, <2>7
<1> QED BY <1>1, <1>2, <1>5, <1>6 DEF Release

LEMMA MaterializePlaces ==
    ASSUME Sessions, Checkouts, WholeBuilds, ~setting.fresh, NEW w \in Workers,
           Materialize(w)
    PROVE  Stored(w)' /\ Placed(w)'
<1> PICK b, k : b = job[w].build /\ k = job[w].content
  OBVIOUS
<1>1. /\ pc[w] = "materialize" /\ UNCHANGED <<releases, staging>>
      /\ \/ /\ tree' = [tree EXCEPT ![w].builds[b] = k]
            /\ Step(w, "pointer") /\ UNCHANGED job
         \/ /\ tree[w].builds[b] = 0 /\ EndSession(w)
            /\ tree' = [tree EXCEPT ![w].builds[b] = Partial(k)]
  BY DEF Materialize, Remote
<1>2. /\ w \in Nightly /\ Stored(w) /\ Placed(w) /\ b \in Ids /\ k \in Contents
      /\ b \in Published
  BY <1>1, SurvivingDirectory, CompletingAgrees DEF Completing, Agrees, Published
<1>3. Published' = Published /\ Drafts' = Drafts /\ StagedOnly(w)' = StagedOnly(w)
  BY <1>1, SameReleasesSameStates
<1>4. Drafts = {}
  BY <1>1, <1>2 DEF Sessions, Session, StagesAlone, Completing, Drafts, Published
<1>5. PICK c \in {k, Partial(k)} : tree'[w].builds = [tree[w].builds EXCEPT ![b] = c]
                                  /\ (c = k \/ tree[w].builds[b] = 0)
  <2>1. tree \in [Workers -> Tree]
    BY DEF Checkouts
  <2> QED BY <1>1, <2>1 DEF Tree
<1>6. /\ tree'[w].builds[b] = c
      /\ \A d \in Ids \ {b} : tree'[w].builds[d] = tree[w].builds[d]
  <2>1. tree[w].builds \in [Ids -> Int]
    BY DEF Checkouts, Tree
  <2> QED BY <1>2, <1>5, <2>1
<1>7. \A d \in Ids : Whole(tree[w].builds[d]) => Whole(tree'[w].builds[d])
  BY <1>2, <1>5, <1>6, ContentsAreNumbers DEF Whole
<1>8. Stored(w)'
  <2>1. \A d \in Ids : tree'[w].builds[d] \notin {0} \cup Contents => d \in Published
    BY <1>2, <1>6 DEF Stored
  <2>2. \A d \in Published : Newest(d)' = Newest(d)
    BY <1>3 DEF Newest
  <2>3. \A d \in Published : Whole(tree'[w].builds[d]) \/ Newest(d)
    BY <1>2, <1>7 DEF Stored, Published
  <2>4. \A d \in StagedOnly(w) : Newest(d) /\ \A e \in StagedOnly(w) : e = d
    BY <1>2 DEF Stored
  <2>5. \A d \in StagedOnly(w) : Newest(d)' = Newest(d)
    BY <1>3 DEF Newest
  <2> QED BY <1>3, <1>4, <2>1, <2>2, <2>3, <2>4, <2>5 DEF Stored
<1>9. Placed(w)'
  <2>1. CASE EndSession(w)
    BY <2>1 DEF EndSession, Step, Placed, Completing, Sessions, SessionTypes
  <2>2. CASE /\ Step(w, "pointer") /\ UNCHANGED job
             /\ tree' = [tree EXCEPT ![w].builds[b] = k]
    <3>1. pc'[w] = "pointer" /\ job' = job
      BY <2>2 DEF Step, Sessions, SessionTypes
    <3>2. tree'[w].builds[b] = k
      BY <1>2, <2>2 DEF Checkouts, Tree
    <3>3. /\ \A d \in job[w].completed : Whole(tree'[w].builds[d])
          /\ job[w].back # "staged" => \A d \in Published :
               d = b \/ Whole(tree'[w].builds[d])
      BY <1>1, <1>2, <1>7 DEF Placed, Completing, Committed, Published,
         Sessions, SessionTypes, Job
    <3>4. releases'[b].state # "absent"
      BY <1>1, <1>2 DEF Published
    <3> QED BY <1>2, <1>3, <3>1, <3>2, <3>3, <3>4
          DEF Placed, Committed, Completing, Whole
  <2> QED BY <1>1, <2>1, <2>2
<1> QED BY <1>8, <1>9

(* The build that is staged is newer than everything published.            *)
LEMMA StageBuildPlaces ==
    ASSUME Sessions, WholeBuilds, ~setting.fresh, NEW w \in Workers, StageBuild(w)
    PROVE  Stored(w)' /\ Placed(w)'
<1> PICK b, k : /\ b = IF StagedOnly(w) = {} THEN NextBuildId(w)
                                             ELSE Max(StagedOnly(w))
                /\ k = assembled + 1
  OBVIOUS
<1> PICK s : s = [made |-> TRUE, journal |-> 0,
                  inst |-> IF NeedsInst(k) THEN k ELSE 0]
  OBVIOUS
<1>1. /\ pc[w] = "stage" /\ b <= setting.builds
      /\ staging' = [staging EXCEPT ![w][b] = s]
      /\ job' = [job EXCEPT ![w].build = b, ![w].content = k]
      /\ Step(w, "finalize") /\ UNCHANGED <<releases, tree>>
  BY DEF StageBuild, Remote
<1>2. w \in Nightly /\ Stored(w) /\ Placed(w) /\ Drafts = {}
  BY <1>1, SurvivingDirectory, NightlySeesNoDraft
<1>3. b \in Ids /\ \A d \in StagedOnly(w) : d = b
  <2>1. b \in Ids
    BY <1>1, <1>2, BuildIdIsFree
  <2>2. StagedOnly(w) # {} => b \in StagedOnly(w)
    <3>1. StagedOnly(w) \subseteq Ids
      BY DEF StagedOnly
    <3> QED BY <3>1, MaxOfIds
  <2> QED BY <1>2, <2>1, <2>2 DEF Stored
<1>4. Newest(b)
  <2>1. CASE StagedOnly(w) = {}
    <3>1. \A d \in Published : b > d
      BY <2>1, NextBuildIdIsFree
    <3>2. b \in Nat /\ \A d \in Published : d \in Nat
      BY <1>3, ContentsAreNumbers DEF Published
    <3> QED BY <3>1, <3>2 DEF Newest
  <2>2. CASE StagedOnly(w) # {}
    BY <1>2, <1>3, <2>2 DEF Stored
  <2> QED BY <2>1, <2>2
<1>5. /\ pc'[w] = "finalize" /\ job'[w].build = b
      /\ job'[w].completed = job[w].completed
      /\ \A d \in Ids : staging'[w][d].journal \in {0, staging[w][d].journal}
  <2>1. /\ staging \in [Workers -> [Ids -> Staged]] /\ pc \in [Workers -> Places]
        /\ job \in [Workers -> Job]
    BY DEF Sessions, SessionTypes
  <2>2. staging'[w] = [staging[w] EXCEPT ![b] = s] /\ staging[w] \in [Ids -> Staged]
    BY <1>1, <2>1
  <2>3. job'[w].build = b /\ job'[w].completed = job[w].completed
    BY <1>1, <2>1 DEF Job
  <2> QED BY <1>1, <2>1, <2>2, <2>3 DEF Step
<1>6. Published' = Published /\ Drafts' = Drafts
      /\ StagedOnly(w)' \subseteq StagedOnly(w)
  BY <1>1, <1>5 DEF Published, Drafts, StagedOnly
<1>7. Stored(w)' /\ Committed(w, {})'
  <2>1. Committed(w, {})
    BY <1>1, <1>2 DEF Placed
  <2> QED BY <1>1, <1>2, <1>6, <2>1, StoredStays
<1>8. Newest(b)'
  BY <1>4, <1>6 DEF Newest
<1>9. Placed(w)'
  BY <1>1, <1>2, <1>3, <1>5, <1>6, <1>7, <1>8 DEF Placed, Completing
<1> QED BY <1>7, <1>9

LEMMA FinalizeBuildPlaces ==
    ASSUME Sessions, WholeBuilds, ~setting.fresh, NEW w \in Workers, FinalizeBuild(w)
    PROVE  Stored(w)' /\ Placed(w)'
<1> PICK b, k : b = job[w].build /\ k = job[w].content
  OBVIOUS
<1>1. /\ pc[w] = "finalize" /\ Step(w, "choose")
      /\ staging' = [staging EXCEPT ![w][b].journal = k]
      /\ UNCHANGED <<releases, tree, job>>
  BY DEF FinalizeBuild, Remote
<1>2. /\ Stored(w) /\ Placed(w) /\ Committed(w, {}) /\ Newest(b) /\ Drafts = {}
      /\ StagedOnly(w) \subseteq {b}
  BY <1>1, SurvivingDirectory DEF Placed
<1>3. pc'[w] = "choose" /\ \A d \in Ids \ {b} : staging'[w][d] = staging[w][d]
  BY <1>1 DEF Step, Sessions, SessionTypes
<1>4. Published' = Published /\ Drafts' = {} /\ StagedOnly(w)' \subseteq {b}
  BY <1>1, <1>2, <1>3 DEF Published, Drafts, StagedOnly
<1>5. Stored(w)'
  <2>1. Newest(b)'
    BY <1>2, <1>4 DEF Newest
  <2>2. \A d \in Published : Newest(d)' = Newest(d)
    BY <1>4 DEF Newest
  <2>3. /\ \A d \in Ids : tree[w].builds[d] \notin {0} \cup Contents => d \in Published
        /\ \A d \in Published : Whole(tree[w].builds[d]) \/ Newest(d)
    BY <1>2 DEF Stored
  <2> QED BY <1>1, <1>4, <2>1, <2>2, <2>3 DEF Stored
<1>6. Placed(w)'
  BY <1>1, <1>2, <1>3 DEF Placed, Completing
<1> QED BY <1>5, <1>6

(* The pointer names what was completed; it is whole and has a release.    *)
LEMMA ClearStagingPlaces ==
    ASSUME Sessions, WholeBuilds, ~setting.fresh, NEW w \in Workers, ClearStaging(w)
    PROVE  Stored(w)' /\ Placed(w)'
<1> PICK b, s : b = job[w].build /\ s = job[w].back
  OBVIOUS
<1> PICK j : j = [job[w] EXCEPT !.completed = @ \cup {b}, !.build = 0,
                                !.content = 0, !.back = "none"]
  OBVIOUS
<1>1. /\ pc[w] = "clear" /\ Step(w, s) /\ UNCHANGED <<releases, tree>>
      /\ staging' = [staging EXCEPT ![w][b] = Unstaged]
  BY DEF ClearStaging, Remote
<1>2. job' = [job EXCEPT ![w] = j] /\ j.completed = job[w].completed \cup {b}
  <2>1. job \in [Workers -> Job] /\ job[w] \in Job
    BY DEF Sessions, SessionTypes
  <2>2. job' = [job EXCEPT ![w].completed = @ \cup {b}, ![w].build = 0,
                           ![w].content = 0, ![w].back = "none"]
    BY DEF ClearStaging
  <2> QED BY <2>1, <2>2 DEF Job
<1>3. /\ Stored(w) /\ Placed(w) /\ Whole(tree[w].builds[b]) /\ b \in Ids
      /\ s \in {"staged", "reconciled", "verify"}
      /\ s # "staged" => Committed(w, {})
  <2>1. /\ Stored(w) /\ Placed(w) /\ Agrees(w, b, job[w].content)
    BY <1>1, SurvivingDirectory, CompletingAgrees DEF Completing
  <2>2. Whole(tree[w].builds[b]) /\ (s # "staged" => Committed(w, {b}))
    BY <1>1, <2>1 DEF Placed, Completing
  <2>3. s \in {"staged", "reconciled", "verify"}
    BY <2>1 DEF Agrees, Sessions, SessionTypes, Job
  <2> QED BY <2>1, <2>2, <2>3 DEF Committed, Agrees
<1>4. /\ pc'[w] = s /\ job'[w] = j
      /\ \A d \in Ids : staging'[w][d].journal \in {0, staging[w][d].journal}
  <2>1. /\ staging \in [Workers -> [Ids -> Staged]] /\ pc \in [Workers -> Places]
        /\ job \in [Workers -> Job]
    BY DEF Sessions, SessionTypes
  <2>2. staging'[w] = [staging[w] EXCEPT ![b] = Unstaged]
        /\ staging[w] \in [Ids -> Staged] /\ Unstaged.journal = 0
    BY <1>1, <2>1 DEF Unstaged
  <2> QED BY <1>1, <1>2, <2>1, <2>2 DEF Step
<1>5. Published' = Published /\ Drafts' = Drafts
      /\ StagedOnly(w)' \subseteq StagedOnly(w)
  BY <1>1, <1>4 DEF Published, Drafts, StagedOnly
<1>6. Stored(w)' /\ Committed(w, {})' = Committed(w, {})
  BY <1>1, <1>3, <1>5, StoredStays
<1>7. \A d \in j.completed : Whole(tree[w].builds[d])
  BY <1>1, <1>2, <1>3 DEF Placed
<1>8. Placed(w)'
  BY <1>1, <1>3, <1>4, <1>6, <1>7 DEF Placed, Completing
<1> QED BY <1>6, <1>8

LEMMA BeginPlaces ==
    ASSUME Sessions, Checkouts, WholeBuilds, ~setting.fresh, NEW w \in Workers,
           BeginNightly(w) \/ \E b \in Ids : BeginByHand(w, b)
    PROVE  w \in Nightly /\ Stored(w)' /\ Placed(w)'
<1>1. PICK command, phase, target : Begin(w, command, phase, target, "drafts")
  BY DEF BeginNightly, BeginByHand
<1>2. w \in Nightly
  BY SessionsAssumption
     DEF BeginNightly, BeginByHand, SessionsAssumption, Sessions, SessionTypes
<1> PICK j : j = [NoJob EXCEPT !.command = command, !.phase = phase,
                               !.target = target]
  OBVIOUS
<1>3. /\ UNCHANGED <<releases, staging>> /\ Step(w, "drafts")
      /\ job' = [job EXCEPT ![w] = j] /\ j.completed = {}
      /\ tree' = [tree EXCEPT ![w].base = origin.latest]
  BY <1>1 DEF Begin, Remote, NoJob
<1>4. tree'[w].builds = tree[w].builds
  BY <1>3 DEF Checkouts, Tree
<1>5. pc'[w] = "drafts" /\ job'[w].completed = {}
  BY <1>3 DEF Step, Sessions, SessionTypes
<1>6. Stored(w)'
  BY <1>2, <1>3, <1>4, SameReleasesSameStates, StoredStays DEF WholeBuilds
<1>7. Placed(w)'
  BY <1>5 DEF Placed, Completing
<1> QED BY <1>2, <1>6, <1>7

(* What an operator discards was the draft in flight.                      *)
LEMMA DiscardDraftPlaces ==
    ASSUME Sessions, WholeBuilds, ~setting.fresh, NEW b \in Ids, DiscardDraft(b),
           NEW n \in Nightly
    PROVE  Stored(n)' /\ Placed(n)'
<1>1. /\ n \in Workers /\ pc'[n] = "off" /\ UNCHANGED tree
      /\ releases' = [releases EXCEPT ![b] = NoRelease]
      /\ releases[b].state = "draft"
      /\ staging' = [w \in Workers |-> [staging[w] EXCEPT ![b] = Unstaged]]
  BY PublicationAssumption DEF DiscardDraft, session, PublicationAssumption
<1>2. releases'[b].state = "absent" /\ \A d \in Ids \ {b} : releases'[d] = releases[d]
  BY <1>1 DEF Sessions, SessionTypes, NoRelease
<1>3. staging'[n][b].journal = 0
      /\ \A d \in Ids \ {b} : staging'[n][d] = staging[n][d]
  BY <1>1 DEF Sessions, SessionTypes, Unstaged
<1>4. Stored(n) /\ b \in Drafts
  BY <1>1 DEF WholeBuilds, Drafts
<1>5. StagedOnly(n) = {}
  BY <1>4 DEF Stored
<1>6. Published' = Published /\ Drafts' \subseteq Drafts /\ StagedOnly(n)' = {}
  BY <1>1, <1>2, <1>3, <1>5 DEF Published, Drafts, StagedOnly
<1>7. Stored(n)'
  BY <1>1, <1>4, <1>6 DEF Stored, Committed, Newest
<1>8. Placed(n)'
  BY <1>1 DEF Placed, Completing
<1> QED BY <1>7, <1>8

LEMMA DamageJournalPlaces ==
    ASSUME Sessions, WholeBuilds, ~setting.fresh, NEW w \in Workers, NEW b \in Ids,
           DamageJournal(w, b), NEW n \in Nightly
    PROVE  Stored(n)' /\ Placed(n)'
<1>1. /\ n \in Workers /\ UNCHANGED <<releases, tree, pc, job>>
      /\ staging[w][b].journal # 0
      /\ staging' = [staging EXCEPT ![w][b].journal = Garbage]
  BY PublicationAssumption DEF DamageJournal, session, Remote, PublicationAssumption
<1>2. \A d \in Ids : staging'[n][d].journal # 0 <=> staging[n][d].journal # 0
  <2>1. staging \in [Workers -> [Ids -> Staged]] /\ staging[w][b] \in Staged
    BY DEF Sessions, SessionTypes
  <2>2. staging'[w][b].journal = Garbage /\ Garbage # 0
    BY <1>1, <2>1 DEF Staged, Garbage
  <2>3. \A v \in Workers, d \in Ids :
          v # w \/ d # b => staging'[v][d] = staging[v][d]
    BY <1>1, <2>1
  <2> QED BY <1>1, <2>2, <2>3
<1>3. Published' = Published /\ Drafts' = Drafts /\ StagedOnly(n)' = StagedOnly(n)
  BY <1>1, <1>2 DEF Published, Drafts, StagedOnly
<1>4. Stored(n)'
  BY <1>1, <1>3, StoredStays DEF WholeBuilds
<1>5. Placed(n)'
  BY <1>1, <1>3 DEF WholeBuilds, Placed, Committed, Newest
<1> QED BY <1>4, <1>5

(* In a surviving directory the one session keeps its place.               *)
LEMMA StepKeepsPlaces ==
    ASSUME Sessions, Checkouts, WholeBuilds, ~setting.fresh, [PubNext]_pubVars,
           NEW n \in Nightly
    PROVE  Stored(n)' /\ Placed(n)'
<1>1. ASSUME NEW w \in Workers, Work(w) PROVE Stored(n)' /\ Placed(n)'
  <2>1. CASE BeginNightly(w)
    BY <2>1, BeginPlaces, NightlyIsOne
  <2>2. CASE ~BeginNightly(w)
    <3>1. pc[w] # "off"
      BY <1>1, <2>2 DEF Work, Reconcile, ReconcileDrafts, ReconcileStaged,
         ReconcileNewest, Reconciled, Stage, PreserveStaged, StageBuild,
         StageWithoutSource, FinalizeBuild, ChooseTarget, CompleteBuild, Preflight,
         EnsureDraft, Upload, Assets, PublishRelease, VerifyPublished, Materialize,
         PointAt, ClearStaging, Finish, Repoint, Verify, Push, Abort
    <3>2. n = w
      BY <3>1, OnlyNightlyRuns
    <3>3. Stored(w)' /\ Placed(w)'
      <4>1. CASE Reconcile(w)
        BY <4>1, ReconcilePlaces
      <4>2. CASE Stage(w)
        BY <4>2, QuietPlaces, StageBuildPlaces, FinalizeBuildPlaces DEF Stage
      <4>3. CASE CompleteBuild(w)
        BY <4>3, QuietPlaces, EnsureDraftPlaces, UploadPlaces, PublishReleasePlaces,
           MaterializePlaces, ClearStagingPlaces DEF CompleteBuild
      <4>4. CASE Finish(w) \/ Abort(w)
        BY <4>4, QuietPlaces
      <4> QED BY <1>1, <2>2, <4>1, <4>2, <4>3, <4>4 DEF Work
    <3> QED BY <3>2, <3>3
  <2> QED BY <2>1, <2>2
<1>2. ASSUME NEW w \in Workers, UploadFails(w) PROVE Stored(n)' /\ Placed(n)'
  <2>1. pc[w] # "off"
    BY <1>2 DEF UploadFails, Assets
  <2>2. n = w
    BY <2>1, OnlyNightlyRuns
  <2> QED BY <1>2, <2>2, UploadPlaces
<1>3. ASSUME NEW w \in Workers, NEW b \in Ids, BeginByHand(w, b)
      PROVE  Stored(n)' /\ Placed(n)'
  BY <1>3, BeginPlaces, NightlyIsOne
<1>4. ASSUME NEW w \in Workers, NEW b \in Ids, DamageJournal(w, b)
      PROVE  Stored(n)' /\ Placed(n)'
  BY <1>4, DamageJournalPlaces
<1>5. ASSUME NEW b \in Ids, DiscardDraft(b) PROVE Stored(n)' /\ Placed(n)'
  BY <1>5, DiscardDraftPlaces
<1>6. CASE CalmDown \/ UNCHANGED pubVars
  <2>1. UNCHANGED <<releases, tree, staging, pc, job>>
    BY <1>6 DEF CalmDown, pubVars, Remote, local, session
  <2>2. Published' = Published /\ Drafts' = Drafts /\ StagedOnly(n)' = StagedOnly(n)
    BY <2>1, SameReleasesSameStates
  <2>3. Stored(n) /\ Placed(n)
    BY DEF WholeBuilds
  <2>4. Stored(n)'
    BY <2>1, <2>2, <2>3, StoredStays
  <2>5. Placed(n)'
    BY <2>1, <2>2, <2>3 DEF Placed, Committed, Newest
  <2> QED BY <2>4, <2>5
<1> QED BY <1>1, <1>2, <1>3, <1>4, <1>5, <1>6 DEF PubNext

(* Only a push changes origin, and it pushes no partial build.             *)
LEMMA OriginStaysWhole ==
    ASSUME Sessions, Checkouts, WholeBuilds, [PubNext]_pubVars
    PROVE  NoPartial(origin.builds)'
<1>1. ASSUME NEW w \in Workers, Push(w) PROVE NoPartial(origin'.builds)
  <2>1. pc[w] = "push" /\ \A b \in Ids : origin'.builds[b] \in
          {tree[w].builds[b], origin.builds[b]}
    BY <1>1 DEF Push
  <2>2. NoPartial(tree[w].builds)
    <3>1. CASE setting.fresh
      BY <2>1, <3>1 DEF WholeBuilds
    <3>2. CASE ~setting.fresh
      <4>1. Stored(w) /\ Committed(w, {})
        BY <2>1, <3>2, SurvivingDirectory DEF Placed
      <4> QED BY <4>1 DEF Stored, Committed, NoPartial, Whole
    <3> QED BY <3>1, <3>2
  <2> QED BY <2>1, <2>2 DEF WholeBuilds, NoPartial
<1>2. ASSUME NEW w \in Workers, Work(w), ~Push(w) PROVE origin' = origin
  BY <1>2 DEF Work, BeginNightly, Begin, Reconcile, ReconcileDrafts,
     ReconcileStaged, ReconcileNewest, Reconciled, Stage, PreserveStaged,
     StageBuild, StageWithoutSource, FinalizeBuild, ChooseTarget, CompleteBuild,
     Preflight, EnsureDraft, Upload, PublishRelease, VerifyPublished, Materialize,
     PointAt, ClearStaging, Finish, Repoint, Verify, Abort, Remote
<1>3. ASSUME \/ \E w \in Workers :
                  \/ UploadFails(w)
                  \/ \E b \in Ids : BeginByHand(w, b) \/ DamageJournal(w, b)
             \/ \E b \in Ids : DiscardDraft(b)
             \/ CalmDown \/ UNCHANGED pubVars
      PROVE  origin' = origin
  BY <1>3 DEF UploadFails, BeginByHand, Begin, DamageJournal, DiscardDraft,
     CalmDown, pubVars, Remote
<1>4. origin' = origin => NoPartial(origin'.builds)
  BY DEF WholeBuilds
<1>5. NoPartial(origin'.builds)
  BY <1>1, <1>2, <1>3, <1>4 DEF PubNext
<1> QED BY <1>5 DEF NoPartial

-----------------------------------------------------------------------------
(* With fresh checkouts a partial build never outlives its session.        *)

LEMMA TreeStaysWhole ==
    ASSUME Sessions, Checkouts, WholeBuilds, setting.fresh, NEW w \in Workers,
           Work(w) \/ UploadFails(w) \/ \E b \in Ids : BeginByHand(w, b),
           pc'[w] # "off"
    PROVE  NoPartial(tree'[w].builds)
<1>1. CASE BeginNightly(w) \/ \E b \in Ids : BeginByHand(w, b)
  <2>1. tree' = [tree EXCEPT ![w] = [builds |-> origin.builds,
                                     latest |-> origin.latest,
                                     base |-> origin.latest]]
    BY <1>1 DEF BeginNightly, BeginByHand, Begin
  <2>2. tree'[w].builds = origin.builds
    BY <2>1 DEF Checkouts
  <2> QED BY <2>2 DEF WholeBuilds
<1>2. CASE Materialize(w)
  <2> PICK b, k : b = job[w].build /\ k = job[w].content
    OBVIOUS
  <2>1. pc[w] = "materialize" /\ (EndSession(w)
          \/ tree' = [tree EXCEPT ![w].builds[b] = k])
    BY <1>2 DEF Materialize
  <2>2. ~EndSession(w)
    BY DEF EndSession, Step, Sessions, SessionTypes
  <2>3. NoPartial(tree[w].builds) /\ b \in Ids /\ k \in Contents
    BY <2>1, CompletingAgrees DEF WholeBuilds, Completing, Agrees
  <2>4. tree'[w].builds = [tree[w].builds EXCEPT ![b] = k]
        /\ tree[w].builds \in [Ids -> Int]
    BY <2>1, <2>2 DEF Checkouts, Tree
  <2> QED BY <2>3, <2>4 DEF NoPartial
<1>3. CASE PointAt(w) \/ Repoint(w)
  <2>1. pc[w] # "off" /\ (UNCHANGED tree
          \/ \E b, k : Mint(w, b, k))
    BY <1>3 DEF PointAt, Repoint
  <2>2. ASSUME NEW b, NEW k, Mint(w, b, k) PROVE tree'[w].builds = tree[w].builds
    BY <2>2, MintKeepsBuilds
  <2>3. tree'[w].builds = tree[w].builds
    BY <2>1, <2>2
  <2> QED BY <2>1, <2>3 DEF WholeBuilds
<1>4. CASE \/ Reconcile(w) \/ Stage(w) \/ Abort(w) \/ UploadFails(w) \/ Verify(w)
           \/ Preflight(w) \/ EnsureDraft(w) \/ Upload(w) \/ PublishRelease(w)
           \/ VerifyPublished(w) \/ ClearStaging(w) \/ Push(w)
  <2>1. UNCHANGED tree /\ pc[w] # "off"
    BY <1>4 DEF Reconcile, ReconcileDrafts, ReconcileStaged, ReconcileNewest,
       Reconciled, Stage, PreserveStaged, StageBuild, StageWithoutSource,
       FinalizeBuild, ChooseTarget, Preflight, EnsureDraft, Upload, UploadFails,
       Assets, PublishRelease, VerifyPublished, ClearStaging, Verify, Push, Abort,
       Remote, local
  <2> QED BY <2>1 DEF WholeBuilds
<1> QED BY <1>1, <1>2, <1>3, <1>4 DEF Work, CompleteBuild, Finish

LEMMA OthersTreesStay ==
    ASSUME Sessions, Checkouts, NEW w \in Workers,
           Work(w) \/ UploadFails(w) \/ \E b \in Ids : BeginByHand(w, b),
           NEW v \in Workers \ {w}
    PROVE  tree'[v] = tree[v] /\ pc'[v] = pc[v]
<1>1. pc'[v] = pc[v]
  BY DEF Work, BeginNightly, BeginByHand, Begin, Reconcile, ReconcileDrafts,
     ReconcileStaged, ReconcileNewest, Reconciled, Complete, Stage, PreserveStaged,
     StageBuild, StageWithoutSource, FinalizeBuild, ChooseTarget, CompleteBuild,
     Preflight, EnsureDraft, Upload, UploadFails, PublishRelease, VerifyPublished,
     Materialize, PointAt, ClearStaging, Finish, Repoint, Verify, Push, Abort,
     EndSession, Step, Sessions, SessionTypes
<1>2. tree'[v] = tree[v]
  <2>1. CASE BeginNightly(w) \/ \E b \in Ids : BeginByHand(w, b)
    BY <2>1 DEF BeginNightly, BeginByHand, Begin, Checkouts
  <2>2. CASE Materialize(w)
    BY <2>2 DEF Materialize, Checkouts
  <2>3. CASE PointAt(w) \/ Repoint(w)
    BY <2>3 DEF PointAt, Repoint, Mint, Checkouts
  <2>4. CASE \/ Reconcile(w) \/ Stage(w) \/ Abort(w) \/ UploadFails(w)
             \/ Verify(w) \/ Preflight(w) \/ EnsureDraft(w) \/ Upload(w)
             \/ PublishRelease(w) \/ VerifyPublished(w) \/ ClearStaging(w)
             \/ Push(w)
    BY <2>4 DEF Reconcile, ReconcileDrafts, ReconcileStaged, ReconcileNewest,
       Reconciled, Stage, PreserveStaged, StageBuild, StageWithoutSource,
       FinalizeBuild, ChooseTarget, Preflight, EnsureDraft, Upload, UploadFails,
       PublishRelease, VerifyPublished, ClearStaging, Verify, Push, Abort,
       Remote, local
  <2> QED BY <2>1, <2>2, <2>3, <2>4 DEF Work, CompleteBuild, Finish
<1> QED BY <1>1, <1>2

LEMMA StepKeepsTrees ==
    ASSUME Sessions, Checkouts, WholeBuilds, setting.fresh, [PubNext]_pubVars,
           NEW v \in Workers, pc'[v] # "off"
    PROVE  NoPartial(tree'[v].builds)
<1>1. ASSUME NEW w \in Workers,
             Work(w) \/ UploadFails(w) \/ \E b \in Ids : BeginByHand(w, b)
      PROVE  NoPartial(tree'[v].builds)
  <2>1. CASE v = w
    BY <1>1, <2>1, TreeStaysWhole
  <2>2. CASE v # w
    <3>1. tree'[v] = tree[v] /\ pc'[v] = pc[v]
      BY <1>1, <2>2, OthersTreesStay
    <3> QED BY <3>1 DEF WholeBuilds
  <2> QED BY <2>1, <2>2
<1>2. ASSUME \/ \E w \in Workers, b \in Ids : DamageJournal(w, b)
             \/ \E b \in Ids : DiscardDraft(b)
             \/ CalmDown \/ UNCHANGED pubVars
      PROVE  NoPartial(tree'[v].builds)
  <2>1. UNCHANGED <<tree, pc>>
    BY <1>2 DEF DamageJournal, DiscardDraft, CalmDown, pubVars, local, session
  <2> QED BY <2>1 DEF WholeBuilds
<1> QED BY <1>1, <1>2 DEF PubNext

LEMMA SettingStays == [PubNext]_pubVars => setting' = setting
<1>1. ASSUME NEW w \in Workers, Reconcile(w) \/ Stage(w) PROVE setting' = setting
  BY <1>1 DEF Reconcile, ReconcileDrafts, ReconcileStaged, ReconcileNewest,
     Reconciled, Stage, PreserveStaged, StageBuild, StageWithoutSource,
     FinalizeBuild, ChooseTarget, climate
<1>2. ASSUME NEW w \in Workers, CompleteBuild(w) PROVE setting' = setting
  BY <1>2 DEF CompleteBuild, Preflight, EnsureDraft, Upload, PublishRelease,
     VerifyPublished, Materialize, PointAt, ClearStaging, climate
<1>3. ASSUME NEW w \in Workers,
             BeginNightly(w) \/ Finish(w) \/ Abort(w) \/ UploadFails(w)
      PROVE  setting' = setting
  BY <1>3 DEF BeginNightly, Begin, Finish, Repoint, Verify, Push, Abort,
     UploadFails, climate
<1>4. ASSUME \/ \E w \in Workers, b \in Ids :
                  BeginByHand(w, b) \/ DamageJournal(w, b)
             \/ \E b \in Ids : DiscardDraft(b)
             \/ CalmDown \/ UNCHANGED pubVars
      PROVE  setting' = setting
  BY <1>4 DEF BeginByHand, Begin, DamageJournal, DiscardDraft, CalmDown, pubVars,
     climate
<1> QED BY <1>1, <1>2, <1>3, <1>4 DEF PubNext, Work

LEMMA StepKeepsWholeBuilds ==
    ASSUME Sessions, Checkouts, WholeBuilds, [PubNext]_pubVars
    PROVE  WholeBuilds'
<1>1. setting' = setting
  BY SettingStays
<1>2. NoPartial(origin.builds)'
  BY OriginStaysWhole
<1>3. setting.fresh => \A w \in Workers : pc'[w] # "off" => NoPartial(tree[w].builds)'
  BY StepKeepsTrees DEF NoPartial
<1>4. ~setting.fresh => \A n \in Nightly : Stored(n)' /\ Placed(n)'
  BY StepKeepsPlaces
<1> QED BY <1>1, <1>2, <1>3, <1>4 DEF WholeBuilds

LEMMA InitHasWholeBuilds ==
    ASSUME PubInit
    PROVE  WholeBuilds
<1>1. NoPartial(origin.builds) /\ \A w \in Workers : pc[w] = "off"
  BY DEF PubInit, NoPartial
<1>2. ASSUME NEW n \in Nightly PROVE Stored(n)
  <2>1. \A b \in Ids : /\ releases[b].state = "absent" /\ tree[n].builds[b] = 0
                       /\ staging[n][b].journal = 0
    BY PublicationAssumption
       DEF PubInit, NoRelease, NoStaging, Unstaged, PublicationAssumption
  <2>2. Drafts = {} /\ Published = {} /\ StagedOnly(n) = {}
    BY <2>1 DEF Drafts, Published, StagedOnly
  <2> QED BY <2>1, <2>2 DEF Stored, Committed
<1>3. ASSUME NEW n \in Nightly PROVE Placed(n)
  BY <1>1, PublicationAssumption DEF Placed, Completing, PublicationAssumption
<1> QED BY <1>1, <1>2, <1>3 DEF WholeBuilds

(* What consumers can reach is whole: a published release carries every    *)
(* asset its manifest lists, and a committed build is complete and is the  *)
(* content its release was published with (publish/build.py).              *)
THEOREM NothingIsTorn == PubSpec => []NeverTorn
<1>1. PubInit => Sessions /\ Checkouts /\ WholeBuilds
  BY InitHasSessions, InitHasCheckouts, InitHasWholeBuilds
<1>2. Sessions /\ Checkouts /\ WholeBuilds /\ [PubNext]_pubVars
        => (Sessions /\ Checkouts /\ WholeBuilds)'
  BY StepKeepsSessions, StepKeepsCheckouts, StepKeepsWholeBuilds
<1>3. Sessions /\ Checkouts /\ WholeBuilds => NeverTorn
  <2> SUFFICES ASSUME Sessions, Checkouts, WholeBuilds PROVE NeverTorn
    OBVIOUS
  <2>1. \A b \in Published :
          releases[b].journal # 0 /\ AssetsVerify(b, releases[b].journal)
    BY DEF Sessions, ReleasesAreWhole, Published
  <2>2. \A b \in Ids : origin.builds[b] # 0 =>
          b \in Published /\ origin.builds[b] = releases[b].journal
    BY DEF WholeBuilds, NoPartial, Checkouts, Commits, Whole
  <2> QED BY <2>1, <2>2 DEF NeverTorn
<1> QED BY <1>1, <1>2, <1>3, PTL DEF PubSpec

-----------------------------------------------------------------------------
(* What latest.json ever named is committed, and no base is ahead of it.   *)
PointedArePublic ==
    /\ \A b \in pointed : b # 0 => b \in Published /\ Whole(origin.builds[b])
    /\ origin.latest = NoPointer \/ origin.latest.build \in pointed
    /\ \A w \in Workers : Ahead(origin.latest, tree[w].base)

(* A session pushes a pointer it has verified, and a nightly one the build *)
(* it completed last.                                                      *)
PushesItsOwn(w) ==
    /\ pc[w] = "push" =>
         /\ tree[w].latest # NoPointer
         /\ tree[w].builds[tree[w].latest.build] = tree[w].latest.content
    /\ job[w].command = "nightly" =>
         /\ w \in Nightly /\ job[w].phase # "rollback"
         /\ pc[w] = "clear" => tree[w].latest.build = job[w].build
         /\ pc[w] # "clear" /\ job[w].completed # {} =>
              tree[w].latest.build \in job[w].completed
         /\ pc[w] \in {"verify", "push"} => job[w].completed # {}

(* Once a surviving directory is reconciled nothing staged has a release.  *)
Settled(n) ==
    /\ \A b \in job[n].completed : b \in Published /\ staging[n][b].journal = 0
    /\ \/ pc[n] \in {"newest", "reconciled", "repoint", "verify", "push"}
       \/ pc[n] \in Completing /\ job[n].back # "staged"
       => \A b \in Ids : staging[n][b].journal # 0 /\ releases[b].state # "absent"
            => pc[n] \in Completing /\ b = job[n].build

(* The checkout still knows of every build that latest.json ever named.    *)
Current(n) == setting.fresh => pc[n] # "off" /\ origin.latest = tree[n].base

(* Those are committed, not staged, and not what the night completes.      *)
LeavesThePointed(n) ==
    \A b \in Ids \cap pointed :
      /\ Whole(tree[n].builds[b]) /\ staging[n][b].journal = 0
      /\ job[n].command = "nightly" =>
           /\ b # job[n].target /\ b \notin job[n].completed
           /\ pc[n] \in Completing => b # job[n].build

Pointing ==
    /\ PointedArePublic
    /\ \A w \in Workers : PushesItsOwn(w)
    /\ \A n \in Nightly :
         /\ ~setting.fresh => Settled(n)
         /\ Current(n) => LeavesThePointed(n)

LEMMA OneSessionPoints ==
    ASSUME Sessions, Pointing, [PubNext]_pubVars, NEW w \in Workers,
           UNCHANGED <<origin, pointed, setting>>,
           \A v \in Workers \ {w} :
             /\ pc'[v] = pc[v] /\ job'[v] = job[v]
             /\ tree'[v] = tree[v] /\ staging'[v] = staging[v],
           tree'[w].base \in {tree[w].base, origin.latest},
           ~setting.fresh => w \in Nightly,
           PushesItsOwn(w)',
           w \in Nightly => /\ ~setting.fresh => Settled(w)'
                            /\ Current(w)' => LeavesThePointed(w)'
    PROVE  Pointing'
<1>1. \A b \in Published : b \in Published'
  BY PublishedStays
<1>2. \A v \in Workers : Ahead(origin.latest, tree'[v].base)
  BY DEF Pointing, PointedArePublic, Ahead
<1>3. PointedArePublic'
  BY <1>1, <1>2 DEF Pointing, PointedArePublic, Ahead
<1>4. ASSUME NEW v \in Workers PROVE PushesItsOwn(v)'
  <2>1. CASE v # w
    <3>1. PushesItsOwn(v)
      BY DEF Pointing
    <3> QED BY <2>1, <3>1 DEF PushesItsOwn
  <2> QED BY <2>1
<1>5. ASSUME NEW n \in Nightly, ~setting.fresh PROVE Settled(n)'
  BY <1>5, NightlyIsOne
<1>6. ASSUME NEW n \in Nightly, Current(n)' PROVE LeavesThePointed(n)'
  <2>1. n \in Workers
    BY PublicationAssumption DEF PublicationAssumption
  <2>2. CASE n # w
    <3>1. Current(n) /\ LeavesThePointed(n)
      BY <1>6, <2>1, <2>2 DEF Current, Pointing
    <3> QED BY <2>1, <2>2, <3>1 DEF LeavesThePointed
  <2> QED BY <1>6, <2>2
<1> QED BY <1>3, <1>4, <1>5, <1>6 DEF Pointing

(* A session goes on: what was whole stays so, and only the release of the *)
(* build under completion appears.                                         *)
LEMMA SessionPoints ==
    ASSUME Sessions, Pointing, [PubNext]_pubVars, NEW w \in Workers,
           pc[w] # "off", NEW s, s # "off", Step(w, s),
           UNCHANGED <<origin, pointed, setting, staging, job>>,
           \A v \in Workers \ {w} : tree'[v] = tree[v],
           tree'[w].base = tree[w].base,
           \A b \in Ids : Whole(tree[w].builds[b]) => Whole(tree'[w].builds[b]),
           \A b \in Ids : \/ (releases'[b].state = "absent" <=>
                                releases[b].state = "absent")
                          \/ pc[w] \in Completing /\ b = job[w].build,
           s \in Completing <=> pc[w] \in Completing,
           s \in {"newest", "reconciled", "repoint", "verify", "push"} =>
             \/ pc[w] \in {"newest", "reconciled", "repoint", "verify", "push"}
             \/ StagedWithRelease(w) = {},
           PushesItsOwn(w)'
    PROVE  Pointing'
<1>1. pc'[w] = s /\ \A v \in Workers \ {w} : pc'[v] = pc[v]
  BY DEF Step, Sessions, SessionTypes
<1>2. ~setting.fresh => w \in Nightly
  BY OnlyNightlyRuns
<1>3. ASSUME w \in Nightly, ~setting.fresh PROVE Settled(w)'
  <2>1. Settled(w)
    BY <1>3 DEF Pointing
  <2>2. \A b \in job[w].completed : b \in Published' /\ staging[w][b].journal = 0
    BY <2>1, PublishedStays DEF Settled
  <2>3. CASE pc[w] \in Completing
    BY <1>1, <2>1, <2>2, <2>3 DEF Settled, Completing
  <2>4. CASE s \in {"newest", "reconciled", "repoint", "verify", "push"}
    <3>1. \A b \in Ids : staging[w][b].journal # 0 => releases[b].state = "absent"
      BY <2>1, <2>4 DEF Settled, StagedWithRelease, Completing
    <3>2. \A b \in Ids : staging[w][b].journal # 0 => releases'[b].state = "absent"
      BY <2>4, <3>1 DEF Completing
    <3> QED BY <1>1, <2>2, <3>2 DEF Settled
  <2> QED BY <1>1, <2>2, <2>3, <2>4 DEF Settled
<1>4. ASSUME w \in Nightly, Current(w)' PROVE LeavesThePointed(w)'
  <2>1. LeavesThePointed(w)
    BY <1>4 DEF Current, Pointing
  <2> QED BY <1>1, <2>1 DEF LeavesThePointed
<1> QED BY <1>1, <1>2, <1>3, <1>4, OneSessionPoints

(* It ends: nothing of it is left but what is durable.                     *)
LEMMA EndPoints ==
    ASSUME Sessions, Pointing, [PubNext]_pubVars, NEW w \in Workers,
           pc[w] # "off", EndSession(w),
           UNCHANGED <<origin, pointed, setting, staging>>,
           \A v \in Workers \ {w} : tree'[v] = tree[v],
           tree'[w].base = tree[w].base,
           \A b \in Ids : Whole(tree[w].builds[b]) => Whole(tree'[w].builds[b])
    PROVE  Pointing'
<1>1. /\ pc'[w] = "off" /\ job'[w] = NoJob
      /\ \A v \in Workers \ {w} : pc'[v] = pc[v] /\ job'[v] = job[v]
  BY DEF EndSession, Step, Sessions, SessionTypes
<1>2. ~setting.fresh => w \in Nightly
  BY OnlyNightlyRuns
<1>3. PushesItsOwn(w)' /\ Settled(w)'
  BY <1>1 DEF PushesItsOwn, Settled, NoJob, Completing
<1>4. ASSUME w \in Nightly, Current(w)' PROVE LeavesThePointed(w)'
  <2>1. LeavesThePointed(w)
    BY <1>1, <1>4 DEF Current, Pointing
  <2> QED BY <1>1, <2>1 DEF LeavesThePointed, NoJob
<1> QED BY <1>1, <1>2, <1>3, <1>4, OneSessionPoints

(* Reconciliation goes on to complete a build that was never pointed at.   *)
LEMMA CompletePoints ==
    ASSUME Sessions, Pointing, [PubNext]_pubVars, NEW w \in Workers,
           NEW b \in Ids, NEW back, Complete(w, b, back),
           pc[w] \in {"drafts", "staged", "newest", "reconciled"},
           back # "staged" => pc[w] \in {"newest", "reconciled"},
           UNCHANGED <<origin, pointed, setting, staging, tree, releases>>,
           w \in Nightly /\ Current(w) /\ LeavesThePointed(w)
             /\ job[w].command = "nightly" => b \notin pointed
    PROVE  Pointing'
<1>1. PICK k \in Recoverable(w, b) :
        job' = [job EXCEPT ![w].build = b, ![w].content = k, ![w].back = back]
  BY DEF Complete
<1>2. pc'[w] = "preflight" /\ \A v \in Workers \ {w} : pc'[v] = pc[v]
  BY DEF Complete, Step, Sessions, SessionTypes
<1>3. /\ job'[w].build = b /\ job'[w].back = back
      /\ job'[w].completed = job[w].completed /\ job'[w].command = job[w].command
      /\ job'[w].phase = job[w].phase /\ job'[w].target = job[w].target
      /\ \A v \in Workers \ {w} : job'[v] = job[v]
  BY <1>1 DEF Sessions, SessionTypes, Job
<1>4. ~setting.fresh => w \in Nightly
  BY OnlyNightlyRuns
<1>5. PushesItsOwn(w)'
  <2>1. PushesItsOwn(w)
    BY DEF Pointing
  <2> QED BY <1>2, <1>3, <2>1 DEF PushesItsOwn
<1>6. ASSUME w \in Nightly, ~setting.fresh PROVE Settled(w)'
  <2>1. Settled(w)
    BY <1>6 DEF Pointing
  <2>2. \A d \in job[w].completed : d \in Published' /\ staging[w][d].journal = 0
    BY <2>1, PublishedStays DEF Settled
  <2> QED BY <1>2, <1>3, <2>1, <2>2 DEF Settled, Completing
<1>7. ASSUME w \in Nightly, Current(w)' PROVE LeavesThePointed(w)'
  <2>1. Current(w) /\ LeavesThePointed(w)
    BY <1>7 DEF Current, Pointing
  <2> QED BY <1>2, <1>3, <1>7, <2>1 DEF LeavesThePointed
<1> QED BY <1>2, <1>3, <1>4, <1>5, <1>6, <1>7, OneSessionPoints

LEMMA ReconcilePoints ==
    ASSUME Sessions, Pointing, [PubNext]_pubVars, NEW w \in Workers, Reconcile(w)
    PROVE  Pointing'
<1>1. /\ UNCHANGED <<releases, staging, tree, origin, pointed, setting>>
      /\ pc[w] \in {"drafts", "staged", "newest", "reconciled"}
  BY DEF Reconcile, ReconcileDrafts, ReconcileStaged, ReconcileNewest, Reconciled,
     Remote, local, climate, history
<1>2. PushesItsOwn(w)
  BY DEF Pointing
<1>3. ASSUME NEW s \in {"staged", "newest", "reconciled", "stage", "repoint",
                        "verify"},
             Step(w, s), UNCHANGED job,
             s = "newest" => StagedWithRelease(w) = {},
             s = "reconciled" => pc[w] = "newest",
             s \in {"repoint", "verify"} => pc[w] = "reconciled",
             s = "verify" => job[w].completed # {}
      PROVE  Pointing'
  <2>1. pc'[w] = s
    BY <1>3 DEF Step, Sessions, SessionTypes
  <2>2. PushesItsOwn(w)'
    BY <1>1, <1>2, <1>3, <2>1 DEF PushesItsOwn
  <2> QED BY <1>1, <1>3, <2>2, SessionPoints DEF Completing
<1>4. \A b \in pointed : b # 0 => b \in Published
  BY DEF Pointing, PointedArePublic
<1>5. CASE ReconcileDrafts(w)
  <2>1. ASSUME NEW b \in Drafts, Complete(w, b, "staged") PROVE Pointing'
    <3>1. b \in Ids /\ b \notin pointed
      BY <1>4, ContentsAreNumbers DEF Drafts, Published
    <3> QED BY <1>1, <2>1, <3>1, CompletePoints
  <2> QED BY <1>3, <1>5, <2>1 DEF ReconcileDrafts
<1>6. CASE ReconcileStaged(w)
  <2>1. CASE /\ StagedWithRelease(w) # {}
             /\ Complete(w, Min(StagedWithRelease(w)), "staged")
    <3>1. PICK b \in Ids : b = Min(StagedWithRelease(w)) /\ b \in StagedWithRelease(w)
      <4>1. StagedWithRelease(w) \subseteq Ids
        BY DEF StagedWithRelease
      <4> QED BY <2>1, <4>1, MinIsAMember, ContentsAreNumbers
    <3>2. LeavesThePointed(w) => b \notin pointed
      BY <3>1 DEF LeavesThePointed, StagedWithRelease
    <3> QED BY <1>1, <2>1, <3>1, <3>2, CompletePoints
  <2> QED BY <1>3, <1>6, <2>1 DEF ReconcileStaged
<1>7. CASE ReconcileNewest(w)
  <2>1. ASSUME NEW b \in Uncommitted(w), Complete(w, b, "reconciled") PROVE Pointing'
    <3>1. b \in Ids /\ ~Whole(tree[w].builds[b])
      BY UncommittedIsAnId DEF Uncommitted
    <3>2. LeavesThePointed(w) => b \notin pointed
      BY <3>1 DEF LeavesThePointed
    <3> QED BY <1>1, <1>7, <2>1, <3>1, <3>2, CompletePoints DEF ReconcileNewest
  <2> QED BY <1>3, <1>7, <2>1 DEF ReconcileNewest
<1>8. CASE Reconciled(w)
  <2>1. CASE job[w].target # 0 /\ Complete(w, job[w].target, "verify")
    <3>1. job[w].target \in Ids
      BY <2>1 DEF Sessions, SessionTypes, Job
    <3>2. LeavesThePointed(w) /\ job[w].command = "nightly" =>
            job[w].target \notin pointed
      BY <3>1 DEF LeavesThePointed
    <3> QED BY <1>1, <1>8, <2>1, <3>1, <3>2, CompletePoints DEF Reconciled
  <2> QED BY <1>3, <1>8, <2>1 DEF Reconciled
<1> QED BY <1>5, <1>6, <1>7, <1>8 DEF Reconcile

LEMMA StagePoints ==
    ASSUME Sessions, Pointing, [PubNext]_pubVars, NEW w \in Workers, Stage(w)
    PROVE  Pointing'
<1>1. /\ UNCHANGED <<releases, tree, origin, pointed, setting>>
      /\ pc[w] \in {"stage", "finalize", "choose"} /\ w \in Nightly
  BY OnlyNightlyStages DEF Stage, PreserveStaged, StageBuild, StageWithoutSource,
     FinalizeBuild, ChooseTarget, Remote, local, climate, history
<1>2. PushesItsOwn(w)
  BY DEF Pointing
<1>3. CASE PreserveStaged(w) \/ StageWithoutSource(w)
  <2>1. /\ pc[w] = "stage" /\ Step(w, "choose")
        /\ UNCHANGED <<staging, job>>
    BY <1>3 DEF PreserveStaged, StageWithoutSource, local
  <2>2. PushesItsOwn(w)'
    BY <1>1, <1>2, <2>1 DEF PushesItsOwn, Step, Sessions, SessionTypes
  <2> QED BY <1>1, <2>1, <2>2, SessionPoints DEF Completing
<1>4. ASSUME NEW s \in {"finalize", "choose", "drafts"}, Step(w, s),
             \A v \in Workers \ {w} : staging'[v] = staging[v] /\ job'[v] = job[v],
             \A b \in Ids : \/ staging'[w][b].journal \in {0, staging[w][b].journal}
                            \/ releases[b].state # "published",
             \/ /\ job'[w].completed = job[w].completed
                /\ job'[w].target = job[w].target /\ job'[w].phase = job[w].phase
             \/ /\ job'[w].completed = {} /\ job'[w].phase = "publish"
                /\ \A b \in Ids : b = job'[w].target => staging[w][b].journal # 0,
             job'[w].command = job[w].command
      PROVE  Pointing'
  <2>1. pc'[w] = s /\ \A v \in Workers \ {w} : pc'[v] = pc[v]
    BY <1>4 DEF Step, Sessions, SessionTypes
  <2>2. PushesItsOwn(w)'
    BY <1>1, <1>2, <1>4, <2>1 DEF PushesItsOwn
  <2>3. ASSUME ~setting.fresh PROVE Settled(w)'
    <3>1. \A b \in job[w].completed :
            b \in Published' /\ b \in Ids /\ releases[b].state = "published"
            /\ staging[w][b].journal = 0
      BY <1>1, <2>3, PublishedStays DEF Pointing, Settled, Published
    <3> QED BY <1>4, <2>1, <3>1 DEF Settled, Completing
  <2>4. ASSUME Current(w)' PROVE LeavesThePointed(w)'
    <3>1. LeavesThePointed(w)
      BY <1>1, <2>1, <2>4 DEF Current, Pointing
    <3>2. \A b \in Ids \cap pointed : releases[b].state = "published"
      BY ContentsAreNumbers DEF Pointing, PointedArePublic, Published
    <3> QED BY <1>1, <1>4, <2>1, <3>1, <3>2 DEF LeavesThePointed, Completing
  <2> QED BY <1>1, <1>4, <2>1, <2>2, <2>3, <2>4, OneSessionPoints
<1>5. staging \in [Workers -> [Ids -> Staged]] /\ job \in [Workers -> Job]
  BY DEF Sessions, SessionTypes
<1>6. CASE StageBuild(w)
  <2> PICK b : b = IF StagedOnly(w) = {} THEN NextBuildId(w) ELSE Max(StagedOnly(w))
    OBVIOUS
  <2> PICK s : s = [made |-> TRUE, journal |-> 0,
                    inst |-> IF NeedsInst(assembled + 1) THEN assembled + 1 ELSE 0]
    OBVIOUS
  <2>1. /\ staging' = [staging EXCEPT ![w][b] = s] /\ s.journal = 0
        /\ job' = [job EXCEPT ![w].build = b, ![w].content = assembled + 1]
        /\ Step(w, "finalize")
    BY <1>6 DEF StageBuild
  <2>2. \A d \in Ids : staging'[w][d].journal \in {0, staging[w][d].journal}
    BY <1>5, <2>1
  <2>3. /\ job'[w].completed = job[w].completed /\ job'[w].target = job[w].target
        /\ job'[w].phase = job[w].phase /\ job'[w].command = job[w].command
    BY <1>5, <2>1 DEF Job
  <2>4. \A v \in Workers \ {w} : staging'[v] = staging[v] /\ job'[v] = job[v]
    BY <1>5, <2>1
  <2> QED BY <1>4, <2>1, <2>2, <2>3, <2>4
<1>7. CASE FinalizeBuild(w)
  <2> PICK b, k : b = job[w].build /\ k = job[w].content
    OBVIOUS
  <2>1. /\ staging' = [staging EXCEPT ![w][b].journal = k] /\ job' = job
        /\ Step(w, "choose") /\ pc[w] = "finalize"
    BY <1>7 DEF FinalizeBuild
  <2>2. b \in Ids /\ releases[b].state = "absent"
    BY <1>1, <2>1 DEF Sessions, Session, StagesAlone
  <2>3. \A d \in Ids : d # b => staging'[w][d] = staging[w][d]
    BY <1>5, <2>1
  <2>4. \A v \in Workers \ {w} : staging'[v] = staging[v] /\ job'[v] = job[v]
    BY <1>5, <2>1
  <2> QED BY <1>4, <2>1, <2>2, <2>3, <2>4
<1>8. CASE ChooseTarget(w)
  <2> PICK t : t = Max({0} \cup {b \in Ids : staging[w][b].journal # 0})
    OBVIOUS
  <2> PICK j : j = [NoJob EXCEPT !.command = job[w].command, !.phase = "publish",
                                 !.target = t]
    OBVIOUS
  <2>1. job' = [job EXCEPT ![w] = j] /\ Step(w, "drafts") /\ UNCHANGED staging
    BY <1>8 DEF ChooseTarget, local
  <2>2. /\ j.completed = {} /\ j.phase = "publish" /\ j.target = t
        /\ j.command = job[w].command
    BY DEF NoJob
  <2>3. t \in Ids => staging[w][t].journal # 0
    <3> PICK S : S = {0} \cup {b \in Ids : staging[w][b].journal # 0}
      OBVIOUS
    <3>1. S \subseteq {0} \cup Ids /\ S # {} /\ t = Max(S)
      OBVIOUS
    <3>2. MaxBuilds \in Nat /\ S \in SUBSET (0..MaxBuilds)
      BY FeedAssumption DEF FeedAssumption, Ids
    <3>3. t \in S
      BY <3>1, <3>2, MaxIsAMember
    <3> QED BY <3>3, ContentsAreNumbers
  <2>4. job'[w] = j /\ \A v \in Workers \ {w} : job'[v] = job[v]
    BY <1>5, <2>1
  <2>5. /\ job'[w].completed = {} /\ job'[w].phase = "publish"
        /\ job'[w].command = job[w].command
        /\ \A b \in Ids : b = job'[w].target => staging[w][b].journal # 0
    BY <2>2, <2>3, <2>4
  <2> QED BY <1>4, <2>1, <2>4, <2>5
<1> QED BY <1>3, <1>6, <1>7, <1>8 DEF Stage

LEMMA CompletingPoints ==
    ASSUME Sessions, Checkouts, Pointing, [PubNext]_pubVars, NEW w \in Workers,
           CompleteBuild(w) \/ UploadFails(w)
    PROVE  Pointing'
<1> PICK b, k : b = job[w].build /\ k = job[w].content
  OBVIOUS
<1>1. /\ pc[w] \in Completing /\ UNCHANGED <<origin, pointed, setting>>
  BY DEF CompleteBuild, Preflight, EnsureDraft, Upload, UploadFails, Assets,
     PublishRelease, VerifyPublished, Materialize, PointAt, ClearStaging,
     Completing, Remote, climate, history
<1>2. /\ b \in Ids /\ k \in Contents /\ Agrees(w, b, k) /\ pc[w] # "off"
      /\ releases \in [Ids -> Release] /\ job \in [Workers -> Job]
      /\ staging \in [Workers -> [Ids -> Staged]] /\ tree \in [Workers -> Tree]
  BY <1>1, CompletingAgrees DEF Completing, Sessions, SessionTypes, Checkouts
<1>3. PushesItsOwn(w)
  BY DEF Pointing
<1>4. ASSUME NEW s \in Completing \ {"clear"}, Step(w, s), pc[w] # "clear",
             UNCHANGED <<staging, job>>,
             UNCHANGED tree \/ tree' = [tree EXCEPT ![w].builds[b] = k],
             \A d \in Ids \ {b} : releases'[d] = releases[d]
      PROVE  Pointing'
  <2>1. pc'[w] = s
    BY <1>4 DEF Step, Sessions, SessionTypes
  <2>2. /\ tree'[w].base = tree[w].base /\ tree'[w].latest = tree[w].latest
        /\ \A v \in Workers \ {w} : tree'[v] = tree[v]
        /\ \A d \in Ids : tree'[w].builds[d] \in {k, tree[w].builds[d]}
    BY <1>2, <1>4 DEF Tree
  <2>3. PushesItsOwn(w)'
    BY <1>3, <1>4, <2>1, <2>2 DEF PushesItsOwn, Completing
  <2>4. \A d \in Ids : Whole(tree[w].builds[d]) => Whole(tree'[w].builds[d])
    BY <1>2, <2>2 DEF Whole
  <2> QED BY <1>1, <1>2, <1>4, <2>2, <2>3, <2>4, SessionPoints DEF Completing
<1>5. CASE \/ Preflight(w) \/ EnsureDraft(w) \/ Upload(w) \/ PublishRelease(w)
           \/ VerifyPublished(w)
  <2>1. \E s \in Completing \ {"clear"} : Step(w, s)
    <3>1. Preflight(w) => \E s \in {"draft", "journal", "verify_published"} : Step(w, s)
      BY <1>2 DEF Preflight, Release
    <3>2. Upload(w) => \E s \in {"db", "inst", "publish"} : Step(w, s)
      BY DEF Upload, NextAsset, Assets
    <3> QED BY <1>5, <3>1, <3>2
          DEF EnsureDraft, PublishRelease, VerifyPublished, Completing
  <2>2. pc[w] # "clear" /\ UNCHANGED <<staging, job, tree>>
    BY <1>5 DEF Preflight, EnsureDraft, Upload, PublishRelease, VerifyPublished,
       Assets, local
  <2>3. \A d \in Ids \ {b} : releases'[d] = releases[d]
    BY <1>2, <1>5 DEF Preflight, EnsureDraft, Upload, PublishRelease,
       VerifyPublished, Remote
  <2> QED BY <1>4, <2>1, <2>2, <2>3
<1>6. CASE UploadFails(w)
  BY <1>1, <1>2, <1>6, EndPoints DEF UploadFails, local
<1>7. CASE Materialize(w)
  <2>1. CASE EndSession(w) /\ tree[w].builds[b] = 0
             /\ tree' = [tree EXCEPT ![w].builds[b] = Partial(k)]
    <3>1. /\ tree'[w].base = tree[w].base
          /\ \A v \in Workers \ {w} : tree'[v] = tree[v]
          /\ \A d \in Ids \ {b} : tree'[w].builds[d] = tree[w].builds[d]
      BY <1>2, <2>1 DEF Tree
    <3>2. \A d \in Ids : Whole(tree[w].builds[d]) => Whole(tree'[w].builds[d])
      BY <2>1, <3>1, ContentsAreNumbers DEF Whole
    <3> QED BY <1>1, <1>2, <1>7, <2>1, <3>1, <3>2, EndPoints DEF Materialize
  <2> QED BY <1>4, <1>7, <2>1 DEF Materialize, Remote, Completing
<1>8. CASE PointAt(w)
  <2>1. /\ pc[w] = "pointer" /\ Step(w, "clear")
        /\ UNCHANGED <<staging, job, releases>>
        /\ \/ tree[w].latest.build = b /\ UNCHANGED tree
           \/ Mint(w, b, k)
    BY <1>8 DEF PointAt, Remote
  <2>2. b \in Published /\ k = releases[b].journal
    BY <1>2, <2>1 DEF Agrees, Published
  <2>3. /\ \A v \in Workers \ {w} : tree'[v] = tree[v]
        /\ tree'[w].builds = tree[w].builds /\ tree'[w].base = tree[w].base
        /\ tree'[w].latest.build = b
    BY <2>1, <2>2, MintIsNewer
  <2>4. PushesItsOwn(w)'
    BY <1>3, <2>1, <2>3 DEF PushesItsOwn, Step, Sessions, SessionTypes
  <2> QED BY <1>1, <1>2, <2>1, <2>3, <2>4, SessionPoints DEF Completing
<1>9. CASE ClearStaging(w)
  <2> PICK done : done = job[w].completed \cup {b}
    OBVIOUS
  <2> PICK back : back = job[w].back
    OBVIOUS
  <2>1. /\ staging' = [staging EXCEPT ![w][b] = Unstaged] /\ pc[w] = "clear"
        /\ job' = [job EXCEPT ![w].completed = done, ![w].build = 0,
                              ![w].content = 0, ![w].back = "none"]
        /\ Step(w, back) /\ UNCHANGED <<releases, tree>>
    BY <1>9 DEF ClearStaging, Remote
  <2>2. /\ job'[w].completed = done /\ job'[w].target = job[w].target
        /\ job'[w].phase = job[w].phase /\ job'[w].command = job[w].command
        /\ \A v \in Workers \ {w} : job'[v] = job[v]
    BY <1>2, <2>1 DEF Job
  <2>3. /\ staging'[w][b].journal = 0
        /\ \A d \in Ids \ {b} : staging'[w][d] = staging[w][d]
        /\ \A v \in Workers \ {w} : staging'[v] = staging[v]
    BY <1>2, <2>1 DEF Unstaged
  <2>4. back \in {"staged", "reconciled", "verify"}
    BY <1>2 DEF Agrees, Job
  <2>5. pc'[w] = back /\ \A v \in Workers \ {w} : pc'[v] = pc[v]
    BY <2>1 DEF Step, Sessions, SessionTypes
  <2>6. PushesItsOwn(w)'
    BY <1>3, <2>1, <2>2, <2>4, <2>5 DEF PushesItsOwn
  <2>7. ASSUME w \in Nightly, ~setting.fresh PROVE Settled(w)'
    <3>1. \A d \in done : d \in Published' /\ staging'[w][d].journal = 0
      <4>1. b \in Published
        BY <1>2, <2>1 DEF Agrees, Published
      <4>2. \A d \in job[w].completed : d \in Published /\ staging[w][d].journal = 0
        BY <2>7 DEF Pointing, Settled
      <4> QED BY <2>3, <4>1, <4>2, PublishedStays DEF Published
    <3>2. back # "staged" => \A d \in Ids :
            staging'[w][d].journal # 0 => releases[d].state = "absent"
      BY <1>1, <2>3, <2>7 DEF Pointing, Settled
    <3> QED BY <2>1, <2>2, <2>4, <2>5, <3>1, <3>2 DEF Settled, Completing
  <2>8. ASSUME w \in Nightly, Current(w)' PROVE LeavesThePointed(w)'
    <3>1. LeavesThePointed(w)
      BY <1>1, <1>2, <2>1, <2>8 DEF Current, Pointing
    <3> QED BY <1>1, <2>1, <2>2, <2>3, <2>4, <2>5, <3>1
          DEF LeavesThePointed, Completing
  <2>9. ~setting.fresh => w \in Nightly
    BY <1>2, OnlyNightlyRuns
  <2> QED BY <1>1, <2>1, <2>2, <2>3, <2>5, <2>6, <2>7, <2>8, <2>9, OneSessionPoints
<1> QED BY <1>5, <1>6, <1>7, <1>8, <1>9 DEF CompleteBuild

LEMMA BeginPoints ==
    ASSUME Sessions, Checkouts, Pointing, [PubNext]_pubVars, NEW w \in Workers,
           BeginNightly(w) \/ \E b \in Ids : BeginByHand(w, b)
    PROVE  Pointing'
<1> PICK o : o = [builds |-> origin.builds, latest |-> origin.latest,
                  base |-> origin.latest]
  OBVIOUS
<1>1. /\ UNCHANGED <<releases, origin, pointed, setting>>
      /\ w \in Nightly \/ w \in setting.operators
      /\ \/ /\ setting.fresh /\ tree' = [tree EXCEPT ![w] = o]
            /\ staging' = [staging EXCEPT ![w] = NoStaging]
         \/ /\ ~setting.fresh
            /\ tree' = [tree EXCEPT ![w].base = origin.latest]
            /\ UNCHANGED staging
      /\ Step(w, "drafts")
  BY DEF BeginNightly, BeginByHand, Begin, Remote, climate, history
<1>2. PICK j : /\ job' = [job EXCEPT ![w] = j] /\ j.completed = {}
               /\ j.command = "nightly" =>
                    w \in Nightly /\ j.phase = "stage" /\ j.target = 0
  <2>1. ASSUME NEW c, NEW p, NEW t, NEW s, Begin(w, c, p, t, s)
        PROVE  \E j : /\ job' = [job EXCEPT ![w] = j] /\ j.completed = {}
                      /\ j.command = c /\ j.phase = p /\ j.target = t
    <3> PICK j : j = [NoJob EXCEPT !.command = c, !.phase = p, !.target = t]
      OBVIOUS
    <3>1. job' = [job EXCEPT ![w] = j]
      BY <2>1 DEF Begin
    <3>2. j.completed = {} /\ j.command = c /\ j.phase = p /\ j.target = t
      BY DEF NoJob
    <3> QED BY <3>1, <3>2
  <2> QED BY <2>1 DEF BeginNightly, BeginByHand
<1>3. /\ tree \in [Workers -> Tree] /\ staging \in [Workers -> [Ids -> Staged]]
      /\ job \in [Workers -> Job]
  BY DEF Checkouts, Sessions, SessionTypes
<1>4. /\ pc'[w] = "drafts" /\ job'[w] = j
      /\ \A v \in Workers \ {w} : /\ pc'[v] = pc[v] /\ job'[v] = job[v]
                                  /\ tree'[v] = tree[v] /\ staging'[v] = staging[v]
  BY <1>1, <1>2, <1>3 DEF Step, Sessions, SessionTypes
<1>5. tree'[w].base = origin.latest
  BY <1>1, <1>3 DEF Tree
<1>6. ~setting.fresh => w \in Nightly
  BY <1>1, SessionsAssumption DEF SessionsAssumption, Sessions, SessionTypes
<1>7. PushesItsOwn(w)' /\ Settled(w)'
  BY <1>2, <1>4 DEF PushesItsOwn, Settled, Completing
<1>8. ASSUME NEW b \in Ids \cap pointed, w \in Nightly
      PROVE  Whole(tree'[w].builds[b]) /\ staging'[w][b].journal = 0
  <2>1. CASE setting.fresh
    <3>1. tree'[w].builds = origin.builds /\ staging'[w][b].journal = 0
      BY <1>1, <1>3, <2>1 DEF NoStaging, Unstaged
    <3> QED BY <3>1, ContentsAreNumbers DEF Pointing, PointedArePublic
  <2>2. CASE ~setting.fresh
    <3>1. LeavesThePointed(w)
      BY <1>8, <2>2 DEF Pointing, Current
    <3>2. tree'[w].builds = tree[w].builds /\ staging' = staging
      BY <1>1, <1>3, <2>2 DEF Tree
    <3> QED BY <3>1, <3>2 DEF LeavesThePointed
  <2> QED BY <2>1, <2>2
<1>9. w \in Nightly => LeavesThePointed(w)'
  BY <1>1, <1>2, <1>4, <1>8, ContentsAreNumbers DEF LeavesThePointed, Completing
<1> QED BY <1>1, <1>4, <1>5, <1>6, <1>7, <1>9, OneSessionPoints

(* Nothing a running session relies on changes.                            *)
LEMMA QuietPoints ==
    ASSUME Sessions, Pointing, [PubNext]_pubVars,
           UNCHANGED <<origin, pointed, setting, tree, pc, job>>,
           \A v \in Workers, b \in Ids :
             staging[v][b].journal = 0 => staging'[v][b].journal = 0,
           \A v \in Workers : pc[v] # "off" =>
             staging'[v] = staging[v] /\ releases' = releases
    PROVE  Pointing'
<1>1. PointedArePublic'
  BY PublishedStays DEF Pointing, PointedArePublic, Ahead
<1>2. \A w \in Workers : PushesItsOwn(w)'
  BY DEF Pointing, PushesItsOwn
<1>3. ASSUME NEW n \in Nightly PROVE n \in Workers
  BY PublicationAssumption DEF PublicationAssumption
<1>4. ASSUME NEW n \in Nightly, ~setting.fresh PROVE Settled(n)'
  <2>1. Settled(n)
    BY <1>4 DEF Pointing
  <2>2. \A b \in job[n].completed : b \in Published' /\ b \in Ids
                                    /\ staging'[n][b].journal = 0
    BY <1>3, <2>1, PublishedStays DEF Settled, Published
  <2> QED BY <1>3, <2>1, <2>2 DEF Settled, Completing
<1>5. ASSUME NEW n \in Nightly, Current(n)' PROVE LeavesThePointed(n)'
  <2>1. LeavesThePointed(n)
    BY <1>5 DEF Pointing, Current
  <2> QED BY <1>3, <2>1 DEF LeavesThePointed
<1> QED BY <1>1, <1>2, <1>4, <1>5 DEF Pointing

LEMMA OutsidePoints ==
    ASSUME Sessions, Pointing, [PubNext]_pubVars,
           \/ \E w \in Workers, b \in Ids : DamageJournal(w, b)
           \/ \E b \in Ids : DiscardDraft(b)
           \/ CalmDown \/ UNCHANGED pubVars
    PROVE  Pointing'
<1>1. staging \in [Workers -> [Ids -> Staged]]
  BY DEF Sessions, SessionTypes
<1>2. ASSUME NEW w \in Workers, NEW b \in Ids, DamageJournal(w, b)
      PROVE  Pointing'
  <2>1. /\ UNCHANGED <<releases, origin, pointed, setting, tree, pc, job>>
        /\ pc[w] = "off" /\ staging[w][b].journal # 0
        /\ staging' = [staging EXCEPT ![w][b].journal = Garbage]
    BY <1>2 DEF DamageJournal, Remote, session, climate, history
  <2>2. \A v \in Workers, d \in Ids :
          v # w \/ d # b => staging'[v][d] = staging[v][d]
    BY <1>1, <2>1
  <2>3. \A v \in Workers : v # w => staging'[v] = staging[v]
    BY <1>1, <2>1
  <2> QED BY <2>1, <2>2, <2>3, QuietPoints
<1>3. ASSUME NEW b \in Ids, DiscardDraft(b) PROVE Pointing'
  <2>1. /\ UNCHANGED <<origin, pointed, setting, tree, pc, job>>
        /\ \A v \in Workers : pc[v] = "off"
        /\ staging' = [w \in Workers |-> [staging[w] EXCEPT ![b] = Unstaged]]
    BY <1>3 DEF DiscardDraft, session, climate, history
  <2>2. \A v \in Workers, d \in Ids :
          staging'[v][d] = IF d = b THEN Unstaged ELSE staging[v][d]
    BY <1>1, <2>1
  <2> QED BY <2>1, <2>2, QuietPoints DEF Unstaged
<1>4. CASE CalmDown \/ UNCHANGED pubVars
  BY <1>4, QuietPoints
     DEF CalmDown, pubVars, Remote, local, session, climate, history
<1> QED BY <1>2, <1>3, <1>4

LEMMA PushPointsAnew ==
    ASSUME Sessions, Checkouts, Pointing, [PubNext]_pubVars, NEW w \in Workers,
           Push(w)
    PROVE  Pointing'
<1> PICK mine, now : /\ mine = tree[w]
                     /\ now = IF Repointed(w) THEN mine.latest ELSE origin.latest
  OBVIOUS
<1>1. /\ pc[w] = "push" /\ Mergeable(w) /\ EndSession(w)
      /\ origin'.builds = [b \in Ids |-> IF mine.builds[b] # 0
                                         THEN mine.builds[b] ELSE origin.builds[b]]
      /\ origin'.latest = now /\ pointed' = pointed \cup {now.build}
      /\ UNCHANGED <<releases, tree, staging, setting>>
  BY DEF Push, local, climate
<1>2. /\ pc'[w] = "off" /\ job'[w] = NoJob
      /\ \A v \in Workers \ {w} : pc'[v] = pc[v] /\ job'[v] = job[v]
  BY <1>1 DEF EndSession, Step, Sessions, SessionTypes
<1>3. PointedArePublic /\ PushesItsOwn(w) /\ Published' = Published
  BY <1>1 DEF Pointing, Published
<1>4. now.build = 0 \/ now.build \in pointed \/ Repointed(w)
  BY <1>3 DEF PointedArePublic, NoPointer
<1>5. ASSUME Repointed(w)
      PROVE  /\ now.build \in Published /\ Whole(mine.builds[now.build])
             /\ now.version > origin.latest.version
  <2>1. /\ origin.latest = mine.base /\ now = mine.latest /\ now # mine.base
        /\ now # NoPointer /\ mine.builds[now.build] = now.content
    BY <1>1, <1>3, <1>5 DEF Mergeable, Repointed, PushesItsOwn
  <2>2. Ahead(now, mine.base) /\ Names(now)
    BY <2>1 DEF Checkouts, Checkout
  <2>3. now.build \in Published /\ releases[now.build].journal = now.content
    BY <2>1, <2>2 DEF Names
  <2>4. now.content \in Contents
    BY <2>3 DEF Published, Sessions, SessionTypes, ReleasesAreWhole, Release
  <2> QED BY <2>1, <2>2, <2>3, <2>4 DEF Ahead, Whole
<1>6. /\ origin.latest.version \in Int /\ now.version \in Int
      /\ \A v \in Workers : tree[v].base.version \in Int
  BY FeedAssumption
     DEF Checkouts, Origin, Tree, Pointer, FeedAssumption
<1>7. PointedArePublic'
  <2>1. ASSUME NEW b \in pointed', b # 0
        PROVE  b \in Published /\ Whole(origin'.builds[b])
    <3>1. CASE b \in pointed
      <4>1. b \in Published /\ b \in Ids /\ Whole(origin.builds[b])
        BY <1>3, <2>1, <3>1 DEF PointedArePublic, Published
      <4>2. mine.builds[b] = 0 \/ mine.builds[b] = origin.builds[b]
        BY <1>1, <4>1, ContentsAreNumbers DEF Mergeable, Whole
      <4> QED BY <1>1, <4>1, <4>2
    <3>2. CASE b \notin pointed
      <4>1. b = now.build /\ Repointed(w)
        BY <1>1, <1>4, <2>1, <3>2
      <4>2. b \in Ids /\ b \in Published /\ Whole(mine.builds[b])
        BY <1>5, <4>1 DEF Published
      <4>3. origin'.builds[b] = mine.builds[b]
        BY <1>1, <4>2, ContentsAreNumbers DEF Whole
      <4> QED BY <4>2, <4>3
    <3> QED BY <3>1, <3>2
  <2>2. \A v \in Workers : Ahead(now, tree[v].base)
    BY <1>3, <1>5, <1>6 DEF PointedArePublic, Ahead
  <2> QED BY <1>1, <1>3, <2>1, <2>2 DEF PointedArePublic, Ahead
<1>8. ASSUME NEW v \in Workers PROVE PushesItsOwn(v)'
  <2>1. PushesItsOwn(v)
    BY DEF Pointing
  <2> QED BY <1>1, <1>2, <2>1 DEF PushesItsOwn, NoJob
<1>9. ASSUME NEW n \in Nightly, ~setting.fresh PROVE n = w
  BY <1>1, <1>9, OnlyNightlyRuns
<1>10. ASSUME NEW n \in Nightly, ~setting.fresh PROVE Settled(n)'
  BY <1>2, <1>9, <1>10 DEF Settled, NoJob, Completing
<1>11. ASSUME NEW n \in Nightly, Current(n)' PROVE LeavesThePointed(n)'
  <2>1. n \in Workers
    BY PublicationAssumption DEF PublicationAssumption
  <2>2. CASE n # w
    <3>1. setting.fresh /\ pc[n] # "off" /\ now = tree[n].base
      BY <1>1, <1>2, <1>9, <1>11, <2>1, <2>2 DEF Current
    <3>2. ~Repointed(w)
      BY <1>3, <1>5, <1>6, <2>1, <3>1 DEF PointedArePublic, Ahead
    <3>3. Current(n)
      BY <3>1, <3>2 DEF Current
    <3>4. LeavesThePointed(n) /\ Ids \cap pointed' = Ids \cap pointed
      BY <1>1, <1>4, <3>2, <3>3, ContentsAreNumbers DEF Pointing
    <3> QED BY <1>1, <1>2, <2>1, <2>2, <3>4 DEF LeavesThePointed
  <2>3. CASE n = w
    <3>1. ~setting.fresh /\ LeavesThePointed(w) /\ Settled(w)
      BY <1>1, <1>2, <1>11, <2>3 DEF Current, Pointing
    <3>2. ASSUME NEW b \in Ids \cap pointed'
          PROVE  Whole(tree[w].builds[b]) /\ staging[w][b].journal = 0
      <4>1. CASE b \in pointed
        BY <3>1, <3>2, <4>1 DEF LeavesThePointed
      <4>2. CASE b \notin pointed
        <5>1. b = now.build /\ Repointed(w)
          BY <1>1, <1>4, <3>2, <4>2, ContentsAreNumbers
        <5>2. Whole(mine.builds[b]) /\ releases[b].state = "published"
          BY <1>5, <5>1 DEF Published
        <5> QED BY <1>1, <3>1, <3>2, <5>2 DEF Settled, Completing
      <4> QED BY <4>1, <4>2
    <3> QED BY <1>1, <1>2, <2>3, <3>2 DEF LeavesThePointed, NoJob
  <2> QED BY <2>2, <2>3
<1> QED BY <1>1, <1>7, <1>8, <1>10, <1>11 DEF Pointing

LEMMA FinishPoints ==
    ASSUME Sessions, Checkouts, Pointing, [PubNext]_pubVars, NEW w \in Workers,
           Finish(w) \/ Abort(w)
    PROVE  Pointing'
<1>1. PushesItsOwn(w)
  BY DEF Pointing
<1>2. CASE Repoint(w)
  <2> PICK b, k : b = job[w].target /\ k = tree[w].builds[b]
    OBVIOUS
  <2>1. /\ pc[w] = "repoint" /\ Step(w, "verify") /\ Mint(w, b, k)
        /\ Whole(tree[w].builds[b])
        /\ UNCHANGED <<releases, origin, pointed, setting, staging, job>>
    BY <1>2 DEF Repoint, RollbackVerifies, Remote, climate, history
  <2>2. b \in Ids /\ job[w].phase = "rollback"
    BY <2>1 DEF Sessions, Session, Aims
  <2>3. b \in Published /\ k = releases[b].journal
    BY <2>1, <2>2 DEF Checkouts, Checkout, Commits
  <2>4. /\ \A v \in Workers \ {w} : tree'[v] = tree[v]
        /\ tree'[w].builds = tree[w].builds /\ tree'[w].base = tree[w].base
    BY <2>1, <2>3, MintIsNewer
  <2>5. PushesItsOwn(w)'
    BY <1>1, <2>1, <2>2 DEF PushesItsOwn, Step, Sessions, SessionTypes
  <2> QED BY <2>1, <2>4, <2>5, SessionPoints DEF Completing
<1>3. CASE Verify(w)
  <2>1. /\ pc[w] = "verify" /\ Step(w, "push") /\ tree[w].latest # NoPointer
        /\ tree[w].builds[tree[w].latest.build] = tree[w].latest.content
        /\ UNCHANGED <<releases, origin, pointed, setting, staging, job, tree>>
    BY <1>3 DEF Verify, Remote, local, climate, history
  <2>2. PushesItsOwn(w)'
    BY <1>1, <2>1 DEF PushesItsOwn, Step, Sessions, SessionTypes
  <2> QED BY <2>1, <2>2, SessionPoints DEF Completing
<1>4. CASE Abort(w)
  BY <1>4, EndPoints DEF Abort, Remote, local, climate, history
<1> QED BY <1>2, <1>3, <1>4, PushPointsAnew DEF Finish

LEMMA StepKeepsPointing ==
    ASSUME Sessions, Checkouts, Pointing, [PubNext]_pubVars
    PROVE  Pointing'
<1>1. ASSUME NEW w \in Workers, Work(w) PROVE Pointing'
  BY <1>1, BeginPoints, ReconcilePoints, StagePoints, CompletingPoints,
     FinishPoints DEF Work
<1>2. ASSUME NEW w \in Workers, UploadFails(w) PROVE Pointing'
  BY <1>2, CompletingPoints
<1>3. ASSUME NEW w \in Workers, NEW b \in Ids, BeginByHand(w, b) PROVE Pointing'
  BY <1>3, BeginPoints
<1> QED BY <1>1, <1>2, <1>3, OutsidePoints DEF PubNext

LEMMA InitHasPointing == PubInit => Pointing
<1> SUFFICES ASSUME PubInit PROVE Pointing
  OBVIOUS
<1>1. PointedArePublic
  BY DEF PubInit, PointedArePublic, Ahead
<1>2. ASSUME NEW w \in Workers
      PROVE  PushesItsOwn(w) /\ Settled(w) /\ LeavesThePointed(w)
  BY DEF PubInit, PushesItsOwn, Settled, LeavesThePointed, NoJob, Completing
<1> QED BY <1>1, <1>2, PublicationAssumption DEF Pointing, PublicationAssumption

(* No nightly undoes a rollback, whatever an operator, a crash or a left   *)
(* over directory brings: where a nightly session moves latest.json to was *)
(* never pointed at before (reconcile_inflight, publish/build.py).         *)
THEOREM NightlyNeverGoesBack == PubSpec => NightlyNeverRepoints
<1>1. PubInit => Sessions /\ Checkouts /\ Pointing
  BY InitHasSessions, InitHasCheckouts, InitHasPointing
<1>2. Sessions /\ Checkouts /\ Pointing /\ [PubNext]_pubVars
        => (Sessions /\ Checkouts /\ Pointing)'
  BY StepKeepsSessions, StepKeepsCheckouts, StepKeepsPointing
<1>3. ASSUME Sessions, Checkouts, Pointing, NEW w \in Workers,
             job[w].command = "nightly", Push(w), origin'.latest # origin.latest
      PROVE  origin'.latest.build \notin pointed
  <2>1. /\ pc[w] = "push" /\ Mergeable(w) /\ Repointed(w)
        /\ origin'.latest = tree[w].latest
    BY <1>3 DEF Push
  <2>2. /\ w \in Nightly /\ tree[w].latest.build \in job[w].completed
    BY <1>3, <2>1 DEF Pointing, PushesItsOwn
  <2>3. Current(w)
    BY <2>1 DEF Current, Mergeable
  <2>4. tree[w].latest.build \in Ids
    <3>1. job[w] \in Job
      BY <1>3 DEF Sessions, SessionTypes
    <3> QED BY <2>2, <3>1 DEF Job
  <2> QED BY <1>3, <2>1, <2>2, <2>3, <2>4 DEF Pointing, LeavesThePointed
<1>4. Sessions /\ Checkouts /\ Pointing /\ [PubNext]_pubVars =>
        [\A w \in Workers :
           /\ job[w].command = "nightly"
           /\ Push(w)
           /\ origin'.latest # origin.latest
           => origin'.latest.build \notin pointed]_pubVars
  BY <1>3
<1> QED BY <1>1, <1>2, <1>4, PTL DEF PubSpec, NightlyNeverRepoints

=============================================================================
