---------------------------- MODULE OperationsProofs ----------------------------
(***************************************************************************)
(* Proofs about what operations rest on, two machines that share nothing:  *)
(* the deployment of a site with its records, and the runner.              *)
(***************************************************************************)
EXTENDS DeploymentRecord, RunnerController, WellFoundedInduction, TLAPS

-----------------------------------------------------------------------------
(* Minima and maxima of bounded sets of naturals.                          *)

(* Min returns a member: publish's choice of an unused build is one.       *)
LEMMA MinInSet ==
    ASSUME NEW S \in SUBSET Nat, S # {}
    PROVE  Min(S) \in S /\ \A y \in S : Min(S) <= y
<1>1. PICK x \in S : \A y \in S : ~(<<y, x>> \in OpToRel(<, Nat))
  BY NatLessThanWellFounded, WFMin
<1>2. \A y \in S : ~(y < x)
  BY <1>1, Zenon DEF OpToRel
<1>3. \A y \in S : x <= y
  BY <1>2
<1> QED
  BY <1>3, Zenon DEF Min

(* Max returns a member, by the same fact about the distances from n: the  *)
(* anchor that _resolve_serving_anchor finds is a deployment.              *)
LEMMA MaxInSet ==
    ASSUME NEW n \in Nat, NEW S \in SUBSET (0..n), S # {}
    PROVE  Max(S) \in S
<1> DEFINE T == {n - x : x \in S}
<1>1. T \subseteq Nat
  OBVIOUS
<1>2. T # {}
  <2>1. PICK x \in S : TRUE
    OBVIOUS
  <2>2. n - x \in T
    BY <2>1
  <2> QED
    BY <2>2
<1>3. Min(T) \in T /\ \A y \in T : Min(T) <= y
  <2> HIDE DEF T
  <2> QED
    BY <1>1, <1>2, MinInSet
<1>4. PICK x \in S : Min(T) = n - x
  BY <1>3
<1>5. \A y \in S : x >= y
  BY <1>3, <1>4
<1> QED
  BY <1>5, Zenon DEF Max

-----------------------------------------------------------------------------
(* What has a type: the site's variables.                                  *)

Maybe == Identity \cup {Nothing}

Deployments == [step : Steps, sealed : Maybe, served : Maybe, anchor : Nat,
                head : Nat, seen : Maybe, before : Nat, own : Nat, tries : Nat,
                outcome : Outcomes]

SiteTypes ==
    /\ pages \in Seq(Identity)
    /\ serving \in 0..Len(pages) /\ edge \in 0..Len(pages)
    /\ late \in Maybe
    /\ deploy \in Deployments
    /\ deploy.anchor <= Len(pages)

(* A first run never gets an anchor, and every other one has it before the *)
(* upload.  From the upload on, what was replaced is what the anchor       *)
(* serves; once production was rolled back, it stands at the anchor unless *)
(* somebody else moved it.                                                 *)
Touching == {"upload", "await", "verify", "reconcile", "relook", "recount",
             "compensate", "confirm"}

RolledBack == deploy.step = "confirm" \/ deploy.outcome = "restored"

Anchored ==
    /\ deploy.step \in Touching /\ deploy.anchor # 0 =>
         replaced = pages[deploy.anchor]
    /\ RolledBack => /\ deploy.anchor # 0 /\ replaced = pages[deploy.anchor]
                     /\ ~disturbed => serving = deploy.anchor
    /\ deploy.step # "done" => deploy.outcome = "none"

(* Until the upload nothing anywhere carries the sealed identity; after it *)
(* every deployment that does is an upload of this run.  A run that undoes *)
(* something has uploaded.                                                 *)
Undoing == {"await", "verify", "relook", "recount", "compensate", "confirm"}

Unseen(i) == late # i /\ \A d \in 1..Len(pages) : pages[d] # i

Owned ==
    /\ deploy.step \in BeforeUpload \cup {"upload"} =>
         Unseen(deploy.sealed)
    /\ deploy.step \in Touching =>
         /\ deploy.sealed \in Identity
         /\ \A d \in 1..Len(pages) : pages[d] = deploy.sealed => d \in mine
    /\ deploy.step \in BeforeUpload => deploy.sealed \in Identity
    /\ deploy.step \in Undoing => mine # {}

SiteSafe == SiteTypes /\ Anchored /\ Owned

(* What the domain answers is an identity or nothing.                      *)
LEMMA DomainType == SiteTypes => Domain \in Maybe
BY DEF SiteTypes, Domain, Maybe

LEMMA StepNames ==
    /\ "idle" \in Steps /\ "resolve" \in Steps /\ "walk" \in Steps
    /\ "prove" \in Steps /\ "bracket" \in Steps /\ "observe" \in Steps
    /\ "close" \in Steps /\ "reprobe" \in Steps /\ "preview" \in Steps
    /\ "seal" \in Steps /\ "reprove" \in Steps /\ "upload" \in Steps
    /\ "await" \in Steps /\ "verify" \in Steps /\ "reconcile" \in Steps
    /\ "relook" \in Steps /\ "recount" \in Steps /\ "compensate" \in Steps
    /\ "confirm" \in Steps /\ "done" \in Steps
    /\ "none" \in Outcomes /\ "untouched" \in Outcomes /\ "live" \in Outcomes
    /\ "not_promoted" \in Outcomes /\ "uncertain" \in Outcomes
    /\ "uncompensated" \in Outcomes /\ "restored" \in Outcomes
    /\ "not_restored" \in Outcomes /\ "killed" \in Outcomes
BY DEF Steps, Outcomes, BeforeUpload

-----------------------------------------------------------------------------
(* The steps of a run that change nothing but the run.                     *)

(* What such a step may do to the run's record.                            *)
RunMoves ==
    /\ deploy' \in Deployments
    /\ deploy'.sealed = deploy.sealed
    /\ deploy'.anchor <= Len(pages)
    /\ deploy'.step # "idle" /\ deploy.step # "done" /\ deploy.step # "idle"
    /\ deploy'.step \in BeforeUpload \cup {"upload"} => deploy.step \in BeforeUpload
    /\ deploy'.step \in Undoing => mine # {}
    /\ deploy'.step \in Touching =>
         deploy.step \in Touching \/ (deploy'.step = "upload" /\ deploy'.anchor = 0)
    /\ deploy.step \in Touching => deploy'.anchor = deploy.anchor
    /\ deploy'.step = "confirm" \/ deploy'.outcome = "restored" =>
         deploy.step = "confirm"
    /\ deploy'.step # "done" => deploy'.outcome = "none"

LEMMA RunMovesKeepSafe ==
    ASSUME SiteSafe, RunMoves, UNCHANGED <<provider, history>>
    PROVE  SiteSafe'
<1>1. UNCHANGED <<pages, serving, edge, late, mine, replaced, disturbed>>
  BY DEF provider, history
<1>2. SiteTypes'
  BY <1>1 DEF SiteSafe, SiteTypes, RunMoves
<1>3. Anchored'
  BY <1>1 DEF SiteSafe, Anchored, RunMoves, RolledBack, Touching
<1>4. Owned'
  <2>1. deploy.step \in BeforeUpload \cup Touching => deploy.sealed \in Identity
    BY DEF SiteSafe, Owned
  <2>2. ASSUME deploy'.step \in BeforeUpload \cup {"upload"}
        PROVE  deploy.sealed \in Identity /\ Unseen(deploy.sealed)
    BY <2>1, <2>2 DEF SiteSafe, Owned, RunMoves
  <2>3. Unseen(deploy.sealed)' <=> Unseen(deploy.sealed)
    BY <1>1 DEF Unseen, RunMoves
  <2>4. ASSUME deploy'.step \in Touching
        PROVE  /\ deploy.sealed \in Identity
               /\ \A d \in 1..Len(pages) : pages[d] = deploy.sealed => d \in mine
    <3>1. CASE deploy.step \in Touching
      BY <3>1 DEF SiteSafe, Owned
    <3>2. CASE deploy'.step = "upload"
      BY <2>2, <3>2 DEF Unseen
    <3> QED BY <2>4, <3>1, <3>2 DEF RunMoves
  <2>5. deploy'.step \in Undoing => mine # {}
    BY DEF RunMoves
  <2>6. deploy'.sealed = deploy.sealed
    BY DEF RunMoves
  <2> QED
    BY <1>1, <2>2, <2>3, <2>4, <2>5, <2>6 DEF Owned
<1> QED BY <1>2, <1>3, <1>4 DEF SiteSafe

(* The run's record after its step, and its outcome, were assigned.        *)
LEMMA GotoChanges ==
    ASSUME deploy \in Deployments, NEW s \in Steps, Goto(s)
    PROVE  /\ deploy' \in Deployments /\ deploy'.step = s
           /\ deploy'.sealed = deploy.sealed /\ deploy'.anchor = deploy.anchor
           /\ deploy'.outcome = deploy.outcome
BY DEF Deployments, Goto

LEMMA EndChanges ==
    ASSUME deploy \in Deployments, NEW o \in Outcomes, End(o)
    PROVE  /\ deploy' \in Deployments /\ deploy'.step = "done"
           /\ deploy'.sealed = deploy.sealed /\ deploy'.anchor = deploy.anchor
           /\ deploy'.outcome = o
BY StepNames DEF Deployments, End

(* Then a move is judged by the two steps alone.                           *)
Moves(s, t) == Goto(t) /\ deploy.step = s

LEMMA GotoMoves ==
    ASSUME SiteSafe, NEW s \in Steps, NEW t \in Steps \ {"idle", "done"},
           Moves(s, t), s # "idle", s # "done",
           t \in BeforeUpload \cup {"upload"} => s \in BeforeUpload,
           t \in Undoing => mine # {},
           t \in Touching => s \in Touching,
           t # "confirm"
    PROVE  RunMoves
<1>0. /\ deploy \in Deployments /\ deploy.anchor <= Len(pages)
      /\ deploy.step # "done" => deploy.outcome = "none"
  BY DEF SiteSafe, SiteTypes, Anchored
<1>1. "none" # "restored"
  OBVIOUS
<1> QED BY <1>0, <1>1, GotoChanges DEF Moves, RunMoves

LEMMA EndMoves ==
    ASSUME SiteSafe, NEW o \in Outcomes, End(o),
           deploy.step # "idle", deploy.step # "done",
           o = "restored" => deploy.step = "confirm"
    PROVE  RunMoves
<1>0. deploy \in Deployments /\ deploy.anchor <= Len(pages)
  BY DEF SiteSafe, SiteTypes
<1> QED
  BY <1>0, EndChanges DEF RunMoves, BeforeUpload, Undoing, Touching

(* Up to the upload: the anchor is found, and proved to serve.             *)
LEMMA PreparingMoves ==
    ASSUME SiteSafe,
           Resolve \/ Walk \/ Prove \/ Bracket \/ Observe \/ Close \/ Reprobe
             \/ Preview \/ Seal \/ Abort
    PROVE  RunMoves /\ UNCHANGED <<provider, history>>
<1>0. /\ deploy \in Deployments /\ deploy.anchor <= Len(pages)
      /\ Len(pages) \in Nat
      /\ deploy.step # "done" => deploy.outcome = "none"
      /\ Domain \in Maybe
  BY DomainType DEF SiteSafe, SiteTypes, Anchored
<1>00. deploy \in Deployments
  BY <1>0
<1>01. Domain \in Maybe
  BY <1>0
<1>02. Len(pages) \in Nat
  BY <1>0
<1> DEFINE Preparing(t) ==
      /\ deploy' \in Deployments /\ deploy'.step = t
      /\ deploy'.sealed = deploy.sealed /\ deploy'.outcome = deploy.outcome
      /\ deploy'.anchor \in 0..Len(pages)
<1>1. ASSUME NEW t \in BeforeUpload \cup {"upload"}, Preparing(t),
             deploy.step \in BeforeUpload,
             t = "upload" => deploy'.anchor = 0
      PROVE  RunMoves
  BY <1>0, <1>1 DEF RunMoves, BeforeUpload, Undoing, Touching
<1>2. ASSUME NEW t \in BeforeUpload, Goto(t), deploy.step \in BeforeUpload
      PROVE  RunMoves
  <2>1. t \in Steps
    BY <1>2 DEF Steps
  <2>2. Preparing(t)
    BY <1>0, <1>2, <2>1, GotoChanges DEF Deployments
  <2>3. t # "upload"
    BY <1>2 DEF BeforeUpload
  <2> QED BY <1>1, <1>2, <2>2, <2>3
<1>3. CASE Resolve
  <2>0. deploy.step \in BeforeUpload /\ UNCHANGED <<provider, history>>
    BY <1>3 DEF Resolve, Unmoved, BeforeUpload
  <2>1. CASE Goto("preview")
    BY <1>2, <2>0, <2>1 DEF BeforeUpload
  <2>2. CASE deploy' = [deploy EXCEPT !.step = "walk", !.served = Domain]
    <3>1. Preparing("walk")
      <4>1. "walk" \in Steps
        BY StepNames
      <4>2. /\ deploy' \in Deployments /\ deploy'.step = "walk"
            /\ deploy'.sealed = deploy.sealed /\ deploy'.outcome = deploy.outcome
            /\ deploy'.anchor = deploy.anchor
        BY <1>00, <1>01, <2>2, <4>1 DEF Deployments
      <4> QED BY <1>0, <4>2 DEF Deployments
    <3> QED BY <1>1, <2>0, <3>1 DEF BeforeUpload
  <2> QED BY <1>3, <2>1, <2>2 DEF Resolve
<1>4. CASE Walk
  <2> DEFINE newest == {d \in 1..Len(pages) : d > Len(pages) - SearchLimit}
             found == {d \in newest : pages[d] = deploy.served}
  <2>0. deploy.step \in BeforeUpload /\ UNCHANGED <<provider, history>>
    BY <1>4 DEF Walk, Unmoved, BeforeUpload
  <2>1. found # {} /\ deploy' = [deploy EXCEPT !.step = "prove", !.anchor = Max(found)]
    BY <1>4 DEF Walk
  <2>2. found \in SUBSET (0..Len(pages))
    BY <1>0
  <2> HIDE DEF found
  <2>3. Max(found) \in 0..Len(pages)
    BY <1>0, <2>1, <2>2, MaxInSet
  <2>4. Preparing("prove")
    <3>1. "prove" \in Steps /\ Max(found) \in Nat
      BY <1>0, <2>3, StepNames
    <3>2. /\ deploy' \in Deployments /\ deploy'.step = "prove"
          /\ deploy'.sealed = deploy.sealed /\ deploy'.outcome = deploy.outcome
          /\ deploy'.anchor = Max(found)
      BY <1>00, <2>1, <3>1 DEF Deployments
    <3> QED BY <2>3, <3>2
  <2> QED BY <1>1, <2>0, <2>4 DEF BeforeUpload
<1>5. ASSUME NEW t \in BeforeUpload, Prove \/ Close \/ Reprobe \/ Preview, Goto(t)
      PROVE  RunMoves /\ UNCHANGED <<provider, history>>
  BY <1>2, <1>5 DEF Prove, Close, Reprobe, Preview, Unmoved, BeforeUpload
<1>6. CASE Prove \/ Close \/ Reprobe \/ Preview
  <2>1. \E t \in BeforeUpload : Goto(t)
    BY <1>6 DEF Prove, Close, Reprobe, Preview, BeforeUpload
  <2> QED BY <1>5, <1>6, <2>1
<1>7. CASE Bracket \/ Observe
  <2>0. deploy.step \in BeforeUpload /\ UNCHANGED <<provider, history>>
    BY <1>7 DEF Bracket, Observe, Unmoved, BeforeUpload
  <2>1. Preparing("observe") \/ Preparing("close")
    <3>1. "observe" \in Steps /\ "close" \in Steps
      BY StepNames
    <3>2. CASE Bracket
      <4>1. deploy' = [deploy EXCEPT !.step = "observe", !.head = Len(pages)]
        BY <3>2 DEF Bracket
      <4>2. /\ deploy' \in Deployments /\ deploy'.step = "observe"
            /\ deploy'.sealed = deploy.sealed /\ deploy'.outcome = deploy.outcome
            /\ deploy'.anchor = deploy.anchor
        BY <1>00, <1>02, <3>1, <4>1 DEF Deployments
      <4> QED BY <1>0, <4>2 DEF Deployments
    <3>3. CASE Observe
      <4>1. deploy' = [deploy EXCEPT !.step = "close", !.seen = Domain]
        BY <3>3 DEF Observe
      <4>2. /\ deploy' \in Deployments /\ deploy'.step = "close"
            /\ deploy'.sealed = deploy.sealed /\ deploy'.outcome = deploy.outcome
            /\ deploy'.anchor = deploy.anchor
        BY <1>00, <1>01, <3>1, <4>1 DEF Deployments
      <4> QED BY <1>0, <4>2 DEF Deployments
    <3> QED BY <1>7, <3>2, <3>3
  <2> QED BY <1>1, <2>0, <2>1 DEF BeforeUpload
<1>8. CASE Seal
  <2>0. deploy.step \in BeforeUpload /\ UNCHANGED <<provider, history>>
    BY <1>8 DEF Seal, Unmoved, BeforeUpload
  <2>1. CASE deploy.anchor = 0
    <3>1. Preparing("upload") /\ deploy'.anchor = 0
      <4>1. "upload" \in Steps
        BY StepNames
      <4>2. deploy' = [deploy EXCEPT !.before = Len(pages), !.step = "upload"]
        BY <1>8, <2>1 DEF Seal
      <4>3. /\ deploy' \in Deployments /\ deploy'.step = "upload"
            /\ deploy'.sealed = deploy.sealed /\ deploy'.outcome = deploy.outcome
            /\ deploy'.anchor = deploy.anchor
        BY <1>00, <1>02, <4>1, <4>2 DEF Deployments
      <4> QED BY <1>0, <2>1, <4>3 DEF Deployments
    <3> QED BY <1>1, <2>0, <3>1
  <2>2. CASE deploy.anchor # 0
    <3>1. Preparing("reprove")
      <4>1. "reprove" \in Steps
        BY StepNames
      <4>2. deploy' = [deploy EXCEPT !.before = Len(pages), !.step = "reprove"]
        BY <1>8, <2>2 DEF Seal
      <4>3. /\ deploy' \in Deployments /\ deploy'.step = "reprove"
            /\ deploy'.sealed = deploy.sealed /\ deploy'.outcome = deploy.outcome
            /\ deploy'.anchor = deploy.anchor
        BY <1>00, <1>02, <4>1, <4>2 DEF Deployments
      <4> QED BY <1>0, <4>3 DEF Deployments
    <3> QED BY <1>1, <2>0, <3>1 DEF BeforeUpload
  <2> QED BY <2>1, <2>2
<1>9. CASE Abort
  <2>1. /\ deploy.step \in BeforeUpload /\ End("untouched")
        /\ UNCHANGED <<provider, history>>
    BY <1>9 DEF Abort, Unmoved
  <2>2. deploy.step # "idle" /\ deploy.step # "done"
    BY <2>1 DEF BeforeUpload
  <2> QED BY <2>1, <2>2, EndMoves, StepNames
<1> QED BY <1>3, <1>4, <1>6, <1>7, <1>8, <1>9

(* After it: only a promotion of the run's own is to be undone.            *)
LEMMA JudgingMoves ==
    ASSUME SiteSafe, Await \/ Verify \/ Reconcile \/ Relook \/ Recount \/ Confirm
                       \/ Killed
    PROVE  RunMoves /\ UNCHANGED <<provider, history>>
<1>0. /\ deploy \in Deployments /\ deploy.anchor <= Len(pages)
      /\ deploy.step # "done" => deploy.outcome = "none"
      /\ deploy.step \in Undoing => mine # {}
  BY DEF SiteSafe, SiteTypes, Anchored, Owned
<1>1. UNCHANGED <<provider, history>>
  BY DEF Await, Verify, Reconcile, Relook, Recount, Confirm, Killed, Unmoved
<1>2. ASSUME NEW s \in Touching, NEW t \in Touching, Moves(s, t), mine # {},
             t # "upload", t # "confirm"
      PROVE  RunMoves
  <2>1. s \in Steps /\ t \in Steps \ {"idle", "done"} /\ s # "idle" /\ s # "done"
    BY <1>2 DEF Touching, Steps
  <2>2. t \notin BeforeUpload \cup {"upload"}
    BY <1>2 DEF Touching, BeforeUpload
  <2> QED BY <1>2, <2>1, <2>2, GotoMoves
<1>3. ASSUME deploy.step # "idle", deploy.step # "done",
             NEW o \in Outcomes, End(o), o = "restored" => deploy.step = "confirm"
      PROVE  RunMoves
  BY <1>3, EndMoves
<1>4. ASSUME deploy' = [deploy EXCEPT !.tries = @ + 1],
             deploy.step \in {"verify", "confirm"}
      PROVE  RunMoves
  <2>1. /\ deploy' \in Deployments /\ deploy'.step = deploy.step
        /\ deploy'.sealed = deploy.sealed /\ deploy'.anchor = deploy.anchor
        /\ deploy'.outcome = deploy.outcome
    BY <1>0, <1>4 DEF Deployments
  <2> QED BY <1>0, <1>4, <2>1 DEF RunMoves, BeforeUpload, Touching, Undoing
<1>5. CASE Await
  <2>1. mine # {}
    BY <1>0, <1>5 DEF Await, Undoing
  <2> QED BY <1>1, <1>2, <1>5, <2>1 DEF Await, Moves, Touching
<1>6. CASE Verify
  <2>1. mine # {} /\ deploy.step = "verify"
    BY <1>0, <1>6 DEF Verify, Undoing
  <2>2. CASE End("live")
    BY <1>1, <1>3, <2>1, <2>2, StepNames
  <2>3. CASE deploy' = [deploy EXCEPT !.tries = @ + 1]
    BY <1>1, <1>4, <2>1, <2>3
  <2>4. CASE Goto("compensate") \/ Goto("reconcile")
    BY <1>1, <1>2, <2>1, <2>4 DEF Touching, Moves
  <2> QED BY <1>6, <2>2, <2>3, <2>4 DEF Verify
<1>7. CASE Reconcile
  <2>1. deploy.step = "reconcile"
    BY <1>7 DEF Reconcile
  <2>2. CASE End("not_promoted") \/ End("uncertain")
    BY <1>1, <1>3, <2>1, <2>2, StepNames
  <2>3. ASSUME NEW d \in Since, IsOurs(d), Goto("relook")
        PROVE  RunMoves
    <3>1. d \in mine
      BY <2>1, <2>3 DEF Since, IsOurs, SiteSafe, Owned, Touching
    <3> QED BY <1>2, <2>1, <2>3, <3>1 DEF Touching, Moves
  <2> QED BY <1>1, <1>7, <2>2, <2>3 DEF Reconcile
<1>8. CASE Relook \/ Recount
  <2>1. mine # {} /\ deploy.step \in {"relook", "recount"}
    BY <1>0, <1>8 DEF Relook, Recount, Undoing
  <2>2. CASE Goto("recount") \/ Goto("compensate")
    BY <1>1, <1>2, <2>1, <2>2 DEF Touching, Moves
  <2>3. CASE End("uncertain")
    BY <1>1, <1>3, <2>1, <2>3, StepNames
  <2> QED BY <1>8, <2>2, <2>3 DEF Relook, Recount
<1>9. CASE Confirm
  <2>1. deploy.step = "confirm"
    BY <1>9 DEF Confirm
  <2>2. CASE End("restored") \/ End("not_restored")
    BY <1>1, <1>3, <2>1, <2>2, StepNames
  <2>3. CASE deploy' = [deploy EXCEPT !.tries = @ + 1]
    BY <1>1, <1>4, <2>1, <2>3
  <2> QED BY <1>9, <2>2, <2>3 DEF Confirm
<1>10. CASE Killed
  <2>1. deploy.step # "idle" /\ deploy.step # "done" /\ End("killed")
    BY <1>10 DEF Killed
  <2> QED BY <1>1, <1>3, <2>1, StepNames
<1> QED BY <1>5, <1>6, <1>7, <1>8, <1>9, <1>10

-----------------------------------------------------------------------------
(* The steps that move production.                                         *)

(* A deployment is added behind the ones that exist, which do not change.  *)
LEMMA PromoteAppends ==
    ASSUME pages \in Seq(Identity), NEW i \in Identity, Promote(i)
    PROVE  /\ Len(pages) \in Nat
           /\ pages' \in Seq(Identity) /\ Len(pages') = Len(pages) + 1
           /\ \A d \in 1..Len(pages) : pages'[d] = pages[d]
           /\ pages'[Len(pages) + 1] = i
           /\ serving' = Len(pages) + 1
BY DEF Promote

(* Whoever looked at the domain last before the upload saw the anchor.     *)
LEMMA ReproveKeepsSafe ==
    ASSUME SiteSafe, Reprove PROVE SiteSafe'
<1>0. deploy \in Deployments /\ "upload" \in Steps
  BY StepNames DEF SiteSafe, SiteTypes
<1>1. /\ deploy.step = "reprove" /\ Goto("upload")
      /\ UNCHANGED <<pages, serving, edge, late, mine>>
      /\ replaced' = Domain /\ Domain = pages[deploy.anchor]
  BY DEF Reprove, AnchorServes, provider
<1>2. /\ deploy' \in Deployments /\ deploy'.step = "upload"
      /\ deploy'.sealed = deploy.sealed /\ deploy'.anchor = deploy.anchor
      /\ deploy'.outcome = deploy.outcome
  BY <1>0, <1>1, GotoChanges
<1>3. deploy.outcome = "none"
  BY <1>1 DEF SiteSafe, Anchored
<1>4. SiteTypes'
  BY <1>1, <1>2 DEF SiteSafe, SiteTypes
<1>5. Anchored'
  BY <1>1, <1>2, <1>3 DEF Anchored, RolledBack
<1>6. deploy.sealed \in Identity /\ Unseen(deploy.sealed)
  BY <1>1 DEF SiteSafe, Owned, BeforeUpload
<1>7. Owned'
  BY <1>1, <1>2, <1>6 DEF Owned, Unseen, Undoing, BeforeUpload
<1> QED BY <1>4, <1>5, <1>7 DEF SiteSafe

(* The upload is the first deployment of what is sealed.                   *)
LEMMA UploadedKeepsSafe ==
    ASSUME SiteSafe, deploy.step = "upload",
           NEW s \in {"await", "reconcile"}, NEW id \in Nat, Uploaded(s, id)
    PROVE  SiteSafe'
<1>0. /\ pages \in Seq(Identity) /\ deploy \in Deployments
      /\ deploy.anchor \in Nat /\ deploy.anchor <= Len(pages)
      /\ deploy.outcome = "none" /\ s \in Steps
      /\ edge \in 0..Len(pages) /\ late \in Maybe
  BY StepNames DEF SiteSafe, SiteTypes, Anchored, Deployments
<1>1. deploy.sealed \in Identity /\ Unseen(deploy.sealed)
  BY DEF SiteSafe, Owned, Touching
<1>2. /\ Len(pages) \in Nat
      /\ pages' \in Seq(Identity) /\ Len(pages') = Len(pages) + 1
      /\ \A d \in 1..Len(pages) : pages'[d] = pages[d]
      /\ serving' = Len(pages) + 1
  BY <1>0, <1>1, PromoteAppends DEF Uploaded
<1>3. deploy' = [deploy EXCEPT !.step = s, !.own = id]
  BY DEF Uploaded
<1>4. deploy \in Deployments
  BY <1>0
<1>5. /\ deploy' \in Deployments /\ deploy'.step = s
      /\ deploy'.sealed = deploy.sealed /\ deploy'.anchor = deploy.anchor
      /\ deploy'.outcome = deploy.outcome
  <2>1. s \in Steps
    BY <1>0
  <2> QED BY <1>3, <1>4, <2>1 DEF Deployments
<1>6. mine' = {Len(pages) + 1} /\ UNCHANGED <<edge, late, replaced, disturbed>>
  BY DEF Uploaded
<1>7. SiteTypes'
  BY <1>0, <1>2, <1>5, <1>6 DEF SiteTypes
<1>8. deploy.anchor # 0 => replaced = pages[deploy.anchor]
  BY DEF SiteSafe, Anchored, Touching
<1>9. Anchored'
  BY <1>0, <1>2, <1>5, <1>6, <1>8 DEF Anchored, RolledBack, Touching
<1>10. \A d \in 1..Len(pages') : pages'[d] = deploy.sealed => d \in mine'
  BY <1>1, <1>2, <1>6 DEF Unseen
<1>11. Owned'
  BY <1>1, <1>5, <1>6, <1>10 DEF Owned, BeforeUpload
<1> QED BY <1>7, <1>9, <1>11 DEF SiteSafe

LEMMA UploadKeepsSafe ==
    ASSUME SiteSafe, Upload PROVE SiteSafe'
<1>0. /\ deploy \in Deployments /\ "reconcile" \in Steps /\ deploy.step = "upload"
      /\ Len(pages) + 1 \in Nat
  BY StepNames DEF SiteSafe, SiteTypes, Upload
<1>1. CASE Uploaded("await", Len(pages) + 1) \/ Uploaded("reconcile", 0)
  BY <1>0, <1>1, UploadedKeepsSafe
<1>2. CASE Goto("reconcile") /\ Unmoved
  <2>1. RunMoves
    BY <1>0, <1>2, StepNames, GotoMoves
      DEF Moves, BeforeUpload, Undoing, Touching
  <2> QED BY <1>2, <2>1, RunMovesKeepSafe DEF Unmoved
<1>3. CASE /\ Goto("reconcile") /\ late' = deploy.sealed
           /\ UNCHANGED <<pages, serving, edge, moves, history>>
  <2>1. /\ deploy' \in Deployments /\ deploy'.step = "reconcile"
        /\ deploy'.sealed = deploy.sealed /\ deploy'.anchor = deploy.anchor
        /\ deploy'.outcome = deploy.outcome
    BY <1>0, <1>3, GotoChanges
  <2>2. UNCHANGED <<pages, serving, edge, mine, replaced, disturbed>>
    BY <1>3 DEF history
  <2>3. deploy.sealed \in Identity
    BY <1>0 DEF SiteSafe, Owned, Touching
  <2>4. SiteTypes'
    BY <1>3, <2>1, <2>2, <2>3 DEF SiteSafe, SiteTypes, Maybe
  <2>5. Anchored'
    BY <1>0, <2>1, <2>2 DEF SiteSafe, Anchored, RolledBack, Touching
  <2>6. Owned'
    BY <1>0, <2>1, <2>2 DEF SiteSafe, Owned, Touching, Undoing, BeforeUpload
  <2> QED BY <2>4, <2>5, <2>6 DEF SiteSafe
<1> QED BY <1>1, <1>2, <1>3 DEF Upload

(* The rollback puts production at the anchor, which serves what the       *)
(* upload replaced.                                                        *)
LEMMA CompensateKeepsSafe ==
    ASSUME SiteSafe, Compensate PROVE SiteSafe'
<1>0. /\ deploy \in Deployments /\ deploy.step = "compensate"
      /\ deploy.outcome = "none"
      /\ deploy.anchor \in Nat /\ deploy.anchor <= Len(pages)
      /\ deploy.anchor # 0 => replaced = pages[deploy.anchor]
      /\ deploy.sealed \in Identity
      /\ \A d \in 1..Len(pages) : pages[d] = deploy.sealed => d \in mine
      /\ mine # {}
  BY DEF Compensate, SiteSafe, SiteTypes, Anchored, Owned, Touching, Undoing,
         Deployments
<1>1. UNCHANGED <<pages, edge, late, mine, replaced, disturbed>>
  BY DEF Compensate, history
<1>2. CASE UNCHANGED serving /\ (End("uncompensated") \/ End("not_restored"))
  <2>1. RunMoves
    BY <1>0, <1>2, EndMoves, StepNames
  <2> QED BY <1>1, <1>2, <2>1, RunMovesKeepSafe DEF provider, history
<1>3. CASE serving' = deploy.anchor /\ deploy.anchor # 0
  <2>1. ASSUME deploy' \in Deployments, deploy'.sealed = deploy.sealed,
               deploy'.anchor = deploy.anchor,
               \/ deploy'.step = "confirm" /\ deploy'.outcome = "none"
               \/ deploy'.step = "done" /\ deploy'.outcome = "not_restored"
        PROVE  SiteSafe'
    <3>1. SiteTypes'
      BY <1>0, <1>1, <1>3, <2>1 DEF SiteSafe, SiteTypes
    <3>2. Anchored'
      BY <1>0, <1>1, <1>3, <2>1 DEF Anchored, RolledBack, Touching
    <3>3. Owned'
      BY <1>0, <1>1, <2>1 DEF Owned, Touching, Undoing, BeforeUpload
    <3> QED BY <3>1, <3>2, <3>3 DEF SiteSafe
  <2>2. CASE deploy' = [deploy EXCEPT !.step = "confirm", !.tries = 1]
    <3>1. "confirm" \in Steps
      BY StepNames
    <3>2. deploy \in Deployments
      BY <1>0
    <3>3. /\ deploy' \in Deployments /\ deploy'.step = "confirm"
          /\ deploy'.sealed = deploy.sealed /\ deploy'.outcome = deploy.outcome
          /\ deploy'.anchor = deploy.anchor
      BY <2>2, <3>1, <3>2 DEF Deployments
    <3> QED BY <1>0, <2>1, <3>3
  <2>3. CASE End("not_restored")
    BY <1>0, <2>1, <2>3, EndChanges, StepNames
  <2>4. \/ deploy' = [deploy EXCEPT !.step = "confirm", !.tries = 1]
        \/ End("not_restored") \/ UNCHANGED serving
    BY DEF Compensate
  <2> QED BY <1>2, <1>3, <2>2, <2>3, <2>4 DEF Compensate
<1> QED BY <1>2, <1>3 DEF Compensate, RollbackTarget

LEMMA OrchestrateKeepsSafe ==
    ASSUME SiteSafe, Orchestrate PROVE SiteSafe'
<1>1. CASE Resolve \/ Walk \/ Prove \/ Bracket \/ Observe \/ Close \/ Reprobe
             \/ Preview \/ Seal \/ Abort
  BY <1>1, PreparingMoves, RunMovesKeepSafe
<1>2. CASE Await \/ Verify \/ Reconcile \/ Relook \/ Recount \/ Confirm \/ Killed
  BY <1>2, JudgingMoves, RunMovesKeepSafe
<1>3. CASE Reprove
  BY <1>3, ReproveKeepsSafe
<1>4. CASE Upload
  BY <1>4, UploadKeepsSafe
<1>5. CASE Compensate
  BY <1>5, CompensateKeepsSafe
<1> QED BY <1>1, <1>2, <1>3, <1>4, <1>5 DEF Orchestrate

(* What the provider and the operator do, next to a run.                   *)
LEMMA EnvironmentKeepsSafe ==
    ASSUME SiteSafe, Environment PROVE SiteSafe'
<1>0. /\ pages \in Seq(Identity) /\ Len(pages) \in Nat
      /\ serving \in 0..Len(pages) /\ edge \in 0..Len(pages) /\ late \in Maybe
      /\ deploy \in Deployments /\ deploy.anchor \in Nat
      /\ deploy.anchor <= Len(pages)
  BY DEF SiteSafe, SiteTypes, Deployments
<1>1. CASE Propagate
  <2>1. UNCHANGED <<pages, serving, late, deploy, mine, replaced, disturbed>>
        /\ edge' \in 0..Len(pages)
    BY <1>0, <1>1 DEF Propagate, history
  <2> QED
    BY <2>1 DEF SiteSafe, SiteTypes, Anchored, RolledBack, Owned, Unseen
<1>2. RolledBack => deploy # NoDeploy
  BY DEF RolledBack, NoDeploy
<1>3. ASSUME NEW d \in 1..Len(pages), ProviderRollback(d) PROVE SiteSafe'
  <2>1. /\ UNCHANGED <<pages, edge, late, deploy, mine, replaced>>
        /\ serving' \in 0..Len(pages) /\ disturbed' = (deploy # NoDeploy)
    BY <1>0, <1>3 DEF ProviderRollback
  <2> QED
    BY <1>2, <2>1 DEF SiteSafe, SiteTypes, Anchored, RolledBack, Owned, Unseen
<1>4. ASSUME NEW i \in Identity, Promote(i), UNCHANGED <<edge, deploy, replaced>>,
             disturbed' = (deploy # NoDeploy), late' \in {late, Nothing},
             mine \subseteq mine',
             i = deploy.sealed => /\ mine' = mine \cup {Len(pages) + 1}
                                  /\ late = deploy.sealed
      PROVE  SiteSafe'
  <2>1. /\ pages' \in Seq(Identity) /\ Len(pages') = Len(pages) + 1
        /\ \A d \in 1..Len(pages) : pages'[d] = pages[d]
        /\ pages'[Len(pages) + 1] = i
        /\ serving' = Len(pages) + 1
    BY <1>0, <1>4, PromoteAppends
  <2>2. SiteTypes'
    BY <1>0, <1>4, <2>1 DEF SiteTypes, Maybe
  <2>3. Anchored'
    <3>1. deploy.anchor # 0 => pages'[deploy.anchor] = pages[deploy.anchor]
      BY <1>0, <2>1
    <3> QED BY <1>2, <1>4, <3>1 DEF SiteSafe, Anchored, RolledBack
  <2>4. deploy.step \in BeforeUpload \cup Touching => deploy.sealed \in Identity
    BY DEF SiteSafe, Owned
  <2>5. ASSUME deploy.step \in BeforeUpload \cup {"upload"}
        PROVE  Unseen(deploy.sealed)'
    <3>1. Unseen(deploy.sealed) /\ deploy.sealed \in Identity
      BY <2>4, <2>5 DEF SiteSafe, Owned, Touching
    <3>2. Nothing # deploy.sealed
      BY <3>1, NothingAssumption
    <3>3. i # deploy.sealed
      BY <1>4, <3>1 DEF Unseen
    <3> QED BY <1>0, <1>4, <2>1, <3>1, <3>2, <3>3 DEF Unseen
  <2>6. ASSUME deploy.step \in Touching, NEW d \in 1..Len(pages'),
               pages'[d] = deploy.sealed
        PROVE  d \in mine'
    <3>1. CASE d \in 1..Len(pages)
      BY <1>4, <2>1, <2>6, <3>1 DEF SiteSafe, Owned
    <3>2. CASE d = Len(pages) + 1
      BY <1>4, <2>1, <2>6, <3>2
    <3> QED BY <1>0, <2>1, <3>1, <3>2
  <2>7. deploy.step \in Undoing => mine' # {}
    BY <1>4 DEF SiteSafe, Owned
  <2>8. Owned'
    BY <1>4, <2>4, <2>5, <2>6, <2>7 DEF Owned
  <2> QED BY <2>2, <2>3, <2>8 DEF SiteSafe
<1>5. CASE LatePromotion
  <2>1. late \in Identity
    BY <1>0, <1>5 DEF LatePromotion, Maybe
  <2> QED BY <1>4, <1>5, <2>1 DEF LatePromotion
<1>6. ASSUME NEW d \in 1..Len(pages), Redeploy(d) PROVE SiteSafe'
  <2>1. pages[d] \in Identity /\ pages[d] # deploy.sealed
    BY <1>0, <1>6 DEF Redeploy
  <2> QED BY <1>4, <1>6, <2>1 DEF Redeploy
<1> QED BY <1>1, <1>3, <1>5, <1>6 DEF Environment

LEMMA NoDeployType == NoDeploy \in Deployments
BY StepNames DEF NoDeploy, Deployments, Maybe

(* A run begins with an identity that nothing carries yet.                 *)
LEMMA BeginKeepsSafe ==
    ASSUME SiteTypes, NEW i \in Identity, Unseen(i), BeginDeploy(i)
    PROVE  SiteSafe'
<1>1. deploy' = [NoDeploy EXCEPT !.step = "resolve", !.sealed = i]
  BY DEF BeginDeploy
<1>2. deploy' = [step |-> "resolve", sealed |-> i, served |-> Nothing,
                 anchor |-> 0, head |-> 0, seen |-> Nothing, before |-> 0,
                 own |-> 0, tries |-> 0, outcome |-> "none"]
  BY <1>1 DEF NoDeploy
<1>3. UNCHANGED <<pages, serving, edge, late>>
  BY DEF BeginDeploy, provider
<1>4. deploy' \in Deployments /\ deploy'.anchor = 0
  BY <1>2, StepNames DEF Deployments, Maybe
<1>5. SiteTypes'
  BY <1>3, <1>4 DEF SiteTypes
<1>6. deploy'.step = "resolve" /\ deploy'.outcome = "none" /\ deploy'.sealed = i
  BY <1>2
<1>7. Anchored'
  BY <1>6 DEF Anchored, RolledBack, Touching
<1>8. Owned'
  BY <1>3, <1>6 DEF Owned, Unseen, Touching, Undoing
<1> QED BY <1>5, <1>7, <1>8 DEF SiteSafe

LEMMA ClearKeepsSafe ==
    ASSUME SiteTypes, ClearDeploy, UNCHANGED provider
    PROVE  SiteSafe'
<1>1. deploy' = NoDeploy /\ UNCHANGED <<pages, serving, edge, late>>
  BY DEF ClearDeploy, provider
<1>2. deploy'.step = "idle" /\ deploy'.outcome = "none" /\ deploy'.anchor = 0
  BY <1>1 DEF NoDeploy
<1>3. SiteTypes'
  BY <1>1, <1>2, NoDeployType DEF SiteTypes
<1>4. Anchored' /\ Owned'
  BY <1>2 DEF Anchored, RolledBack, Owned, Touching, Undoing, BeforeUpload
<1> QED BY <1>3, <1>4 DEF SiteSafe

(* The invariant gives both halves of an exact compensation.               *)
LEMMA SafeIsExact == SiteSafe => CompensationIsExact
BY DEF SiteSafe, Anchored, Owned, RolledBack, Undoing, CompensationIsExact,
       CompensatesOnlyItself, RestoresWhatItReplaced

-----------------------------------------------------------------------------
(* The publication's side: sites, generations, signers and the run.        *)

Generations == [build : Builds, gen : Nat, code : Codes, page : Nat, by : Signers]
RunSteps == {"idle", "gate", "publish", "deploy", "sign"}
SignerSteps == {"idle", "artifact", "locate", "confirm", "push"}

(* Whatever was built has a retained site.                                 *)
Kept(b) == b \in Builds /\ sites[b] # Nothing

Retained ==
    /\ sites \in [Builds -> Codes \cup {Nothing}]
    /\ \A d \in 1..Len(pages) : Kept(pages[d].build)
    /\ late # Nothing => Kept(late.build)
    /\ deploy.step # "idle" => deploy.sealed \in Identity /\ Kept(deploy.sealed.build)

IsHighest(r, gens) ==
    \A q \in gens : q.build < r.build \/ (q.build = r.build /\ q.gen <= r.gen)

(* Numbers are bounded and one generation is the highest: both hold of     *)
(* finite sets, and every record that is added keeps them.                 *)
Numbered ==
    /\ repo \in [latest : Nat, gens : SUBSET Generations]
    /\ \E n \in Nat : \A r \in repo.gens : r.gen <= n
    /\ repo.gens # {} => \E r \in repo.gens : IsHighest(r, repo.gens)

(* What a signer located is a deployment of the artifact that it was given,*)
(* and before it pushes the domain has served it.                          *)
SignerRuns == [step : SignerSteps, build : Builds \cup {0}, claimed : Nat,
               gen : Nat, page : Nat]

Artifact(j) == [build |-> j.build, code |-> sites[j.build]]

Truthful(j) ==
    /\ j.step # "idle" => Kept(j.build)
    /\ j.step \in {"confirm", "push"} =>
         j.page \in 1..Len(pages) /\ pages[j.page] = Artifact(j)
    /\ j.step = "push" => Artifact(j) \in live

Signing ==
    /\ signer \in [Signers -> SignerRuns]
    /\ \A s \in Signers : Truthful(signer[s])

(* A run that passed the gate by a record builds on what that generation   *)
(* names, for as long as the domain's answer stays what the gate saw.      *)
Passed ==
    /\ run \in [step : RunSteps, found : Generations \cup {Nothing},
                passed : {"none", "first", "override", "record"},
                acknowledged : Maybe]
    /\ run.step = "gate" /\ run.found # Nothing => run.found \in repo.gens
    /\ run.passed = "record" /\ steady =>
         \E r \in repo.gens : Recording(r) = Domain

Witnessed == edge # 0 => Domain \in live

RecordInv ==
    /\ SiteSafe /\ Retained /\ Numbered /\ Signing /\ Passed /\ Witnessed
    /\ RecordsNameWhatWasServed

LEMMA InitIsRecordInv == RecordInit => RecordInv
<1> SUFFICES ASSUME RecordInit PROVE RecordInv
  OBVIOUS
<1>1. /\ pages = <<>> /\ serving = 0 /\ edge = 0 /\ late = Nothing
      /\ deploy = NoDeploy /\ mine = {} /\ replaced = Nothing
      /\ repo = [latest |-> 0, gens |-> {}]
      /\ sites = [b \in Builds |-> Nothing] /\ run = NoRun
      /\ signer = [s \in Signers |-> NoSigner] /\ steady = FALSE
  BY DEF RecordInit, SiteInit
<1>2. deploy.step = "idle" /\ deploy.anchor = 0 /\ deploy.outcome = "none"
  BY <1>1 DEF NoDeploy
<1>3. SiteTypes
  BY <1>1, <1>2, NoDeployType DEF SiteTypes, Maybe
<1>4. Anchored /\ Owned
  BY <1>2 DEF Anchored, Owned, RolledBack, Touching, Undoing, BeforeUpload
<1>5. Retained /\ Numbered
  BY <1>1, <1>2 DEF Retained, Numbered
<1>6. Signing
  BY <1>1 DEF Signing, NoSigner, SignerRuns, SignerSteps, Truthful
<1>7. Passed
  BY <1>1 DEF Passed, NoRun, RunSteps, Maybe
<1>8. Witnessed /\ RecordsNameWhatWasServed
  BY <1>1 DEF Witnessed, RecordsNameWhatWasServed
<1> QED BY <1>3, <1>4, <1>5, <1>6, <1>7, <1>8 DEF RecordInv, SiteSafe

(* The gate reads a generation, if there is one.                           *)
LEMMA HighestIsOne ==
    ASSUME Numbered
    PROVE  \/ HighestGeneration(repo.gens) = Nothing
           \/ HighestGeneration(repo.gens) \in repo.gens
BY Zenon DEF Numbered, HighestGeneration, IsHighest

LEMMA NextGenerationType ==
    ASSUME Numbered, NEW b \in Builds
    PROVE  NextGeneration(b) \in Nat
<1> DEFINE S == {0} \cup {r.gen : r \in {r \in repo.gens : r.build = b}}
<1>1. PICK n \in Nat : \A r \in repo.gens : r.gen <= n
  BY DEF Numbered
<1>2. repo.gens \subseteq Generations
  BY DEF Numbered
<1>3. S \subseteq 0..n /\ S # {}
  BY <1>1, <1>2 DEF Generations
<1>4. Max(S) \in S
  <2> HIDE DEF S
  <2> QED BY <1>3, MaxInSet
<1>5. \A x \in S : x \in Nat
  BY <1>2 DEF Generations
<1>6. NextGeneration(b) = 1 + Max(S)
  BY DEF NextGeneration
<1>7. Max(S) \in Nat
  <2> HIDE DEF S
  <2> QED BY <1>4, <1>5
<1> HIDE DEF S
<1> QED BY <1>6, <1>7

-----------------------------------------------------------------------------
(* What a step of the site means to the records.                           *)

(* The identities that can still come to production.                       *)
Known(i) ==
    \/ late # Nothing /\ i = late
    \/ deploy.step # "idle" /\ i = deploy.sealed
    \/ \E d \in 1..Len(pages) : i = pages[d]

(* Deployments are only added, of identities already known.                *)
SiteGrows ==
    /\ Len(pages) \in Nat /\ Len(pages') \in Nat /\ Len(pages) <= Len(pages')
    /\ \A d \in 1..Len(pages) : pages'[d] = pages[d]
    /\ \A d \in 1..Len(pages') : Known(pages'[d])
    /\ late' # Nothing => Known(late')
    /\ deploy'.step # "idle" =>
         deploy.step # "idle" /\ deploy'.sealed = deploy.sealed

LEMMA PromoteGrows ==
    ASSUME pages \in Seq(Identity), NEW i \in Identity, Known(i), Promote(i)
    PROVE  /\ Len(pages) \in Nat /\ Len(pages') \in Nat
           /\ Len(pages) <= Len(pages')
           /\ \A d \in 1..Len(pages) : pages'[d] = pages[d]
           /\ \A d \in 1..Len(pages') : Known(pages'[d])
<1>1. /\ Len(pages) \in Nat /\ Len(pages') = Len(pages) + 1
      /\ \A d \in 1..Len(pages) : pages'[d] = pages[d]
      /\ pages'[Len(pages) + 1] = i
  BY PromoteAppends
<1>2. ASSUME NEW d \in 1..Len(pages') PROVE Known(pages'[d])
  <2>1. CASE d \in 1..Len(pages)
    BY <1>1, <2>1 DEF Known
  <2>2. CASE d = Len(pages) + 1
    BY <1>1, <2>2
  <2> QED BY <1>1, <2>1, <2>2
<1> QED BY <1>1, <1>2

LEMMA SiteStepGrows ==
    ASSUME SiteSafe, Orchestrate \/ Environment PROVE SiteGrows
<1>0. /\ pages \in Seq(Identity) /\ Len(pages) \in Nat /\ late \in Maybe
      /\ deploy \in Deployments
      /\ \A d \in 1..Len(pages) : Known(pages[d])
      /\ late # Nothing => Known(late)
  BY DEF SiteSafe, SiteTypes, Known
<1>1. ASSUME UNCHANGED <<pages, late>>,
             deploy'.step # "idle" =>
               deploy.step # "idle" /\ deploy'.sealed = deploy.sealed
      PROVE  SiteGrows
  BY <1>0, <1>1 DEF SiteGrows
<1>2. ASSUME RunMoves /\ UNCHANGED <<provider, history>> PROVE SiteGrows
  BY <1>1, <1>2 DEF RunMoves, provider
<1>3. CASE Resolve \/ Walk \/ Prove \/ Bracket \/ Observe \/ Close \/ Reprobe
             \/ Preview \/ Seal \/ Abort
  BY <1>2, <1>3, PreparingMoves
<1>4. CASE Await \/ Verify \/ Reconcile \/ Relook \/ Recount \/ Confirm \/ Killed
  BY <1>2, <1>4, JudgingMoves
<1>5. CASE Reprove
  <2>1. Goto("upload") /\ deploy.step # "idle" /\ UNCHANGED <<pages, late>>
    BY <1>5 DEF Reprove, provider
  <2>2. deploy'.sealed = deploy.sealed
    BY <1>0, <2>1, GotoChanges, StepNames
  <2> QED BY <1>1, <2>1, <2>2
<1>6. CASE Upload
  <2>0. deploy.step = "upload" /\ deploy.sealed \in Identity
    BY <1>6 DEF Upload, SiteSafe, Owned, Touching
  <2>1. Known(deploy.sealed)
    BY <2>0 DEF Known
  <2>2. ASSUME NEW s \in {"await", "reconcile"}, NEW id, Uploaded(s, id)
        PROVE  SiteGrows
    <3>1. deploy'.sealed = deploy.sealed
      BY <1>0, <2>2 DEF Uploaded, Deployments
    <3> QED BY <1>0, <2>0, <2>1, <2>2, <3>1, PromoteGrows DEF Uploaded, SiteGrows
  <2>3. CASE Goto("reconcile") /\ UNCHANGED pages /\ late' \in {late, deploy.sealed}
    <3>1. deploy'.sealed = deploy.sealed
      BY <1>0, <2>3, GotoChanges, StepNames
    <3> QED BY <1>0, <2>0, <2>1, <2>3, <3>1 DEF SiteGrows
  <2> QED BY <1>6, <2>2, <2>3 DEF Upload, Unmoved, provider
<1>7. CASE Compensate
  <2>1. deploy'.sealed = deploy.sealed
    BY <1>0, <1>7 DEF Compensate, End, Deployments
  <2> QED BY <1>1, <1>7, <2>1 DEF Compensate
<1>8. CASE Propagate \/ \E d \in 1..Len(pages) : ProviderRollback(d)
  BY <1>1, <1>8 DEF Propagate, ProviderRollback
<1>9. CASE LatePromotion
  <2>1. late \in Identity /\ late # Nothing
    BY <1>0, <1>9 DEF LatePromotion, Maybe
  <2> QED BY <1>0, <1>9, <2>1, PromoteGrows DEF LatePromotion, SiteGrows
<1>10. ASSUME NEW d \in 1..Len(pages), Redeploy(d) PROVE SiteGrows
  <2>1. pages[d] \in Identity /\ Known(pages[d])
    BY <1>0
  <2> QED BY <1>0, <1>10, <2>1, PromoteGrows DEF Redeploy, SiteGrows
<1> QED
  BY <1>3, <1>4, <1>5, <1>6, <1>7, <1>8, <1>9, <1>10 DEF Orchestrate, Environment

(* What was true of the records stays true of a site that only grew.       *)
LEMMA GrowthKeepsRecords ==
    ASSUME RecordInv, SiteGrows, live \subseteq live', UNCHANGED <<sites, signer, repo>>
    PROVE  Retained' /\ Numbered' /\ Signing' /\ RecordsNameWhatWasServed'
<1>1. Retained'
  <2>1. \A i : Known(i) => Kept(i.build)
    BY DEF RecordInv, Retained, Known
  <2> QED BY <2>1 DEF RecordInv, Retained, SiteGrows, Kept
<1>2. Numbered'
  BY DEF RecordInv, Numbered, IsHighest
<1>3. ASSUME NEW s \in Signers PROVE Truthful(signer[s])'
  <2>1. Truthful(signer[s])
    BY DEF RecordInv, Signing
  <2> QED BY <2>1 DEF Truthful, Kept, Artifact, SiteGrows
<1>4. Signing'
  BY <1>3 DEF RecordInv, Signing
<1>5. RecordsNameWhatWasServed'
  BY DEF RecordInv, RecordsNameWhatWasServed, SiteGrows
<1> QED BY <1>1, <1>2, <1>4, <1>5

LEMMA SiteStepKeepsRecordInv ==
    ASSUME RecordInv, SiteStep PROVE RecordInv'
<1>1. SiteSafe'
  BY OrchestrateKeepsSafe, EnvironmentKeepsSafe DEF RecordInv, SiteStep
<1>2. live \subseteq live' /\ UNCHANGED <<repo, sites, run, signer>>
  BY DEF SiteStep, recordVars
<1>3. Retained' /\ Numbered' /\ Signing' /\ RecordsNameWhatWasServed'
  BY <1>2, SiteStepGrows, GrowthKeepsRecords DEF SiteStep, RecordInv
<1>4. Passed'
  BY <1>2 DEF RecordInv, Passed, SiteStep
<1>5. Witnessed'
  BY DEF Witnessed, SiteStep
<1> QED BY <1>1, <1>3, <1>4, <1>5 DEF RecordInv

-----------------------------------------------------------------------------
(* The steps of the workflow, of the signers and of the operator.          *)

(* A step that leaves the site alone and touches the records only as its   *)
(* parts say.                                                              *)
LEMMA SameSite ==
    ASSUME RecordInv, UNCHANGED <<provider, deploy, history>>
    PROVE  SiteSafe' /\ Domain' = Domain /\ UNCHANGED <<pages, edge, late>>
<1>1. UNCHANGED <<pages, serving, edge, late, deploy, mine, replaced, disturbed>>
  BY DEF provider, history
<1>2. SiteSafe'
  BY <1>1 DEF RecordInv, SiteSafe, SiteTypes, Anchored, RolledBack, Owned, Unseen
<1> QED BY <1>1, <1>2 DEF Domain

LEMMA SameRecords ==
    ASSUME RecordInv, UNCHANGED <<provider, deploy, repo, sites, signer, live>>
    PROVE  Retained' /\ Numbered' /\ Signing' /\ Witnessed' /\ RecordsNameWhatWasServed'
<1>1. UNCHANGED <<pages, edge, late>>
  BY DEF provider
<1>2. Retained' /\ Numbered'
  BY <1>1 DEF RecordInv, Retained, Kept, Numbered, IsHighest
<1>3. Signing'
  BY <1>1 DEF RecordInv, Signing, Truthful, Kept, Artifact
<1>4. Witnessed' /\ RecordsNameWhatWasServed'
  BY <1>1 DEF RecordInv, Witnessed, Domain, RecordsNameWhatWasServed
<1> QED BY <1>2, <1>3, <1>4

(* The run's own steps.                                                    *)
LEMMA BeginRunKeepsRecordInv ==
    ASSUME RecordInv, NEW a, BeginRun(a) PROVE RecordInv'
<1>1. /\ UNCHANGED <<provider, deploy, history, repo, sites, signer, steady, live>>
      /\ a \in {Nothing, Domain}
      /\ run' = [NoRun EXCEPT !.step = "gate", !.acknowledged = a,
                              !.found = HighestGeneration(repo.gens)]
  BY DEF BeginRun, trace
<1>2. a \in Maybe
  BY <1>1, DomainType DEF RecordInv, SiteSafe, Maybe
<1> DEFINE found == HighestGeneration(repo.gens)
<1>3. found = Nothing \/ found \in repo.gens
  BY HighestIsOne DEF RecordInv
<1>4. repo.gens \subseteq Generations
  BY DEF RecordInv, Numbered
<1>5. run' = [step |-> "gate", found |-> found,
              passed |-> "none", acknowledged |-> a]
  BY <1>1 DEF NoRun
<1> HIDE DEF found
<1>6. found \in Generations \cup {Nothing}
  BY <1>3, <1>4
<1>7. Passed'
  <2>1. run' \in [step : RunSteps, found : Generations \cup {Nothing},
                  passed : {"none", "first", "override", "record"},
                  acknowledged : Maybe]
    BY <1>2, <1>5, <1>6 DEF RunSteps
  <2>2. run'.found = found /\ run'.passed = "none"
    BY <1>5
  <2>3. repo' = repo
    BY <1>1
  <2> QED BY <1>3, <2>1, <2>2, <2>3 DEF Passed
<1> QED BY <1>1, <1>7, SameSite, SameRecords DEF RecordInv

(* The gate lets a run pass by a record only when that record is what the  *)
(* domain answers.                                                         *)
LEMMA GateMatches ==
    ASSUME NEW found, NEW served, NEW a, GatePasses(found, served, a) = "record"
    PROVE  found # Nothing /\ served # Nothing /\ Recording(found) = served
BY DEF GatePasses, Matches

LEMMA GatePassesType ==
    ASSUME NEW found, NEW served, NEW a
    PROVE  GatePasses(found, served, a) \in {"none", "first", "override", "record"}
BY DEF GatePasses

LEMMA GateKeepsRecordInv ==
    ASSUME RecordInv, Gate PROVE RecordInv'
<1>1. UNCHANGED <<provider, deploy, history, repo, sites, signer, live>>
  BY DEF Gate, siteVars
<1>2. PICK served \in {Domain, Nothing} :
        run' = [NoRun EXCEPT !.step = "publish",
                  !.passed = GatePasses(run.found, served, run.acknowledged)]
  BY DEF Gate
<1> DEFINE way == GatePasses(run.found, served, run.acknowledged)
<1>3. way \in {"none", "first", "override", "record"}
  BY GatePassesType
<1>4. way = "record" => \E r \in repo.gens : Recording(r) = Domain
  <2>1. run.step = "gate"
    BY DEF Gate
  <2> SUFFICES ASSUME way = "record" PROVE \E r \in repo.gens : Recording(r) = Domain
    OBVIOUS
  <2>2. run.found # Nothing /\ served # Nothing /\ Recording(run.found) = served
    BY GateMatches
  <2> QED BY <2>1, <2>2 DEF RecordInv, Passed
<1>5. Domain' = Domain
  BY <1>1, SameSite
<1>6. run' = [step |-> "publish", found |-> Nothing, passed |-> way,
              acknowledged |-> Nothing]
  BY <1>2 DEF NoRun
<1> HIDE DEF way
<1>7. Passed'
  BY <1>1, <1>3, <1>4, <1>5, <1>6 DEF Passed, RunSteps, Maybe
<1> QED BY <1>1, <1>7, SameSite, SameRecords DEF RecordInv

(* A run that is over, or whose signer is on its way, vouches for nothing. *)
LEMMA EndRunIsGated ==
    ASSUME run' = NoRun PROVE Passed'
BY DEF NoRun, Passed, RunSteps, Maybe

LEMMA StopKeepsRecordInv ==
    ASSUME RecordInv, StopRun \/ WatchEnds PROVE RecordInv'
<1>1. UNCHANGED <<provider, deploy, history, repo, sites, signer, live>>
      /\ run' = NoRun
  BY DEF StopRun, WatchEnds, EndRun, siteVars, trace
<1> QED BY <1>1, EndRunIsGated, SameSite, SameRecords DEF RecordInv

(* The new build's id is one that nothing carries.                         *)
LEMMA PublishBuildKeepsRecordInv ==
    ASSUME RecordInv, PublishBuild PROVE RecordInv'
<1> DEFINE unused == {b \in Builds : \A q \in Builds : q >= b => sites[q] = Nothing}
<1>0. unused # {} /\ unused \in SUBSET Nat
  BY DeploymentAssumption DEF PublishBuild
<1>1. PICK b \in unused : b = Min(unused)
  <2> HIDE DEF unused
  <2>1. Min(unused) \in unused
    BY <1>0, MinInSet
  <2> QED BY <2>1
<1>2. PICK c \in Codes : /\ sites' = [sites EXCEPT ![b] = c]
                         /\ BeginDeploy([build |-> b, code |-> c])
  BY <1>1 DEF PublishBuild
<1>3. /\ repo' = [repo EXCEPT !.latest = b] /\ run' = [run EXCEPT !.step = "deploy"]
      /\ UNCHANGED <<signer, steady, live>>
  BY <1>1 DEF PublishBuild, trace
<1>4. b \in Builds /\ b \in Nat /\ sites[b] = Nothing
  BY <1>1, DeploymentAssumption
<1> DEFINE i == [build |-> b, code |-> c]
<1> HIDE DEF unused
<1>5. i \in Identity /\ c # Nothing
  BY <1>4, NothingAssumption DEF Identity
<1>6. Unseen(i)
  <2>1. ~Kept(i.build)
    BY <1>4 DEF Kept
  <2> HIDE DEF i
  <2>2. i # Nothing
    BY <1>5, NothingAssumption
  <2> QED BY <2>1, <2>2 DEF RecordInv, Retained, Unseen
<1>7. SiteSafe'
  BY <1>2, <1>5, <1>6, BeginKeepsSafe DEF RecordInv, SiteSafe
<1>8. UNCHANGED <<pages, edge, late>> /\ deploy'.sealed = i
  BY <1>2 DEF BeginDeploy, provider, NoDeploy
<1>9. /\ sites' \in [Builds -> Codes \cup {Nothing}]
      /\ \A q : Kept(q) => Kept(q)' /\ sites'[q] = sites[q]
      /\ Kept(b)'
  <2>1. sites \in [Builds -> Codes \cup {Nothing}]
    BY DEF RecordInv, Retained
  <2>2. \A q \in Builds : sites'[q] = IF q = b THEN c ELSE sites[q]
    BY <1>2, <2>1
  <2>3. sites' \in [Builds -> Codes \cup {Nothing}]
    BY <1>2, <2>1
  <2>4. c # Nothing
    BY <1>5
  <2>5. Kept(b)'
    BY <1>4, <2>2, <2>4 DEF Kept
  <2>6. ASSUME NEW q, Kept(q) PROVE Kept(q)' /\ sites'[q] = sites[q]
    <3>1. q \in Builds /\ q # b
      BY <1>4, <2>6 DEF Kept
    <3>2. sites'[q] = sites[q]
      BY <2>2, <3>1
    <3> QED BY <2>6, <3>1, <3>2 DEF Kept
  <2> QED BY <2>3, <2>5, <2>6
<1>10. Retained'
  <2>1. i \in Identity /\ i.build = b
    BY <1>5
  <2> HIDE DEF i
  <2>2. /\ \A d \in 1..Len(pages) : Kept(pages[d].build)'
        /\ late # Nothing => Kept(late.build)'
    BY <1>8, <1>9 DEF RecordInv, Retained, Kept
  <2>3. Kept(deploy.sealed.build)'
    BY <1>8, <1>9, <2>1 DEF Kept
  <2>4. deploy'.sealed \in Identity
    BY <1>8, <2>1
  <2> QED BY <1>8, <1>9, <2>2, <2>3, <2>4 DEF Retained
<1>11. repo' \in [latest : Nat, gens : SUBSET Generations] /\ repo'.gens = repo.gens
  BY <1>3, <1>4 DEF RecordInv, Numbered
<1>12. Numbered'
  BY <1>11 DEF RecordInv, Numbered, IsHighest
<1>13. ASSUME NEW s \in Signers PROVE Truthful(signer[s])'
  <2>1. Truthful(signer[s])
    BY DEF RecordInv, Signing
  <2>2. signer[s].step # "idle" => Artifact(signer[s])' = Artifact(signer[s])
    BY <1>3, <1>9, <2>1 DEF Truthful, Artifact
  <2> QED BY <1>3, <1>8, <1>9, <2>1, <2>2 DEF Truthful
<1>14. Signing'
  BY <1>3, <1>13 DEF RecordInv, Signing
<1>15. Domain' = Domain
  BY <1>8 DEF Domain
<1>16. Passed'
  <2>1. run' \in [step : RunSteps, found : Generations \cup {Nothing},
                  passed : {"none", "first", "override", "record"},
                  acknowledged : Maybe]
        /\ run'.step = "deploy" /\ run'.passed = run.passed
    BY <1>3 DEF RecordInv, Passed, RunSteps
  <2> QED BY <1>3, <1>11, <1>15, <2>1 DEF RecordInv, Passed
<1>17. Witnessed' /\ RecordsNameWhatWasServed'
  BY <1>3, <1>8, <1>11, <1>15 DEF RecordInv, Witnessed, RecordsNameWhatWasServed
<1> QED BY <1>7, <1>10, <1>12, <1>14, <1>16, <1>17 DEF RecordInv

(* One signer's run is replaced by one that is typed and truthful.         *)
LEMMA SignerMoves ==
    ASSUME Signing, UNCHANGED <<pages, sites, live>>,
           NEW s \in Signers, NEW j \in SignerRuns, Truthful(j),
           signer' = [signer EXCEPT ![s] = j]
    PROVE  Signing'
<1>1. signer' \in [Signers -> SignerRuns]
  BY DEF Signing
<1>2. ASSUME NEW q \in Signers PROVE Truthful(signer[q])'
  <2>1. signer'[q] = IF q = s THEN j ELSE signer[q]
    BY DEF Signing
  <2>2. Truthful(signer[q])
    BY DEF Signing
  <2> QED BY <2>1, <2>2 DEF Truthful, Kept, Artifact
<1> QED BY <1>1, <1>2 DEF Signing

LEMMA IdleSigner == NoSigner \in SignerRuns /\ Truthful(NoSigner)
BY DEF NoSigner, SignerRuns, SignerSteps, Truthful

(* A signer is dispatched for a build whose site was retained.             *)
LEMMA DispatchMoves ==
    ASSUME Signing, UNCHANGED <<pages, sites, live>>,
           NEW s \in Signers, NEW b, Kept(b), NEW n \in Nat, Dispatch(s, b, n)
    PROVE  Signing'
<1> DEFINE j == [NoSigner EXCEPT !.step = "artifact", !.build = b, !.claimed = n]
<1>1. j \in SignerRuns /\ j.step = "artifact" /\ j.build = b
  BY IdleSigner DEF SignerRuns, SignerSteps, Kept
<1>2. signer' = [signer EXCEPT ![s] = j]
  BY DEF Dispatch
<1> HIDE DEF j
<1>3. Truthful(j)
  BY <1>1 DEF Truthful
<1> QED BY <1>1, <1>2, <1>3, SignerMoves

LEMMA DeployEndsKeepsRecordInv ==
    ASSUME RecordInv, DeployEnds PROVE RecordInv'
<1>1. /\ UNCHANGED <<pages, edge, late, repo, sites, live>>
      /\ ClearDeploy /\ UNCHANGED provider /\ steady' = FALSE
  BY DEF DeployEnds, provider
<1>2. SiteSafe'
  BY <1>1, ClearKeepsSafe DEF RecordInv, SiteSafe
<1>3. Retained'
  BY <1>1 DEF RecordInv, Retained, Kept, ClearDeploy, NoDeploy
<1>4. Numbered' /\ Witnessed' /\ RecordsNameWhatWasServed'
  BY <1>1 DEF RecordInv, Numbered, IsHighest, Witnessed, Domain,
              RecordsNameWhatWasServed
<1>5. Signing'
  <2>1. CASE UNCHANGED signer
    BY <1>1, <2>1 DEF RecordInv, Signing, Truthful, Kept, Artifact
  <2>2. ASSUME NEW s \in Signers, Dispatch(s, deploy.sealed.build, deploy.own)
        PROVE  Signing'
    <3>1. Kept(deploy.sealed.build)
      BY DEF RecordInv, Retained, DeployEnds
    <3>2. deploy.own \in Nat
      BY DEF RecordInv, SiteSafe, SiteTypes, Deployments
    <3> QED BY <1>1, <2>2, <3>1, <3>2, DispatchMoves DEF RecordInv
  <2> QED BY <2>1, <2>2 DEF DeployEnds
<1>6. Passed'
  <2>1. CASE run' = NoRun
    BY <2>1, EndRunIsGated
  <2>2. CASE run' = [run EXCEPT !.step = "sign"]
    <3>1. run' \in [step : RunSteps, found : Generations \cup {Nothing},
                    passed : {"none", "first", "override", "record"},
                    acknowledged : Maybe]
          /\ run'.step = "sign"
      BY <2>2 DEF RecordInv, Passed, RunSteps
    <3> QED BY <1>1, <3>1 DEF Passed
  <2> QED BY <2>1, <2>2 DEF DeployEnds, EndRun
<1> QED BY <1>2, <1>3, <1>4, <1>5, <1>6 DEF RecordInv

(* A step of a signer, or its dispatch, leaves everything else alone.      *)
LEMMA OnlySignerMoves ==
    ASSUME RecordInv, Signing',
           UNCHANGED <<provider, deploy, history, repo, sites, run, trace>>
    PROVE  RecordInv'
<1>1. SiteSafe' /\ Domain' = Domain /\ UNCHANGED <<pages, edge, late>>
  BY SameSite
<1>2. UNCHANGED <<steady, live, deploy, repo, sites, run>>
  BY DEF trace
<1>3. Retained' /\ Numbered'
  BY <1>1, <1>2 DEF RecordInv, Retained, Kept, Numbered, IsHighest
<1>4. Passed' /\ Witnessed' /\ RecordsNameWhatWasServed'
  BY <1>1, <1>2 DEF RecordInv, Passed, Witnessed, RecordsNameWhatWasServed
<1> QED BY <1>1, <1>3, <1>4 DEF RecordInv

LEMMA SignByHandKeepsRecordInv ==
    ASSUME RecordInv, NEW s \in Signers, NEW b \in Builds, SignByHand(s, b)
    PROVE  RecordInv'
<1>1. UNCHANGED <<provider, deploy, history, repo, sites, run, trace>>
  BY DEF SignByHand
<1>2. Kept(b) /\ Dispatch(s, b, 0) /\ UNCHANGED <<pages, sites, live>>
  BY DEF SignByHand, Kept, provider, trace
<1>3. Signing'
  BY <1>2, DispatchMoves DEF RecordInv
<1> QED BY <1>1, <1>3, OnlySignerMoves

(* Before the push: a number is taken, the deployment located, and the     *)
(* domain asked.                                                           *)
LEMMA SignerKeepsRecordInv ==
    ASSUME RecordInv, NEW s \in Signers,
           CheckOut(s) \/ Locate(s) \/ ConfirmDomain(s) \/ StopSigner(s)
    PROVE  RecordInv'
<1>0. /\ signer \in [Signers -> SignerRuns] /\ signer[s] \in SignerRuns
      /\ Truthful(signer[s]) /\ Signing
      /\ pages \in Seq(Identity) /\ Len(pages) \in Nat
  BY DEF RecordInv, Signing, SiteSafe, SiteTypes
<1>1. UNCHANGED <<provider, deploy, history, repo, sites, run, trace>>
  BY DEF CheckOut, Locate, ConfirmDomain, StopSigner, siteVars
<1>2. UNCHANGED <<pages, sites, live>>
  BY <1>1 DEF provider, trace
<1>3. CASE CheckOut(s)
  <2> DEFINE b == signer[s].build
             j == [signer[s] EXCEPT !.step = "locate", !.gen = NextGeneration(b)]
  <2>1. Kept(b) /\ b \in Builds
    BY <1>0, <1>3 DEF CheckOut, Truthful, Kept
  <2>2. NextGeneration(b) \in Nat
    BY <2>1, NextGenerationType DEF RecordInv
  <2>3. signer' = [signer EXCEPT ![s] = j]
    BY <1>0, <1>3 DEF CheckOut
  <2>4. j \in SignerRuns /\ j.step = "locate" /\ j.build = b
    BY <1>0, <2>2 DEF SignerRuns, SignerSteps
  <2>5. Truthful(j)
    BY <2>1, <2>4 DEF Truthful
  <2> HIDE DEF j
  <2>6. Signing'
    BY <1>0, <1>2, <2>3, <2>4, <2>5, SignerMoves
  <2> QED BY <1>1, <2>6, OnlySignerMoves
<1>4. CASE Locate(s)
  <2> DEFINE j == [signer[s] EXCEPT !.step = "confirm", !.page = Len(pages)]
  <2>1. /\ signer[s].step = "locate" /\ pages # <<>>
        /\ pages[Len(pages)] = Artifact(signer[s])
        /\ signer' = [signer EXCEPT ![s] = j]
    BY <1>0, <1>4 DEF Locate, Artifact
  <2>2. /\ j \in SignerRuns /\ j.step = "confirm" /\ j.build = signer[s].build
        /\ j.page = Len(pages)
    BY <1>0 DEF SignerRuns, SignerSteps
  <2>3. Len(pages) \in 1..Len(pages)
    BY <1>0, <2>1
  <2> HIDE DEF j
  <2>4. Truthful(j)
    BY <1>0, <2>1, <2>2, <2>3 DEF Truthful, Artifact
  <2>5. Signing'
    BY <1>0, <1>2, <2>1, <2>2, <2>4, SignerMoves
  <2> QED BY <1>1, <2>5, OnlySignerMoves
<1>5. CASE ConfirmDomain(s)
  <2> DEFINE j == [signer[s] EXCEPT !.step = "push"]
  <2>1. /\ signer[s].step = "confirm" /\ Domain = pages[signer[s].page]
        /\ signer' = [signer EXCEPT ![s] = j]
    BY <1>0, <1>5 DEF ConfirmDomain
  <2>2. /\ j \in SignerRuns /\ j.step = "push" /\ j.build = signer[s].build
        /\ j.page = signer[s].page
    BY <1>0 DEF SignerRuns, SignerSteps
  <2>3. Domain # Nothing
    BY <1>0, <2>1, NothingAssumption DEF Truthful
  <2>4. Domain \in live
    BY <2>3 DEF RecordInv, Witnessed, Domain
  <2> HIDE DEF j
  <2>5. Truthful(j)
    BY <1>0, <2>1, <2>2, <2>4 DEF Truthful, Artifact
  <2>6. Signing'
    BY <1>0, <1>2, <2>1, <2>2, <2>5, SignerMoves
  <2> QED BY <1>1, <2>6, OnlySignerMoves
<1>6. CASE StopSigner(s)
  <2>1. Signing'
    BY <1>0, <1>2, <1>6, IdleSigner, SignerMoves DEF StopSigner
  <2> QED BY <1>1, <2>1, OnlySignerMoves
<1> QED BY <1>3, <1>4, <1>5, <1>6

(* Appending a generation keeps one of them the highest.                   *)
LEMMA AddingKeepsNumbered ==
    ASSUME Numbered, NEW r \in Generations, repo' = [repo EXCEPT !.gens = @ \cup {r}]
    PROVE  Numbered'
<1>1. /\ repo.gens \subseteq Generations /\ repo'.gens = repo.gens \cup {r}
      /\ repo' \in [latest : Nat, gens : SUBSET Generations]
  BY DEF Numbered
<1>2. r.build \in Nat /\ r.gen \in Nat
  BY DeploymentAssumption DEF Generations
<1>3. \A q \in repo.gens : q.build \in Nat /\ q.gen \in Nat
  BY <1>1, DeploymentAssumption DEF Generations
<1>4. \E n \in Nat : \A q \in repo'.gens : q.gen <= n
  <2>1. PICK n \in Nat : \A q \in repo.gens : q.gen <= n
    BY DEF Numbered
  <2>2. CASE r.gen <= n
    BY <1>1, <2>1, <2>2
  <2>3. CASE n <= r.gen
    <3>1. \A q \in repo'.gens : q.gen <= r.gen
      BY <1>1, <1>2, <1>3, <2>1, <2>3
    <3> QED BY <1>2, <3>1
  <2> QED BY <1>2, <2>2, <2>3
<1>5. \E h \in repo'.gens : IsHighest(h, repo'.gens)
  <2>1. CASE repo.gens = {}
    BY <1>1, <1>2, <2>1 DEF IsHighest
  <2>2. CASE repo.gens # {}
    <3>1. PICK h \in repo.gens : IsHighest(h, repo.gens)
      BY <2>2 DEF Numbered
    <3>2. h.build \in Nat /\ h.gen \in Nat
      BY <1>3
    <3>3. CASE r.build < h.build \/ (r.build = h.build /\ r.gen <= h.gen)
      BY <1>1, <3>1, <3>3 DEF IsHighest
    <3>4. CASE h.build < r.build \/ (h.build = r.build /\ h.gen <= r.gen)
      <4>1. ASSUME NEW q \in repo'.gens
            PROVE  q.build < r.build \/ (q.build = r.build /\ q.gen <= r.gen)
        <5>1. CASE q = r
          BY <1>2, <5>1
        <5>2. CASE q \in repo.gens
          BY <1>2, <1>3, <3>1, <3>2, <3>4, <5>2 DEF IsHighest
        <5> QED BY <1>1, <5>1, <5>2
      <4> QED BY <1>1, <4>1 DEF IsHighest
    <3> QED BY <1>2, <3>2, <3>3, <3>4
  <2> QED BY <2>1, <2>2
<1> QED BY <1>1, <1>4, <1>5 DEF Numbered

(* The push only ever adds: a number that is taken is refused.             *)
LEMMA PushAdds ==
    ASSUME Numbered, NEW s \in Signers, PushGeneration(s)
    PROVE  repo' = [repo EXCEPT !.gens = @ \cup
             {[build |-> signer[s].build, gen |-> signer[s].gen,
               code |-> sites[signer[s].build], page |-> signer[s].page, by |-> s]}]
<1> DEFINE r == [build |-> signer[s].build, gen |-> signer[s].gen,
                 code |-> sites[signer[s].build], page |-> signer[s].page, by |-> s]
<1>1. /\ MayPush(r)
      /\ repo' = [repo EXCEPT !.gens =
                    {q \in @ : ~(q.build = r.build /\ q.gen = r.gen)} \cup {r}]
  BY DEF PushGeneration
<1> HIDE DEF r
<1>2. {q \in repo.gens : ~(q.build = r.build /\ q.gen = r.gen)} = repo.gens
  BY <1>1 DEF MayPush
<1> QED BY <1>1, <1>2 DEF r

LEMMA PushKeepsRecordInv ==
    ASSUME RecordInv, NEW s \in Signers, PushGeneration(s)
    PROVE  RecordInv'
<1> DEFINE j == signer[s]
           r == [build |-> j.build, gen |-> j.gen, code |-> sites[j.build],
                 page |-> j.page, by |-> s]
<1>1. /\ UNCHANGED <<provider, deploy, history, sites, run, steady, live>>
      /\ signer' = [signer EXCEPT ![s] = NoSigner] /\ j.step = "push"
  BY DEF PushGeneration, siteVars
<1>2. /\ Signing /\ Numbered /\ j \in SignerRuns /\ Truthful(j)
  BY DEF RecordInv, Signing
<1>3. repo' = [repo EXCEPT !.gens = @ \cup {r}]
  BY <1>2, PushAdds
<1>4. SiteSafe' /\ Domain' = Domain /\ UNCHANGED <<pages, edge, late>>
  BY <1>1, SameSite
<1>5. Kept(j.build) /\ sites[j.build] \in Codes
  BY <1>1, <1>2 DEF Truthful, Kept, RecordInv, Retained
<1>6. /\ j.page \in 1..Len(pages) /\ pages[j.page] = Artifact(j)
      /\ Artifact(j) \in live
  BY <1>1, <1>2 DEF Truthful
<1>7. r \in Generations
  BY <1>2, <1>5 DEF Generations, SignerRuns, Kept
<1>8. Recording(r) = Artifact(j) /\ r.page = j.page
  BY DEF Recording, Artifact
<1> HIDE DEF r, j
<1>9. Numbered' /\ repo'.gens = repo.gens \cup {r}
  BY <1>2, <1>3, <1>7, AddingKeepsNumbered DEF Numbered
<1>10. Retained'
  BY <1>1, <1>4 DEF RecordInv, Retained, Kept
<1>11. Signing'
  BY <1>1, <1>2, <1>4, IdleSigner, SignerMoves
<1>12. Passed'
  BY <1>1, <1>4, <1>9 DEF RecordInv, Passed
<1>13. Witnessed'
  BY <1>1, <1>4 DEF RecordInv, Witnessed
<1>14. RecordsNameWhatWasServed'
  <2>1. ASSUME NEW q \in repo'.gens
        PROVE  /\ q.page \in 1..Len(pages) /\ pages[q.page] = Recording(q)
               /\ Recording(q) \in live
    <3>1. CASE q \in repo.gens
      BY <3>1 DEF RecordInv, RecordsNameWhatWasServed
    <3>2. CASE q = r
      BY <1>6, <1>8, <3>2
    <3> QED BY <1>9, <3>1, <3>2
  <2> QED BY <1>1, <1>4, <2>1 DEF RecordsNameWhatWasServed, Recording
<1> QED
  BY <1>4, <1>9, <1>10, <1>11, <1>12, <1>13, <1>14 DEF RecordInv

LEMMA PointBackKeepsRecordInv ==
    ASSUME RecordInv, NEW b \in Builds, PointBack(b) PROVE RecordInv'
<1>1. /\ UNCHANGED <<provider, deploy, history, sites, run, signer, steady, live>>
      /\ repo' = [repo EXCEPT !.latest = b]
  BY DEF PointBack, trace
<1>2. SiteSafe' /\ Domain' = Domain /\ UNCHANGED <<pages, edge, late>>
  BY <1>1, SameSite
<1>3. repo' \in [latest : Nat, gens : SUBSET Generations] /\ repo'.gens = repo.gens
  BY <1>1, DeploymentAssumption DEF RecordInv, Numbered
<1>4. Retained' /\ Numbered'
  BY <1>1, <1>2, <1>3 DEF RecordInv, Retained, Kept, Numbered, IsHighest
<1>5. Signing'
  BY <1>1, <1>2 DEF RecordInv, Signing, Truthful, Kept, Artifact
<1>6. Passed' /\ Witnessed' /\ RecordsNameWhatWasServed'
  BY <1>1, <1>2, <1>3 DEF RecordInv, Passed, Witnessed, RecordsNameWhatWasServed
<1> QED BY <1>2, <1>4, <1>5, <1>6 DEF RecordInv

LEMMA StepKeepsRecordInv == RecordInv /\ [RecordNext]_allVars => RecordInv'
<1> SUFFICES ASSUME RecordInv, [RecordNext]_allVars PROVE RecordInv'
  OBVIOUS
<1>1. CASE SiteStep
  BY <1>1, SiteStepKeepsRecordInv
<1>2. CASE \E a \in {Nothing, Domain} : BeginRun(a)
  BY <1>2, BeginRunKeepsRecordInv
<1>3. CASE Gate \/ StopRun \/ PublishBuild \/ DeployEnds \/ WatchEnds
  BY <1>3, GateKeepsRecordInv, StopKeepsRecordInv, PublishBuildKeepsRecordInv,
     DeployEndsKeepsRecordInv
<1>4. ASSUME NEW s \in Signers, Sign(s) \/ \E b \in Builds : SignByHand(s, b)
      PROVE  RecordInv'
  BY <1>4, SignerKeepsRecordInv, PushKeepsRecordInv, SignByHandKeepsRecordInv
    DEF Sign
<1>5. CASE \E b \in Builds : PointBack(b)
  BY <1>5, PointBackKeepsRecordInv
<1>6. CASE UNCHANGED allVars
  <2>1. /\ UNCHANGED <<provider, deploy, history, repo, sites, run, signer, steady,
                       live>>
    BY <1>6 DEF allVars, siteVars, recordVars, trace
  <2>2. Domain' = Domain
    BY <2>1, SameSite
  <2>3. Passed'
    BY <2>1, <2>2 DEF RecordInv, Passed
  <2> QED BY <2>1, <2>3, SameSite, SameRecords DEF RecordInv
<1> QED BY <1>1, <1>2, <1>3, <1>4, <1>5, <1>6 DEF RecordNext

-----------------------------------------------------------------------------
(* The theorems.                                                           *)

(* Whatever the provider, the operator and the signers do: every state is  *)
(* typed, and what a run or a signer is about to do is right.              *)
THEOREM RecordInvariant == RecordSpec => []RecordInv
<1>1. RecordInit => RecordInv
  BY InitIsRecordInv
<1>2. RecordInv /\ [RecordNext]_allVars => RecordInv'
  BY StepKeepsRecordInv
<1> QED BY <1>1, <1>2, PTL DEF RecordSpec

(* run_deployment rolls production back only after a promotion of its own, *)
(* and a run that reports a restored site left production at what the      *)
(* domain served before that promotion, unless somebody else moved it.     *)
THEOREM CompensationStaysExact == RecordSpec => []CompensationIsExact
<1>1. RecordInv => CompensationIsExact
  BY SafeIsExact DEF RecordInv
<1> QED BY <1>1, RecordInvariant, PTL

(* Every deployment generation names a production deployment of that very  *)
(* build and commit, which the domain did serve, however many signers run. *)
THEOREM RecordsAreTrue == RecordSpec => []RecordsNameWhatWasServed
<1>1. RecordInv => RecordsNameWhatWasServed
  BY DEF RecordInv
<1> QED BY <1>1, RecordInvariant, PTL

(* Only a push changes the generations, and it adds one.                   *)
LEMMA StepsOnlyAdd ==
    ASSUME RecordInv, RecordNext PROVE repo.gens \subseteq repo'.gens
<1>0. repo \in [latest : Nat, gens : SUBSET Generations] /\ Numbered
  BY DEF RecordInv, Numbered
<1>1. ASSUME NEW s \in Signers, PushGeneration(s)
      PROVE  repo.gens \subseteq repo'.gens
  BY <1>0, <1>1, PushAdds
<1>2. CASE PublishBuild \/ \E b \in Builds : PointBack(b)
  BY <1>0, <1>2 DEF PublishBuild, PointBack
<1>3. CASE UNCHANGED repo
  BY <1>3
<1>4. CASE SiteStep \/ Gate \/ StopRun \/ DeployEnds \/ WatchEnds
             \/ \E a \in {Nothing, Domain} : BeginRun(a)
  <2>1. UNCHANGED repo
    BY <1>4 DEF SiteStep, recordVars, Gate, StopRun, DeployEnds, WatchEnds, BeginRun
  <2> QED BY <1>3, <2>1
<1>5. ASSUME NEW s \in Signers,
             \/ CheckOut(s) \/ Locate(s) \/ ConfirmDomain(s) \/ StopSigner(s)
             \/ \E b \in Builds : SignByHand(s, b)
      PROVE  repo.gens \subseteq repo'.gens
  BY <1>5 DEF CheckOut, Locate, ConfirmDomain, StopSigner, SignByHand
<1> QED BY <1>1, <1>2, <1>4, <1>5 DEF RecordNext, Sign

(* No generation is ever changed or lost, and a run that no operator waved *)
(* through uploads only over a site that a generation records, unless the  *)
(* domain changed between the gate and the upload.                         *)
THEOREM HistoryIsKept == RecordSpec => RecordsKeepHistory
<1>1. RecordInv /\ [RecordNext]_allVars =>
        [repo.gens \subseteq repo'.gens]_allVars
  BY StepsOnlyAdd
<1>2. RecordInv => (run.passed = "record" /\ steady
                      => \E r \in repo.gens : Recording(r) = Domain)
  BY DEF RecordInv, Passed
<1>3. RecordInv /\ [RecordNext]_allVars =>
        [/\ deploy.step = "upload" /\ pages' # pages /\ deploy' # deploy
         /\ run.passed = "record" /\ steady
         => \E r \in repo.gens : Recording(r) = Domain]_allVars
  BY <1>2
<1> QED
  BY <1>1, <1>3, RecordInvariant, PTL
    DEF RecordSpec, RecordsKeepHistory, BuildsOnlyOnRecorded, GenerationsAppendOnly

-----------------------------------------------------------------------------
(***************************************************************************)
(* For any number of jobs, any toolchain and any PATH: a standing marker   *)
(* proves a wipe, no log of a job is lost, and every job starts alone on a *)
(* clean root with the tools the manifest checks.                          *)
(***************************************************************************)

Registering == {"consume", "mint", "config", "run"}
Places == {"off", "wait"} \cup Phases \cup Inside
Holders == {"none", "alive", "dead", "orphan"}

RunnerTypes ==
    /\ pc \in [Invocations -> Places]
    /\ cycle \in [Invocations -> BOOLEAN]
    /\ holder \in [Invocations -> Holders]
    /\ root \in [image : {"none", "part", "whole"}, top : BOOLEAN,
                 owned : BOOLEAN, traces : SUBSET Jobs, logs : SUBSET Jobs]
    /\ marker \in BOOLEAN /\ exported \subseteq Jobs
    /\ procs \subseteq Jobs \cup {RunSh} /\ working \in Jobs \cup {0}
    /\ jobs \in 0..MaxJobs /\ claimed \in BOOLEAN
    /\ rash \in BOOLEAN

(* The lock file has one holder, which an invocation that is off has       *)
(* either ended or left behind.                                            *)
Holding(c) == holder[c] \in {"alive", "orphan"}
OneHolder ==
    /\ \A c, d \in Invocations : Holding(c) /\ Holding(d) => c = d
    /\ \A c \in Invocations : pc[c] = "off" => holder[c] \in {"none", "orphan"}

(* Only a cycle goes on to the runner itself.                              *)
CyclesRun == \A c \in Invocations : pc[c] \in {"run", "wait"} => cycle[c]

(* The toolchain is bound wherever a registration relies on it.            *)
ReliedOn ==
    \/ RunSh \in procs
    \/ \E c \in Invocations : pc[c] \in Registering \cup {"wait"}
ToolsBound == ReliedOn => ToolchainVerifies /\ PathBound

(* A phase is executed by the owner of the lock, and in a cycle the lock   *)
(* was taken by the phase before.                                          *)
Locks ==
    /\ \A c \in Invocations : pc[c] \in Inside => holder[c] = "alive"
    /\ \A c \in Invocations : cycle[c] /\ pc[c] \in {"restore", "register"}
                                => holder[c] \in {"alive", "dead"}

(* What a cleanup has established by the step it is at.                    *)
Clean == root.traces = {} /\ root.logs = {} /\ procs = {}
Cleanup ==
    /\ \A c \in Invocations : pc[c] \in {"export", "wipe", "verify"} => procs = {}
    /\ \A c \in Invocations : pc[c] = "wipe" => root.logs \subseteq exported

(* The marker, and the registration that consumed it, stand for a clean    *)
(* root, and so does a runner that waits for its job.                      *)
Marked ==
    /\ marker => Clean
    /\ \A c \in Invocations : pc[c] \in Registering \ {"consume"} => ~marker /\ Clean
    /\ RunSh \in procs /\ working = 0 /\ claimed =>
         root.traces = {} /\ root.logs = {} /\ procs = {RunSh}

(* From its unpacking on, a cycle keeps the image it runs in.              *)
Imaged ==
    /\ \A c \in Invocations : pc[c] = "handover" => root.image = "whole"
    /\ \A c \in Invocations :
         /\ cycle[c] /\ holder[c] = "alive"
         /\ pc[c] \in Registering \cup {"register", "wait"}
         => root.image = "whole" /\ root.owned

Logged == 1..jobs \subseteq root.logs \cup exported

(* A lock holder that died inside a phase (rash) voids what the lock gives.*)
IInv ==
    /\ RunnerTypes /\ OneHolder /\ CyclesRun /\ ToolsBound
    /\ ~rash => Locks /\ Cleanup /\ Marked /\ Imaged /\ Logged

-----------------------------------------------------------------------------
(* The invocations and their lock.                                         *)

LEMMA BeginKeeps ==
    ASSUME IInv, NEW c \in Invocations, NEW cmd \in Commands, Begin(c, cmd)
    PROVE  IInv'
<1> USE DEF IInv, RunnerTypes, Begin, Commands, Step, machine, outside, fate
<1>1. RunnerTypes'
  BY DEF Places, Phases
<1>2. OneHolder' /\ CyclesRun'
  BY DEF OneHolder, Holding, CyclesRun
<1>3. ToolsBound'
  BY DEF ToolsBound, ReliedOn, ToolchainVerifies, PathBound, Resolves,
     Registering
<1>4. ASSUME ~rash' PROVE Locks' /\ Imaged'
  BY <1>4 DEF Locks, Inside, Imaged, Registering
<1>5. ASSUME ~rash' PROVE Cleanup' /\ Logged' /\ Marked'
  BY <1>5 DEF Cleanup, Marked, Clean, Logged, Registering
<1> QED BY <1>1, <1>2, <1>3, <1>4, <1>5

(* Ending an invocation changes nothing that another one relies on.        *)
LEMMA LeavingKeeps ==
    ASSUME IInv, NEW c \in Invocations, Leave(c),
           UNCHANGED <<cycle, machine, outside, fate>>
    PROVE  IInv'
<1> USE DEF IInv, RunnerTypes, Leave, Step, machine, outside, fate
<1>1. RunnerTypes'
  BY DEF Places, Holders
<1>2. OneHolder' /\ CyclesRun'
  BY DEF OneHolder, Holding, CyclesRun
<1>3. ToolsBound'
  BY DEF ToolsBound, ReliedOn, ToolchainVerifies, PathBound, Resolves,
     Registering
<1>4. ASSUME ~rash' PROVE Locks' /\ Imaged'
  BY <1>4 DEF Locks, Inside, Imaged
<1>5. ASSUME ~rash' PROVE Cleanup' /\ Logged' /\ Marked'
  BY <1>5 DEF Cleanup, Marked, Clean, Logged, Registering
<1> QED BY <1>1, <1>2, <1>3, <1>4, <1>5

LEMMA HolderExitsKeeps ==
    ASSUME IInv, NEW c \in Invocations, HolderExits(c)
    PROVE  IInv'
<1> USE DEF IInv, RunnerTypes, HolderExits, Step, machine, outside, fate
<1>1. RunnerTypes'
  BY DEF Holders
<1>2. OneHolder' /\ CyclesRun'
  BY DEF OneHolder, Holding, CyclesRun
<1>3. ToolsBound'
  BY DEF ToolsBound, ReliedOn, ToolchainVerifies, PathBound, Resolves
<1>4. ASSUME ~rash' PROVE Locks' /\ Imaged'
  BY <1>4 DEF Locks, Imaged
<1>5. ASSUME ~rash' PROVE Cleanup' /\ Logged' /\ Marked'
  BY <1>5 DEF Cleanup, Marked, Clean, Logged
<1> QED BY <1>1, <1>2, <1>3, <1>4, <1>5

LEMMA HolderDiesKeeps ==
    ASSUME IInv, NEW c \in Invocations, HolderDies(c)
    PROVE  IInv'
<1> USE DEF IInv, RunnerTypes, HolderDies, Step, machine, outside, fate
<1>1. RunnerTypes'
  BY DEF Holders
<1>2. OneHolder' /\ CyclesRun'
  BY DEF OneHolder, Holding, CyclesRun
<1>3. ToolsBound'
  BY DEF ToolsBound, ReliedOn, ToolchainVerifies, PathBound, Resolves
<1>4. ASSUME ~rash' PROVE Locks' /\ Imaged'
  BY <1>4 DEF Locks, OneHolder, Holding, Inside, CyclesRun, Imaged, Registering
<1>5. ASSUME ~rash' PROVE Cleanup' /\ Logged' /\ Marked'
  BY <1>5 DEF Cleanup, Marked, Clean, Logged
<1> QED BY <1>1, <1>2, <1>3, <1>4, <1>5

LEMMA KillKeeps ==
    ASSUME IInv, NEW c \in Invocations, Kill(c)
    PROVE  IInv'
<1> USE DEF IInv, RunnerTypes, Kill, Step, machine, outside, fate
<1>1. RunnerTypes'
  BY DEF Places, Holders
<1>2. OneHolder' /\ CyclesRun'
  BY DEF OneHolder, Holding, CyclesRun
<1>3. ToolsBound'
  BY DEF ToolsBound, ReliedOn, ToolchainVerifies, PathBound, Resolves,
     Registering
<1>4. ASSUME ~rash' PROVE Locks' /\ Imaged'
  BY <1>4 DEF Locks, Inside, Imaged
<1>5. ASSUME ~rash' PROVE Cleanup' /\ Logged' /\ Marked'
  BY <1>5 DEF Cleanup, Marked, Clean, Logged, Registering
<1> QED BY <1>1, <1>2, <1>3, <1>4, <1>5

-----------------------------------------------------------------------------
(* destroy-root.                                                           *)

LEMMA EnterDestroyKeeps ==
    ASSUME IInv, NEW c \in Invocations, EnterDestroy(c)
    PROVE  IInv'
<1> USE DEF IInv, RunnerTypes, EnterDestroy, Locked, LockFree, Step, machine,
            outside, fate
<1>1. RunnerTypes'
  BY RunnerAssumption DEF RunnerAssumption, Places, Phases, Inside, Holders,
     Jobs
<1>2. OneHolder' /\ CyclesRun'
  BY DEF OneHolder, Holding, CyclesRun
<1>3. ToolsBound'
  BY DEF ToolsBound, ReliedOn, ToolchainVerifies, PathBound, Resolves,
     Registering
<1>4. ASSUME ~rash' PROVE Locks' /\ Imaged'
  BY <1>4 DEF Locks, Imaged, Registering
<1>5. ASSUME ~rash' PROVE Cleanup' /\ Logged' /\ Marked'
  BY <1>5 DEF Cleanup, Marked, Clean, Logged, Registering
<1> QED BY <1>1, <1>2, <1>3, <1>4, <1>5

LEMMA TerminateKeeps ==
    ASSUME IInv, NEW c \in Invocations, Terminate(c)
    PROVE  IInv'
<1> USE DEF IInv, RunnerTypes, Terminate, Leave, Step, machine, outside, fate
<1>1. RunnerTypes'
  BY DEF Places, Inside, Holders
<1>2. OneHolder' /\ CyclesRun'
  BY DEF OneHolder, Holding, CyclesRun
<1>3. ToolsBound'
  BY DEF ToolsBound, ReliedOn, ToolchainVerifies, PathBound, Resolves,
     Registering
<1>4. ASSUME ~rash' PROVE Locks' /\ Imaged'
  BY <1>4 DEF Locks, Inside, Imaged, Registering
<1>5. ASSUME ~rash' PROVE Cleanup' /\ Logged' /\ Marked'
  BY <1>5 DEF Cleanup, Marked, Clean, Logged, Registering
<1> QED BY <1>1, <1>2, <1>3, <1>4, <1>5

LEMMA ExportLogsKeeps ==
    ASSUME IInv, NEW c \in Invocations, ExportLogs(c)
    PROVE  IInv'
<1> USE DEF IInv, RunnerTypes, ExportLogs, CopyVerifies, Leave, Step, machine,
            outside, fate
<1>1. RunnerTypes'
  BY DEF Places, Inside, Holders
<1>2. OneHolder' /\ CyclesRun'
  BY DEF OneHolder, Holding, CyclesRun
<1>3. ToolsBound'
  BY DEF ToolsBound, ReliedOn, ToolchainVerifies, PathBound, Resolves,
     Registering
<1>4. ASSUME ~rash' PROVE Locks' /\ Imaged'
  BY <1>4 DEF Locks, Inside, Imaged, Registering
<1>5. ASSUME ~rash' PROVE Cleanup' /\ Logged' /\ Marked'
  BY <1>5 DEF Cleanup, Marked, Clean, Logged, Registering
<1> QED BY <1>1, <1>2, <1>3, <1>4, <1>5

LEMMA WipeKeeps ==
    ASSUME IInv, NEW c \in Invocations, Wipe(c)
    PROVE  IInv'
<1> USE DEF IInv, RunnerTypes, Wipe, Bare, Leave, Step, machine, outside, fate
<1>0. /\ root' \in [image : {"none", "part", "whole"}, top : BOOLEAN,
                   owned : BOOLEAN, traces : SUBSET Jobs, logs : SUBSET Jobs]
     /\ root'.traces \subseteq root.traces /\ root'.logs \subseteq root.logs
     /\ pc[c] = "wipe"
     /\ \/ pc' = [pc EXCEPT ![c] = "verify"] /\ holder' = holder
        \/ pc' = [pc EXCEPT ![c] = "off"] /\ holder' =
             [holder EXCEPT ![c] = IF @ = "orphan" THEN @ ELSE "none"]
     /\ UNCHANGED <<cycle, marker, exported, procs, working, jobs, claimed, tools, rash>>
  <2>1. ASSUME NEW kept \in SUBSET root.traces, NEW logs \in SUBSET root.logs,
               root' = [root EXCEPT !.traces = kept, !.logs = logs,
                           !.image = IF @ = "none" THEN @ ELSE "part"]
        PROVE  /\ root' \in [image : {"none", "part", "whole"}, top : BOOLEAN,
                   owned : BOOLEAN, traces : SUBSET Jobs, logs : SUBSET Jobs]
               /\ root'.traces \subseteq root.traces /\ root'.logs \subseteq root.logs
    BY <2>1
  <2>2. ASSUME root' = [Bare EXCEPT !.top = root.top]
        PROVE  /\ root' \in [image : {"none", "part", "whole"}, top : BOOLEAN,
                   owned : BOOLEAN, traces : SUBSET Jobs, logs : SUBSET Jobs]
               /\ root'.traces \subseteq root.traces /\ root'.logs \subseteq root.logs
    BY <2>2
  <2> QED BY <2>1, <2>2
<1> HIDE DEF Wipe, Leave, Step, Bare
<1>1. RunnerTypes'
  BY <1>0 DEF Places, Inside, Holders
<1>2. OneHolder' /\ CyclesRun'
  BY <1>0 DEF OneHolder, Holding, CyclesRun
<1>3. ToolsBound'
  BY <1>0 DEF ToolsBound, ReliedOn, ToolchainVerifies, PathBound, Resolves,
     Registering
<1>4. ASSUME ~rash' PROVE Locks' /\ Imaged'
  BY <1>0, <1>4 DEF Locks, OneHolder, Holding, Inside, Imaged, Registering
<1>5. ASSUME ~rash' PROVE Cleanup' /\ Logged' /\ Marked'
  BY <1>0, <1>5 DEF Cleanup, Marked, Clean, Logged, Registering
<1> QED BY <1>1, <1>2, <1>3, <1>4, <1>5

LEMMA VerifyEmptyKeeps ==
    ASSUME IInv, NEW c \in Invocations, VerifyEmpty(c)
    PROVE  IInv'
<1> USE DEF IInv, RunnerTypes, VerifyEmpty, Bare, Proceed, Leave, Step,
            machine, outside, fate
<1>1. RunnerTypes'
  BY RunnerAssumption DEF RunnerAssumption, Places, Phases, Inside, Holders,
     Jobs
<1>2. OneHolder' /\ CyclesRun'
  BY DEF OneHolder, Holding, CyclesRun
<1>3. ToolsBound'
  BY DEF ToolsBound, ReliedOn, ToolchainVerifies, PathBound, Resolves,
     Registering
<1>4. ASSUME ~rash' PROVE Locks' /\ Imaged'
  BY <1>4 DEF Locks, Inside, Imaged, Registering
<1>5. ASSUME ~rash' PROVE Cleanup' /\ Logged' /\ Marked'
  BY <1>5 DEF Locks, OneHolder, Holding, Cleanup, Marked, Clean, Inside,
     Logged, Registering
<1> QED BY <1>1, <1>2, <1>3, <1>4, <1>5

-----------------------------------------------------------------------------
(* restore-image.                                                          *)

LEMMA EnterRestoreKeeps ==
    ASSUME IInv, NEW c \in Invocations, EnterRestore(c)
    PROVE  IInv'
<1> USE DEF IInv, RunnerTypes, EnterRestore, Locked, LockFree, Step, machine,
            outside, fate
<1>1. RunnerTypes'
  BY DEF Places, Inside, Holders
<1>2. OneHolder' /\ CyclesRun'
  BY DEF OneHolder, Holding, CyclesRun
<1>3. ToolsBound'
  BY DEF ToolsBound, ReliedOn, ToolchainVerifies, PathBound, Resolves,
     Registering
<1>4. ASSUME ~rash' PROVE Locks' /\ Imaged'
  BY <1>4 DEF Locks, Imaged, Registering
<1>5. ASSUME ~rash' PROVE Cleanup' /\ Logged' /\ Marked'
  BY <1>5 DEF Cleanup, Marked, Clean, Logged, Registering
<1> QED BY <1>1, <1>2, <1>3, <1>4, <1>5

LEMMA UnpackKeeps ==
    ASSUME IInv, NEW c \in Invocations, Unpack(c)
    PROVE  IInv'
<1> USE DEF IInv, RunnerTypes, Unpack, Leave, Step, machine, outside, fate
<1>1. RunnerTypes'
  BY RunnerAssumption DEF RunnerAssumption, Places, Phases, Inside, Holders,
     Jobs
<1>2. OneHolder' /\ CyclesRun'
  BY DEF OneHolder, Holding, CyclesRun
<1>3. ToolsBound'
  BY DEF ToolsBound, ReliedOn, ToolchainVerifies, PathBound, Resolves,
     Registering
<1>4. ASSUME ~rash' PROVE Locks'
  BY <1>4 DEF Locks, Inside
<1>5. ASSUME ~rash' PROVE Imaged'
  <2>1. \A d \in Invocations : pc[d] \in Inside \/ holder[d] = "alive" => d = c
    BY <1>5 DEF Locks, OneHolder, Holding, Inside
  <2>2. CASE pc' = [pc EXCEPT ![c] = "handover"] /\ root'.image = "whole"
    BY <2>1, <2>2 DEF Imaged, Registering
  <2>3. CASE Leave(c)
    BY <2>1, <2>3 DEF Imaged, Inside
  <2> QED BY <2>2, <2>3
<1>6. ASSUME ~rash' PROVE Cleanup'
  BY <1>6 DEF Locks, OneHolder, Holding, Cleanup, Marked, Clean, Inside
<1>7. ASSUME ~rash' PROVE Logged'
  <2>1. root'.logs = root.logs /\ exported' = exported /\ jobs' = jobs
    OBVIOUS
  <2>2. ~rash
    BY <1>7
  <2> QED
    BY <2>1, <2>2 DEF Logged
<1>8. ASSUME ~rash' PROVE Marked'
  BY <1>8 DEF Locks, OneHolder, Holding, Cleanup, Marked, Clean, Inside,
     Registering
<1> QED BY <1>1, <1>2, <1>3, <1>4, <1>5, <1>6, <1>7, <1>8

LEMMA HandOverKeeps ==
    ASSUME IInv, NEW c \in Invocations, HandOver(c)
    PROVE  IInv'
<1> USE DEF IInv, RunnerTypes, HandOver, Proceed, Leave, Step, machine,
            outside, fate
<1>1. RunnerTypes'
  BY RunnerAssumption DEF RunnerAssumption, Places, Phases, Inside, Holders,
     Jobs
<1>2. OneHolder' /\ CyclesRun'
  BY DEF OneHolder, Holding, CyclesRun
<1>3. ToolsBound'
  BY DEF ToolsBound, ReliedOn, ToolchainVerifies, PathBound, Resolves,
     Registering
<1>4. ASSUME ~rash' PROVE Locks' /\ Imaged'
  BY <1>4 DEF Locks, Inside, Imaged
<1>5. ASSUME ~rash' PROVE Cleanup' /\ Logged' /\ Marked'
  BY <1>5 DEF Cleanup, Marked, Clean, Logged, Registering
<1> QED BY <1>1, <1>2, <1>3, <1>4, <1>5

-----------------------------------------------------------------------------
(* register.                                                               *)

LEMMA EnterRegisterKeeps ==
    ASSUME IInv, NEW c \in Invocations, EnterRegister(c)
    PROVE  IInv'
<1> USE DEF IInv, RunnerTypes, EnterRegister, Locked, LockFree, Step, machine,
            outside, fate
<1>1. RunnerTypes'
  BY DEF Places, Inside, Holders
<1>2. OneHolder' /\ CyclesRun'
  BY DEF OneHolder, Holding, CyclesRun
<1>3. ToolsBound'
  BY DEF ToolsBound, ToolchainVerifies, PathBound, Resolves
<1>4. ASSUME ~rash' PROVE Locks' /\ Imaged'
  BY <1>4 DEF Locks, Imaged
<1>5. ASSUME ~rash' PROVE Cleanup' /\ Logged' /\ Marked'
  BY <1>5 DEF Cleanup, Marked, Clean, Logged
<1> QED BY <1>1, <1>2, <1>3, <1>4, <1>5

LEMMA ConsumeKeeps ==
    ASSUME IInv, NEW c \in Invocations, Consume(c)
    PROVE  IInv'
<1> USE DEF IInv, RunnerTypes, Consume, Leave, Step, machine, outside, fate
<1>1. RunnerTypes'
  BY RunnerAssumption DEF RunnerAssumption, Places, Phases, Inside, Holders,
     Jobs
<1>2. OneHolder' /\ CyclesRun'
  BY DEF OneHolder, Holding, CyclesRun
<1>3. ToolsBound'
  BY DEF ToolsBound, ReliedOn, ToolchainVerifies, PathBound, Resolves,
     Registering
<1>4. ASSUME ~rash' PROVE Locks' /\ Imaged'
  BY <1>4 DEF Locks, Inside, Imaged, Registering
<1>5. ASSUME ~rash' PROVE Cleanup' /\ Logged' /\ Marked'
  BY <1>5 DEF Cleanup, Marked, Clean, Logged, Registering
<1> QED BY <1>1, <1>2, <1>3, <1>4, <1>5

LEMMA MintKeeps ==
    ASSUME IInv, NEW c \in Invocations, Mint(c)
    PROVE  IInv'
<1> USE DEF IInv, RunnerTypes, Mint, Leave, Step, machine, outside, fate
<1>1. RunnerTypes'
  BY DEF Places, Inside, Holders
<1>2. OneHolder' /\ CyclesRun'
  BY DEF OneHolder, Holding, CyclesRun
<1>3. ToolsBound'
  BY DEF ToolsBound, ReliedOn, ToolchainVerifies, PathBound, Resolves,
     Registering
<1>4. ASSUME ~rash' PROVE Locks' /\ Imaged'
  BY <1>4 DEF Locks, Inside, Imaged, Registering
<1>5. ASSUME ~rash' PROVE Cleanup' /\ Logged' /\ Marked'
  BY <1>5 DEF Cleanup, Marked, Clean, Logged, Registering
<1> QED BY <1>1, <1>2, <1>3, <1>4, <1>5

LEMMA ConfigureKeeps ==
    ASSUME IInv, NEW c \in Invocations, Configure(c)
    PROVE  IInv'
<1> USE DEF IInv, RunnerTypes, Configure, Proceed, Leave, Step, machine,
            outside, fate
<1>1. RunnerTypes'
  BY RunnerAssumption DEF RunnerAssumption, Places, Phases, Inside, Holders,
     Jobs
<1>2. OneHolder' /\ CyclesRun'
  BY DEF OneHolder, Holding, CyclesRun
<1>3. ToolsBound'
  BY DEF ToolsBound, ReliedOn, ToolchainVerifies, PathBound, Resolves,
     Registering
<1>4. ASSUME ~rash' PROVE Locks' /\ Imaged'
  BY <1>4 DEF Locks, Inside, Imaged, Registering
<1>5. ASSUME ~rash' PROVE Cleanup' /\ Logged' /\ Marked'
  BY <1>5 DEF Cleanup, Marked, Clean, Logged, Registering
<1> QED BY <1>1, <1>2, <1>3, <1>4, <1>5

-----------------------------------------------------------------------------
(* The runner, its jobs and the environment.                               *)

LEMMA RunKeeps ==
    ASSUME IInv, NEW c \in Invocations, Run(c)
    PROVE  IInv'
<1> USE DEF IInv, RunnerTypes, Run, Step, machine, outside, fate
<1>1. RunnerTypes'
  BY RunnerAssumption DEF RunnerAssumption, Places, Phases, Inside, Holders,
     Jobs
<1>2. OneHolder' /\ CyclesRun'
  BY DEF OneHolder, Holding, CyclesRun
<1>3. ToolsBound'
  BY DEF ToolsBound, ReliedOn, ToolchainVerifies, PathBound, Resolves,
     Registering
<1>4. ASSUME ~rash' PROVE Locks' /\ Imaged'
  BY <1>4 DEF Locks, Inside, Imaged, Registering
<1>5. ASSUME ~rash' PROVE Cleanup' /\ Logged' /\ Marked'
  BY <1>5 DEF Locks, OneHolder, Holding, Cleanup, Marked, Clean, Inside,
     Logged, Registering
<1> QED BY <1>1, <1>2, <1>3, <1>4, <1>5

LEMMA JobStartsKeeps ==
    ASSUME IInv, NEW j \in Jobs, JobStarts(j)
    PROVE  IInv'
<1> USE DEF IInv, RunnerTypes, JobStarts, machine, outside, fate
<1>1. RunnerTypes'
  <2>1. j \in 0..MaxJobs /\ j \in Jobs \cup {RunSh}
    BY DEF Jobs
  <2>2. root' \in [image : {"none", "part", "whole"}, top : BOOLEAN,
                 owned : BOOLEAN, traces : SUBSET Jobs, logs : SUBSET Jobs]
    OBVIOUS
  <2> QED BY <2>1, <2>2
<1>2. OneHolder' /\ CyclesRun'
  BY DEF OneHolder, Holding, CyclesRun
<1>3. ToolsBound'
  BY DEF ToolsBound, ReliedOn, ToolchainVerifies, PathBound, Resolves
<1>4. ASSUME ~rash' PROVE Locks' /\ Imaged'
  BY <1>4 DEF Locks, Imaged
<1>5. ASSUME ~rash' PROVE Cleanup' /\ Logged' /\ Marked'
  BY <1>5 DEF Cleanup, Marked, Clean, Logged
<1> QED BY <1>1, <1>2, <1>3, <1>4, <1>5

LEMMA JobEndsKeeps ==
    ASSUME IInv, NEW j \in Jobs, JobEnds(j)
    PROVE  IInv'
<1> USE DEF IInv, RunnerTypes, JobEnds, machine, outside, fate
<1>1. RunnerTypes'
  BY RunnerAssumption DEF RunnerAssumption, Places, Phases, Inside, Holders,
     Jobs
<1>2. OneHolder' /\ CyclesRun'
  BY DEF OneHolder, Holding, CyclesRun
<1>3. ToolsBound'
  BY DEF ToolsBound, ReliedOn, ToolchainVerifies, PathBound, Resolves
<1>4. ASSUME ~rash' PROVE Locks' /\ Imaged'
  BY <1>4 DEF Locks, Imaged
<1>5. ASSUME ~rash' PROVE Cleanup' /\ Logged' /\ Marked'
  BY <1>5 DEF Cleanup, Marked, Clean, Logged
<1> QED BY <1>1, <1>2, <1>3, <1>4, <1>5

LEMMA RunnerQuitsKeeps ==
    ASSUME IInv, RunnerQuits
    PROVE  IInv'
<1> USE DEF IInv, RunnerTypes, RunnerQuits, machine, outside, fate
<1>1. RunnerTypes'
  OBVIOUS
<1>2. OneHolder' /\ CyclesRun'
  BY DEF OneHolder, Holding, CyclesRun
<1>3. ToolsBound'
  BY DEF ToolsBound, ReliedOn, ToolchainVerifies, PathBound, Resolves
<1>4. ASSUME ~rash' PROVE Locks' /\ Imaged'
  BY <1>4 DEF Locks, Imaged
<1>5. ASSUME ~rash' PROVE Cleanup' /\ Logged' /\ Marked'
  BY <1>5 DEF Cleanup, Marked, Clean, Logged
<1> QED BY <1>2, <1>3, <1>4, <1>5

LEMMA RebootKeeps ==
    ASSUME IInv, Reboot
    PROVE  IInv'
<1> USE DEF IInv, RunnerTypes, Reboot, machine, outside, fate
<1>1. RunnerTypes'
  BY DEF Places, Holders
<1>2. OneHolder' /\ CyclesRun'
  BY DEF OneHolder, Holding, CyclesRun
<1>3. ToolsBound'
  BY DEF ToolsBound, ReliedOn, Registering
<1>4. ASSUME ~rash' PROVE Locks' /\ Imaged'
  BY DEF Locks, Inside, Imaged
<1>5. ASSUME ~rash' PROVE Cleanup' /\ Logged' /\ Marked'
  BY <1>5 DEF Cleanup, Marked, Clean, Logged, Registering
<1> QED BY <1>1, <1>2, <1>3, <1>4, <1>5

LEMMA MaintainKeeps ==
    ASSUME IInv, Maintain
    PROVE  IInv'
<1> USE DEF IInv, RunnerTypes, Maintain, machine, outside, fate
<1>1. RunnerTypes'
  OBVIOUS
<1>2. OneHolder' /\ CyclesRun'
  BY DEF OneHolder, Holding, CyclesRun
<1>3. ToolsBound'
  BY DEF ToolsBound, ReliedOn, Registering
<1>4. ASSUME ~rash' PROVE Locks' /\ Imaged'
  BY <1>4 DEF Locks, Imaged
<1>5. ASSUME ~rash' PROVE Cleanup' /\ Logged' /\ Marked'
  BY <1>5 DEF Cleanup, Marked, Clean, Logged
<1> QED BY <1>2, <1>3, <1>4, <1>5

LEMMA CalmDownKeeps ==
    ASSUME IInv, CalmDown
    PROVE  IInv'
<1> USE DEF IInv, RunnerTypes, CalmDown, machine, outside, fate
<1>1. RunnerTypes'
  OBVIOUS
<1>2. OneHolder' /\ CyclesRun'
  BY DEF OneHolder, Holding, CyclesRun
<1>3. ToolsBound'
  BY DEF ToolsBound, ReliedOn, ToolchainVerifies, PathBound, Resolves
<1>4. ASSUME ~rash' PROVE Locks' /\ Imaged'
  BY <1>4 DEF Locks, Imaged
<1>5. ASSUME ~rash' PROVE Cleanup' /\ Logged' /\ Marked'
  BY <1>5 DEF Cleanup, Marked, Clean, Logged
<1> QED BY <1>2, <1>3, <1>4, <1>5

-----------------------------------------------------------------------------
(* The theorems.                                                           *)

LEMMA InitHolds == RunnerInit => IInv
<1> SUFFICES ASSUME RunnerInit PROVE IInv
  OBVIOUS
<1> USE DEF RunnerInit, Bare, RunSh
<1>1. RunnerTypes
  <2>1. 0 \in 0..MaxJobs
    BY RunnerAssumption
  <2>2. "off" \in Places /\ "none" \in Holders
    BY DEF Places, Holders
  <2> QED BY <2>1, <2>2 DEF RunnerTypes
<1>2. OneHolder /\ CyclesRun /\ ToolsBound
  BY DEF OneHolder, Holding, CyclesRun, ToolsBound, ReliedOn, Registering
<1>3. Locks /\ Cleanup /\ Marked /\ Imaged
  BY DEF Locks, Inside, Cleanup, Marked, Imaged, Registering
<1>4. Logged
  BY DEF Logged
<1> QED BY <1>1, <1>2, <1>3, <1>4 DEF IInv

(* Every step of the controller, its runner and its environment keeps the  *)
(* invariant.                                                              *)
LEMMA StepKeeps == IInv /\ [RunnerNext]_vars => IInv'
<1> SUFFICES ASSUME IInv, [RunnerNext]_vars PROVE IInv'
  OBVIOUS
<1>1. ASSUME NEW c \in Invocations, Invoke(c) \/ LockRefuses(c) PROVE IInv'
  <2>1. CASE LockRefuses(c)
    BY <2>1, LeavingKeeps DEF LockRefuses
  <2>2. CASE Invoke(c)
    <3>1. PICK cmd \in Commands : Begin(c, cmd)
      BY <2>2 DEF Invoke, Commands
    <3> QED BY <3>1, BeginKeeps
  <2> QED BY <1>1, <2>1, <2>2
<1>2. ASSUME NEW c \in Invocations, Destroy(c) PROVE IInv'
  BY <1>2, EnterDestroyKeeps, TerminateKeeps, ExportLogsKeeps, WipeKeeps,
     VerifyEmptyKeeps DEF Destroy
<1>3. ASSUME NEW c \in Invocations, Restore(c) PROVE IInv'
  BY <1>3, EnterRestoreKeeps, UnpackKeeps, HandOverKeeps DEF Restore
<1>4. ASSUME NEW c \in Invocations, Register(c) PROVE IInv'
  BY <1>4, EnterRegisterKeeps, LeavingKeeps, ConsumeKeeps, MintKeeps,
     ConfigureKeeps DEF Register, RegisterRefuses
<1>5. ASSUME NEW c \in Invocations, Run(c) \/ Wait(c) PROVE IInv'
  BY <1>5, RunKeeps, LeavingKeeps DEF Wait
<1>6. ASSUME NEW c \in Invocations, HolderExits(c) \/ HolderDies(c) \/ Kill(c)
      PROVE  IInv'
  BY <1>6, HolderExitsKeeps, HolderDiesKeeps, KillKeeps
<1>7. ASSUME NEW j \in Jobs, JobStarts(j) \/ JobEnds(j) PROVE IInv'
  BY <1>7, JobStartsKeeps, JobEndsKeeps
<1>8. CASE RunnerQuits \/ Reboot \/ Maintain \/ CalmDown
  BY <1>8, RunnerQuitsKeeps, RebootKeeps, MaintainKeeps, CalmDownKeeps
<1>9. CASE UNCHANGED vars
  <2>1. UNCHANGED <<pc, cycle, holder, root, marker, exported, procs, working,
                    jobs, claimed, tools, rash>>
    BY <1>9 DEF vars, machine, outside, fate
  <2>2. RunnerTypes' /\ OneHolder' /\ CyclesRun'
    BY <2>1 DEF IInv, RunnerTypes, OneHolder, Holding, CyclesRun
  <2>3. ToolsBound'
    BY <2>1 DEF IInv, ToolsBound, ReliedOn, ToolchainVerifies, PathBound,
       Resolves
  <2>4. ASSUME ~rash' PROVE Locks' /\ Cleanup' /\ Marked' /\ Imaged' /\ Logged'
    BY <2>1, <2>4 DEF IInv, Locks, Cleanup, Marked, Clean, Imaged, Logged
  <2> QED BY <2>2, <2>3, <2>4 DEF IInv
<1> QED BY <1>1, <1>2, <1>3, <1>4, <1>5, <1>6, <1>7, <1>8, <1>9 DEF RunnerNext,
           Work

(* The inductive invariant of the controller holds in every state.         *)
THEOREM RunnerInvariant == RunnerSpec => []IInv
<1>1. IInv /\ UNCHANGED vars => IInv'
  BY StepKeeps
<1> QED BY InitHolds, StepKeeps, PTL DEF RunnerSpec

(* cmd_destroy_root keeps its promises, whoever runs it and whatever is    *)
(* killed: a marker proves a wipe, and no log is wiped away unexported.    *)
THEOREM DestroyKeepsItsPromises == RunnerSpec => []WipesAreSafe
<1>1. IInv => WipesAreSafe
  BY DEF IInv, Marked, Clean, Logged, WipesAreSafe, MarkerProves, LogsSurvive
<1> QED BY <1>1, RunnerInvariant, PTL

(* What resolves on a bound PATH is the file whose checksum was verified.  *)
LEMMA BoundToolsAreChecked ==
    ASSUME ToolchainVerifies, PathBound, NEW t \in Tools
    PROVE  \E d \in Dirs : Resolves(t, d) /\ tools[d][t] = "checked"
<1>1. Gated[t] \in Dirs
  BY RunnerAssumption
<1>2. Resolves(t, Gated[t]) /\ tools[Gated[t]][t] = "checked"
  BY DEF ToolchainVerifies, PathBound, Resolves
<1> QED BY <1>1, <1>2

(* The one-job-clean guarantee: a job starts alone, on a clean root, with  *)
(* the tools that were checked and, in its cycle, in a whole image.        *)
THEOREM EveryJobStartsClean == RunnerSpec => OneJobClean
<1> DEFINE Starts(j) == JobStarts(j) /\ ~rash =>
         /\ root.traces = {} /\ root.logs = {} /\ procs = {RunSh}
         /\ InItsCycle => root.image = "whole" /\ root.owned
         /\ \A t \in Tools : \E d \in Dirs :
              Resolves(t, d) /\ tools[d][t] = "checked"
<1>1. ASSUME IInv, NEW j \in Jobs PROVE Starts(j)
  <2> SUFFICES ASSUME JobStarts(j), ~rash
               PROVE  /\ root.traces = {} /\ root.logs = {} /\ procs = {RunSh}
                      /\ InItsCycle => root.image = "whole" /\ root.owned
                      /\ \A t \in Tools : \E d \in Dirs :
                           Resolves(t, d) /\ tools[d][t] = "checked"
    OBVIOUS
  <2>1. root.traces = {} /\ root.logs = {} /\ procs = {RunSh}
    BY <1>1 DEF IInv, Marked, JobStarts
  <2>2. InItsCycle => root.image = "whole" /\ root.owned
    BY <1>1 DEF IInv, CyclesRun, Imaged, InItsCycle
  <2>3. ToolchainVerifies /\ PathBound
    BY <1>1 DEF IInv, ToolsBound, ReliedOn, JobStarts
  <2> QED BY <2>1, <2>2, <2>3, BoundToolsAreChecked
<1>2. IInv => \A j \in Jobs : Starts(j)
  BY <1>1
<1> QED BY <1>2, RunnerInvariant, PTL DEF OneJobClean

=============================================================================
