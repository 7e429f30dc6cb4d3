----------------------------- MODULE SiteDeployment -----------------------------
(***************************************************************************)
(* Putting a site live (src/populus/deploy/orchestrator.py): one run of    *)
(* run_deployment against the hosting provider, next to an operator who    *)
(* moves production by hand and to the provider's own delays.              *)
(*                                                                         *)
(* A production deployment is its place in the provider's listing, oldest  *)
(* first; it never changes and always answers with the identity it was     *)
(* uploaded with.  What the custom domain answers (edge) follows what the  *)
(* provider serves (serving) with a delay.  An identity stands for the     *)
(* sealed tree: its two markers and all its bytes.                         *)
(***************************************************************************)
EXTENDS Integers, Sequences, FiniteSetsExt

CONSTANTS
    Builds,          \* build ids, as numbers in allocation order
    Codes,           \* commits the site is built from
    Nothing,         \* no identity and no commit: no answer, no site
    SearchLimit,     \* ANCHOR_SEARCH_LIMIT
    Retries,         \* PROPAGATION_RETRIES
    Looks,           \* ROLLBACK_OBSERVATION_ATTEMPTS
    LateUploads,     \* TRUE: the provider may finish what a run gave up on
    MaxPages,        \* bound: production deployments
    MaxMoves         \* bound: what the operator does by hand

ASSUME DeploymentAssumption ==
    /\ Builds \subseteq Nat \ {0}
    /\ {SearchLimit, Looks, MaxPages} \subseteq Nat \ {0}
    /\ {Retries, MaxMoves} \subseteq Nat
    /\ LateUploads \in BOOLEAN

Identity == [build : Builds, code : Codes]

ASSUME NothingAssumption == Nothing \notin Identity \cup Codes

VARIABLES
    pages,      \* the provider's production deployments, oldest first
    serving,    \* the deployment production is at, 0 for none
    edge,       \* the deployment the custom domain answers with
    late,       \* an upload whose run gave up and that may still land
    deploy,     \* the orchestrator's run
    moves,      \* what the operator has done by hand
    mine,       \* history: the deployments this run's upload made
    replaced,   \* history: the domain's answer at the last proof before it
    disturbed   \* history: somebody else moved production since that proof

provider == <<pages, serving, edge, late>>
history  == <<mine, replaced, disturbed>>
siteVars == <<provider, deploy, moves, history>>

BeforeUpload == {"resolve", "walk", "prove", "bracket", "observe", "close",
                 "reprobe", "preview", "seal", "reprove"}
Steps == BeforeUpload \cup
    {"idle", "upload", "await", "verify", "reconcile", "relook", "recount",
     "compensate", "confirm", "done"}
Outcomes == {"none", "untouched", "live", "not_promoted", "uncertain",
             "uncompensated", "restored", "not_restored", "killed"}

NoDeploy == [step |-> "idle", sealed |-> Nothing, served |-> Nothing,
             anchor |-> 0, head |-> 0, seen |-> Nothing, before |-> 0,
             own |-> 0, tries |-> 0, outcome |-> "none"]

SiteInit ==
    /\ pages = <<>> /\ serving = 0 /\ edge = 0 /\ late = Nothing
    /\ deploy = NoDeploy
    /\ moves = 0
    /\ mine = {} /\ replaced = Nothing /\ disturbed = FALSE

-----------------------------------------------------------------------------
(* The provider.                                                           *)

Domain == IF edge = 0 THEN Nothing ELSE pages[edge]

(* A production upload creates a deployment and serves it.                 *)
Promote(i) ==
    /\ Len(pages) < MaxPages
    /\ pages' = Append(pages, i)
    /\ serving' = Len(pages) + 1

Propagate ==
    /\ edge # serving
    /\ edge' = serving
    /\ UNCHANGED <<pages, serving, late, deploy, moves, history>>

(* The upload the run gave up on is completed by the provider after all.   *)
LatePromotion ==
    /\ late # Nothing
    /\ Promote(late)
    /\ late' = Nothing
    /\ mine' = IF late = deploy.sealed THEN mine \cup {Len(pages) + 1} ELSE mine
    /\ disturbed' = (deploy # NoDeploy)
    /\ UNCHANGED <<edge, deploy, moves, replaced>>

-----------------------------------------------------------------------------
(* The operator (docs/operations/rollback.md, step 6).                     *)

(* Path A: the provider is told to serve an older deployment again.        *)
ProviderRollback(d) ==
    /\ moves < MaxMoves /\ d # serving
    /\ serving' = d
    /\ moves' = moves + 1
    /\ disturbed' = (deploy # NoDeploy)
    /\ UNCHANGED <<pages, edge, late, deploy, mine, replaced>>

(* Paths B and C: the bytes of an earlier deployment are uploaded again.   *)
Redeploy(d) ==
    /\ moves < MaxMoves /\ pages[d] # deploy.sealed
    /\ Promote(pages[d])
    /\ moves' = moves + 1
    /\ disturbed' = (deploy # NoDeploy)
    /\ UNCHANGED <<edge, late, deploy, mine, replaced>>

-----------------------------------------------------------------------------
(* run_deployment, up to the production upload.                            *)

Goto(s) == deploy' = [deploy EXCEPT !.step = s]
End(o)  == deploy' = [deploy EXCEPT !.step = "done", !.outcome = o]
Unmoved == UNCHANGED <<provider, moves, history>>

BeginDeploy(i) ==
    /\ deploy.step = "idle"
    /\ deploy' = [NoDeploy EXCEPT !.step = "resolve", !.sealed = i]
    /\ mine' = {} /\ replaced' = Nothing /\ disturbed' = FALSE
    /\ UNCHANGED <<provider, moves>>

ClearDeploy ==
    /\ deploy' = NoDeploy
    /\ mine' = {} /\ replaced' = Nothing /\ disturbed' = FALSE

(* No production deployment at all is a first run, without an anchor.      *)
Resolve ==
    /\ deploy.step = "resolve"
    /\ \/ pages = <<>> /\ Goto("preview")
       \/ /\ pages # <<>> /\ Domain # Nothing
          /\ deploy' = [deploy EXCEPT !.step = "walk", !.served = Domain]
    /\ Unmoved

(* _resolve_serving_anchor: the newest of the newest deployments that      *)
(* serves what the domain served.                                          *)
Walk ==
    LET newest == {d \in 1..Len(pages) : d > Len(pages) - SearchLimit}
        found == {d \in newest : pages[d] = deploy.served}
    IN
    /\ deploy.step = "walk"
    /\ found # {}
    /\ deploy' = [deploy EXCEPT !.step = "prove", !.anchor = Max(found)]
    /\ Unmoved

(* _assert_anchor_is_serving                                               *)
AnchorServes == Domain = pages[deploy.anchor]

Prove == deploy.step = "prove" /\ AnchorServes /\ Goto("bracket") /\ Unmoved

(* capture_rollback_expectation: raw listing, one observation that must be *)
(* the anchor's, raw listing again, and a last look at the domain.         *)
Bracket ==
    /\ deploy.step = "bracket"
    /\ deploy' = [deploy EXCEPT !.step = "observe", !.head = Len(pages)]
    /\ Unmoved

Observe ==
    /\ deploy.step = "observe"
    /\ AnchorServes
    /\ deploy' = [deploy EXCEPT !.step = "close", !.seen = Domain]
    /\ Unmoved

Close == /\ deploy.step = "close" /\ deploy.head = Len(pages)
         /\ Goto("reprobe") /\ Unmoved

Reprobe == /\ deploy.step = "reprobe" /\ Domain = deploy.seen
           /\ Goto("preview") /\ Unmoved

(* Freeze, preview upload and the sweep of the preview.                    *)
Preview == deploy.step = "preview" /\ Goto("seal") /\ Unmoved

(* The sealed tree is hashed again and the listing is read a last time; a  *)
(* first run stops if somebody deployed meanwhile.                         *)
Seal ==
    /\ deploy.step = "seal"
    /\ deploy.anchor = 0 => pages = <<>>
    /\ deploy' = [deploy EXCEPT
                    !.before = Len(pages),
                    !.step = IF deploy.anchor = 0 THEN "upload" ELSE "reprove"]
    /\ Unmoved

Reprove ==
    /\ deploy.step = "reprove" /\ AnchorServes
    /\ Goto("upload")
    /\ replaced' = Domain /\ disturbed' = FALSE
    /\ UNCHANGED <<provider, moves, mine>>

(* Anything before the upload that fails or is refused.                    *)
Abort == deploy.step \in BeforeUpload /\ End("untouched") /\ Unmoved

-----------------------------------------------------------------------------
(* The production upload and its verification.                             *)

Uploaded(s, id) ==
    /\ Promote(deploy.sealed)
    /\ deploy' = [deploy EXCEPT !.step = s, !.own = id]
    /\ mine' = {Len(pages) + 1}
    /\ UNCHANGED <<edge, late, moves, replaced, disturbed>>

(* The upload succeeds; or it succeeds and raises; or it raises and did    *)
(* nothing; or it raises and the provider is not done with it yet.         *)
Upload ==
    /\ deploy.step = "upload"
    /\ \/ Uploaded("await", Len(pages) + 1)
       \/ Uploaded("reconcile", 0)
       \/ Goto("reconcile") /\ Unmoved
       \/ /\ LateUploads
          /\ Goto("reconcile") /\ late' = deploy.sealed
          /\ UNCHANGED <<pages, serving, edge, moves, history>>

Await ==
    /\ deploy.step = "await"
    /\ Goto("verify") \/ Goto("reconcile")
    /\ Unmoved

(* verify_deployment: every inventoried file, the markers, the statistics  *)
(* and the effects of the controls are those of the sealed tree.           *)
Swept == Domain = deploy.sealed

(* The sweep of the domain passes only on the sealed bytes; missing paths  *)
(* alone are looked at again; any other finding is compensated; a sweep    *)
(* that raises is reconciled first.                                        *)
Verify ==
    /\ deploy.step = "verify"
    /\ \/ Swept /\ End("live")
       \/ /\ Swept /\ deploy.tries < Retries
          /\ deploy' = [deploy EXCEPT !.tries = @ + 1]
       \/ Goto("compensate")
       \/ Goto("reconcile")
    /\ Unmoved

-----------------------------------------------------------------------------
(* _fail_production_exception: is there a promotion of ours to undo?       *)

Since == {d \in 1..Len(pages) : d > deploy.before}

(* Mutant: whatever deployment is new is taken for this run's.             *)
IsOursIfNew(d) == deploy.own # 0 => d = deploy.own

(* The one new deployment is the uploader's and serves the sealed build.   *)
IsOurs(d) ==
    /\ deploy.own # 0 => d = deploy.own
    /\ pages[d] = deploy.sealed

Reconcile ==
    /\ deploy.step = "reconcile"
    /\ \/ Since = {} /\ End("not_promoted")
       \/ \E d \in Since : Since = {d} /\ IsOurs(d) /\ Goto("relook")
       \/ End("uncertain")
    /\ Unmoved

(* The domain must serve the sealed build or still the anchor.             *)
Relook ==
    /\ deploy.step = "relook"
    /\ \/ /\ \/ Domain = deploy.sealed
             \/ deploy.anchor # 0 /\ Domain = deploy.seen
          /\ Goto("recount")
       \/ End("uncertain")
    /\ Unmoved

Recount ==
    /\ deploy.step = "recount"
    /\ \/ Len(pages) = deploy.before + 1 /\ Goto("compensate")
       \/ End("uncertain")
    /\ Unmoved

-----------------------------------------------------------------------------
(* _fail_production: roll back to the captured deployment and look.        *)

RollbackTarget == deploy.anchor

Compensate ==
    /\ deploy.step = "compensate"
    /\ \/ deploy.anchor = 0 /\ End("uncompensated") /\ UNCHANGED serving
       \/ /\ deploy.anchor # 0
          /\ serving' = RollbackTarget
          /\ \/ deploy' = [deploy EXCEPT !.step = "confirm", !.tries = 1]
             \/ End("not_restored")
       \/ deploy.anchor # 0 /\ End("not_restored") /\ UNCHANGED serving
    /\ UNCHANGED <<pages, edge, late, moves, history>>

Confirm ==
    /\ deploy.step = "confirm"
    /\ \/ Domain = deploy.seen /\ End("restored")
       \/ /\ deploy.tries < Looks
          /\ deploy' = [deploy EXCEPT !.tries = @ + 1]
       \/ deploy.tries = Looks /\ End("not_restored")
    /\ Unmoved

(* The job is cancelled or loses its machine.                              *)
Killed == /\ deploy.step \notin BeforeUpload \cup {"idle", "done"}
          /\ End("killed") /\ Unmoved

Orchestrate ==
    \/ Resolve \/ Walk \/ Prove \/ Bracket \/ Observe \/ Close \/ Reprobe
    \/ Preview \/ Seal \/ Reprove \/ Abort
    \/ Upload \/ Await \/ Verify
    \/ Reconcile \/ Relook \/ Recount \/ Compensate \/ Confirm \/ Killed

Environment ==
    \/ Propagate \/ LatePromotion
    \/ \E d \in 1..Len(pages) : ProviderRollback(d) \/ Redeploy(d)

-----------------------------------------------------------------------------
(* Properties.                                                             *)

(* run_deployment rolls production back only when its own upload reached   *)
(* production: never because an upload failed while somebody else deployed.*)
CompensatesOnlyItself ==
    deploy.step \in {"compensate", "confirm"} => mine # {}

(* A run that reports a restored site left production at what the domain   *)
(* served at the last proof before the upload, whichever deployment was    *)
(* the newest then, unless somebody else moved production meanwhile.       *)
RestoresWhatItReplaced ==
    deploy.outcome = "restored" /\ ~disturbed => pages[serving] = replaced

(* Both halves of a compensating rollback (orchestrator.py 1100-1290): of    *)
(* an own promotion only, and back to what was served before it.             *)
CompensationIsExact == CompensatesOnlyItself /\ RestoresWhatItReplaced

=============================================================================
