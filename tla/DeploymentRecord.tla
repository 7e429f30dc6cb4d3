---------------------------- MODULE DeploymentRecord ----------------------------
(***************************************************************************)
(* The publish workflow around a deployment: the gate on the last record,  *)
(* the new build, its deployment (SiteDeployment), and the signer that     *)
(* verifies what is live and appends a deployment generation to            *)
(* populus-data (src/populus/deploy/record.py, publish.yml,                *)
(* record-sign.yml).                                                       *)
(*                                                                         *)
(* The workflow runs one at a time; signers are runs of their own that     *)
(* the workflow or an operator dispatches, and outlive the watcher.  A     *)
(* generation is a record; its attestation is part of it, since the file   *)
(* is pushed only when it was attested.                                    *)
(***************************************************************************)
EXTENDS SiteDeployment, FiniteSets

CONSTANT Signers    \* runs of record-sign.yml that can exist at one time

VARIABLES
    repo,      \* populus-data: the build latest.json names, the generations
    sites,     \* the retained site artifact of each build, by its commit
    run,       \* the publish workflow's run
    signer,    \* each signer run
    steady,    \* history: the domain's answer did not change since the gate
    live       \* history: every identity the domain ever answered with

recordVars == <<repo, sites, run, signer>>
trace == <<steady, live>>
allVars == <<siteVars, recordVars, trace>>

NoRun == [step |-> "idle", found |-> Nothing, passed |-> "none",
          acknowledged |-> Nothing]
NoSigner == [step |-> "idle", build |-> 0, claimed |-> 0, gen |-> 0,
             page |-> 0]

RecordInit ==
    /\ SiteInit
    /\ repo = [latest |-> 0, gens |-> {}]
    /\ sites = [b \in Builds |-> Nothing]
    /\ run = NoRun
    /\ signer = [s \in Signers |-> NoSigner]
    /\ steady = FALSE /\ live = {}

-----------------------------------------------------------------------------
(* The gate.                                                               *)

Recording(r) == [build |-> r.build, code |-> r.code]

(* highest_generation: the newest by (build id, generation).               *)
HighestGeneration(gens) ==
    IF gens = {} THEN Nothing
    ELSE CHOOSE r \in gens : \A q \in gens :
           q.build < r.build \/ (q.build = r.build /\ q.gen <= r.gen)

(* Mutant: the gate compares the commit alone.                             *)
MatchesByCode(found, served) == found.code = served.code

(* Both markers of the domain are the record's.                            *)
Matches(found, served) == Recording(found) = served

(* How _gate lets a run pass, "none" if it refuses.                        *)
GatePasses(found, served, acknowledged) ==
    CASE found = Nothing /\ served = Nothing -> "first"
      [] found = Nothing /\ served # Nothing ->
             IF acknowledged # Nothing /\ acknowledged.code = served.code
             THEN "override" ELSE "none"
      [] found # Nothing /\ served = Nothing -> "none"
      [] found # Nothing /\ served # Nothing ->
             IF Matches(found, served) THEN "record"
             ELSE IF acknowledged = served THEN "override" ELSE "none"

EndRun == run' = NoRun

(* A nightly carries no acknowledgement; a dispatch may name what the      *)
(* domain served when it was written.                                      *)
BeginRun(acknowledged) ==
    /\ run.step = "idle"
    /\ acknowledged \in {Nothing, Domain}
    /\ acknowledged # Nothing => moves < MaxMoves
    /\ moves' = IF acknowledged = Nothing THEN moves ELSE moves + 1
    /\ run' = [NoRun EXCEPT !.step = "gate", !.acknowledged = acknowledged,
                            !.found = HighestGeneration(repo.gens)]
    /\ UNCHANGED <<provider, deploy, history, repo, sites, signer, trace>>

(* A domain that does not answer looks like one that serves nothing; that  *)
(* passes only where there is no generation.                               *)
Gate ==
    /\ run.step = "gate"
    /\ \E served \in {Domain, Nothing} :
         LET passed == GatePasses(run.found, served, run.acknowledged) IN
         /\ passed # "none"
         /\ run' = [NoRun EXCEPT !.step = "publish", !.passed = passed]
    /\ steady' = TRUE
    /\ UNCHANGED <<siteVars, repo, sites, signer, live>>

(* Refused, unavailable, or any failure before the pointer moves.          *)
StopRun ==
    /\ run.step \in {"gate", "publish"}
    /\ EndRun
    /\ UNCHANGED <<siteVars, repo, sites, signer, trace>>

(* The publish job commits a new build and hands its site on.              *)
PublishBuild ==
    LET unused == {b \in Builds : \A q \in Builds : q >= b => sites[q] = Nothing}
    IN
    /\ run.step = "publish" /\ unused # {}
    /\ \E c \in Codes :
         /\ sites' = [sites EXCEPT ![Min(unused)] = c]
         /\ BeginDeploy([build |-> Min(unused), code |-> c])
    /\ repo' = [repo EXCEPT !.latest = Min(unused)]
    /\ run' = [run EXCEPT !.step = "deploy"]
    /\ UNCHANGED <<signer, trace>>

-----------------------------------------------------------------------------
(* The signer.                                                             *)

Dispatch(s, b, claimed) ==
    /\ signer[s].step = "idle"
    /\ signer' = [signer EXCEPT ![s] = [NoSigner EXCEPT !.step = "artifact",
                                          !.build = b, !.claimed = claimed]]

(* The deploy job is over: a deployment that stands is signed, and the     *)
(* next deployment may begin.                                              *)
DeployEnds ==
    /\ run.step = "deploy" /\ deploy.step = "done"
    /\ \/ /\ deploy.outcome = "live"
          /\ \E s \in Signers : Dispatch(s, deploy.sealed.build, deploy.own)
          /\ run' = [run EXCEPT !.step = "sign"]
       \/ EndRun /\ UNCHANGED signer
    /\ ClearDeploy
    /\ steady' = FALSE
    /\ UNCHANGED <<provider, moves, repo, sites, live>>

(* The watcher reports the signer's result, or is gone before it.          *)
WatchEnds ==
    /\ run.step = "sign"
    /\ EndRun
    /\ UNCHANGED <<siteVars, repo, sites, signer, trace>>

(* An operator dispatches the signer for a retained artifact.              *)
SignByHand(s, b) ==
    /\ moves < MaxMoves /\ sites[b] # Nothing
    /\ Dispatch(s, b, 0)
    /\ moves' = moves + 1
    /\ UNCHANGED <<provider, deploy, history, repo, sites, run, trace>>

(* next_generation in the signer's checkout, of the build its pointer names*)
NextGeneration(b) ==
    1 + Max({0} \cup {r.gen : r \in {r \in repo.gens : r.build = b}})

CheckOut(s) ==
    LET b == signer[s].build IN
    /\ signer[s].step = "artifact"
    /\ repo.latest = b
    /\ signer' = [signer EXCEPT ![s].step = "locate",
                                ![s].gen = NextGeneration(b)]
    /\ UNCHANGED <<siteVars, repo, sites, run, trace>>

(* The newest production deployment must be the claimed one and serve the  *)
(* artifact byte for byte.                                                 *)
Locate(s) ==
    LET j == signer[s] IN
    /\ j.step = "locate" /\ pages # <<>>
    /\ j.claimed \in {0, Len(pages)}
    /\ pages[Len(pages)] = [build |-> j.build, code |-> sites[j.build]]
    /\ signer' = [signer EXCEPT ![s].step = "confirm", ![s].page = Len(pages)]
    /\ UNCHANGED <<siteVars, repo, sites, run, trace>>

(* Mutant: the record is written without asking the domain.                *)
ConfirmDomainBlindly(s) ==
    /\ signer[s].step = "confirm"
    /\ signer' = [signer EXCEPT ![s].step = "push"]
    /\ UNCHANGED <<siteVars, repo, sites, run, trace>>

(* _confirm_domain: the domain serves that deployment's identity.          *)
ConfirmDomain(s) ==
    /\ signer[s].step = "confirm"
    /\ Domain = pages[signer[s].page]
    /\ signer' = [signer EXCEPT ![s].step = "push"]
    /\ UNCHANGED <<siteVars, repo, sites, run, trace>>

(* Two signers that took the same number conflict in the rebase.           *)
MayPush(r) == \A q \in repo.gens : q.build = r.build => q.gen # r.gen

PushGeneration(s) ==
    LET j == signer[s]
        r == [build |-> j.build, gen |-> j.gen, code |-> sites[j.build],
              page |-> j.page, by |-> s]
    IN
    /\ j.step = "push" /\ MayPush(r)
    /\ repo' = [repo EXCEPT !.gens =
                  {q \in @ : ~(q.build = r.build /\ q.gen = r.gen)} \cup {r}]
    /\ signer' = [signer EXCEPT ![s] = NoSigner]
    /\ UNCHANGED <<siteVars, sites, run, steady, live>>

(* Refused, unavailable, or the signer's run is lost.                      *)
StopSigner(s) ==
    /\ signer[s].step # "idle"
    /\ signer' = [signer EXCEPT ![s] = NoSigner]
    /\ UNCHANGED <<siteVars, repo, sites, run, trace>>

-----------------------------------------------------------------------------

(* rollback.md, steps 1 to 5: the pointer names an older build again.      *)
PointBack(b) ==
    /\ moves < MaxMoves /\ run.step = "idle"
    /\ b < repo.latest /\ sites[b] # Nothing
    /\ repo' = [repo EXCEPT !.latest = b]
    /\ moves' = moves + 1
    /\ UNCHANGED <<provider, deploy, history, sites, run, signer, trace>>

(* A step of the deployment or of its environment; history follows what    *)
(* the domain answers.                                                     *)
SiteStep ==
    /\ Orchestrate \/ Environment
    /\ steady' = (steady /\ Domain' = Domain)
    /\ live' = IF edge' = 0 THEN live ELSE live \cup {Domain'}
    /\ UNCHANGED recordVars

Sign(s) == CheckOut(s) \/ Locate(s) \/ ConfirmDomain(s) \/ PushGeneration(s)
             \/ StopSigner(s)

RecordNext ==
    \/ SiteStep
    \/ \E a \in {Nothing, Domain} : BeginRun(a)
    \/ Gate \/ StopRun \/ PublishBuild \/ DeployEnds \/ WatchEnds
    \/ \E s \in Signers : Sign(s) \/ \E b \in Builds : SignByHand(s, b)
    \/ \E b \in Builds : PointBack(b)

RecordSpec == RecordInit /\ [][RecordNext]_allVars

-----------------------------------------------------------------------------
(* Properties.                                                             *)

(* ARCHITECTURE 13.2: the system never accumulates live deployments that   *)
(* are not recorded.  A run that no operator waved through uploads only    *)
(* over a site whose very build a generation records, unless the domain    *)
(* changed between the gate and the upload.                                *)
BuildsOnlyOnRecorded ==
    [][/\ deploy.step = "upload" /\ pages' # pages /\ deploy' # deploy
       /\ run.passed = "record" /\ steady
       => \E r \in repo.gens : Recording(r) = Domain]_allVars

(* Every generation names a production deployment of that very build and   *)
(* commit, which the domain did serve.                                     *)
RecordsNameWhatWasServed ==
    \A r \in repo.gens :
        /\ r.page \in 1..Len(pages) /\ pages[r.page] = Recording(r)
        /\ Recording(r) \in live

(* Generations are append-only: none is ever changed or lost, whichever    *)
(* signers race.                                                           *)
GenerationsAppendOnly == [][repo.gens \subseteq repo'.gens]_allVars

(* Both halves of a history one can rely on: the gate lets nothing build on  *)
(* an unrecorded deployment, and record-sign never rewrites a generation.    *)
RecordsKeepHistory == BuildsOnlyOnRecorded /\ GenerationsAppendOnly

=============================================================================
