---------------------------- MODULE CongressNightly ----------------------------
(***************************************************************************)
(* The congress half of the nightly: the working store is seeded from the  *)
(* previous release, the two ingests, the optional era run and the member  *)
(* join rewrite it, the corpus floor compares it with the seed, and what   *)
(* it holds becomes the next release.  Any failing step ends the job, and  *)
(* the store it worked on is dropped with it.                              *)
(*                                                                         *)
(* Before the first release an operator builds a local store with the same *)
(* ingests and the import of a licensed seed; it survives its commands,    *)
(* and it is what the bootstrap override seeds the first nightly from.     *)
(***************************************************************************)
EXTENDS FilingStore

CONSTANTS
    Rescan,         \* days before the newest filing that are listed again
    Early,          \* documents the indexes list from the first day on
    MaxStaleness,   \* days a blocked Senate source may be carried forward
    MaxDay,         \* bound: the last day of the model
    MaxRows,        \* bound: transactions of one filing
    EraEnd,         \* the last day of the window of the era run
    LastBoot,       \* bound: the last day the operator works on
    MaxRuns,        \* bound: ingests that the operator runs
    Allowances,     \* sets of filings a dispatch may allow to shrink
    Eras            \* whether a dispatch asks for the era run

(* What an index shows of a document: its kind, the date it was filed, and *)
(* the day it took that kind.                                              *)
Document == [kind : {"ptr", "paper"}, filed : Nat, since : Nat]

ASSUME CongressAssumption ==
    /\ None \notin Document
    /\ Rescan \in Nat /\ MaxStaleness \in Nat /\ MaxDay \in Nat
    /\ MaxRows \in Nat \ {0}
    /\ EraEnd \in Nat /\ LastBoot \in Nat /\ MaxRuns \in Nat
    /\ Early \subseteq Primary
    /\ Allowances \subseteq SUBSET Filings /\ Eras \subseteq BOOLEAN

VARIABLES
    site,       \* what each primary document is at its source, or None
    day,
    calm,       \* no refusal, failure or crash happens any more
    release,    \* the published store, or None before the first
    local,      \* the operator's store, which the override seeds from
    work,       \* the store the running job works on
    baseline,   \* the identities of the seed
    job,        \* where the job is, and what its dispatch allows
    runs        \* ingests the operator has run

vars == <<site, day, calm, release, local, work, baseline, job, runs>>

(* A store carries its own audit: the day of the last ok Senate run of     *)
(* nightly scope, ingest_runs being one of its tables.                     *)
Never == MaxDay + 1
Store == [rows : [Filings -> Filing \cup {Absent}], lastOk : 0..Never]
Empty == [rows |-> [f \in Filings |-> Absent], lastOk |-> Never]

NoJob == [step |-> "idle", by |-> "nightly", todo |-> {}, index |-> {},
          allowed |-> {}, era |-> FALSE]

(***************************************************************************)
(* The sources.                                                            *)
(***************************************************************************)
Listed(chamber) == {d \in chamber : site[d] # None}

FileDocument(d, kind) ==
    /\ ~calm
    /\ site[d] = None
    /\ d \in DOMAIN Amends => site[Amends[d]] # None
    /\ kind = "paper" => d \in Senate
    /\ site' = [site EXCEPT ![d] = [kind |-> kind, filed |-> day,
                                   since |-> day]]
    /\ UNCHANGED <<day, calm, release, local, work, baseline, job, runs>>

(* A paper report may reappear as a page under the same id, within the     *)
(* span that the re-scan window is meant to cover.                         *)
ConvertPaper(d) ==
    /\ ~calm
    /\ site[d] # None /\ site[d].kind = "paper"
    /\ day <= site[d].filed + Rescan
    /\ site' = [site EXCEPT ![d].kind = "ptr", ![d].since = day]
    /\ UNCHANGED <<day, calm, release, local, work, baseline, job, runs>>

(* A job takes less than a day.                                            *)
NextDay ==
    /\ day < MaxDay /\ job.step = "idle"
    /\ day' = day + 1
    /\ UNCHANGED <<site, calm, release, local, work, baseline, job, runs>>

CalmDown ==
    /\ ~calm /\ job.step = "idle"
    /\ calm' = TRUE
    /\ UNCHANGED <<site, day, release, local, work, baseline, job, runs>>

(***************************************************************************)
(* One job.  Every document is upserted in a transaction of its own, so a  *)
(* job that dies leaves what it had committed; a nightly's store goes with *)
(* its checkout, the operator's stays.                                     *)
(***************************************************************************)
Goto(step) == job' = [job EXCEPT !.step = step, !.todo = {}, !.index = {}]

Stop ==
    /\ job' = NoJob
    /\ work' = Empty
    /\ baseline' = Empty
    /\ local' = IF job.by = "operator" THEN work ELSE local
    /\ UNCHANGED <<site, day, calm, release, runs>>

Die == ~calm /\ job.step # "idle" /\ Stop

(* An operator's command ends where a nightly goes on to its next step.    *)
Finish(step) ==
    IF job.by = "operator" THEN Stop
    ELSE /\ Goto(step)
         /\ UNCHANGED <<site, day, calm, release, local, work, baseline, runs>>

(* resolve_seed authenticates the previous release, or the override is     *)
(* used; an empty store is refused, there is no fresh start.               *)
Seed ==
    /\ job.step = "idle"
    /\ LET from == IF release # None THEN release ELSE local IN
          /\ Loaded(from.rows) # {}
          /\ work' = from
          /\ baseline' = from
    /\ \E allowed \in Allowances, era \in Eras :
          job' = [NoJob EXCEPT !.step = "house", !.allowed = allowed,
                               !.era = era]
    /\ UNCHANGED <<site, day, calm, release, local, runs>>

(* Before the first release an operator builds the store by hand.          *)
Bootstrapping == release = None /\ job.step = "idle" /\ day <= LastBoot

OperatorStarts(step) ==
    /\ Bootstrapping
    /\ runs < MaxRuns
    /\ runs' = runs + 1
    /\ work' = local
    /\ job' = [NoJob EXCEPT !.step = step, !.by = "operator"]
    /\ UNCHANGED <<site, day, calm, release, local, baseline>>

(* What the fetch and the evaluation of one document may give: a fetch     *)
(* that fails archives nothing, a page that does not parse is kept.        *)
Fetched(d, status, rows, archived) ==
    [status |-> status, kind |-> site[d].kind, filed |-> site[d].filed,
     archived |-> archived, rows |-> rows]

Counts == IF calm THEN {MaxRows} ELSE 1..MaxRows

Parses(d) == {Fetched(d, "parsed", n, TRUE) : n \in Counts}
Unparsable(d) == IF calm THEN {} ELSE {Fetched(d, "failed", 0, TRUE)}

SenatePages(d) ==
    IF site[d].kind = "paper" THEN {Fetched(d, "needs_ocr", 0, TRUE)}
                              ELSE Parses(d) \cup Unparsable(d)

HousePages(d) == Parses(d) \cup Unparsable(d)

Evaluated(d) == IF d \in House THEN HousePages(d) ELSE SenatePages(d)

FetchFailed(d) == IF calm THEN {} ELSE {Fetched(d, "failed", 0, FALSE)}

(* One document: fetch, evaluate, upsert.                                  *)
Process(d) ==
    /\ d \in job.todo
    /\ \E page \in Evaluated(d) \cup FetchFailed(d) :
          work' = [work EXCEPT !.rows =
                      Upsert(@, d, page, Standing(@, d))]
    /\ job' = [job EXCEPT !.todo = @ \ {d}]
    /\ UNCHANGED <<site, day, calm, release, local, baseline, runs>>

(***************************************************************************)
(* House: the year's index, then every document whose archive is not       *)
(* there; a nightly starts without an archive, so it obtains them all.     *)
(***************************************************************************)
HouseTodo ==
    IF job.by = "nightly" THEN Listed(House)
    ELSE {d \in Listed(House) :
              work.rows[d] = Absent \/ ~work.rows[d].archived}

HouseDiscovers ==
    /\ job.step = "house"
    /\ job' = [job EXCEPT !.step = "house docs", !.index = Listed(House),
                          !.todo = HouseTodo]
    /\ UNCHANGED <<site, day, calm, release, local, work, baseline, runs>>

HouseReconciles ==
    /\ job.step = "house docs" /\ job.todo = {}
    /\ IF Reconciled(work.rows, job.index) THEN Finish("senate") ELSE Stop

(***************************************************************************)
(* Senate: one window of submitted dates.                                  *)
(***************************************************************************)
NewestFiled(rows) ==
    LET dates == {rows[f].filed : f \in {g \in Loaded(rows) :
                      g \in Senate \/ (g \in Kadoa /\ Twin[g] \in Senate)}}
    IN IF dates = {} THEN 0 ELSE CHOOSE n \in dates : \A m \in dates : m <= n

Window(rows) ==
    {d \in Listed(Senate) : site[d].filed + Rescan >= NewestFiled(rows)}

(* Settled is archived under the kind that the index shows.                *)
Unsettled(rows, index) ==
    {d \in index : \/ rows[d] = Absent
                   \/ ~rows[d].archived
                   \/ rows[d].kind # site[d].kind}

(* What the window leaves out although the store does not have it.         *)
Behind(rows) ==
    {d \in Unsettled(rows, Listed(Senate)) :
        site[d].filed + Rescan < NewestFiled(rows)}

Discover(index, step) ==
    /\ job' = [job EXCEPT !.step = step, !.index = index,
                          !.todo = Unsettled(work.rows, index)]
    /\ UNCHANGED <<site, day, calm, release, local, work, baseline, runs>>

SenateDiscovers == job.step = "senate" /\ Discover(Window(work.rows), "senate docs")

MayAlwaysDegrade == work.lastOk # Never

(* eFD refuses or does not answer: the seeded rows are carried forward     *)
(* while the last ok run of nightly scope is recent enough.                *)
MayDegrade == work.lastOk # Never /\ day - work.lastOk <= MaxStaleness

SenateBlocked ==
    /\ ~calm
    /\ job.step = "senate" /\ job.by = "nightly"
    /\ IF MayDegrade
       THEN /\ Goto(IF job.era THEN "era" ELSE "members")
            /\ UNCHANGED <<site, day, calm, release, local, work, baseline, runs>>
       ELSE Stop

(* The tail runs over the whole index, so what a crash left unlinked is    *)
(* linked by the next run; then the audit row is closed.                   *)
Tail(scope) ==
    LET tagged == FlagPairs(LinkAmendments(work.rows, job.index))
        ok == Reconciled(tagged, job.index)
    IN [rows |-> tagged,
        lastOk |-> IF ok /\ scope = "nightly" THEN day ELSE work.lastOk]

TailThen(scope, step) ==
    /\ job.todo = {}
    /\ IF Reconciled(work.rows, job.index) /\ job.by = "nightly"
       THEN /\ work' = Tail(scope)
            /\ Goto(step)
            /\ UNCHANGED <<site, day, calm, release, local, baseline, runs>>
       ELSE /\ local' = IF job.by = "operator" THEN Tail(scope) ELSE local
            /\ job' = NoJob
            /\ work' = Empty
            /\ baseline' = Empty
            /\ UNCHANGED <<site, day, calm, release, runs>>

SenateReconciles ==
    /\ job.step = "senate docs"
    /\ TailThen("nightly", IF job.era THEN "era" ELSE "members")

(* The era run asks for an explicit window, so it never counts as the      *)
(* nightly, and it never degrades.                                         *)
EraWindow == {d \in Listed(Senate) : site[d].filed <= EraEnd}

EraDiscovers == job.step = "era" /\ Discover(EraWindow, "era docs")

EraReconciles == job.step = "era docs" /\ TailThen("era", "members")

(***************************************************************************)
(* The seed of the third party: every filing is upserted as active, then   *)
(* the crosswalk retires what a primary replaces.                          *)
(***************************************************************************)
ImportSeed(k) ==
    /\ Bootstrapping
    /\ site[Twin[k]] # None /\ site[Twin[k]].kind = "ptr"
    /\ local' = [local EXCEPT !.rows =
                    Upsert(@, k, Fetched(Twin[k], "parsed", 1, FALSE),
                           "active")]
    /\ UNCHANGED <<site, day, calm, release, work, baseline, job, runs>>

ApplyCrosswalk ==
    /\ Bootstrapping
    /\ local' = [local EXCEPT !.rows = Crosswalk(@)]
    /\ UNCHANGED <<site, day, calm, release, work, baseline, job, runs>>

(* A reparse works from the archive alone and keeps everything that the    *)
(* ingest recorded besides the outcome of the parse.                       *)
Reparse(d) ==
    /\ Bootstrapping
    /\ d \in Loaded(local.rows) /\ local.rows[d].archived
    /\ \E page \in Evaluated(d) :
          /\ page.kind = local.rows[d].kind
          /\ local' = [local EXCEPT !.rows = FlagPairs(LoadFiling(@, d, page))]
    /\ UNCHANGED <<site, day, calm, release, work, baseline, job, runs>>

(***************************************************************************)
(* The member join, the floor and the release.                             *)
(***************************************************************************)
Rosters == IF calm THEN {Filings} ELSE {Filings, House \cup Kadoa}

JoinStep ==
    /\ job.step = "members"
    /\ \E roster \in Rosters :
          work' = [work EXCEPT !.rows = JoinMembers(@, roster)]
    /\ Goto("floor")
    /\ UNCHANGED <<site, day, calm, release, local, baseline, runs>>

CorpusFloor ==
    /\ job.step = "floor"
    /\ IF FloorHolds(baseline.rows, work.rows, job.allowed)
       THEN /\ release' = work
            /\ job' = NoJob
            /\ work' = Empty /\ baseline' = Empty
            /\ local' = Empty
            /\ UNCHANGED <<site, day, calm, runs>>
       ELSE Stop

Init ==
    /\ site = [d \in Primary |->
                 IF d \in Early THEN [kind |-> "ptr", filed |-> 0, since |-> 0]
                               ELSE None]
    /\ day = 0 /\ calm = FALSE
    /\ release = None /\ local = Empty
    /\ work = Empty /\ baseline = Empty
    /\ job = NoJob
    /\ runs = 0

Next ==
    \/ \E d \in Primary, kind \in {"ptr", "paper"} : FileDocument(d, kind)
    \/ \E d \in Senate : ConvertPaper(d)
    \/ NextDay
    \/ CalmDown
    \/ Seed
    \/ \E step \in {"house", "senate"} : OperatorStarts(step)
    \/ Die
    \/ HouseDiscovers \/ HouseReconciles
    \/ \E d \in Primary : Process(d)
    \/ SenateDiscovers \/ SenateBlocked \/ SenateReconciles
    \/ EraDiscovers \/ EraReconciles
    \/ \E k \in Kadoa : ImportSeed(k)
    \/ ApplyCrosswalk
    \/ \E d \in Primary : Reparse(d)
    \/ JoinStep \/ CorpusFloor

(* The scheduler starts a nightly every day and its steps follow one       *)
(* another.                                                                *)
NightlySpec == Init /\ [][Next]_vars

Progress ==
    \/ Seed \/ HouseDiscovers \/ HouseReconciles
    \/ \E d \in Primary : Process(d)
    \/ SenateDiscovers \/ SenateReconciles
    \/ EraDiscovers \/ EraReconciles
    \/ JoinStep \/ CorpusFloor

NightlyFairSpec == NightlySpec /\ WF_vars(Progress)

(***************************************************************************)
(* Properties.                                                             *)
(***************************************************************************)

(* Rule R44.  A release keeps every filing, every transaction and every    *)
(* member join of the one before it, although the jobs in between fetched  *)
(* documents again, converted them and cleared their joins; only what a    *)
(* dispatch names may shrink.                                              *)
ReleasesNeverLose ==
    [][release # None /\ release' # release =>
          \A f \in Loaded(release.rows) :
             /\ release'.rows[f] # Absent
             /\ f \in job.allowed \/
                /\ release'.rows[f].rows >= release.rows[f].rows
                /\ release.rows[f].joined => release'.rows[f].joined]_vars

(* However long eFD refuses, whatever is carried forward, and however many *)
(* years the bootstrap loaded: what a release publishes of the Senate is   *)
(* never older than the staleness bound.  Every report that was listed, or *)
(* converted, before that is in it, except what the seed already lacked    *)
(* from before the re-scan window.  A night adds nothing to that debt, and *)
(* an era run leaves none of it in its own window.                         *)
ReleasesAreFresh ==
    [][release' # release =>
          LET left == Behind(baseline.rows) IN
          /\ \A d \in Listed(Senate) \ left :
                site[d].since + MaxStaleness < day =>
                   d \notin Unsettled(release'.rows, Listed(Senate))
          /\ Behind(release'.rows) \subseteq left
          /\ job.era =>
                \A d \in Behind(release'.rows) : site[d].filed > EraEnd]_vars

(* A night that hears the Senate publishes both sides of every amendment   *)
(* pair with the flag that says so, whatever reload, conversion or         *)
(* interrupted linkage it started from.                                    *)
PairsAreFlagged ==
    [][release' # release /\ release'.lastOk # baseline.lastOk =>
          \A a \in Loaded(release'.rows) :
             LET o == release'.rows[a].supersedes IN
             o # None => \A f \in {a, o} :
                 release'.rows[f].rows > 0 => release'.rows[f].flagged]_vars

(* Both promises of a release: nothing it published is lost, and no pair of  *)
(* an amendment and its original goes unflagged.                             *)
ReleasesAreSound == ReleasesNeverLose /\ PairsAreFlagged

(* Once nothing fails any more the releases take in everything the two     *)
(* indexes list, but for what a bootstrap left behind the window: no       *)
(* failed night leaves a state that refuses every later one.  An archived  *)
(* page that does not parse is the other exception: no nightly reads it    *)
(* again, so a bootstrap store must not carry one.                         *)
Stuck == \E d \in Senate \cap Loaded(release.rows) :
            release.rows[d].archived /\ release.rows[d].status = "failed"

CaughtUp ==
    /\ release # None
    /\ \A d \in Listed(Primary) \ Behind(release.rows) :
          /\ release.rows[d] # Absent
          /\ release.rows[d].kind = site[d].kind
          /\ release.rows[d].status # "failed"

ReleasesCatchUp ==
    (calm /\ release # None /\ ~Stuck) ~> CaughtUp

=============================================================================
