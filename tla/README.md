# A TLA+ model of populus

populus ingests disclosures of members of Congress and of institutional
managers, publishes them once a day as an immutable release, serves them to
agents from a local snapshot and puts a web site live.  This directory models the
parts of it that are concurrent, that survive crashes, that are repeated until
they succeed, or that other parts trust: what consumers hold against a feed, how
that feed is assembled and published, how a site replaces another one, how the
two corpora and the identities behind them are ingested, how aggregates are
derived, and how the SEC is asked for data.  TLC checks the modules on small
instances; the safety properties of twelve components are also proved with TLAPS
for every value of their constants.

Paths below are relative to the repository; `src/populus/` is left out where
it is clear.

## 1. The system

| Part | State it keeps | Operations | Interacts with |
|---|---|---|---|
| Trusted pointer (`publish/pointer.py`) | none; a consumer holds a trust tuple | `evaluate_pointer`, `load_tuple`, `persist_tuple`, `build_pointer` | read by the client and the monitor, written by the publisher |
| Snapshot client (`client/snapshot.py`) | per module: `trust.json`, `serving.json`, build directories, temporary directories, a file lock | `refresh()`, `reconcile()`, `serving_build()` and what is derived from it | fetches the feed; several processes share one cache |
| MCP server (`mcp_server/`) | what it resolved at start-up | `_resolve_inst_module`, read-only tools | the snapshot client of its own and of other processes |
| Publisher, assembly (`publish/build.py`, `publish/manifest.py`, `publish/inventory.py`, `publish/digests.py`) | `.staging/<id>`, `builds/`, the stage state, the recovery journal | stage, derive, seal twice, finalize | the two stores, the dashboard build, the workflow |
| Publisher, publication (`publish/build.py`) | the release backend, `builds/`, `latest.json`, `.build-allocations.json` | publish, reconcile, rollback, verify | GitHub releases and the populus-data repository |
| Publish workflow (`.github/workflows/publish.yml`) | a run's outputs and artifacts | gate, data job, deploy job, dispatch of the signer | everything above, the orchestrator and the record |
| Deploy orchestrator (`deploy/orchestrator.py`, `upload.py`, `cloudflare.py`) | one run's evidence | `run_deployment`, compensation | the hosting provider and the custom domain |
| Deployment record (`deploy/record.py`, `record-sign.yml`) | deployment generations in populus-data | the gate, the signer | the provider, the domain, git |
| External monitor (`monitoring/monitor.py`) | a tuple of its own, a failure counter | `run_monitor` | the feed, `stats.json`, an alerting command |
| SEC client (`net/sec_client.py`) | flights, cache, breaker, last request | `get()` from several threads | SEC EDGAR |
| Congress ingest (`ingest/senate.py`, `ingest/house.py`, `backfill.py`, `members.py`, `amendments.py`, `load.py`) | filings and transactions, archived pages, `ingest_runs` | two indexes, retry, conversion, linkage, flags, joins, the era run, the crosswalk | Senate and House sites, the corpus seed |
| Corpus seed (`publish/seed.py`) | a pinned seed and a high-water floor | restore, refuse to shrink | the workflow |
| 13F ingest (`ingest/inst13f.py`, `ingest/checkpoint.py`, `inst_bulk.py`) | an archive with checkpoints, a rank journal, a universe, an ingest journal, filings and holdings | discover, rank, ingest, derive amendments and coverage | the SEC client |
| Identity registry (`identity/`) | identifier intervals, lists, candidate links, a ledger of superseded ids | bootstrap from a reviewed registry, from observations, from lists | holdings |
| Institutional aggregates (`inst_agg.py`, `manager_registry.py`) | derived tables | two derivations of the same tables | the publisher |
| Runner (`ops/runner/runner-controller.sh` and its launchd unit) | the runner root, a marker, a lock, exported logs | destroy, restore, register, run-cycle | GitHub, jobs |
| Attestation, bounded HTTP, parsers, statistics, queries, redaction, dashboard, CLI | derived data only, or none | computations, wiring | all of the above |

### What is hard, and what makes each part correct

- **Snapshot client.** An install is two durable writes after a directory swap; a
  crash or a failed write can fall between any two, and another process may hold
  or wait for the lock.  Correct when only what the last committed pointer
  publishes is served, commitments move only forward, a failure costs nothing
  that was served, and every window heals by polling.
- **MCP server.** Its reads take no lock.  Correct when each was true at some moment.
- **Assembly of a build.** A manifest is written twice, a site is built from the
  first one, the store and the institutional source move in between, and any
  command may be the last of its session.  Correct when what is published
  describes itself, when the site is that build's own, and when no module and no
  lifecycle is silently dropped.
- **Publication.** A session can die between any two of some twenty steps over
  two stores without a common transaction, next to an operator's rollback.
  Correct when consumers see only whole and immutable releases and `latest.json`
  moves forward over public content only.
- **Orchestrator, record and gate.** The upload may promote and raise, or land
  after its run gave up; signers race with each other and the next deployment.
  Correct when only an own promotion is undone, back to what was served, and the
  records are append-only and true.
- **Monitor.** Writes its counter before the alert and not atomically.
- **SEC client.** Leaders queue for one gate while the breaker opens, sleeps run
  and connections fail.
- **Congress ingest.** Each night starts from the last release and reloads parts
  of it: conversions, fetches that fail, joins that are cleared and made again, a
  source that is blocked for days.  Correct when a release never loses what the
  last one had, is never older than the bound, and catches up.
- **13F ingest.** Two commands with two journals over one archive are repeated
  through refusals, crashes and damaged files.  Correct when the result is that
  of an undisturbed run.
- **Identity.** Reviewed revisions rename, merge and split securities that
  observations, lists and holdings already name.  Correct when the order in which
  they came does not show.
- **Aggregates.** The same tables are derived by SQL with its own arithmetic and
  by Python.  Correct when they agree and the changes account for both books.
- **Runner.** Two invocations, killed anywhere, share a root that jobs write to.
  Correct when no job meets an earlier one's traces and no log is lost.

`PROJECT.json` lists every part under `components`, and every hazard with its line
and the properties that cover it under `hazards`.

## 2. The modules

```
TrustedPointer
   ├── ModuleService            the promise of one module's cache
   ├── SnapshotClient           implements ModuleService
   │      └── ServerResolution ─┐                        composes the server with the cache
   └── Monitor ─────────────────┴ ConsumerProofs         of the client, the server and the monitor
BuildAssembly ───────────────── BuildAssemblyProofs      one build's content, from the stores to the site
BuildPointer
   ├── PublishedFeed            the promise to consumers
   └── Publication ──────────── PublicationProofs        implements PublishedFeed
SiteDeployment
   └── DeploymentRecord ──────┐                          composes orchestrator, workflow, signers
RunnerController ─────────────┴ OperationsProofs         the runner's machine; proofs of both
SecPoliteness                   the promise to SEC
   └── SecClient ─────────────┐                          implements SecPoliteness
IdentityRegistry ─────────────┴ IngestProofs             one store under revisions, observations and lists; proofs of both
FilingStore
   └── CongressNightly ──────── CongressNightlyProofs    composes seed, ingests, joins, floor and release
InstStore
   └── InstBulk ─────────────── InstBulkProofs           composes discovery, ranking, ingest and the archive
InstAggregates ──────────────── InstAggregatesProofs     one derivation, twice
```

Each system module has an `MC…` module that gives its sets values.  Definitions
whose comment starts with "Mutant" are wrong variants of the definition that
follows them; no specification uses them, and they serve to show that each
property notices the mistake.

**TrustedPointer.** A pointer is a value that stands for its exact bytes, so the
held tuple (version, sha256) is the pointer itself, and two records that differ
in anything are different bytes.  `EvaluatePointer` is `evaluate_pointer`, with
the universal checks before any comparison of versions.  `Attested` is the set of
documents whose attestation verifies.

**SnapshotClient.** `anchor` is `trust.json`, `record` is `serving.json`, `cache`
the build directories, `staged` the temporary ones.  A build directory is the
manifest every artifact of which verifies, or `Corrupt`.  A refresh is a process
walking through `pc`: `Acquire` takes the lock, reconciles and reads what is
served; `Evaluate` is the pointer check with all its returns; then the manifest,
`Download`, the swap as removal (`RemoveOld`) and `Rename`, `CommitAnchor`
(`persist_tuple`, which commits installs and withdrawals alike) and the record.
Every write has a failing variant and `Crash` may follow any step.
`StorageFault` loses, damages or forges any file between steps.  `committed` is
history: the last pointer written since the cache was empty.

**ModuleService.** What section 1 of
`docs/architecture/data-contracts/snapshot-withdrawal.md` promises, in two
variables: the commitment only moves to newer attested pointers, and only the
committed build is served.  `KeepsThePromise` is the refinement, with
`ServingBuild` for `served`.

**ServerResolution.** Five calls of an unlocked `serving_build()`, three reads
each (`ReadAnchor`, `ReadRecord`, `ReadBuild`), interleaved with every step of
the client processes.  `window` collects what was true during the current call.

**BuildAssembly.** `source` is what the store and the institutional source hold
now, `staging` the trees under `.staging`, each with the files, databases and
documents the code has written so far, `work` the dashboard's output, `run` the
session.  One action per step of `stage_build`, `finalize_build` and the data job:
`TakeSnapshot`, `Derive`, `Document`, `SealProvisional`, `WriteStageState`,
`ResolvePrior`, `BuildSite`, `CopySignals`, `PatchStats`, `PatchServed`,
`SealFinal`, `WriteJournal`, `RecordGate`, `Package`, `Publish`, `Deploy`; `Preserve`
is the session that finds a build already sealed.  `Die` ends a session anywhere,
`SourceMoves` changes the stores under it, and an operator resumes a staged
build, publishes by hand and rolls back.

**BuildPointer, Publication, PublishedFeed.** A content is one assembled build
with all of its bytes.  `releases` is the release backend, `origin` populus-data as
everybody fetches it; `tree`, `staging` and `mark` are a worker's directory.
Actions follow `build.py`: the three passes of `reconcile_inflight`
(`ReconcileDrafts`, `ReconcileStaged`, `ReconcileNewest`), `StageBuild` and
`FinalizeBuild`, then `_complete_build` from `Preflight` to `ClearStaging`, `Repoint`
for a rollback, `Verify` and `Push`.  `Abort` ends a session anywhere; the next
one starts from what is durable.  A `Setting` is one of the ways the publisher is
operated, chosen at the start.  In PublishedFeed only two things happen: a
release appears, once, or a higher pointer names content that is already
available.

**SiteDeployment.** `pages` is the provider's listing, `serving` what production
is at, `edge` what the domain answers; the domain follows with a delay
(`Propagate`).  `deploy` is one run of `run_deployment`, one action per observation
or write; `Upload` has the four outcomes an upload can have.  The operator rolls
back at the provider or uploads earlier bytes again.

**DeploymentRecord.** Adds `repo` (the pointer and the generations), `run` (the
workflow) and `signer` (each run of `record-sign.yml`).  The gate compares the
domain with the highest generation; the signer checks out, locates the deployment,
confirms the domain and pushes, each of them a step of its own.

**Monitor.** `trust` and `failures` are its two files.  `Conclude` is the order
of the checks; a poll then counts, clears, alerts, persists and resets in the
code's order with crashes and failed writes in between.  `streak` is history.

**SecPoliteness, SecClient.** `gate` and its `nap` are `_gate` and the sleep
under it, `flights`, `cached`, `latched` and `forbidden` are what `_state` guards.
A critical section is one step.  Times are kept only as far as they are compared.

**FilingStore, CongressNightly.** A filing's row is its status, kind of page,
archived page, number of transactions, flags, join, lifecycle and link.
FilingStore has what each writer does to rows: `Upsert` (which clears the join
and keeps the link), `LinkAmendments`, `FlagPairs`, `JoinMembers`, `Crosswalk`, and
`FloorHolds`, the corpus floor.  CongressNightly is the night: `Seed` from the
release, House discovery and documents, Senate listing over its `Window`, pages
one by one (`Process`), the `Tail` that links and flags, the degraded run
(`SenateBlocked` with `MayDegrade`), the era run, joins, floor, release.  `site` is what the
two sources show: a paper report that becomes a page, an amendment that
arrives later.  `Die` drops the night's store; the operator's own store survives.

**InstStore, InstBulk.** InstStore has the rows of 13F filings and the passes
that derive from all of them: `FinalizeInstIngest` (amendment links,
`MarkAffiliatedCoverage`) and the populations behind the coverage figures.  InstBulk runs
the commands over them: `Discover`, `SweepCover` with the rank journal flushed
every so often (`WriteRank`), the universe, then filer by filer from the archive
(`ObtainCover`, `ObtainTable`, `CloseFiler`) with the ingest journal.  `archive` holds
bytes and checkpoint of each document apart, so a torn write, a refusal's body
or damage is a file that may or may not be taken for the document.

**IdentityRegistry.** `tables` has the observed intervals, the list intervals,
the candidate links, the ledger and the holdings; `applied` is the reviewed
registry in force and `seen` every observation.  One run is one transaction:
`RunIdentityBootstrap` migrates what is stored to its registry (`CutTable` on the
intervals; then, security by security in the order of their ids, `Rename` for what
goes to one other and `SplitUp` for the rest, with `Rehome` for the holdings and
`FanOut` for the ledger), then adds observations and lists and reviews the result.

**InstAggregates.** `books` are the reported books, `agg` the derived database.
The oracle (`_build_inst_agg_python`) and the staged SQL (`_build_inst_agg_bulk`)
are two operators over the same books: the first matches positions filer by filer
in three passes, the second over stages of all filers with digit-wise sums, carries
and uniqueness constraints; `DeriveBulk` and `DeriveOracle` are the two commands.
Each of the three tables that the code derives twice has two operators here:

| Table | Python | SQL |
|---|---|---|
| changes | `OracleDeltas` (positions, `MatchPeriods`, `QoqRow`) | `BulkDeltas` (`StagedPosition`, `BulkMatches`, `SourceRow`) |
| concentration | `OracleConcentration`: sorted sums, squares | `BulkConcentration`: two left joins, the first rows of an order by value, square coefficients |
| issuers' holders | `OracleHolder`: one pass over a filer's rows | `StagedHolder`: grouped by key, and by spelling and security before the name is normalized |

What both of them take from one operator is the order among the holders of an issuer
(`IssuerRank`), the issuer's key, the pairs of quarters (`_succession_bridges` serves both in the code too)
and the plain grouping of values by position (`Weights`).  For these the agreement holds by
construction.  The tables of additions, of exclusions, of ended books and of ticker holders and the flag of
shared discretion have one implementation in the code, which follows either path.  The
filers' registry table, also derived twice, is here only the set `Filers`, without its counts, and
display names are left out.

**RunnerController.** `root` is what is in the runner's root, `marker` the
cleanup-verified file, `holder` the process that keeps the kernel lock for an
invocation, `procs` what runs as the runner user, `tools` the toolchain
directories.  Each phase of the script is a few steps; `Kill` and `Reboot` strike
between any two, `Locked` is `require_lock_still_held`.

## 3. Runs

Each run explores its instance completely; the number is its distinct states.

| Run | States | Instance | What it shows |
|---|---|---|---|
| ClientSafety | 559,538 | 2 clients, 3 pointers and what a hostile network makes of them: expired, withdrawn, equivocating, unattested; all storage faults | Only the last commitment is served (`ServesOnlyWhatIsCommitted`); the client implements ModuleService (`KeepsThePromise`); once failures stop, polling ends in the newest pointer or in the deliberate refusal of an unanchored cache (`PollingConverges`). |
| ServerReads | 181,678 | a server and a second process; install, upgrade, withdrawal, rollback | Unlocked answers were true during the call (`UnlockedReadsAreAtomic`); no failure takes a served build away, and a refresh reports what is served (`ServingIsSteady`). |
| Publish | 490,224 | two settings: clean checkouts with a nightly runner and an operator; one persistent directory with damaged journals and discarded drafts; 3 ids, 3 contents, 3 pointer versions | Nothing torn (`NeverTorn`), the feed is implemented (`ImplementsFeed`), no nightly undoes a rollback (`NightlyNeverRepoints`), one draft and one content per id (`InFlightIsUnambiguous`), drafts complete (`InFlightCompletes`). |
| Assembly | 455,585 | hosted or local; 3 versions of the congress store, one of them not joined; institutional sources that are served, withheld, refused or empty; 3 builds, 1 fault, 2 interventions | Builds describe themselves and drop no module (`SealedBuildsAreWhole`), the deployed site is its build's (`DeployedSiteIsCounted`), lifecycles continue (`LifecycleIsChained`), nights catch up (`NightsCatchUp`). |
| MonitorSafe | 1,612 | 7 pointers, one of each kind a poll must not adopt; every hazard; 3 failures | Two failures in a row alert, the baseline is earned, a lasting outage is alerted on again and again. |
| SecThreads | 129,080 | 2 threads, a cacheable and an uncacheable url, interval 2, threshold 2, two backoffs | Polite, never needless, every call returns. |
| DeployRecord | 1,923,511 | 3 builds of one commit, 2 signers, 3 deployments, 1 move by hand, late uploads | Compensation (`CompensationIsExact`), truth (`RecordsNameWhatWasServed`) and permanence of records, nothing built on an unrecorded site (`RecordsKeepHistory`). |
| NightlyCorpus | 777,690 | a House report, a Senate paper report that becomes a page, its amendment, a seed filing; 3 days, staleness bound 1, re-scan window of 1 day; an operator's bootstrap on any of the days | No release loses anything or leaves a pair unflagged (`ReleasesAreSound`), Senate data are never older than the bound but for what the bootstrap left behind the window, no night adds to that and an era run takes it in (`ReleasesAreFresh`), releases catch up (`ReleasesCatchUp`). |
| InstitutionalBulk | 188,676 | 3 worlds of 4 filings by 3 managers: a restatement or added holdings, covers that declare an amendment where there is none or do not declare one, unreadable tables and covers, a notice covered by another filing; top 2; 2 faults | Archive and store hold what was ranked (`StoreMatchesTheArchive`), derived columns equal a clean rebuild's and no figure inflates (`DerivationsHold`), the universe is the ranking (`UniverseIsTheRanking`), repetition finishes (`BulkFinishes`). |
| Identity | 42,347 | 4 revisions with a rename, a merge and a split, 2 files of observations, 2 versions of a list, 2 holdings, 5 days, 3 runs | The order of arrival does not show (`ConvergesLikeACleanBuild`), holdings follow the registry (`HoldingsFollowTheAuthority`), and old ids lead to living ones while no security is linked to a company its identifiers were never observed with (`IdsKeepTheirMeaning`). |
| Runner | 700,618 | launchd's cycle and an operator's commands, 2 jobs, 2 tools in 2 directories, a holder's death | The marker is proof and logs survive (`WipesAreSafe`), a job starts alone on checked tools (`OneJobClean`), the runner comes back (`RunnerComesBack`). |
| Aggregates | 58,368 | 3 filers (one succeeds another), 3 quarters, books of up to two of eight kinds of line, integers of three digits | The two paths agree (`PathsAgree`), changes account for both books (`BooksBalance`), quiet books are held (`QuietBooksAreHeld`), tickers and changes tell one story (`SurfacesAgree`). |

**Why the bounds suffice.**

- *Client.* Two processes are the least that contend for the lock, and a third
  only adds waiters, which change nothing but their own `result`.  The pointers
  hold one of each relation `evaluate_pointer` distinguishes, and a chain long
  enough to replay the first over the last.  One tick of the clock separates
  before and after expiry.  ServerReads needs three builds so that two different
  ones follow each other in one resolution and a withdrawal is undone.
- *Publication.* An id can be reused, recovered or overtaken with two builds; the
  third lets a draft, a staged build and a new id coexist.  Only the first content
  carries the institutional module, so both shapes of a release occur.
- *Assembly.* Three versions let the store move between two commands of one
  session and once more before the next; the version in the middle is not joined,
  so the gate of the data job refuses it.  The four sources are the four verdicts
  the gates can give.  Three builds are one to replace, one that is preserved or
  abandoned and one that overtakes it.  The first repository is empty or has a
  build from before the signals.
- *Deployments.* Three are a served one, one that replaced it and one that comes
  after; a search limit of two is smaller than the listing, so the served one can
  fall out of it; one commit for all builds is the case in which records are
  confused.
- *Monitor and SEC client.* The counter is checked above its alarm value of two.
  Two threads and two refusals let the breaker open while a leader of the other
  url is queued; with MinInterval 2 a backoff can be shorter than the interval or
  equal to it, and a Retry-After can prolong it.
- *Congress.* Each source's states occur with one House and two Senate documents;
  a blocked Senate is younger than, exactly at and older than a bound of one day
  within three days; the seed filing represents the House report, so that the
  crosswalk has something to retire.  A window of one day leaves the first report out
  once a newest one is two days later; the bootstrap may last longer than that, as the
  real one does, which starts in 2012, so releases are reached whose seed left a report
  behind the window, with and without an era run.
- *13F.* Two filers in the top compete with a third; the total on a cover is
  within and outside of the tolerance; flushing every second cover leaves covers
  that a crash loses.  The worlds put the amendment before or after its base in
  accession order, and name the notice's filer or not.
- *Identity.* Five days hold an interval cut twice and a gap below, at and above a
  horizon of three; two identifiers let a security receive one while it hands over
  another.  Three runs are a seed, a revision and its undoing; with all runs at
  once every subset of the files may arrive in each.
- *Runner.* Two jobs are an earlier and a later one; two directories let one
  shadow the other.
- *Aggregates.* Two lines in a book make candidates collide in each pass of the
  matching; three digits with a largest integer of 12 let a digit, a carry and the
  whole overflow; three quarters make adjacent and non-adjacent pairs.  Two lines without
a key have one issuer under two spellings.

Counters that would grow for ever (`MaxTime`, `MaxVersion`, `MaxBuilds`,
`MaxContents`, `MaxBuild`, `MaxPages`, `MaxMoves`, `MaxFailures`, `MaxClock`, `MaxDay`,
`MaxRows`, `MaxRuns`, `LastBoot`, `MaxSingles`, `MaxFaults`, `Faults`, `Hands`, `MaxJobs`, `MaxDeaths`,
`LastDay`) are bounded in guards.  The proofs do not depend on any of these values.
The runs with bounded days, runs or jobs switch TLC's deadlock check off, because at
the bound the model really stops; the others keep it on.

## 4. Fairness

Fairness is weak everywhere and is assumed of the program's own steps and its
schedules, never of failures, faults or operators' interventions.

- Client: each process keeps polling and a refresh that was entered runs on
  (`WF(Progress(c))`), and time passes.  Fetches end by their timeouts and the lock is
  taken without blocking.  Convergence starts at `Settle`, after which nothing
  fails any more and the network serves the newest pointer: that is the premise of
  the property, not an assumption about the code.
- Publication: the nightly schedule keeps starting sessions and a session runs on
  (`WF(Work(w))`).  The premise is again that failures have stopped (`calm`).
- Assembly: the same for its commands and for the nightly `Begin`; `CalmDown` only
  ends the faults, and `NightsCatchUp` is about what follows it.
- Monitor: launchd starts a poll every six hours (`WF(Run)`).
- SEC client: threads are scheduled, a transport call ends by its timeout
  (`WF(Advance(t))`), the monotonic clock runs (`WF(Tick)`).
- Congress: a night that was started runs on and the next one is started
  (`WF(Progress)`, the workflow's cron).
- 13F: the operator runs the commands again until they have nothing to do
  (`WF(Commands)`); refusals and crashes are bounded, `StartOver` is not fair.
- Runner: launchd restarts the cycle, an invocation runs on, a lock's holder
  notices that its parent is gone, a job ends (`WF(Work)`, `WF(HolderExits)`, `WF(JobEnds)`).

SiteDeployment, DeploymentRecord, ServerResolution, IdentityRegistry and InstAggregates
state safety only and assume nothing.

## 5. What is proved

| Module | Theorem | Statement |
|---|---|---|
| ConsumerProofs | EvaluateStatus, TypeCorrect, Invariant, ServingSafety, ImplementsService | of the client: what each status of the pointer state machine says; types; the inductive invariant; `[]ServesOnlyWhatIsCommitted`; `KeepsThePromise` |
| ConsumerProofs | ServingStaysSteady, ResolutionStaysSteady, UnlockedReadsAreTrue | without storage faults: `ServingIsSteady`, of the client alone and beside a reader; `[]UnlockedReadsAreAtomic` |
| ConsumerProofs | MonitorInvariant, MonitorTypeCorrect, SecondFailureIsReported, BaselineOnlyEarned | the inductive invariant; types; `[]SecondFailureAlerts`; `BaselineIsEarned` |
| IngestProofs | SecInvHolds, TypeCorrect, NeverNeedless, AlwaysLed, Polite | of the SEC client: the inductive invariant; types; `[]NoNeedlessRequest`; `[]FollowersAreLed`; `ImplementsPoliteness` |
| PublicationProofs | SessionsInvariant, PublisherImplementsFeed, InFlightStaysUnambiguous, NothingIsTorn, NightlyNeverGoesBack | the inductive invariant of the sessions; `ImplementsFeed`; `[]InFlightIsUnambiguous`; `[]NeverTorn`; `NightlyNeverRepoints` |
| BuildAssemblyProofs | AssemblyInvariant, SealsAreWhole, LifecycleStaysChained, DeployedSitesAreCounted | the inductive invariant; `[]SealedBuildsAreWhole`; `[]LifecycleIsChained`; `[]DeployedSiteIsCounted` |
| OperationsProofs | RecordInvariant, CompensationStaysExact, RecordsAreTrue, HistoryIsKept | the inductive invariant; `[]CompensationIsExact`; `[]RecordsNameWhatWasServed`; `RecordsKeepHistory` |
| CongressNightlyProofs | NightlyInvariant, ReleasesSound, ReleasesFresh | the inductive invariant; `ReleasesAreSound`; `ReleasesAreFresh`, for a bootstrap of any length |
| InstBulkProofs | BulkInvariant, UniverseIsRanked, ArchiveIsDurable, DerivationsAreHeld, LoadedIsRanked | the inductive invariant; `UniverseIsTheRanking`; `[]DurableIsTheDocument`; `[]DerivationsHold`; `[]StoreMatchesTheArchive`, if no single ingest reads a holdings report of the ranked period (`Apart`) |
| InstAggregatesProofs | AggregateInvariant, PathsAlwaysAgree, BooksAlwaysBalance, QuietBooksAreAlwaysHeld, SurfacesAlwaysAgree | the inductive invariant; `[]PathsAgree`; `[]BooksBalance`; `[]QuietBooksAreHeld`; `[]SurfacesAgree`, if no two filers succeed one (`OneSuccessor`) |
| IngestProofs | RegistryInvariant, RegistryTyped, StoreConverges, LedgerStays | of the identity registry: the inductive invariant; types; `[]ConvergesLikeACleanBuild`; `[]LedgerLeadsToTheLiving` |
| IngestProofs | ResolvedInvariant, IdsStay, ReplaysAreClean, HoldingsFollow | if no revision takes from a security while it gives to it (`UnchainedRuns`): the inductive invariant; `[]IdsKeepTheirMeaning`; `ReplayIsACleanBuild`; `[]HoldingsFollowTheAuthority` |
| OperationsProofs | RunnerInvariant, DestroyKeepsItsPromises, EveryJobStartsClean | the inductive invariant; `[]WipesAreSafe`; `[]OneJobClean` |

The assumptions are the named ones in the modules: documents have the fields
their schemas require, sentinels are not documents (`PointerAssumption`), filings, their rows or what an index shows of
them (`FilingAssumption`, `RowAssumption`, `CongressAssumption`), a seed filing has one
primary twin, a 13F row or journal is not the sentinel `None` (`RowAssumption`, `JournalAssumption` of
InstStore and InstBulk), bounds are naturals, the backoff schedule stays below the cap (`SecAssumption`),
reported rows have the columns' types and a 64-bit integer fits the digits it is split into
(`InstAggregatesAssumption`), a missing value is none of the others (`SentinelAssumption`),
and no position is worth more than an integer holds (`WorthAssumption`: its sum would raise).
Of the identity registry: ids, owners and observations have their types and the horizon is positive
(`RegistryAssumption`), quarters are intervals that do not overlap (`ListAssumption`), and a missing
value is none of the others (`NoneAssumption`).  Publication
assumes (`SessionsAssumption`) that one worker at a time runs nightly sessions, which is
`publish.yml`'s concurrency group (`data-publish`, lines 74-76), and that a directory
which survives between sessions has one user: a checkout is either made afresh for
each session or belongs to whoever runs the nightly one.  The allocation of ids rests on
that (`.build-allocations.json` is in that directory and takes no lock).  TLC evaluates
all of them in every run.

**Snapshot client.** "Only what is committed is served" says nothing about a refresh
under way, so it is not inductive.  `IInv` adds three facts.  `OnlyTheHolderRuns`:
a process inside `refresh()` holds the lock, so there is one at most.
`AcceptedPointers`: the pointer a refresh acts on is attested and at or ahead of the
commitment; it stays so because nobody else can commit, and a storage fault
can only end a commitment, not advance it.  `AnchorIsCommitted`: a tuple that reads
back is the last commitment and was verified.  Then the served build, which must
match the tuple in both version and bytes, is the committed one.  The refinement
is proved from the same invariant, one action at a time: `CommitAnchor` is
`Advance`, an emptied cache is `Forget`, and everything else is `Revise` or a
stutter.

**Unlocked readers.** Both theorems assume `Undisturbed`: no storage fault, as in the
ServerReads run, since a damaged file takes a served build away, and
one manifest to a build id, which is what the publisher keeps (PublishedFeed,
proved).  Without the second a directory would be replaced in place under a record
that still names it.  `Steady` adds to `IInv` that `serving.json` never runs ahead of
`trust.json` and names a build that is there (`RecordFollows`), and what the one
refresh under way knows (`RefreshKnows`): what is served is what it read on entry,
until it commits; the pointer it installs is not the recorded one, which is why
removing or replacing its directory takes nothing away.  `Reading` is about a call of
`serving_build()` between its reads: as long as something was served throughout, the
files it has read are the current ones (`ServedOn`: no step writes both, so a break
always shows), and if what it has read proves a build, that build was served while
it was reading.

**Monitor.** `SecondFailureAlerts` needs to know that a failure already concluded is
still counted when the next poll looks.  `FailuresAreCounted` says so for the steps
between which it holds; a crash empties the counter but also ends the streak.
`EarnedWhenPersisting` keeps what a poll established until it writes the baseline.

**SEC client.** `SecInv` adds to the two properties: the gate is exclusive; flights and
leaders agree until the flight is popped; the breaker is open exactly when the
refusals reached the threshold and then nobody is under the gate; and before a
request is sent, the pending sleep covers what is left of the interval.  The last two
are what makes every request an `Ask` of SecPoliteness: a leader that
queued looks at the breaker again (`_state` is taken inside `_gate`), and a
backoff, which may be shorter than the interval, is followed by a new spacing.

**Publication.** Five invariants, each relying on ones before it, all of them
inductive.

- `Sessions` is about one release: at every step of `_complete_build` the content a
  session works on, the staged journal and the release's assets agree as far as the
  step has come (`Agrees`), a nightly session that stages or completes sees no
  draft but its own (`StagesAlone`), nobody else stages (`StagesNothing`), and a
  published release is whole (`ReleasesAreWhole`).  That there is one draft at most
  is what makes it inductive: `EnsureDraft` opens one only for a session of the
  nightly worker, after reconciliation found none.
- `Checkouts` says of origin and of every checkout that whole builds and pointers name
  published releases with that very content, and that a checkout's pointer is its base
  or newer.  With it `Push` is PublishedFeed's step to a higher pointer:
  `Mergeable` makes the base the pointer being replaced.  `PublishRelease` is the
  appearance of a release, everything else a stutter.
- `Uploads` bounds every id with a trace by the high-water mark and says that an id
  whose uploaded draft was discarded is `Spent`: it is neither staged nor worked on
  again.  Without the mark the id of a discarded draft would be free.
- `WholeBuilds` is why no partial directory is pushed.  A fresh checkout has none but
  those of its own session, which ends when it leaves one.  In a surviving one,
  `reconcile_inflight` looks at the newest published release only; `Stored` says that
  this is enough, because only the newest can be missing, nothing is in flight while it
  is, and what is staged is newer than all.  `Placed` carries it through the session:
  from "reconciled" on nothing is missing, and a build under completion is the only
  one that may be.

- `Pointing` is why no night undoes a rollback.  While a checkout is current (a fresh
  one: as long as its base is origin's pointer; a surviving one: always), every build
  that `latest.json` ever named is whole in it and not staged (`LeavesThePointed`).  So
  each of the four ways a session comes to complete a build (a draft, a staged
  journal, the newest published release if it is missing, its own target) leads to one
  that was never pointed at.  A night pushes the build it completed last, even if an
  interrupted rollback left its pointer behind (`PushesItsOwn`), and a push over
  a newer pointer is refused, since versions only grow.  `Settled` says that a
  surviving directory that is reconciled holds nothing staged that has a release, so
  that what is pushed next, a rollback included, is not staged either.

**Assembly.** The three properties are about releases, and say nothing while a build is
being made; `AssemblyInv` says what every step has established by then.  `Held` is about
a staged directory, whoever left it: one with a stage state is `Documented` (its
documents were computed from the sanitized copy, whose list withholds what the
institutional files do, and those are both of the source the provenance names), the
state's derivation is the one the files came from, a whole journal is what the
directory was sealed as (`JournalOk`) and the gate record is the derivation's verdict.
That is what lets a later session resume, preserve or publish what it did not make:
`Consistent` compares only some files with the journal, and `Held` accounts for the rest.
`Reached` adds what the session under way knows, ending with a manifest that lists the
directory without itself; `Counted` follows the site beside it: built from the
provisional manifest, counted, its statistics replaced by the patched ones.  `Newest`
says why the session publishes that directory and not another: it is not released,
and no later one has a journal, so it is the `Target`.  Two assumptions are needed: the
sentinel `None` is not a source, a file, a lifecycle or `Torn` (`NoneAssumption`), and for
`DeployedSitesAreCounted` it is not the record of a journal, directory or release
(`Distinct`, a premise of that theorem, since it quantifies over all records).

**Deployment and records.** `CompensationIsExact` speaks of the moment production is
rolled back.  `Owned` says why that is right: until the upload nothing anywhere
carries the sealed identity (its build id has just been allocated, nobody has uploaded
it, and an operator uploads only earlier bytes), so after it every deployment that
does is an upload of this run, late ones included; with it the one new
deployment that `_fail_production_exception` accepts as the run's own is one.  `Anchored`
says where to: from the last proof on, what was replaced is what the anchor serves, since a
deployment never changes, and once production is back at the anchor only a move that
is counted as `disturbed` takes it away.  On top of the site, `Retained` keeps every
identity in the provider's hands tied to a retained artifact, which no later build
overwrites; `Signing` is what a signer has established so far, so that what it pushes
was located and answered by the domain; `Passed` ties a run that passed by a record
to that generation as long as the domain's answer has not changed; `Numbered`
says that among the generations one is the highest, so that the gate reads an actual one.  The
assumption that there is a value that is neither an identity nor a commit
(`NothingAssumption`) is used wherever an absent site is told from one that is there.

**Runner.** The properties speak of the moment a job starts or a marker stands; the
invariant adds what each phase has established before it: one holder of the lock, and
phases only under it (`OneHolder`, `Locks`), no process of the runner user from the
export on, no unexported log from the wipe on (`Cleanup`), a clean root under the
marker and in the registration that consumed it (`Marked`), a whole image
from unpacking to the job's end (`Imaged`), every job's log in the root or exported
(`Logged`), and tools bound to the verified directory wherever a registration relies on
them (`ToolsBound`).  All but the last hold until a lock holder dies inside a phase
(`rash`), the residue the script documents.

**Congress.** `SoundInv` says of every store that what an amendment links to is there
(`Links`), and of the job under way which store it works on and what it has dealt with
(`Jobs`): a nightly's baseline is the release it will replace, an operator's job ends
before the join, and what is no longer on a list of documents to read is in the store.
Nothing is lost because the floor compares with that baseline.  The flags are proved
of the tail: `LinkAmendments` and `FlagPairs` run over the whole store, the era run that
may load more after it ends in a tail too (`TailSound`), and a join changes neither links
nor transactions (`JoinRows`).

`ReleasesAreFresh` has to account for reports no listing shows any more, so `FreshInv`
is about two clocks, the day a store last heard the Senate and the newest report it
holds, before which the window leaves out what is `Older`.  `Fresh`: what the index showed before a
store last heard the Senate is settled in it, that is archived and of the kind the index
shows, or is older than its window.  `Complete`: of what the window of the working store
leaves out, it lacks nothing that its seed did not lack.  Between a listing and its tail
`Complete` is suspended.  `Outside` says of a report the listing left out that it is settled
or was missed by the seed, unless nothing in the store or on the list can move the window
past it; `Inside` says of a report dealt with that its row is of the kind shown, or was
converted today and is still in every window.  The tail moves `lastOk` only if the whole
index reconciles, which turns `Inside` into `Fresh`; a blocked or failed night keeps
`lastOk`, and `MayDegrade` refuses it once the bound is passed.  `Plausible` says that
stored dates are those of the index, so an upsert never moves a window back
(`UpsertFresh`), and a conversion stays inside every window because `ConvertPaper` does
(`RecentIsInWindow`).  `Swept` is what the tail of an era run leaves.  No assumption relates
the length of the bootstrap to the window: what a bootstrap run that died left behind it
is the set `Behind(baseline.rows)`, which a release may only shrink (section 6).

**13F ingest.** Each property speaks of the end of a run; `BulkInv` says what the files and
the run know before it.  `Checked`: bytes in the archive have a checkpoint and it is the
document's, so that what survives a torn write or damage is either refused or true.
`Ranking`: a rank journal, and the sweep under way, hold nothing but what the covers say, and
a universe is the ranking of all of them, because discovery closes only once nothing is left to
sweep.  `Ingesting`: what a run has seen of a filing is what its row says, and a run works only
on filers it has not closed as loaded.  `Traced`: what the bulk ingest wrote was listed when
its universe was ranked, so that an index which grows cannot add a filing to a ranked lineage.
`LoadedRows` adds that a filer closed as loaded has every filing of its lineage parsed in the
store; only the ingest of a single manager rewrites a row, and if it is refused it replaces a
good row by a failed one (section 6).  The premise `Apart` of `LoadedIsRanked` says that it is
used for notices and other periods alone; the run, whose single manager files notices, meets
it.  No other theorem needs it.

`DerivationsHold` is about the passes, and so about data.  `PassesConverge` shows that
the three passes read statuses and documents only, never a link or a flag, so that they give
what a clean rebuild gives and a second round changes nothing; `PassesLink` that what they
leave passes the code's own check of pairs.  `NothingInflates` compares two sums over
finite sets: every filing in the numerator resolves no more than it banks to the
denominator (`NoFilingInflates`), and where something is filed something survives
(`SomeoneSurvives`, which takes the heaviest of the restatements).  Sums and maxima are proved
by taking a smallest counterexample (`SmallestSet`, from the library's well-foundedness of strict
inclusion), and the sum itself, a recursive function on subsets, exists by the same
argument (`SumExists`).

**Aggregates.** The derivation is one step, so the invariant is short: what has been
derived is `OracleResult` of the books at hand.  The proof is about the two paths, and goes
in parts.

- *Digits.* SQL sums 64-bit shares digit by digit and carries (`DigitSums`, `Carried`).
  `CarriesKeepTheSum`: carrying keeps the number the digits stand for, and the highest
  carry shows an overflow; with `DigitsAddUp` a staged position is the oracle's
  (`StagedIsFinal`).  `SquareIs` and `BulkSquareSumIs`: the products of digits, gathered by
  their place, are the squares whose sum the concentration divides.  Powers and sums are
  recursive functions, whose existence and equations are proved first (`Recursion`, `SumExists`).
- *Matching.* The oracle matches one pair of quarters at a time and takes a match out
  before the next pass; SQL makes each pass over all filers at once and removes what
  stands in `PrevOf` and `CurrOf`.  `PairsApart` says that one filer's
  positions belong to one pair on either side, which is where `OneSuccessor` is needed, and
  `Spread` carries a matching of each pair over to the stage of all (`ExactIs`, `TurnedIs`,
  `BridgedIs`).  So the uniqueness constraints hold (`UniqueIs`) and the rows agree
  (`DeltasAgree`).
- *Concentrations.* The oracle takes the largest sum of `TopN` weights, SQL the first rows of
  an order by value alone, which ties leave open.  `PartExchanged`: of two equally large sets, the
  one whose own members are nowhere smaller than the other's has the larger sum, so any first rows have the
  largest (`FirstRowsAre`), whatever the ties.  `ConcentrationIs` puts the missing sides of the joins beside the oracle's empty sums.
- *Issuers.* SQL adds up what the groups of a name's spellings and securities add up to:
  `GroupsAddUp` says that this is the sum over the rows, by adding one group at a time, and
  `HolderIs` that the counts and flags come out alike.
- *Balance.* Each position is in exactly one row of its pair, tied, new or left (`NowIs`,
  `BeforeIs`): each pass ties a position once.  So the sums over rows are sums over positions.
- *Quiet books.* With each security on one line a position is a line; the twin of
  a line is found by the first pass that can see it (`TwinsAre`, `TwinsJoin`), so that nothing
  is left for a row that says new or exit (`QuietMatches`), and its shares are equal.

- *Surfaces.* A holder's row sums lines by ticker, the changes match positions by key.
  Where a class is one line that nothing else resembles (`OneLine`), the position is that
  line (`SoleIs`), two such lines are matched by one of the stages (`CouplesJoin`), one
  alone is new or an exit (`NewcomersAreNew`, `LeaversExit`), and both say the same of them.

`OneSuccessor` is the premise of all five theorems; without it the SQL path raises
(section 6).

**Identity.** A run is one long function of the tables, so most of the proof is about its
operators, and it never looks at rows one by one but at what a table says of a day.

- *Intervals.* `CutIs`, `PiecesCover` and `PiecesDisjoint`: the pieces that the boundaries cut
  a row into hold each of its days once, and each piece has one owner.  `UnionIs` and
  `UnionDisjoint` say the same of the intervals that days are merged into.  So `IdRows` is kept: the observed
  table holds exactly the days that were observed, each in one row, under its owner; and
  `LstRows`, the same of each quarter's list.
- *Review.* The verdict on reuse is stated over rows and their gaps; `VerdictIsOfDays` shows
  that it depends on the observed days alone, because where a run of days is cut there is a boundary and
  no gap (`GapsAreDays`).  `ReconcileJudges` and `FtdJudges` then give `Judged`: each row has
  the verdict of its days.  A run that brings days leaves the rows of other owners unjudged;
  a run that brings nothing new judges all, which is why `settled` is the premise
  of `ConvergesLikeACleanBuild`.  Two tables that are both judged and hold the same days say the same
  (`JudgedSayTheSame`), and a clean build is one of them.
- *Migration.* Its two passes are recursive functions over the order of the ids.  They are
  folds (`FoldExists`, by well-foundedness), so a fact that each rename and each split keeps holds at
  the end (`FoldKeeps`), and one that a security's own step establishes and the others
  keep holds too (`FoldReaches`, `MovedReaches`).  With the first, `Living` and `Leads`: what receives
  something is stored, and the ledger leads from what is gone to what is stored.
  So every destination is stored (`DestinationsStored`) and no row names a security that was
  retired, which `Sound` needs to be inductive.
- *Candidates and holdings.* `LinksSound`: candidates are observed.  `HoldingSound`: a resolved
  holding has the owner of its day, and some table still covers that day, without which
  the second resolution of a split could lose it.  `MovedHolding` follows one holding through the
  passes: it is moved once, by the step of the security it names, and the target keeps it.  That
  is where `Unchained` is needed: if what a security gives up can go to one that has a step
  of its own, then a holding, or a candidate, is moved on with what the second one gives up (section 6).
  The premise is about the reviewed file only, and the instance of Identity meets it; `RegistryInvariant`
  and its three theorems do without it.

**Only model-checked.** Everything temporal under fairness, which the proof system does not
reach.  The library's induction
theorems are out of reach, since they take an operator as a parameter; its well-foundedness
theorems take sets, and a smallest counterexample serves instead.

## 6. Where the code surprises

These were met while modelling.  The passing runs exclude each of them by a premise
or by an instance in which it does not occur, as noted.

- *A first install that dies* between the rename and the tuple leaves local state
  and no tuple, so every later refresh refuses (`client/snapshot.py:780`);
  `docs/architecture/data-contracts/snapshot-withdrawal.md:215` says that the next
  refresh installs.  `PollingConverges` counts that refusal as an end.
- *A server can mix builds*: the database path and the build id of one resolution
  come from separate unlocked reads (`mcp_server/server.py:417`); `client/snapshot.py:8`
  says that artifacts never mix.  `UnlockedReadsAreAtomic` is about single reads.
- *A published release can be lost*: two nightlies in a row that publish and die
  before their push leave an older release that is never materialised
  (`publish/build.py:1925`); the comment at 1918 says only the newest can be in that
  state.
- *A recorded rollback wedges the gate* (`deploy/record.py:1087`): its generation is
  appended under the older build, but the gate takes the highest build's;
  `ARCHITECTURE.md:750` says the publish is gated until the record exists.
- *A staged build sealed twice*: finalizing again with another count and dying
  before the journal leaves a tree that disagrees with its journal, which
  `stage-build` preserves and publication refuses until `.staging/<id>` is removed
  (`Wedged` in BuildAssembly).  An abandoned older staging can be published by hand
  over a newer build; `Resume` takes only one whose predecessor is still the
  pointer's.  A preserved build is published, but the site of that night is not
  deployed; the next night's is.
- *A withheld module stops the congress build* in a store that was seeded from a
  release, as every hosted night's is: its SEC list is opaque already, a module below
  the coverage gate hands over no filed identifiers, and `apply_registry_redaction`
  refuses (`inst_redaction.py:1294`).  `cli.py:1088` says that congress still publishes,
  and the test of that name (`tests/test_publish.py:3657`) uses a store that was never
  seeded; the same holds where no institutional source is configured.  `Good`, the
  premise of `NightsCatchUp`, asks a hosted night for a module that is served.
- *A licensed seed filing counts twice* between its import and the crosswalk, and a
  second backfill reactivates retired ones until then (`backfill.py:291`);
  `ARCHITECTURE.md:584` says it is never double-counted.
- *A page that fails to parse and was archived* is not fetched again once it left
  the window, against "stays re-fetch-eligible" (`ingest/senate.py`); `Stuck` is the
  premise of `ReleasesCatchUp` that excludes it.
- *A dead bootstrap can hide a report*: the window of the next run starts 90 days before
  the newest stored Senate report (`ingest/senate.py:655`), and a run stores reports in
  the index's order.  One that dies, or whose fetch of an old report fails, after it
  stored a newer one may leave the old one outside every later nightly window; the comment
  at 1165 says that a fetch-failed filing "stays re-fetch-eligible".  It comes back only with
  a run whose window is given explicitly, as the era run's is.  `ReleasesAreFresh` and
  `CaughtUp` therefore exempt `Behind`, what the window leaves out although the store does not have
  it, and the former says what the nights owe about it: none makes it larger, and an era
  run empties it up to `EraEnd`.  Without the exemption TLC finds `ReleasesAreFresh` violated
  on the last day of NightlyCorpus.
- *A refusal can be final*: a filer whose fetch was refused is journaled with an
  outcome that `_TERMINAL_PREFIXES` (`inst_bulk.py:776`) treats as done, so a resumed
  run does not fetch it, which `ingest/inst13f.py:336` promises.  A standalone ingest
  whose re-run is refused replaces a loaded filing by a failed one.  The ingest
  journal is bound to the universe and not to the database.  An archived
  `submissions.json` is used for ever.
- *Chained renames*: a security that hands over all it has while it receives
  another identifier takes holdings that were just moved to it along (`identity/registry.py:1683`,
  comments at 1553 and 1577).  The passing run's revisions have none.
- *Chained splits*: if that security is split up instead of renamed, it also keeps its old
  candidates, because `reset_targets` (`identity/registry.py:1820`) gets its successors only,
  where a rename resets the survivor (1706-1709).  Replaying the corpus does not help: the
  candidates are a growing union.  `tests/test_identity_migration.py:3` says that a replay gives rows
  "row-identical to a clean build".  With `SwapRegistries` for the
  revisions and two runs TLC finds `ReplayIsACleanBuild` violated; the revisions of the run
  Identity have no such chain.
- *A living id can stand in the ledger as superseded* after a split is undone and
  redone, against `identity/registry.py:1735`.  Incremental observations that fill a gap
  leave the rows of other owners disputed until a run that brings nothing new,
  against "any partition, ordering or incremental backfill" in `identity/bootstrap.py`;
  `settled` is the premise of `ConvergesLikeACleanBuild`.
- *Rows stay cut.* The rows of a list that a split had cut are not joined when the split is undone,
  so a list seeded before that revision ends in two rows and one seeded after it in one.
  `identity/registry.py:1628` and `identity/list13f_seed.py:10` say that both orders converge
  "bit-for-bit".  `ConvergesLikeACleanBuild` compares what the tables say of each day, which is the
  same; compared row by row, TLC finds the two tables different after two runs.
- *Two successors of one registration* make the SQL path raise where the oracle
  emits both (`inst_agg.py:346`).  A filer whose last quarter was a mere notice is
  `new` among a ticker's holders and `no_prior` among its changes.  Two lines of one
  CUSIP that are resolved to different securities are one holding of the ticker's but an
  exit and a new position among the changes, and shares of an unreported unit are subtracted
  by `_shares` (`inst_agg.py:2930`) but not by `_qoq_row`.  The instance has one
  successor, and `SurfacesAgree` asks for a book before and leaves such lines out.

## 7. What is abstracted

Signatures, hashes and schemas are sets and equality of values.  Messages, logs
and exit codes are left out, except where a later step reads them.  File-system
and git operations that the code relies on being atomic (rename, push) are single
steps, as is each database transaction.

- *Client, monitor, SEC client, deployment.* The sweep of every file of a deployment
  is one comparison of identities.  The refusal of symbolic links, the preconditions on
  branch and domain and the url checks are local input checks: they appear as the
  failing variant of the step they guard, or not at all where nothing changes.
- *Assembly.* A document is the version it was computed from; digests are equality.
  Publishing is one step, whose inside is Publication.  `populus build`, which
  expects congress alone and has no site and no signals, is left out.
- *Congress.* Transactions are a number of rows; "parsed" stands for parsed and
  partial, which no decision here tells apart.  The HTTP session with its breaker is
  a refusal of the source for one night.  The resolution of the seed's pin and its
  download are one step.
- *13F.* The index of a filing is part of its table document; accession numbers are
  naturals, managers their file numbers.  Co-filers, shards and mismatched periods
  are left out; damage hits bytes, not checkpoints.  The passes after a load
  (`ingest/inst13f.py:1647-1665`) are one step, `FinalizeInstIngest`, although no transaction encloses them
  (its docstring at 1001-1006 says so): each derives its columns from the loaded rows alone, and every
  run, also the one after a crash, ends with all of them.  `StartOver` is an operator who
  takes a fresh output directory over the same archive.
- *Identity.* Dates are a small range of days, companies labels.  The review of
  companies, id classes, the reasons in the ledger, the ticker registry and the
  loading of list documents are left out.
- *Aggregates.* Rows, not their SQL; the default and the reported population hold the
  same rows.  Values are small integers with the code's base and number of digits as
  constants, so that overflow occurs.
- *Runner.* The static validation of target, identity and state directory and the
  token's text are refusals that change nothing.  A holder that dies inside a phase
  is the residue the script documents (339-350) and the properties exclude (`rash`).

**Not modelled.** Attestation (a library call), bounded HTTP and the parsers keep no
state; the MCP tools, queries and the dashboard only read an immutable database;
statistics, calendars, sectors, licences and the parse gate are pure computations
over one build; redaction and the serving projection are SQL over one connection,
of which BuildAssembly keeps that both databases are of one source, that they and the
SEC list withhold the same, and when a list cannot be redacted again.
The scripts for acceptance and maintenance are reports.

## 8. Plan

Done, in the order of what is trusted most: the client with its promise and
proofs, the server, publication with the feed, monitor, deployment and record, SEC
client; then the congress nightly with seed and floor, the institutional bulk ingest,
the identity registry, the runner, the aggregates, and the assembly of a build.

Every safety property of a passing run is proved, under the premises section 5 names; what
is left to TLC is named there too.

To be modelled next: PublishedFeed as the environment of the client and the monitor,
so that a consumer follows a real sequence of publications and rollbacks; the
serving projection and the row budget (`inst_serving.py`, `inst_budget.py`) as operators; the
congress parse gate as a further condition of the night.
