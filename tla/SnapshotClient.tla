---------------------------- MODULE SnapshotClient ----------------------------
(***************************************************************************)
(* SnapshotClient (src/populus/client/snapshot.py): several processes that *)
(* share one module's cache directory, each polling latest.json.           *)
(*                                                                         *)
(* Durable state is what the directory holds: trust.json (anchor),         *)
(* serving.json (record), the build directories (cache) and the temporary  *)
(* .tmp-<build_id> directories (staged).  One refresh() is a sequence of   *)
(* actions, one per durable write or fetch, between which the process may  *)
(* crash, other processes may run and the disk may lose or damage files.   *)
(***************************************************************************)
EXTENDS TrustedPointer

CONSTANTS
    Clients,        \* the processes sharing the cache
    ClientVersion,  \* the populus version each of them runs
    Faults,         \* the storage faults that may occur (see DiskFaults)
    Newest,         \* the pointer an honest network ends up serving
    MaxTime         \* bound on the clock

DiskFaults == {"lose_anchor", "corrupt_anchor", "lose_record",
               "mangle_record", "forge_record", "damage_build", "lose_build"}

Record == [pointer : Pointers, installed_build : Builds \cup {None}]

ASSUME ClientAssumption ==
    /\ ClientVersion \in [Clients -> Nat]
    /\ Faults \subseteq DiskFaults
    /\ Newest \in Pointers
    /\ MaxTime \in Nat
    /\ None \notin Clients \cup Record
    /\ Corrupt \notin Record

VARIABLES
    anchor,     \* trust.json: None (absent), Corrupt, or the committed pointer
    record,     \* serving.json: None (absent), Corrupt, or a serving record
    cache,      \* per build id: None, Corrupt (incomplete), or the manifest
                \* every artifact of which verifies
    staged,     \* build ids with a .tmp-<build_id> directory
    lock,       \* holder of the flock on .lock, None when free
    pc,         \* where each process is inside refresh()
    ptr,        \* the accepted pointer each refresh is acting on
    prior,      \* serving_build() as each refresh read it on entry
    result,     \* the RefreshResult a refresh returned last
    now,        \* the clock
    calm,       \* TRUE once no failure, crash or fault occurs any more and
                \* the network serves Newest
    committed   \* history: the last pointer written to trust.json since the
                \* cache directory was last empty

disk    == <<anchor, record, cache, staged>>
process == <<pc, ptr, prior, result>>
vars    == <<disk, lock, process, now, calm, committed>>

Steps == {"idle", "fetch", "manifest", "download", "swap", "rename",
          "commit", "record", "withdraw", "null"}

Result == [client : Clients \cup {None},
           status : {"none", "refused", "idempotent", "withdrawn",
                     "incompatible", "installed"},
           build  : Builds \cup {None}]

NoResult == [client |-> None, status |-> "none", build |-> None]

TypeOK ==
    /\ anchor \in Pointers \cup {None, Corrupt}
    /\ record \in Record \cup {None, Corrupt}
    /\ cache \in [Builds -> Manifests \cup {None, Corrupt}]
    /\ staged \subseteq Builds
    /\ lock \in Clients \cup {None}
    /\ pc \in [Clients -> Steps]
    /\ ptr \in [Clients -> Pointers \cup {None}]
    /\ prior \in [Clients -> Builds \cup {None}]
    /\ result \in Result
    /\ now \in 0..MaxTime
    /\ calm \in BOOLEAN
    /\ committed \in Pointers \cup {None}

Init ==
    /\ anchor = None
    /\ record = None
    /\ cache = [b \in Builds |-> None]
    /\ staged = {}
    /\ lock = None
    /\ pc = [c \in Clients |-> "idle"]
    /\ ptr = [c \in Clients |-> None]
    /\ prior = [c \in Clients |-> None]
    /\ result = NoResult
    /\ now = 0
    /\ calm = FALSE
    /\ committed = None

-----------------------------------------------------------------------------
(* Reading the cache.                                                      *)

(* Every artifact the manifest lists for the module is there and verifies, *)
(* and manifest.json hashes to m.  A manifest that lacks the module is     *)
(* never complete (module_artifacts raises).                               *)
BuildComplete(b, m) == m.carries /\ cache[b] = m

(* Mutant: the serving record is believed without the committed tuple.     *)
ServingBuildByRecord ==
    IF /\ record \in Record
       /\ record.installed_build = record.pointer.build_id
       /\ BuildComplete(record.installed_build, record.pointer.manifest)
    THEN record.installed_build
    ELSE None

(* The only way serving is decided.                                        *)
ServingBuild ==
    IF /\ anchor \in Pointers
       /\ record \in Record
       /\ record.pointer = anchor
       /\ record.installed_build = anchor.build_id
       /\ BuildComplete(anchor.build_id, anchor.manifest)
    THEN anchor.build_id
    ELSE None

(* serving.json exists, readable or not, or any build directory does.      *)
HasLocalState == record # None \/ \E b \in Builds : cache[b] # None

(* A cache directory emptied of all three is indistinguishable from one    *)
(* that was never used: the history starts again.                          *)
Forgetting ==
    committed' = IF anchor' = None /\ ~HasLocalState' THEN None ELSE committed

-----------------------------------------------------------------------------
(* One refresh(), under the module lock.                                   *)

Goto(c, step) == pc' = [pc EXCEPT ![c] = step]

(* The process leaves refresh(): by its context manager or by its death,   *)
(* the lock is released.                                                   *)
Leave(c) ==
    /\ Goto(c, "idle")
    /\ ptr' = [ptr EXCEPT ![c] = None]
    /\ prior' = [prior EXCEPT ![c] = None]
    /\ lock' = None

Return(c, status, build) ==
    /\ result' = [client |-> c, status |-> status, build |-> build]
    /\ Leave(c)

(* The lock is held by another process, or its file cannot be opened: no   *)
(* state changes and serving stays what serving_build() proves.            *)
Contended(c) ==
    /\ pc[c] = "idle"
    /\ lock # None \/ ~calm
    /\ result' = [client |-> c, status |-> "refused", build |-> ServingBuild]
    /\ UNCHANGED <<disk, lock, pc, ptr, prior, now, calm, committed>>

(* The lock is taken, reconcile() removes orphaned temporary directories   *)
(* (its errors are swallowed), and serving_build() is read.                *)
Acquire(c) ==
    /\ pc[c] = "idle"
    /\ lock = None
    /\ lock' = c
    /\ Goto(c, "fetch")
    /\ prior' = [prior EXCEPT ![c] = ServingBuild]
    /\ staged' = {} \/ (~calm /\ staged' = staged)
    /\ UNCHANGED <<anchor, record, cache, ptr, result, now, calm, committed>>

(* Mutant: an absent tuple is a first install, whatever the cache holds.   *)
UnanchoredIfCorrupt == anchor = Corrupt

(* Without a tuple that reads back there is no replay protection, so a     *)
(* cache that was ever used is never bootstrapped again.                   *)
Unanchored == anchor = Corrupt \/ (anchor = None /\ HasLocalState)

(* Mutant: an unchanged pointer always ends the refresh.                   *)
NeverReinstalls(c) == FALSE

(* An unchanged pointer ends the refresh when a build is served and is     *)
(* re-installed through the ordinary path when none is.                    *)
NothingServed(c) == prior[c] = None

FetchFails(c) ==
    /\ pc[c] = "fetch"
    /\ ~calm
    /\ Return(c, "refused", prior[c])
    /\ UNCHANGED <<disk, now, calm, committed>>

RefuseUnanchored(c) ==
    /\ pc[c] = "fetch"
    /\ Unanchored
    /\ Return(c, "refused", None)
    /\ UNCHANGED <<disk, now, calm, committed>>

(* latest.json is fetched and evaluated.  The network may serve any        *)
(* pointer that ever existed, old ones and unattested ones included.       *)
Evaluate(c, p) ==
    LET status == EvaluatePointer(p, now, anchor) IN
    /\ pc[c] = "fetch"
    /\ ~Unanchored
    /\ calm => p = Newest
    /\ \/ /\ status = "idempotent"
          /\ ~NothingServed(c)
          /\ Return(c, "idempotent", prior[c])
       \/ /\ status \in {"rejected", "replay", "equivocation"}
          /\ Return(c, "refused", prior[c])
       \/ /\ \/ status \in {"install", "bootstrap"}
             \/ status = "idempotent" /\ NothingServed(c)
          /\ ptr' = [ptr EXCEPT ![c] = p]
          /\ Goto(c, "manifest")
          /\ UNCHANGED <<lock, prior, result>>
    /\ UNCHANGED <<disk, now, calm, committed>>

(* The manifest is fetched; it must hash to the pointer's manifest_sha256, *)
(* be attested and valid, and name the pointer's build.                    *)
ManifestVerifies(p) ==
    p.manifest \in Attested /\ p.manifest.build_id = p.build_id

ManifestRefused(c) ==
    /\ pc[c] = "manifest"
    /\ ~calm \/ ~ManifestVerifies(ptr[c])
    /\ Return(c, "refused", prior[c])
    /\ UNCHANGED <<disk, now, calm, committed>>

Compatible(c, m) == ClientVersion[c] >= m.requires

ManifestAccepted(c) ==
    LET m == ptr[c].manifest IN
    /\ pc[c] = "manifest"
    /\ ManifestVerifies(ptr[c])
    /\ \/ /\ ~m.carries
          /\ Goto(c, "withdraw")
          /\ UNCHANGED <<lock, ptr, prior, result>>
       \/ /\ m.carries /\ ~Compatible(c, m)
          /\ Return(c, "incompatible", prior[c])
       \/ /\ m.carries /\ Compatible(c, m)
          /\ Goto(c, IF BuildComplete(ptr[c].build_id, m) THEN "commit"
                                                          ELSE "download")
          /\ UNCHANGED <<lock, ptr, prior, result>>
    /\ UNCHANGED <<disk, now, calm, committed>>

(* Every listed artifact is downloaded into .tmp-<build_id>, verified by   *)
(* size, sha256 and integrity_check; any failure removes the temporary     *)
(* directory (ignoring errors) and refuses.                                *)
Download(c) ==
    LET b == ptr[c].build_id IN
    /\ pc[c] = "download"
    /\ \/ /\ staged' = staged \cup {b}
          /\ Goto(c, "swap")
          /\ UNCHANGED <<lock, ptr, prior, result>>
       \/ /\ ~calm
          /\ staged' \in {staged, staged \ {b}}
          /\ Return(c, "refused", prior[c])
    /\ UNCHANGED <<anchor, record, cache, now, calm, committed>>

(* An earlier directory of the same build id is removed ...                *)
RemoveOld(c) ==
    LET b == ptr[c].build_id IN
    /\ pc[c] = "swap"
    /\ \/ /\ cache' = [cache EXCEPT ![b] = None]
          /\ Goto(c, "rename")
          /\ UNCHANGED <<staged, lock, ptr, prior, result>>
       \/ /\ ~calm /\ cache[b] # None
          /\ cache' = [cache EXCEPT ![b] = Corrupt]
          /\ staged' \in {staged, staged \ {b}}
          /\ Return(c, "refused", prior[c])
    /\ UNCHANGED <<anchor, record, now, calm>>
    /\ Forgetting

(* ... and the verified one is renamed into its place.                     *)
Rename(c) ==
    LET b == ptr[c].build_id IN
    /\ pc[c] = "rename"
    /\ \/ /\ cache' = [cache EXCEPT ![b] = ptr[c].manifest]
          /\ staged' = staged \ {b}
          /\ Goto(c, "commit")
          /\ UNCHANGED <<lock, ptr, prior, result>>
       \/ /\ ~calm
          /\ staged' \in {staged, staged \ {b}}
          /\ Return(c, "refused", prior[c])
          /\ UNCHANGED cache
    /\ UNCHANGED <<anchor, record, now, calm, committed>>

(* persist_tuple is the commit of an install and of a withdrawal alike.    *)
CommitAnchor(c) ==
    /\ pc[c] \in {"commit", "withdraw"}
    /\ anchor' = ptr[c]
    /\ committed' = ptr[c]
    /\ Goto(c, IF pc[c] = "commit" THEN "record" ELSE "null")
    /\ UNCHANGED <<record, cache, staged, lock, ptr, prior, result, now, calm>>

(* Mutant: a failed tuple write cleans up the build it would have served.  *)
AnchorWriteFailsAndCleans(c) ==
    /\ pc[c] \in {"commit", "withdraw"}
    /\ ~calm
    /\ Return(c, "refused", prior[c])
    /\ cache' = [cache EXCEPT ![ptr[c].build_id] = None]
    /\ UNCHANGED <<anchor, record, staged, now, calm, committed>>

(* persist_tuple raises: the refresh is refused and serving is unchanged.  *)
AnchorWriteFails(c) ==
    /\ pc[c] \in {"commit", "withdraw"}
    /\ ~calm
    /\ Return(c, "refused", prior[c])
    /\ UNCHANGED <<disk, now, calm, committed>>

(* The tuple is committed; without its record nothing is provable, so a    *)
(* failure reports that nothing is served.                                 *)
WriteRecord(c) ==
    LET b == ptr[c].build_id IN
    /\ pc[c] = "record"
    /\ \/ /\ record' = [pointer |-> ptr[c], installed_build |-> b]
          /\ Return(c, "installed", b)
       \/ /\ ~calm
          /\ Return(c, "refused", None)
          /\ UNCHANGED record
    /\ UNCHANGED <<anchor, cache, staged, now, calm, committed>>

(* The null record only tidies: its failure is swallowed, the withdrawal   *)
(* has committed.                                                          *)
WriteNullRecord(c) ==
    /\ pc[c] = "null"
    /\ \/ record' = [pointer |-> ptr[c], installed_build |-> None]
       \/ ~calm /\ UNCHANGED record
    /\ Return(c, "withdrawn", None)
    /\ UNCHANGED <<anchor, cache, staged, now, calm, committed>>

(* The process dies anywhere inside a refresh: the kernel drops its flock, *)
(* and a directory it was removing may be left incomplete.                 *)
Crash(c) ==
    LET b == ptr[c].build_id IN
    /\ pc[c] # "idle"
    /\ ~calm
    /\ result' = NoResult
    /\ Leave(c)
    /\ \/ UNCHANGED cache
       \/ /\ pc[c] = "swap" /\ cache[b] # None
          /\ cache' = [cache EXCEPT ![b] = Corrupt]
    /\ UNCHANGED <<anchor, record, staged, now, calm, committed>>

-----------------------------------------------------------------------------
(* The environment.                                                        *)

Tick == now < MaxTime /\ now' = now + 1
        /\ UNCHANGED <<disk, lock, process, calm, committed>>

Settle == ~calm /\ calm' = TRUE
          /\ UNCHANGED <<disk, lock, process, now, committed>>

AnchorFault ==
    /\ anchor # None
    /\ \/ "lose_anchor" \in Faults /\ anchor' = None
       \/ "corrupt_anchor" \in Faults /\ anchor' = Corrupt
    /\ UNCHANGED <<record, cache>>

RecordFault ==
    /\ record # None
    /\ \/ "lose_record" \in Faults /\ record' = None
       \/ "mangle_record" \in Faults /\ record' = Corrupt
       \/ "forge_record" \in Faults /\ record' \in Record
    /\ UNCHANGED <<anchor, cache>>

BuildFault(b) ==
    /\ cache[b] # None
    /\ \/ "damage_build" \in Faults /\ cache' = [cache EXCEPT ![b] = Corrupt]
       \/ "lose_build" \in Faults /\ cache' = [cache EXCEPT ![b] = None]
    /\ UNCHANGED <<anchor, record>>

StorageFault ==
    /\ ~calm
    /\ AnchorFault \/ RecordFault \/ \E b \in Builds : BuildFault(b)
    /\ Forgetting
    /\ UNCHANGED <<staged, lock, process, now, calm>>

-----------------------------------------------------------------------------

(* One step of a refresh that a failure did not cut short.                 *)
Progress(c) ==
    \/ Acquire(c)
    \/ RefuseUnanchored(c)
    \/ \E p \in Pointers \cup {Garbage} : Evaluate(c, p)
    \/ ManifestRefused(c)
    \/ ManifestAccepted(c)
    \/ Download(c)
    \/ RemoveOld(c)
    \/ Rename(c)
    \/ CommitAnchor(c)
    \/ WriteRecord(c)
    \/ WriteNullRecord(c)

Failure(c) ==
    \/ Contended(c)
    \/ FetchFails(c)
    \/ AnchorWriteFails(c)
    \/ Crash(c)

Next ==
    \/ \E c \in Clients : Progress(c) \/ Failure(c)
    \/ Tick
    \/ Settle
    \/ StorageFault

Spec == Init /\ [][Next]_vars

(* Every process keeps polling, a refresh it entered runs on, and time     *)
(* passes.                                                                 *)
Fairness == (\A c \in Clients : WF_vars(Progress(c))) /\ WF_vars(Tick)

FairSpec == Spec /\ Fairness

-----------------------------------------------------------------------------
(* Properties.                                                             *)

(* Whatever is served is what the newest pointer this cache ever committed *)
(* publishes: its build, carried by its manifest, attested.  Holds through *)
(* crashes between the two writes of a transition, replays, equivocation,  *)
(* lost, forged and corrupt state files, and a second process.             *)
ServesOnlyWhatIsCommitted ==
    ServingBuild # None =>
        /\ committed # None
        /\ anchor = committed
        /\ committed \in Attested
        /\ committed.manifest \in Attested
        /\ committed.manifest.carries
        /\ committed.manifest.build_id = ServingBuild

(* The refresh implements the abstract promise: commitments only move to   *)
(* newer pointers, never back and never sideways to other bytes of the     *)
(* same version, and a committed withdrawal is never undone by a replay.   *)
Service == INSTANCE ModuleService WITH served <- ServingBuild
KeepsThePromise == Service!Promise

(* Without storage faults a served build is lost only to a commit: no      *)
(* failed fetch, refused pointer, failed write or crash takes it away.     *)
FailuresKeepServing ==
    [][ServingBuild # None /\ ServingBuild' # ServingBuild
         => committed' # committed]_vars

(* Without storage faults the build a RefreshResult names is the build     *)
(* serving_build() proves when refresh() returns.                          *)
ReportsWhatItServes ==
    [][result' # result /\ result'.status # "none"
         => result'.build = ServingBuild']_vars

(* Both, for whoever reads beside a refresh.                               *)
ServingIsSteady == FailuresKeepServing /\ ReportsWhatItServes

(* What the cache should end up serving once the network serves Newest.    *)
Converged ==
    /\ anchor = Newest
    /\ ServingBuild = IF Newest.manifest.carries THEN Newest.build_id
                                                 ELSE None

(* Once failures stop, polling brings the cache to the newest pointer,     *)
(* healing every window a crash or a fault left open.  The one state no    *)
(* refresh leaves is the deliberate refusal of a cache without an anchor.  *)
PollingConverges == calm ~> (Converged \/ Unanchored)

=============================================================================
