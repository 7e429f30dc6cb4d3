--------------------------- MODULE RunnerController ---------------------------
(***************************************************************************)
(* The controller of the self-hosted publish runner                        *)
(* (ops/runner/runner-controller.sh, kept alive by its launchd unit).      *)
(*                                                                         *)
(* An invocation runs one phase (destroy-root, restore-image, register) or *)
(* a whole run-cycle.  launchd starts run-cycle again whenever it ends; an *)
(* operator may run any command by hand.  They share the writable runner   *)
(* root, the cleanup-verified marker and a kernel lock, which a holder     *)
(* process keeps for as long as its invocation lives.  Any invocation may  *)
(* be killed between two steps; what it started as the runner user lives   *)
(* on until the next cleanup terminates it.                                *)
(***************************************************************************)
EXTENDS Integers, FiniteSets, Sequences

CONSTANTS
    Daemon,       \* the invocation launchd keeps alive
    Operator,     \* an invocation by hand
    MaxJobs,      \* jobs are 1..MaxJobs
    MaxDeaths,    \* bound on lock holders that die under their invocation
    Tools,        \* REQUIRED_TOOLCHAIN_TOOLS
    Path,         \* the directories of the manifest's entries, in its order
    Gated,        \* the directory the manifest lists each tool in
    Layouts       \* what the toolchain directories may come to hold

Invocations == {Daemon, Operator}
Jobs == 1..MaxJobs
RunSh == 0                       \* the runner process itself, among procs
Commands == {"destroy-root", "restore-image", "register", "run-cycle"}

Dirs == {Path[i] : i \in DOMAIN Path}
(* A file is the one the manifest's checksum is of, that one without its   *)
(* execute bit, another executable, or not there.                          *)
Files == {"checked", "inert", "other", "none"}
Layout == [Dirs -> [Tools -> Files]]

ASSUME RunnerAssumption ==
    /\ MaxJobs \in Nat /\ MaxDeaths \in Nat
    /\ Gated \in [Tools -> Dirs]
    /\ Layouts \subseteq Layout

Sound == [d \in Dirs |-> [t \in Tools |->
             IF Gated[t] = d THEN "checked" ELSE "none"]]

VARIABLES
    pc,        \* the step each invocation is at
    cycle,     \* it runs a whole cycle, not one phase of it
    holder,    \* its lock holder: none, alive, dead, or left behind (orphan)
    root,      \* the writable runner root
    marker,    \* the cleanup-verified marker
    exported,  \* the jobs whose logs reached the owner's domain
    procs,     \* the live processes of the runner user: RunSh and jobs
    working,   \* the job RunSh is executing, or 0
    jobs,      \* how many jobs were ever started
    claimed,   \* the fixed runner name is registered at GitHub
    tools,     \* what the toolchain directories hold
    deaths,    \* how many lock holders died under their invocation
    rash,      \* history: one of them died inside a phase
    calm       \* TRUE once nothing is killed and nothing fails

machine == <<root, marker, exported, procs, working>>
outside == <<jobs, claimed, tools>>
fate    == <<deaths, rash, calm>>
vars    == <<pc, cycle, holder, machine, outside, fate>>

Phases == {"destroy", "restore", "register"}
Inside == {"terminate", "export", "wipe", "verify", "unpack", "handover",
           "consume", "mint", "config", "run"}

Bare == [image |-> "none", top |-> FALSE, owned |-> FALSE,
         traces |-> {}, logs |-> {}]

RunnerInit ==
    /\ pc = [c \in Invocations |-> "off"]
    /\ cycle = [c \in Invocations |-> TRUE]
    /\ holder = [c \in Invocations |-> "none"]
    /\ root = Bare /\ marker = FALSE /\ exported = {}
    /\ procs = {} /\ working = 0
    /\ jobs = 0 /\ claimed = FALSE /\ tools = Sound
    /\ deaths = 0 /\ rash = FALSE /\ calm = FALSE

-----------------------------------------------------------------------------
(* Invocations and the lock.                                               *)

Step(c, s) == pc' = [pc EXCEPT ![c] = s]

(* Ending an invocation, by a refusal or not, ends its lock holder.        *)
Leave(c) ==
    /\ Step(c, "off")
    /\ holder' = [holder EXCEPT ![c] = IF @ = "orphan" THEN @ ELSE "none"]

(* The step after a phase: the next one of a cycle, or the end.            *)
Proceed(c, s) ==
    IF cycle[c] THEN Step(c, s) /\ UNCHANGED holder
    ELSE Leave(c)

Begin(c, cmd) ==
    /\ pc[c] = "off"
    /\ cycle' = [cycle EXCEPT ![c] = cmd = "run-cycle"]
    /\ Step(c, CASE cmd = "restore-image" -> "restore"
                 [] cmd = "register"      -> "register"
                 [] OTHER                 -> "destroy")
    /\ UNCHANGED <<holder, machine, outside, fate>>

Invoke(c) ==
    \/ c = Daemon /\ Begin(c, "run-cycle")
    \/ c = Operator /\ ~calm /\ \E cmd \in Commands : Begin(c, cmd)

LockFree == \A c \in Invocations : holder[c] \notin {"alive", "orphan"}

(* Mutant: a phase of a cycle trusts the lock the first one took.          *)
LockedOnce(c) ==
    \/ holder[c] = "none" /\ LockFree /\ holder' = [holder EXCEPT ![c] = "alive"]
    \/ holder[c] \in {"alive", "dead"} /\ UNCHANGED holder

(* acquire_lock and require_lock_still_held: the first phase takes the     *)
(* lock, a later one finds its holder still alive.                         *)
Locked(c) ==
    \/ holder[c] = "none" /\ LockFree /\ holder' = [holder EXCEPT ![c] = "alive"]
    \/ holder[c] = "alive" /\ UNCHANGED holder

(* lock-held, lock-holder-died.                                            *)
LockRefuses(c) ==
    /\ pc[c] \in Phases
    /\ ~ \/ holder[c] = "none" /\ LockFree
         \/ holder[c] = "alive"
    /\ Leave(c)
    /\ UNCHANGED <<cycle, machine, outside, fate>>

(* A holder whose invocation was killed notices and lets go of the lock.   *)
HolderExits(c) ==
    /\ holder[c] = "orphan"
    /\ holder' = [holder EXCEPT ![c] = "none"]
    /\ UNCHANGED <<pc, cycle, machine, outside, fate>>

(* A holder dies while its invocation runs on.                             *)
HolderDies(c) ==
    /\ ~calm /\ deaths < MaxDeaths
    /\ holder[c] = "alive"
    /\ holder' = [holder EXCEPT ![c] = "dead"]
    /\ deaths' = deaths + 1
    /\ rash' = (rash \/ pc[c] \in Inside)
    /\ UNCHANGED <<pc, cycle, machine, outside, calm>>

-----------------------------------------------------------------------------
(* destroy-root.                                                           *)

(* A marker of an earlier cleanup says nothing about this one.             *)
EnterDestroy(c) ==
    /\ pc[c] = "destroy"
    /\ Locked(c)
    /\ marker' = FALSE
    /\ Step(c, "terminate")
    /\ UNCHANGED <<cycle, root, exported, procs, working, outside, fate>>

(* TERM, then KILL, then look: a process that is still there refuses.      *)
Terminate(c) ==
    /\ pc[c] = "terminate"
    /\ \E left \in SUBSET procs :
         /\ calm => left = {}
         /\ procs' = left
         /\ working' = IF RunSh \in left THEN working ELSE 0
         /\ \/ left = {} /\ Step(c, "export") /\ UNCHANGED holder
            \/ left # {} /\ Leave(c)
    /\ UNCHANGED <<cycle, root, marker, exported, outside, fate>>

(* Every source file has its copy, of the same size.                       *)
CopyVerifies(copied) == copied = root.logs

ExportLogs(c) ==
    /\ pc[c] = "export"
    /\ \E copied \in SUBSET root.logs :
         /\ calm => copied = root.logs
         /\ exported' = exported \cup copied
         /\ \/ CopyVerifies(copied) /\ Step(c, "wipe") /\ UNCHANGED holder
            \/ ~CopyVerifies(copied) /\ Leave(c)
    /\ UNCHANGED <<cycle, root, marker, procs, working, outside, fate>>

(* The root's contents go, the directory and its owner stay; a wipe that   *)
(* fails leaves something behind and ends the invocation.                  *)
Wipe(c) ==
    /\ pc[c] = "wipe"
    /\ \/ /\ root' = [Bare EXCEPT !.top = root.top]
          /\ Step(c, "verify") /\ UNCHANGED holder
       \/ /\ ~calm
          /\ \E kept \in SUBSET root.traces, logs \in SUBSET root.logs :
               root' = [root EXCEPT !.traces = kept, !.logs = logs,
                           !.image = IF @ = "none" THEN @ ELSE "part"]
          /\ Leave(c)
    /\ UNCHANGED <<cycle, marker, exported, procs, working, outside, fate>>

VerifyEmpty(c) ==
    /\ pc[c] = "verify"
    /\ \/ /\ root = [Bare EXCEPT !.top = root.top]
          /\ marker' = TRUE /\ Proceed(c, "restore")
       \/ /\ root # [Bare EXCEPT !.top = root.top]
          /\ UNCHANGED marker /\ Leave(c)
    /\ UNCHANGED <<cycle, root, exported, procs, working, outside, fate>>

Destroy(c) == EnterDestroy(c) \/ Terminate(c) \/ ExportLogs(c) \/ Wipe(c)
              \/ VerifyEmpty(c)

-----------------------------------------------------------------------------
(* restore-image.                                                          *)

EnterRestore(c) ==
    /\ pc[c] = "restore"
    /\ Locked(c)
    /\ Step(c, "unpack")
    /\ UNCHANGED <<cycle, machine, outside, fate>>

(* The image is unpacked over what the root holds, with the controller's   *)
(* authority.                                                              *)
Unpack(c) ==
    /\ pc[c] = "unpack"
    /\ \/ /\ root' = [root EXCEPT !.image = "whole", !.owned = FALSE]
          /\ Step(c, "handover") /\ UNCHANGED holder
       \/ /\ ~calm
          /\ root' = [root EXCEPT !.image = "part", !.owned = FALSE]
          /\ Leave(c)
    /\ UNCHANGED <<cycle, marker, exported, procs, working, outside, fate>>

HandOver(c) ==
    /\ pc[c] = "handover"
    /\ root' = [root EXCEPT !.top = TRUE, !.owned = TRUE]
    /\ Proceed(c, "register")
    /\ UNCHANGED <<cycle, marker, exported, procs, working, outside, fate>>

Restore(c) == EnterRestore(c) \/ Unpack(c) \/ HandOver(c)

-----------------------------------------------------------------------------
(* register.                                                               *)

(* verify_toolchain: every listed file has its checksum.                   *)
ToolchainVerifies == \A t \in Tools : tools[Gated[t]][t] \in {"checked", "inert"}

(* The directory whose file a command on the runner's PATH executes.       *)
Resolves(t, d) ==
    \E i \in DOMAIN Path :
        /\ Path[i] = d /\ tools[d][t] \in {"checked", "other"}
        /\ \A j \in 1..(i - 1) : tools[Path[j]][t] \notin {"checked", "other"}

(* Mutant: the PATH is derived from the manifest and taken as bound.       *)
PathAssumed == TRUE

(* assert_toolchain_path_bound: what resolves is what was checked.         *)
PathBound == \A t \in Tools : Resolves(t, Gated[t])

(* None of these guards touches the marker.                                *)
EnterRegister(c) ==
    /\ pc[c] = "register"
    /\ Locked(c)
    /\ ToolchainVerifies /\ PathBound /\ root.top
    /\ Step(c, "consume")
    /\ UNCHANGED <<cycle, machine, outside, fate>>

RegisterRefuses(c) ==
    /\ pc[c] = "register"
    /\ ~(ToolchainVerifies /\ PathBound /\ root.top)
    /\ Leave(c)
    /\ UNCHANGED <<cycle, machine, outside, fate>>

Consume(c) ==
    /\ pc[c] = "consume"
    /\ \/ marker /\ marker' = FALSE /\ Step(c, "mint") /\ UNCHANGED holder
       \/ ~marker /\ UNCHANGED marker /\ Leave(c)
    /\ UNCHANGED <<cycle, root, exported, procs, working, outside, fate>>

(* The registration token is minted, or refused by network or credential.  *)
Mint(c) ==
    /\ pc[c] = "mint"
    /\ \/ Step(c, "config") /\ UNCHANGED holder
       \/ ~calm /\ Leave(c)
    /\ UNCHANGED <<cycle, machine, outside, fate>>

(* Mutant: a name that is still registered is not replaced.                *)
NameAvailable == ~claimed

(* config.sh --ephemeral --replace takes the name over.                    *)
NameUsable == TRUE

Configure(c) ==
    /\ pc[c] = "config"
    /\ \/ /\ root.image # "none" /\ NameUsable
          /\ claimed' = TRUE /\ Proceed(c, "run")
       \/ /\ ~calm \/ root.image = "none" \/ ~NameUsable
          /\ UNCHANGED claimed /\ Leave(c)
    /\ UNCHANGED <<cycle, machine, jobs, tools, fate>>

Register(c) == EnterRegister(c) \/ RegisterRefuses(c) \/ Consume(c)
               \/ Mint(c) \/ Configure(c)

-----------------------------------------------------------------------------
(* run-cycle's last step, the runner and its jobs.                         *)

Run(c) ==
    /\ pc[c] = "run"
    /\ procs' = procs \cup {RunSh}
    /\ Step(c, "wait")
    /\ UNCHANGED <<cycle, holder, root, marker, exported, working, outside,
                   fate>>

(* run.sh has ended: so does the cycle.                                    *)
Wait(c) ==
    /\ pc[c] = "wait"
    /\ RunSh \notin procs
    /\ Leave(c)
    /\ UNCHANGED <<cycle, machine, outside, fate>>

(* A job writes all over the root and logs in it.                          *)
JobStarts(j) ==
    /\ RunSh \in procs /\ working = 0 /\ claimed
    /\ j = jobs + 1
    /\ jobs' = j /\ working' = j
    /\ procs' = procs \cup {j}
    /\ root' = [root EXCEPT !.traces = @ \cup {j}, !.logs = @ \cup {j}]
    /\ UNCHANGED <<pc, cycle, holder, marker, exported, claimed, tools, fate>>

(* An ephemeral runner exits with its job, which may leave processes.      *)
JobEnds(j) ==
    /\ working = j
    /\ working' = 0
    /\ procs' \in {procs \ {RunSh, j}, procs \ {RunSh}}
    /\ claimed' = FALSE
    /\ UNCHANGED <<pc, cycle, holder, root, marker, exported, jobs, tools,
                   fate>>

(* run.sh also ends on a failure, or when its registration is gone.        *)
RunnerQuits ==
    /\ RunSh \in procs
    /\ ~calm \/ (~claimed /\ working = 0)
    /\ procs' = procs \ {RunSh} /\ working' = 0
    /\ UNCHANGED <<pc, cycle, holder, root, marker, exported, outside, fate>>

-----------------------------------------------------------------------------
(* The environment.                                                        *)

(* SIGKILL: no trap runs, what it started as the runner user lives on.     *)
Kill(c) ==
    /\ ~calm /\ pc[c] # "off"
    /\ Step(c, "off")
    /\ holder' = [holder EXCEPT ![c] = IF @ \in {"alive", "orphan"}
                                       THEN "orphan" ELSE "none"]
    /\ UNCHANGED <<cycle, machine, outside, fate>>

Reboot ==
    /\ ~calm
    /\ pc' = [c \in Invocations |-> "off"]
    /\ holder' = [c \in Invocations |-> "none"]
    /\ procs' = {} /\ working' = 0
    /\ UNCHANGED <<cycle, root, marker, exported, outside, fate>>

(* The owner works on the toolchain while no registration relies on it.    *)
Maintain ==
    /\ ~calm
    /\ \A c \in Invocations :
         pc[c] \notin {"consume", "mint", "config", "run", "wait"}
    /\ RunSh \notin procs
    /\ tools' \in Layouts \ {tools}
    /\ UNCHANGED <<pc, cycle, holder, machine, jobs, claimed, fate>>

CalmDown ==
    /\ ~calm /\ tools = Sound
    /\ calm' = TRUE
    /\ UNCHANGED <<pc, cycle, holder, machine, outside, deaths, rash>>

-----------------------------------------------------------------------------

Work(c) ==
    \/ Invoke(c) \/ LockRefuses(c)
    \/ Destroy(c) \/ Restore(c) \/ Register(c) \/ Run(c) \/ Wait(c)

RunnerNext ==
    \/ \E c \in Invocations :
         Work(c) \/ HolderExits(c) \/ HolderDies(c) \/ Kill(c)
    \/ \E j \in Jobs : JobStarts(j) \/ JobEnds(j)
    \/ RunnerQuits \/ Reboot \/ Maintain \/ CalmDown

RunnerSpec == RunnerInit /\ [][RunnerNext]_vars

(* launchd's KeepAlive, a holder that polls its parent, jobs that end.     *)
RunnerFairSpec ==
    /\ RunnerSpec
    /\ \A c \in Invocations : WF_vars(Work(c)) /\ WF_vars(HolderExits(c))
    /\ \A j \in Jobs : WF_vars(JobEnds(j))
    /\ WF_vars(RunnerQuits /\ calm)

-----------------------------------------------------------------------------
(* Properties.  A lock holder that dies inside a phase is the residue the  *)
(* controller documents and does not claim to cover (rash).                *)

(* The marker proves a verified cleanup, to whichever invocation finds it: *)
(* while it stands no trace of a job, no log and no process is left.       *)
MarkerProves ==
    marker /\ ~rash => root.traces = {} /\ root.logs = {} /\ procs = {}

(* Every job starts alone, with nothing of any earlier job, and reaches    *)
(* the very tools the manifest's checksums are of (the one-job-clean       *)
(* guarantee); while its cycle holds the lock, in a whole image it owns.   *)
InItsCycle == \E c \in Invocations : pc[c] = "wait" /\ holder[c] = "alive"

OneJobClean ==
    [][\A j \in Jobs : JobStarts(j) /\ ~rash =>
         /\ root.traces = {} /\ root.logs = {} /\ procs = {RunSh}
         /\ InItsCycle => root.image = "whole" /\ root.owned
         /\ \A t \in Tools : \E d \in Dirs :
              Resolves(t, d) /\ tools[d][t] = "checked"]_vars

(* The logs of every job are in the root or safe in the owner's domain,    *)
(* whatever failed or was killed on the way.                               *)
LogsSurvive == ~rash => 1..jobs \subseteq root.logs \cup exported

(* Both promises of cmd_destroy_root: a marker is proof of a wipe, and no    *)
(* log is wiped away unexported.                                             *)
WipesAreSafe == MarkerProves /\ LogsSurvive

(* Once things calm down a registered runner waits for work again, by the  *)
(* one cycle launchd keeps restarting: no lock, no claimed name and no     *)
(* leftover process needs a human.                                         *)
RunnerComesBack ==
    calm ~> (claimed /\ RunSh \in procs /\ \E c \in Invocations : pc[c] = "wait")

=============================================================================
