----------------------------- MODULE ConsumerProofs -----------------------------
(***************************************************************************)
(* Proofs about what reads the trusted pointer.  SnapshotClient, for every *)
(* set of pointers, manifests, builds, client processes and storage        *)
(* faults, and ServerResolution beside it: without storage faults no       *)
(* refresh takes a served build away but to commit a newer pointer, and    *)
(* serving_build(), which takes no lock, answers what was true.  Monitor,  *)
(* for any documents, hazards and bounds: its baseline is only ever        *)
(* earned, and no second consecutive failure goes unreported.              *)
(***************************************************************************)
EXTENDS ServerResolution, Monitor, TLAPS

-----------------------------------------------------------------------------
(* The pointer state machine.                                              *)

(* evaluate_pointer answers install, bootstrap or idempotent only for an   *)
(* attested pointer that is newer than the held tuple or equal to it       *)
(* (pointer.py 197-259).                                                   *)
LEMMA EvaluateStatus ==
    ASSUME NEW p, NEW time, NEW held \in Pointers \cup {None},
           EvaluatePointer(p, time, held) \in {"install", "bootstrap", "idempotent"}
    PROVE  /\ p \in Pointers
           /\ p \in Attested
           /\ \/ held = None
              \/ held \in Pointers /\ (p = held \/ Newer(p, held))
<1>1. UniversallyValid(p, time)
  BY DEF EvaluatePointer
<1>2. p \in Pointers /\ p \in Attested
  BY <1>1 DEF UniversallyValid
<1>3. CASE held = None
  BY <1>2, <1>3
<1>4. CASE held \in Pointers
  <2>1. held # None
    BY <1>4, PointerAssumption DEF SentinelAssumption
  <2>2. /\ p.pointer_version \in Nat
        /\ held.pointer_version \in Nat
    BY <1>2, <1>4, PointerAssumption DEF ManifestAssumption
  <2>3. CASE Newer(held, p)
    <3>1. p # held /\ p.pointer_version # held.pointer_version
      BY <2>2, <2>3 DEF Newer
    <3>2. EvaluatePointer(p, time, held) = "replay"
      BY <3>1, <2>1, <2>3, <1>1 DEF EvaluatePointer
    <3> QED BY <3>2
  <2>4. CASE p # held /\ p.pointer_version = held.pointer_version
    <3>1. ~Newer(held, p)
      BY <2>2, <2>4 DEF Newer
    <3>2. EvaluatePointer(p, time, held) = "equivocation"
      BY <3>1, <2>1, <2>4, <1>1 DEF EvaluatePointer
    <3> QED BY <3>2
  <2>5. CASE p = held
    BY <1>2, <1>4, <2>5
  <2>6. CASE ~Newer(held, p) /\ p.pointer_version # held.pointer_version
    <3>1. Newer(p, held)
      BY <2>2, <2>6 DEF Newer
    <3> QED BY <3>1, <1>2, <1>4
  <2> QED BY <2>3, <2>4, <2>5, <2>6
<1> QED BY <1>3, <1>4

-----------------------------------------------------------------------------
(* The client: types, held and the promise of ModuleService.              *)

(* Where a refresh already acts on an accepted pointer, and where it has   *)
(* also verified that pointer's manifest.                                  *)
Accepted == Steps \ {"idle", "fetch"}
Verified == Accepted \ {"manifest"}

(* Only the holder of the flock is inside refresh().                       *)
OnlyTheHolderRuns == \A c \in Clients : pc[c] # "idle" => lock = c

(* An accepted pointer is attested and does not go back behind what the    *)
(* cache has committed to, until it is committed itself or dropped.        *)
AcceptedPointers ==
    \A c \in Clients : pc[c] \in Accepted =>
        /\ ptr[c] \in Pointers
        /\ ptr[c] \in Attested
        /\ committed # None => ptr[c] = committed \/ Newer(ptr[c], committed)
        /\ pc[c] \in Verified => ManifestVerifies(ptr[c])

(* held.json, when it reads back, holds the last committed pointer; that  *)
(* pointer and its manifest were verified; an empty cache has no history.  *)
AnchorIsCommitted ==
    /\ anchor \in Pointers => anchor = committed
    /\ committed # None => committed \in Attested /\ ManifestVerifies(committed)
    /\ anchor = None /\ ~HasLocalState => committed = None

IInv == TypeOK /\ OnlyTheHolderRuns /\ AcceptedPointers /\ AnchorIsCommitted

-----------------------------------------------------------------------------
(* The state of the cache and of every process keeps its type.             *)

(* Leaving refresh() with a status and a build keeps the process state     *)
(* typed (RefreshResult, snapshot.py 227-245).                             *)
LEMMA ReturnType ==
    ASSUME TypeOK, NEW c \in Clients,
           NEW status \in {"none", "refused", "idempotent", "withdrawn",
                           "incompatible", "installed"},
           NEW build \in Builds \cup {None},
           Return(c, status, build)
    PROVE  /\ result' \in Result
           /\ pc' \in [Clients -> Steps]
           /\ ptr' \in [Clients -> Pointers \cup {None}]
           /\ prior' \in [Clients -> Builds \cup {None}]
           /\ lock' \in Clients \cup {None}
  BY DEF TypeOK, Return, Leave, Goto, Result, Steps

(* serving_build() answers a build id or nothing (snapshot.py 382-435).    *)
LEMMA ServingType == TypeOK => ServingBuild \in Builds \cup {None}
  BY PointerAssumption DEF ServingBuild, ManifestAssumption

(* An emptied cache starts its history again, any other keeps it.          *)
LEMMA ForgettingType ==
    ASSUME committed \in Pointers \cup {None}, Forgetting
    PROVE  committed' \in Pointers \cup {None}
  BY DEF Forgetting

(* A cache directory nobody has used is well typed (snapshot.py 264-330).  *)
THEOREM TypeInit == Init => TypeOK
<1> SUFFICES ASSUME Init PROVE TypeOK
  OBVIOUS
<1>1. result \in Result
  BY DEF Init, Result, NoResult
<1>2. 0 \in 0..MaxTime
  BY ClientAssumption
<1> QED BY <1>1, <1>2 DEF Init, TypeOK, Steps

(* Every step of a refresh, of its failures and of the disk keeps the      *)
(* types, given the inductive invariant: a pointer acted on is a pointer.  *)
THEOREM TypeStep == IInv /\ [Next]_vars => TypeOK'
<1> SUFFICES ASSUME IInv, [Next]_vars PROVE TypeOK'
  OBVIOUS
<1> USE DEF disk, process
<1>t. TypeOK
  BY DEF IInv
<1>a. ASSUME NEW c \in Clients, pc[c] \in Accepted
      PROVE  ptr[c] \in Pointers /\ ptr[c].build_id \in Builds
             /\ ptr[c].manifest \in Manifests
  BY <1>a, PointerAssumption DEF IInv, AcceptedPointers, ManifestAssumption
<1>p. \A c \in Clients : prior[c] \in Builds \cup {None}
  BY <1>t DEF TypeOK
<1>1. ASSUME NEW c \in Clients, Contended(c) PROVE TypeOK'
  BY <1>t, <1>1, ServingType DEF TypeOK, Contended, Result
<1>2. ASSUME NEW c \in Clients, Acquire(c) PROVE TypeOK'
  BY <1>t, <1>2, ServingType DEF TypeOK, Acquire, Goto, Steps
<1>3. ASSUME NEW c \in Clients, FetchFails(c) PROVE TypeOK'
  BY <1>t, <1>p, <1>3, ReturnType DEF TypeOK, FetchFails
<1>4. ASSUME NEW c \in Clients, RefuseUnanchored(c) PROVE TypeOK'
  BY <1>t, <1>4, ReturnType DEF TypeOK, RefuseUnanchored
<1>5. ASSUME NEW c \in Clients, NEW p \in Pointers \cup {Garbage}, Evaluate(c, p)
      PROVE  TypeOK'
  <2>1. CASE Return(c, "idempotent", prior[c])
    BY <1>t, <1>p, <1>5, <2>1, ReturnType DEF TypeOK, Evaluate
  <2>2. CASE Return(c, "refused", prior[c])
    BY <1>t, <1>p, <1>5, <2>2, ReturnType DEF TypeOK, Evaluate
  <2>3. CASE /\ EvaluatePointer(p, now, anchor) \in {"install", "bootstrap", "idempotent"}
             /\ ptr' = [ptr EXCEPT ![c] = p]
             /\ Goto(c, "manifest")
             /\ UNCHANGED <<lock, prior, result>>
    <3>1. anchor \in Pointers \cup {None}
      BY <1>t, <1>5 DEF TypeOK, Evaluate, Unanchored
    <3>2. p \in Pointers
      BY <3>1, <2>3, EvaluateStatus
    <3> QED BY <1>t, <1>5, <2>3, <3>2 DEF TypeOK, Evaluate, Goto, Steps
  <2> QED BY <1>5, <2>1, <2>2, <2>3 DEF Evaluate
<1>6. ASSUME NEW c \in Clients, ManifestRefused(c) PROVE TypeOK'
  BY <1>t, <1>p, <1>6, ReturnType DEF TypeOK, ManifestRefused
<1>7. ASSUME NEW c \in Clients, ManifestAccepted(c) PROVE TypeOK'
  <2>1. CASE Return(c, "incompatible", prior[c])
    BY <1>t, <1>p, <1>7, <2>1, ReturnType DEF TypeOK, ManifestAccepted
  <2>2. CASE /\ \E to \in Steps : Goto(c, to)
             /\ UNCHANGED <<lock, ptr, prior, result>>
    BY <1>t, <1>7, <2>2 DEF TypeOK, ManifestAccepted, Goto
  <2> QED BY <1>7, <2>1, <2>2 DEF ManifestAccepted, Steps
<1>8. ASSUME NEW c \in Clients, Download(c) PROVE TypeOK'
  <2>1. ptr[c].build_id \in Builds
    BY <1>a, <1>8 DEF Download, Accepted, Steps
  <2>2. CASE Return(c, "refused", prior[c])
    BY <1>t, <1>p, <1>8, <2>1, <2>2, ReturnType DEF TypeOK, Download
  <2>3. CASE Goto(c, "swap") /\ UNCHANGED <<lock, ptr, prior, result>>
    BY <1>t, <1>8, <2>1, <2>3 DEF TypeOK, Download, Goto, Steps
  <2> QED BY <1>8, <2>2, <2>3 DEF Download
<1>9. ASSUME NEW c \in Clients, RemoveOld(c) PROVE TypeOK'
  <2>1. ptr[c].build_id \in Builds
    BY <1>a, <1>9 DEF RemoveOld, Accepted, Steps
  <2>2. committed' \in Pointers \cup {None}
    BY <1>t, <1>9, ForgettingType DEF TypeOK, RemoveOld
  <2>3. CASE Return(c, "refused", prior[c])
    BY <1>t, <1>p, <1>9, <2>1, <2>2, <2>3, ReturnType DEF TypeOK, RemoveOld
  <2>4. CASE Goto(c, "rename") /\ UNCHANGED <<staged, lock, ptr, prior, result>>
    BY <1>t, <1>9, <2>1, <2>2, <2>4 DEF TypeOK, RemoveOld, Goto, Steps
  <2> QED BY <1>9, <2>3, <2>4 DEF RemoveOld
<1>10. ASSUME NEW c \in Clients, Rename(c) PROVE TypeOK'
  <2>1. ptr[c].build_id \in Builds /\ ptr[c].manifest \in Manifests
    BY <1>a, <1>10 DEF Rename, Accepted, Steps
  <2>2. CASE Return(c, "refused", prior[c])
    BY <1>t, <1>p, <1>10, <2>1, <2>2, ReturnType DEF TypeOK, Rename
  <2>3. CASE Goto(c, "commit") /\ UNCHANGED <<lock, ptr, prior, result>>
    BY <1>t, <1>10, <2>1, <2>3 DEF TypeOK, Rename, Goto, Steps
  <2> QED BY <1>10, <2>2, <2>3 DEF Rename
<1>11. ASSUME NEW c \in Clients, CommitAnchor(c) PROVE TypeOK'
  <2>1. ptr[c] \in Pointers
    BY <1>a, <1>11 DEF CommitAnchor, Accepted, Steps
  <2> QED BY <1>t, <1>11, <2>1 DEF TypeOK, CommitAnchor, Goto, Steps
<1>12. ASSUME NEW c \in Clients, AnchorWriteFails(c) PROVE TypeOK'
  BY <1>t, <1>p, <1>12, ReturnType DEF TypeOK, AnchorWriteFails
<1>13. ASSUME NEW c \in Clients, WriteRecord(c) PROVE TypeOK'
  <2>1. ptr[c] \in Pointers /\ ptr[c].build_id \in Builds
    BY <1>a, <1>13 DEF WriteRecord, Accepted, Steps
  <2>2. CASE Return(c, "refused", None) /\ UNCHANGED record
    BY <1>t, <1>13, <2>2, ReturnType DEF TypeOK, WriteRecord
  <2>3. CASE /\ record' = [pointer |-> ptr[c], installed_build |-> ptr[c].build_id]
             /\ Return(c, "installed", ptr[c].build_id)
    <3>1. record' \in Record
      BY <2>1, <2>3 DEF Record
    <3> QED BY <1>t, <1>13, <2>1, <2>3, <3>1, ReturnType DEF TypeOK, WriteRecord
  <2> QED BY <1>13, <2>2, <2>3 DEF WriteRecord
<1>14. ASSUME NEW c \in Clients, WriteNullRecord(c) PROVE TypeOK'
  <2>1. ptr[c] \in Pointers
    BY <1>a, <1>14 DEF WriteNullRecord, Accepted, Steps
  <2>2. record' \in Record \cup {None, Corrupt}
    BY <1>t, <1>14, <2>1 DEF TypeOK, WriteNullRecord, Record
  <2> QED BY <1>t, <1>14, <2>2, ReturnType DEF TypeOK, WriteNullRecord
<1>15. ASSUME NEW c \in Clients, Crash(c) PROVE TypeOK'
  <2>1. cache' \in [Builds -> Manifests \cup {None, Corrupt}]
    BY <1>t, <1>15 DEF TypeOK, Crash
  <2> QED BY <1>t, <1>15, <2>1 DEF TypeOK, Crash, Leave, Goto, Steps, Result, NoResult
<1>16. CASE Tick
  BY <1>t, <1>16, ClientAssumption DEF TypeOK, Tick
<1>17. CASE Settle
  BY <1>t, <1>17 DEF TypeOK, Settle
<1>18. CASE StorageFault
  <2>1. committed' \in Pointers \cup {None}
    BY <1>t, <1>18, ForgettingType DEF TypeOK, StorageFault
  <2>2. /\ anchor' \in Pointers \cup {None, Corrupt}
        /\ record' \in Record \cup {None, Corrupt}
        /\ cache' \in [Builds -> Manifests \cup {None, Corrupt}]
    BY <1>t, <1>18 DEF TypeOK, StorageFault, AnchorFault, RecordFault, BuildFault
  <2> QED BY <1>t, <1>18, <2>1, <2>2 DEF TypeOK, StorageFault
<1>19. CASE UNCHANGED vars
  BY <1>t, <1>19 DEF TypeOK, vars
<1> QED
  BY <1>1, <1>2, <1>3, <1>4, <1>5, <1>6, <1>7, <1>8, <1>9, <1>10, <1>11,
     <1>12, <1>13, <1>14, <1>15, <1>16, <1>17, <1>18, <1>19
     DEF Next, Progress, Failure

-----------------------------------------------------------------------------
(* Mutual exclusion of the writers.                                        *)

(* At first no process is inside refresh().                                *)
THEOREM HolderInit == Init => OnlyTheHolderRuns
  BY DEF Init, OnlyTheHolderRuns

(* Steps of refresh() keep mutual exclusion: the flock has one holder and  *)
(* only it is past its acquisition (_module_lock, snapshot.py 457-489).    *)
THEOREM HolderStep == TypeOK /\ OnlyTheHolderRuns /\ [Next]_vars => OnlyTheHolderRuns'
<1> SUFFICES ASSUME TypeOK, OnlyTheHolderRuns, [Next]_vars
             PROVE  OnlyTheHolderRuns'
  OBVIOUS
<1> USE DEF OnlyTheHolderRuns, TypeOK, disk, process
<1>1. ASSUME NEW c \in Clients, pc[c] # "idle", Leave(c) PROVE OnlyTheHolderRuns'
  BY <1>1 DEF Leave, Goto
<1>2. ASSUME NEW c \in Clients, pc[c] # "idle", NEW to, Goto(c, to),
             lock' = lock
      PROVE  OnlyTheHolderRuns'
  BY <1>2 DEF Goto
<1>3. ASSUME NEW c \in Clients, Progress(c) PROVE OnlyTheHolderRuns'
  <2>1. CASE Acquire(c)
    BY <2>1, ClientAssumption DEF Acquire, Goto
  <2>2. CASE RefuseUnanchored(c)
    BY <1>1, <2>2 DEF RefuseUnanchored, Return
  <2>3. CASE \E p \in Pointers \cup {Garbage} : Evaluate(c, p)
    BY <1>1, <1>2, <2>3 DEF Evaluate, Return
  <2>4. CASE ManifestRefused(c)
    BY <1>1, <2>4 DEF ManifestRefused, Return
  <2>5. CASE ManifestAccepted(c)
    BY <1>1, <1>2, <2>5 DEF ManifestAccepted, Return
  <2>6. CASE Download(c)
    BY <1>1, <1>2, <2>6 DEF Download, Return
  <2>7. CASE RemoveOld(c)
    BY <1>1, <1>2, <2>7 DEF RemoveOld, Return
  <2>8. CASE Rename(c)
    BY <1>1, <1>2, <2>8 DEF Rename, Return
  <2>9. CASE CommitAnchor(c)
    BY <1>2, <2>9 DEF CommitAnchor
  <2>10. CASE WriteRecord(c)
    BY <1>1, <2>10 DEF WriteRecord, Return
  <2>11. CASE WriteNullRecord(c)
    BY <1>1, <2>11 DEF WriteNullRecord, Return
  <2> QED
    BY <1>3, <2>1, <2>2, <2>3, <2>4, <2>5, <2>6, <2>7, <2>8, <2>9, <2>10, <2>11
       DEF Progress
<1>4. ASSUME NEW c \in Clients, Failure(c) PROVE OnlyTheHolderRuns'
  BY <1>1, <1>4 DEF Failure, Contended, FetchFails, AnchorWriteFails, Crash, Return
<1>5. CASE Tick \/ Settle \/ StorageFault \/ UNCHANGED vars
  BY <1>5 DEF Tick, Settle, StorageFault, vars
<1> QED BY <1>3, <1>4, <1>5 DEF Next

-----------------------------------------------------------------------------
(* The pointer a refresh acts on stays attested and never falls behind.    *)

(* At first no refresh has accepted a pointer.                             *)
THEOREM AcceptedInit == Init => AcceptedPointers
  BY DEF Init, AcceptedPointers, Accepted, Verified

(* Every step keeps the accepted pointers attested and at or ahead of the  *)
(* commitment: only the lock holder commits, so no commit overtakes a      *)
(* refresh that is under way (_refresh_locked, snapshot.py 706-778).       *)
THEOREM AcceptedStep == IInv /\ [Next]_vars => AcceptedPointers'
<1> SUFFICES ASSUME IInv, [Next]_vars PROVE AcceptedPointers'
  OBVIOUS
<1> USE DEF disk, process
<1>t. TypeOK /\ OnlyTheHolderRuns /\ AcceptedPointers /\ AnchorIsCommitted
  BY DEF IInv
(* A refresh that leaves, or moves on with the pointer it has.             *)
<1>1. ASSUME NEW c \in Clients, Leave(c), committed' \in {committed, None}
      PROVE  AcceptedPointers'
  BY <1>t, <1>1 DEF Leave, Goto, TypeOK, AcceptedPointers, Accepted, Verified
<1>2. ASSUME NEW c \in Clients, NEW to \in Steps, Goto(c, to),
             pc[c] \in Verified \/ (pc[c] = "manifest" /\ ManifestVerifies(ptr[c])),
             ptr' = ptr, committed' \in {committed, None}
      PROVE  AcceptedPointers'
  BY <1>t, <1>2
     DEF Goto, TypeOK, AcceptedPointers, Accepted, Verified, ManifestVerifies
<1>3. ASSUME UNCHANGED <<pc, ptr>>, committed' \in {committed, None}
      PROVE  AcceptedPointers'
  BY <1>t, <1>3 DEF AcceptedPointers, ManifestVerifies
<1>4. ASSUME NEW c \in Clients, Progress(c) PROVE AcceptedPointers'
  <2>1. CASE Acquire(c)
    BY <1>t, <2>1
       DEF Acquire, Goto, TypeOK, AcceptedPointers, Accepted, Verified, ManifestVerifies
  <2>2. CASE RefuseUnanchored(c)
    BY <1>1, <2>2 DEF RefuseUnanchored, Return
  <2>3. ASSUME NEW p \in Pointers \cup {Garbage}, Evaluate(c, p)
        PROVE  AcceptedPointers'
    <3>1. CASE Leave(c)
      BY <1>1, <2>3, <3>1 DEF Evaluate
    <3>2. CASE /\ EvaluatePointer(p, now, anchor) \in {"install", "bootstrap", "idempotent"}
               /\ ptr' = [ptr EXCEPT ![c] = p]
               /\ Goto(c, "manifest")
      <4>1. ~Unanchored /\ committed' = committed
        BY <2>3 DEF Evaluate
      <4>2. anchor \in Pointers \cup {None}
        BY <1>t, <4>1 DEF TypeOK, Unanchored
      <4>3. /\ p \in Pointers
            /\ p \in Attested
            /\ anchor = None \/ (anchor \in Pointers /\ (p = anchor \/ Newer(p, anchor)))
        BY <4>2, <3>2, EvaluateStatus
      <4>4. committed # None => p = committed \/ Newer(p, committed)
        BY <1>t, <4>1, <4>3 DEF Unanchored, AnchorIsCommitted
      <4> QED
        BY <1>t, <3>2, <4>1, <4>3, <4>4
           DEF Goto, TypeOK, AcceptedPointers, Accepted, Verified, ManifestVerifies
    <3> QED BY <2>3, <3>1, <3>2 DEF Evaluate, Return
  <2>4. CASE ManifestRefused(c)
    BY <1>1, <2>4 DEF ManifestRefused, Return
  <2>5. CASE ManifestAccepted(c)
    BY <1>1, <1>2, <2>5 DEF ManifestAccepted, Return, Steps
  <2>6. CASE Download(c)
    BY <1>1, <1>2, <2>6 DEF Download, Return, Accepted, Verified, Steps
  <2>7. CASE RemoveOld(c)
    BY <1>1, <1>2, <2>7 DEF RemoveOld, Forgetting, Return, Accepted, Verified, Steps
  <2>8. CASE Rename(c)
    BY <1>1, <1>2, <2>8 DEF Rename, Return, Accepted, Verified, Steps
  <2>9. CASE CommitAnchor(c)
    <3>1. \A d \in Clients : pc[d] # "idle" => d = c
      BY <1>t, <2>9 DEF OnlyTheHolderRuns, CommitAnchor
    <3> QED
      BY <1>t, <2>9, <3>1
         DEF CommitAnchor, Goto, TypeOK, AcceptedPointers, Accepted, Verified, Steps,
             ManifestVerifies
  <2>10. CASE WriteRecord(c)
    BY <1>1, <2>10 DEF WriteRecord, Return
  <2>11. CASE WriteNullRecord(c)
    BY <1>1, <2>11 DEF WriteNullRecord, Return
  <2> QED
    BY <1>4, <2>1, <2>2, <2>3, <2>4, <2>5, <2>6, <2>7, <2>8, <2>9, <2>10, <2>11
       DEF Progress
<1>5. ASSUME NEW c \in Clients, Failure(c) PROVE AcceptedPointers'
  BY <1>1, <1>3, <1>5
     DEF Failure, Contended, FetchFails, AnchorWriteFails, Crash, Return
<1>6. CASE Tick \/ Settle \/ StorageFault \/ UNCHANGED vars
  BY <1>3, <1>6 DEF Tick, Settle, StorageFault, Forgetting, vars
<1> QED BY <1>4, <1>5, <1>6 DEF Next

-----------------------------------------------------------------------------
(* The anchor on disk, when readable, is the last commit; and the history  *)
(* is forgotten exactly when nothing is left to protect it with.           *)

(* An unused cache has neither an anchor nor a history.                    *)
THEOREM AnchorInit == Init => AnchorIsCommitted
  BY PointerAssumption DEF Init, AnchorIsCommitted, SentinelAssumption

(* Every step keeps the readable anchor equal to the last commit: it is    *)
(* written only by persist_tuple, and the history restarts only with an    *)
(* empty cache (snapshot.py 885-927, 1020-1028).                           *)
THEOREM AnchorStep == IInv /\ [Next]_vars => AnchorIsCommitted'
<1> SUFFICES ASSUME IInv, [Next]_vars PROVE AnchorIsCommitted'
  OBVIOUS
<1> USE DEF disk, process
<1>t. TypeOK /\ AcceptedPointers /\ AnchorIsCommitted
  BY DEF IInv
<1>n. None \notin Pointers /\ None # Corrupt /\ Corrupt \notin Pointers
      /\ None \notin Manifests /\ None \notin Record
  BY PointerAssumption, ClientAssumption DEF SentinelAssumption
<1>1. ASSUME UNCHANGED <<anchor, committed>>, HasLocalState => HasLocalState'
      PROVE  AnchorIsCommitted'
  BY <1>t, <1>1 DEF AnchorIsCommitted, ManifestVerifies
<1>2. ASSUME UNCHANGED <<anchor, record, cache, committed>> PROVE AnchorIsCommitted'
  BY <1>1, <1>2 DEF HasLocalState
<1>3. ASSUME anchor' \in {anchor, None, Corrupt}, Forgetting
      PROVE  AnchorIsCommitted'
  BY <1>t, <1>n, <1>3 DEF AnchorIsCommitted, Forgetting, ManifestVerifies
<1>4. ASSUME NEW c \in Clients, Progress(c) PROVE AnchorIsCommitted'
  <2>1. CASE Acquire(c) \/ RefuseUnanchored(c) \/ ManifestRefused(c)
             \/ ManifestAccepted(c) \/ Download(c)
             \/ \E p \in Pointers \cup {Garbage} : Evaluate(c, p)
    BY <1>2, <2>1 DEF Acquire, RefuseUnanchored, ManifestRefused,
                      ManifestAccepted, Download, Evaluate
  <2>2. CASE RemoveOld(c)
    BY <1>3, <2>2 DEF RemoveOld
  <2>3. CASE Rename(c)
    <3>1. ptr[c] \in Pointers
      BY <1>t, <2>3 DEF Rename, AcceptedPointers, Accepted, Steps
    <3>2. ptr[c].manifest \in Manifests
      BY <3>1, PointerAssumption DEF ManifestAssumption
    <3>3. HasLocalState => HasLocalState'
      BY <1>t, <1>n, <2>3, <3>2 DEF Rename, HasLocalState, TypeOK
    <3> QED BY <1>1, <2>3, <3>3 DEF Rename
  <2>4. CASE CommitAnchor(c)
    <3>1. ptr[c] \in Pointers /\ ptr[c] \in Attested /\ ManifestVerifies(ptr[c])
      BY <1>t, <2>4 DEF CommitAnchor, AcceptedPointers, Accepted, Verified, Steps
    <3> QED BY <1>n, <2>4, <3>1 DEF CommitAnchor, AnchorIsCommitted, ManifestVerifies
  <2>5. CASE WriteRecord(c)
    <3>1. ptr[c] \in Pointers /\ ptr[c].build_id \in Builds
      BY <1>t, <2>5, PointerAssumption
         DEF WriteRecord, AcceptedPointers, Accepted, Steps, ManifestAssumption
    <3>2. HasLocalState => HasLocalState'
      BY <1>n, <2>5, <3>1 DEF WriteRecord, HasLocalState, Record
    <3> QED BY <1>1, <2>5, <3>2 DEF WriteRecord
  <2>6. CASE WriteNullRecord(c)
    <3>1. ptr[c] \in Pointers
      BY <1>t, <2>6 DEF WriteNullRecord, AcceptedPointers, Accepted, Steps
    <3>2. HasLocalState => HasLocalState'
      BY <1>n, <2>6, <3>1 DEF WriteNullRecord, HasLocalState, Record
    <3> QED BY <1>1, <2>6, <3>2 DEF WriteNullRecord
  <2> QED
    BY <1>4, <2>1, <2>2, <2>3, <2>4, <2>5, <2>6 DEF Progress
<1>5. ASSUME NEW c \in Clients, Failure(c) PROVE AnchorIsCommitted'
  <2>1. CASE Crash(c)
    <3>1. HasLocalState => HasLocalState'
      BY <1>t, <1>n, <2>1 DEF Crash, HasLocalState, TypeOK
    <3> QED BY <1>1, <2>1, <3>1 DEF Crash
  <2> QED BY <1>2, <1>5, <2>1 DEF Failure, Contended, FetchFails, AnchorWriteFails
<1>6. CASE Tick \/ Settle \/ UNCHANGED vars
  BY <1>2, <1>6 DEF Tick, Settle, vars
<1>7. CASE StorageFault
  BY <1>3, <1>7 DEF StorageFault, AnchorFault, RecordFault, BuildFault
<1> QED BY <1>4, <1>5, <1>6, <1>7 DEF Next

-----------------------------------------------------------------------------
(* The inductive invariant, and the theorems.                              *)

(* The inductive invariant holds in every behaviour of the clients.        *)
THEOREM Invariant == Spec => []IInv
<1>1. Init => IInv
  BY TypeInit, HolderInit, AcceptedInit, AnchorInit DEF IInv
<1>2. IInv /\ [Next]_vars => IInv'
  BY TypeStep, HolderStep, AcceptedStep, AnchorStep DEF IInv
<1> QED BY <1>1, <1>2, PTL DEF Spec

(* The state of the cache, of the lock and of every process keeps its      *)
(* type, in every behaviour of the refresh (snapshot.py).                  *)
THEOREM TypeCorrect == Spec => []TypeOK
  BY Invariant, PTL DEF IInv

(* serving_build() demands a record equal to the anchor and a complete     *)
(* build, and the anchor is the commitment: what it answers is what the    *)
(* commitment publishes (snapshot.py 382-435).                             *)
LEMMA ServingIsCommitted == IInv => ServesOnlyWhatIsCommitted
<1> SUFFICES ASSUME IInv, ServingBuild # None PROVE ServesOnlyWhatIsCommitted
  BY DEF ServesOnlyWhatIsCommitted
<1>1. /\ anchor \in Pointers
      /\ ServingBuild = anchor.build_id
      /\ anchor.manifest.carries
  BY DEF ServingBuild, BuildComplete
<1>2. committed = anchor /\ committed # None
  BY <1>1, PointerAssumption DEF IInv, AnchorIsCommitted, SentinelAssumption
<1> QED
  BY <1>1, <1>2 DEF IInv, AnchorIsCommitted, ManifestVerifies,
                    ServesOnlyWhatIsCommitted

(* Section 1 of the serving lifecycle: whatever serving_build() serves,    *)
(* the pointer this cache last committed to publishes.                     *)
THEOREM ServingSafety == Spec => []ServesOnlyWhatIsCommitted
  BY Invariant, ServingIsCommitted, PTL

-----------------------------------------------------------------------------
(* The refresh implements the abstract promise.                            *)

(* What is served is allowed by the commitment.                            *)
ServingIsServable == ServingBuild \in Service!Servable(committed)

(* In terms of the abstract promise, what is served is always among what   *)
(* the commitment allows.                                                  *)
LEMMA ServingServable == IInv => ServingIsServable
<1> SUFFICES ASSUME IInv, ServingBuild # None PROVE ServingIsServable
  BY DEF ServingIsServable, Service!Servable
<1>1. /\ anchor \in Pointers
      /\ ServingBuild = anchor.build_id
      /\ anchor.manifest.carries
  BY DEF ServingBuild, BuildComplete
<1>2. committed = anchor
  BY <1>1 DEF IInv, AnchorIsCommitted
<1> QED BY <1>1, <1>2 DEF ServingIsServable, Service!Servable

(* The only step that commits is a refresh writing trust.json, and the     *)
(* only step that forgets is one that leaves the cache empty.              *)
LEMMA CommitsOnlyForward ==
    ASSUME IInv, [Next]_vars
    PROVE  \/ committed' = committed
           \/ committed' = None
           \/ \E p \in Pointers :
                 /\ p \in Attested
                 /\ committed # None => Newer(p, committed)
                 /\ committed' = p
<1>1. ASSUME NEW c \in Clients, CommitAnchor(c)
      PROVE  /\ ptr[c] \in Pointers
             /\ ptr[c] \in Attested
             /\ committed # None => ptr[c] = committed \/ Newer(ptr[c], committed)
             /\ committed' = ptr[c]
  BY <1>1 DEF IInv, AcceptedPointers, CommitAnchor, Accepted, Steps
<1>2. CASE \E c \in Clients : CommitAnchor(c)
  BY <1>1, <1>2
<1>3. CASE ~\E c \in Clients : CommitAnchor(c)
  BY <1>3 DEF Next, Progress, Failure, Acquire, RefuseUnanchored, Evaluate,
              ManifestRefused, ManifestAccepted, Download, RemoveOld, Rename,
              WriteRecord, WriteNullRecord, Contended, FetchFails,
              AnchorWriteFails, Crash, Tick, Settle, StorageFault, Forgetting,
              vars
<1> QED BY <1>2, <1>3

(* Every step of the clients is a step of the promise or a stutter: an     *)
(* Advance to a newer attested pointer, a Revise of what is provable, or a *)
(* Forget.                                                                 *)
LEMMA PromiseStep ==
    IInv /\ ServingIsServable' /\ [Next]_vars => [Service!PromiseNext]_Service!promise
<1> SUFFICES ASSUME IInv, ServingIsServable', [Next]_vars
             PROVE  Service!PromiseNext
  BY DEF Service!promise
<1>1. ServingBuild' \in Service!Servable(committed')
  BY DEF ServingIsServable, Service!Servable
<1>2. CASE committed' = committed
  BY <1>1, <1>2 DEF Service!PromiseNext, Service!Revise
<1>3. CASE committed' = None
  <2>1. ServingBuild' = None
    BY <1>1, <1>3, PointerAssumption DEF Service!Servable, SentinelAssumption
  <2> QED BY <1>3, <2>1 DEF Service!PromiseNext, Service!Forget
<1>4. ASSUME NEW p \in Pointers, p \in Attested,
             committed # None => Newer(p, committed), committed' = p
      PROVE  Service!PromiseNext
  BY <1>1, <1>4 DEF Service!PromiseNext, Service!Advance, Service!Newer, Newer
<1> QED BY <1>2, <1>3, <1>4, CommitsOnlyForward

(* Commitments move only to newer attested pointers: no replay, no         *)
(* equivocation, no second process and no damaged state file takes the     *)
(* cache back, and each serves nothing but its own build.                  *)
THEOREM ImplementsService == Spec => KeepsThePromise
<1>1. Init => Service!PromiseInit
  BY PointerAssumption
     DEF Init, Service!PromiseInit, ServingBuild, SentinelAssumption
<1>2. IInv /\ IInv' /\ [Next]_vars => [Service!PromiseNext]_Service!promise
  <2>1. IInv' => ServingIsServable'
    BY ServingServable, PTL
  <2> QED BY <2>1, PromiseStep
<1> QED
  BY <1>1, <1>2, Invariant, PTL DEF Spec, KeepsThePromise, Service!Promise

-----------------------------------------------------------------------------
(* Without storage faults: what is served, and what unlocked reads see.    *)

(* What the publisher promises: a build id is published with one manifest  *)
(* (PublishedFeed).  A directory would otherwise be replaced in place.     *)
BuildIdsNameOneManifest ==
    \A p, q \in Pointers : p.build_id = q.build_id => p.manifest = q.manifest

Undisturbed == Faults = {} /\ BuildIdsNameOneManifest

Recorded(p) == record = [pointer |-> p, installed_build |-> p.build_id]
Installed(p) == BuildComplete(p.build_id, p.manifest)

(* serving.json never runs ahead of trust.json, and names a build that is  *)
(* there.                                                                  *)
RecordFollows ==
    record \in Record =>
      /\ anchor \in Pointers
      /\ record.pointer = anchor \/ Newer(anchor, record.pointer)
      /\ record.installed_build # None =>
           Recorded(record.pointer) /\ Installed(record.pointer)

Writing == {"download", "swap", "rename", "commit", "record"}

(* What the one refresh that is under way knows at each step.              *)
RefreshKnows(c) ==
    /\ pc[c] \notin {"idle", "record", "null"} => prior[c] = ServingBuild
    /\ pc[c] \in {"manifest"} \cup Writing => ~Recorded(ptr[c])
    /\ pc[c] \in Writing => ptr[c].manifest.carries
    /\ pc[c] \in {"download", "swap", "rename"} => ~Installed(ptr[c])
    /\ pc[c] \in {"commit", "record"} => Installed(ptr[c])
    /\ pc[c] \in {"record", "null"} => anchor = ptr[c]
    /\ pc[c] \in {"withdraw", "null"} => ~ptr[c].manifest.carries

Steady == IInv /\ RecordFollows /\ \A c \in Clients : RefreshKnows(c)

(* What was read under a question still being answered.                    *)
HeldMatch ==
    /\ heldAnchor \in Pointers
    /\ heldRecord = [pointer |-> heldAnchor, installed_build |-> heldAnchor.build_id]

Reading ==
    /\ reading \in {"anchor", "record", "build"}
    /\ reading # "anchor" =>
         /\ ServingBuild \in window
         /\ None \notin window =>
              heldAnchor = anchor /\ (reading = "build" => heldRecord = record)
    /\ reading = "record" =>
         (heldAnchor \in Pointers /\ anchor # heldAnchor /\ Recorded(heldAnchor)
            => heldAnchor.build_id \in window)
    /\ reading = "build" => (HeldMatch => heldAnchor.build_id \in window)

-----------------------------------------------------------------------------
(* What is served, as long as nothing disturbs the disk.                   *)

Keeps == ServingBuild # None /\ ServingBuild' # ServingBuild => committed' # committed
Reports == result' # result /\ result'.status # "none" => result'.build = ServingBuild'

Served == ServingBuild = IF anchor \in Pointers /\ Recorded(anchor)
                         THEN anchor.build_id ELSE None

LEMMA RecordedIsServed == RecordFollows => Served
<1> SUFFICES ASSUME RecordFollows PROVE Served
  OBVIOUS
<1>1. CASE anchor \in Pointers /\ Recorded(anchor)
  <2>1. /\ anchor.build_id \in Builds /\ anchor.build_id # None
        /\ record.pointer = anchor /\ record.installed_build = anchor.build_id
    BY <1>1, PointerAssumption DEF Recorded, ManifestAssumption, SentinelAssumption
  <2>2. record \in Record
    BY <1>1, <2>1 DEF Recorded, Record
  <2>3. Installed(anchor)
    BY <2>1, <2>2 DEF RecordFollows
  <2> QED BY <1>1, <2>1, <2>2, <2>3 DEF Served, ServingBuild, Installed
<1>2. CASE ~(anchor \in Pointers /\ Recorded(anchor))
  <2>1. ASSUME anchor \in Pointers, record \in Record, record.pointer = anchor,
               record.installed_build = anchor.build_id
        PROVE  Recorded(anchor)
    BY <2>1 DEF Recorded, Record
  <2> QED BY <1>2, <2>1 DEF Served, ServingBuild
<1> QED BY <1>1, <1>2

LEMMA RecordedIsServedNext == RecordFollows' => Served'
  BY RecordedIsServed, PTL

LEMMA IInvStep == IInv /\ [Next]_vars => IInv'
  BY TypeStep, HolderStep, AcceptedStep, AnchorStep DEF IInv

LEMMA Acting ==
    ASSUME IInv, NEW c \in Clients, pc[c] \in Accepted
    PROVE  /\ ptr[c] \in Pointers /\ ptr[c].build_id \in Builds
           /\ ptr[c].manifest \in Manifests
           /\ committed # None => ptr[c] = committed \/ Newer(ptr[c], committed)
  BY PointerAssumption DEF IInv, AcceptedPointers, ManifestAssumption

(* One process moves; the others are not inside refresh().                 *)
LEMMA OneProcessMoves ==
    ASSUME Steady, [Next]_vars, NEW c \in Clients, pc[c] # "idle" \/ lock = None,
           \A d \in Clients \ {c} : pc'[d] = pc[d],
           RecordFollows', RefreshKnows(c)'
    PROVE  Steady'
<1>1. IInv'
  BY IInvStep DEF Steady
<1>2. ASSUME NEW d \in Clients \ {c} PROVE pc[d] = "idle"
  BY ClientAssumption DEF Steady, IInv, OnlyTheHolderRuns
<1>3. ASSUME NEW d \in Clients \ {c} PROVE RefreshKnows(d)'
  BY <1>2 DEF RefreshKnows, Writing
<1> QED BY <1>1, <1>3 DEF Steady

LEMMA GotoMoves ==
    ASSUME IInv, NEW c \in Clients, NEW s, Goto(c, s)
    PROVE  pc'[c] = s /\ \A d \in Clients \ {c} : pc'[d] = pc[d]
  BY DEF Goto, IInv, TypeOK

LEMMA SameDiskServes ==
    ASSUME RecordFollows, UNCHANGED <<anchor, record, cache>>
    PROVE  RecordFollows' /\ ServingBuild' = ServingBuild
  BY DEF RecordFollows, Recorded, Installed, BuildComplete, ServingBuild

(* The refresh returns what is served.                                     *)
LEMMA ReturnReports ==
    ASSUME IInv, NEW c \in Clients, NEW status, NEW build,
           Return(c, status, build), build = ServingBuild'
    PROVE  /\ RefreshKnows(c)' /\ Reports
           /\ \A d \in Clients \ {c} : pc'[d] = pc[d]
<1>1. pc'[c] = "idle" /\ \A d \in Clients \ {c} : pc'[d] = pc[d]
  BY GotoMoves DEF Return, Leave
<1>2. result'.build = build
  BY DEF Return
<1> QED BY <1>1, <1>2 DEF RefreshKnows, Writing, Reports

(* A directory that is not the recorded build's is taken away or replaced. *)
LEMMA OtherBuildChanges ==
    ASSUME Steady, Undisturbed, NEW c \in Clients, pc[c] \in {"swap", "rename"},
           NEW m, cache' = [cache EXCEPT ![ptr[c].build_id] = m],
           UNCHANGED <<anchor, record>>
    PROVE  RecordFollows' /\ ServingBuild' = ServingBuild
<1> PICK p, r : p = ptr[c] /\ r = record.pointer
  OBVIOUS
<1>1. /\ p \in Pointers /\ p.build_id \in Builds /\ p.manifest \in Manifests
      /\ ~Installed(p) /\ p.manifest.carries
  BY Acting DEF Steady, RefreshKnows, Accepted, Steps, Writing
<1>2. ASSUME record \in Record, record.installed_build # None
      PROVE  Recorded(r) /\ Installed(r)'
  <2>1. r \in Pointers /\ r.build_id \in Builds
    BY <1>2, PointerAssumption DEF Record, ManifestAssumption
  <2>2. Recorded(r) /\ Installed(r)
    BY <1>2 DEF Steady, RecordFollows
  <2>3. r.build_id # p.build_id
    BY <1>1, <2>1, <2>2 DEF Undisturbed, BuildIdsNameOneManifest, Installed
  <2>4. cache'[r.build_id] = cache[r.build_id]
    BY <1>1, <2>1, <2>3 DEF Steady, IInv, TypeOK
  <2> QED BY <2>2, <2>4 DEF Installed, BuildComplete
<1>3. RecordFollows'
  BY <1>2 DEF Steady, RecordFollows, Recorded
<1>4. Served /\ Served'
  BY <1>3, RecordedIsServed, RecordedIsServedNext DEF Steady
<1> QED BY <1>3, <1>4 DEF Served, Recorded

(* No step but a commit takes away what is served, and every refresh       *)
(* reports what is.                                                        *)
LEMMA QuietSteps ==
    ASSUME Steady, Undisturbed, [Next]_vars, NEW c \in Clients,
           \/ Acquire(c) \/ FetchFails(c) \/ RefuseUnanchored(c)
           \/ ManifestRefused(c) \/ ManifestAccepted(c) \/ Download(c)
           \/ AnchorWriteFails(c)
           \/ \E p \in Pointers \cup {Garbage} : Evaluate(c, p)
    PROVE  Steady' /\ Keeps /\ Reports
<1>1. UNCHANGED <<anchor, record, cache>> /\ (pc[c] # "idle" \/ lock = None)
  BY DEF Acquire, FetchFails, RefuseUnanchored, ManifestRefused, ManifestAccepted,
     Download, AnchorWriteFails, Evaluate, disk
<1>2. RecordFollows' /\ ServingBuild' = ServingBuild /\ RecordFollows /\ IInv
      /\ RefreshKnows(c)
  BY <1>1, SameDiskServes DEF Steady
<1> SUFFICES /\ RefreshKnows(c)' /\ Reports
             /\ \A d \in Clients \ {c} : pc'[d] = pc[d]
  BY <1>1, <1>2, OneProcessMoves DEF Keeps
<1>3. ASSUME NEW status, Return(c, status, prior[c]),
             pc[c] \notin {"idle", "record", "null"}
      PROVE  /\ RefreshKnows(c)' /\ Reports
             /\ \A d \in Clients \ {c} : pc'[d] = pc[d]
  <2>1. prior[c] = ServingBuild'
    BY <1>2, <1>3 DEF RefreshKnows
  <2> QED BY <1>2, <1>3, <2>1, ReturnReports
<1>4. ASSUME NEW s, Goto(c, s), UNCHANGED result, s # "idle",
             s \notin {"record", "null"} => prior'[c] = ServingBuild,
             s \in {"manifest"} \cup Writing => ~Recorded(ptr'[c]),
             s \in Writing => ptr'[c].manifest.carries,
             s \in {"download", "swap", "rename"} => ~Installed(ptr'[c]),
             s \in {"commit", "record"} => Installed(ptr'[c]),
             s \notin {"record", "null"},
             s = "withdraw" => ~ptr'[c].manifest.carries
      PROVE  /\ RefreshKnows(c)' /\ Reports
             /\ \A d \in Clients \ {c} : pc'[d] = pc[d]
  <2>1. pc'[c] = s /\ \A d \in Clients \ {c} : pc'[d] = pc[d]
    BY <1>2, <1>4, GotoMoves
  <2>2. /\ Recorded(ptr[c])' = Recorded(ptr'[c])
        /\ Installed(ptr[c])' = Installed(ptr'[c])
    BY <1>1 DEF Recorded, Installed, BuildComplete
  <2> QED BY <1>1, <1>2, <1>4, <2>1, <2>2 DEF RefreshKnows, Reports, Writing
<1>5. CASE Acquire(c)
  <2>1. prior'[c] = ServingBuild
    BY <1>2, <1>5 DEF Acquire, IInv, TypeOK
  <2> QED BY <1>4, <1>5, <2>1 DEF Acquire, Writing
<1>6. CASE FetchFails(c) \/ ManifestRefused(c) \/ AnchorWriteFails(c)
  BY <1>3, <1>6 DEF FetchFails, ManifestRefused, AnchorWriteFails
<1>7. CASE RefuseUnanchored(c)
  <2>1. ServingBuild' = None
    BY <1>2, <1>7, PointerAssumption
       DEF RefuseUnanchored, Unanchored, ServingBuild, SentinelAssumption
  <2> QED BY <1>2, <1>7, <2>1, ReturnReports DEF RefuseUnanchored
<1>8. ASSUME NEW p \in Pointers \cup {Garbage}, Evaluate(c, p)
      PROVE  /\ RefreshKnows(c)' /\ Reports
             /\ \A d \in Clients \ {c} : pc'[d] = pc[d]
  <2>1. CASE \E status : Return(c, status, prior[c])
    BY <1>3, <1>8, <2>1 DEF Evaluate
  <2>2. CASE /\ \/ EvaluatePointer(p, now, anchor) \in {"install", "bootstrap"}
                \/ /\ EvaluatePointer(p, now, anchor) = "idempotent"
                   /\ NothingServed(c)
             /\ ptr' = [ptr EXCEPT ![c] = p]
             /\ Goto(c, "manifest")
             /\ UNCHANGED <<lock, prior, result>>
    <3>1. ptr'[c] = p /\ prior'[c] = ServingBuild
      BY <1>2, <1>8, <2>2 DEF Evaluate, IInv, TypeOK, RefreshKnows
    <3>2. ~Recorded(p)
      <4> SUFFICES ASSUME Recorded(p) PROVE FALSE
        OBVIOUS
      <4>1. anchor \in Pointers \cup {None}
        BY <1>2, <1>8 DEF Evaluate, Unanchored, IInv, TypeOK
      <4>2. p \in Pointers /\ (anchor = None \/ p = anchor \/ Newer(p, anchor))
        BY <2>2, <4>1, EvaluateStatus
      <4>3. record \in Record /\ record.pointer = p
        BY <4>2, PointerAssumption DEF Recorded, Record, ManifestAssumption
      <4>4. anchor \in Pointers /\ (p = anchor \/ Newer(anchor, p))
        BY <1>2, <4>3 DEF RecordFollows
      <4>5. p = anchor
        BY <4>2, <4>4, PointerAssumption
           DEF Newer, ManifestAssumption, SentinelAssumption
      <4>6. ServingBuild = p.build_id /\ p.build_id # None
        BY <1>2, <4>2, <4>5, RecordedIsServed, PointerAssumption
           DEF Served, ManifestAssumption, SentinelAssumption
      <4>7. EvaluatePointer(p, now, anchor) = "idempotent"
        BY <2>2, <4>2, <4>5, PointerAssumption
           DEF EvaluatePointer, Newer, ManifestAssumption, SentinelAssumption
      <4> QED BY <2>2, <3>1, <4>6, <4>7 DEF NothingServed
    <3> QED BY <1>4, <2>2, <3>1, <3>2 DEF Writing
  <2> QED BY <1>8, <2>1, <2>2 DEF Evaluate
<1>9. CASE ManifestAccepted(c)
  <2>1. CASE Return(c, "incompatible", prior[c])
    BY <1>3, <1>9, <2>1 DEF ManifestAccepted
  <2>2. CASE /\ ~ptr[c].manifest.carries /\ Goto(c, "withdraw")
             /\ UNCHANGED <<lock, ptr, prior, result>>
    BY <1>2, <1>4, <1>9, <2>2 DEF ManifestAccepted, RefreshKnows, Writing
  <2>3. CASE /\ ptr[c].manifest.carries
             /\ Goto(c, IF Installed(ptr[c]) THEN "commit" ELSE "download")
             /\ UNCHANGED <<lock, ptr, prior, result>>
    BY <1>2, <1>4, <1>9, <2>3 DEF ManifestAccepted, RefreshKnows, Writing
  <2> QED BY <1>9, <2>1, <2>2, <2>3 DEF ManifestAccepted, Installed
<1>10. CASE Download(c)
  <2>1. CASE Return(c, "refused", prior[c])
    BY <1>3, <1>10, <2>1 DEF Download
  <2>2. CASE Goto(c, "swap") /\ UNCHANGED <<lock, ptr, prior, result>>
    BY <1>2, <1>4, <1>10, <2>2 DEF Download, RefreshKnows, Writing
  <2> QED BY <1>10, <2>1, <2>2 DEF Download
<1> QED BY <1>5, <1>6, <1>7, <1>8, <1>9, <1>10

LEMMA SwapSteps ==
    ASSUME Steady, Undisturbed, [Next]_vars, NEW c \in Clients,
           RemoveOld(c) \/ Rename(c)
    PROVE  Steady' /\ Keeps /\ Reports
<1> PICK p, b : p = ptr[c] /\ b = p.build_id
  OBVIOUS
<1>1. /\ UNCHANGED <<anchor, record>> /\ pc[c] \in {"swap", "rename"}
      /\ \/ Return(c, "refused", prior[c])
         \/ Goto(c, "rename") /\ cache' = [cache EXCEPT ![b] = None]
            /\ UNCHANGED <<ptr, prior, result>>
         \/ Goto(c, "commit") /\ cache' = [cache EXCEPT ![b] = p.manifest]
            /\ UNCHANGED <<ptr, prior, result>>
      /\ \/ UNCHANGED cache
         \/ \E m : cache' = [cache EXCEPT ![b] = m]
  BY DEF RemoveOld, Rename
<1>2. RecordFollows' /\ ServingBuild' = ServingBuild
  <2>1. CASE UNCHANGED cache
    BY <1>1, <2>1, SameDiskServes DEF Steady
  <2>2. ASSUME NEW m, cache' = [cache EXCEPT ![b] = m]
        PROVE  RecordFollows' /\ ServingBuild' = ServingBuild
    BY <1>1, <2>2, OtherBuildChanges
  <2> QED BY <1>1, <2>1, <2>2
<1>3. /\ IInv /\ p \in Pointers /\ b \in Builds /\ p.manifest \in Manifests
      /\ p.manifest.carries /\ ~Recorded(p) /\ prior[c] = ServingBuild
      /\ cache \in [Builds -> Manifests \cup {None, Corrupt}]
  BY <1>1, Acting DEF Steady, RefreshKnows, Accepted, Steps, Writing, IInv, TypeOK
<1> SUFFICES /\ RefreshKnows(c)' /\ Reports
             /\ \A d \in Clients \ {c} : pc'[d] = pc[d]
  BY <1>1, <1>2, OneProcessMoves DEF Keeps
<1>4. CASE Return(c, "refused", prior[c])
  BY <1>2, <1>3, <1>4, ReturnReports
<1>5. ASSUME NEW s \in {"rename", "commit"}, Goto(c, s),
             UNCHANGED <<ptr, prior, result>>,
             s = "rename" => cache'[b] # p.manifest,
             s = "commit" => cache'[b] = p.manifest
      PROVE  /\ RefreshKnows(c)' /\ Reports
             /\ \A d \in Clients \ {c} : pc'[d] = pc[d]
  <2>1. pc'[c] = s /\ \A d \in Clients \ {c} : pc'[d] = pc[d]
    BY <1>3, <1>5, GotoMoves
  <2> QED BY <1>1, <1>2, <1>3, <1>5, <2>1
        DEF RefreshKnows, Reports, Writing, Recorded, Installed, BuildComplete
<1>6. CASE Goto(c, "rename") /\ cache' = [cache EXCEPT ![b] = None]
           /\ UNCHANGED <<ptr, prior, result>>
  BY <1>3, <1>5, <1>6, PointerAssumption DEF SentinelAssumption
<1>7. CASE Goto(c, "commit") /\ cache' = [cache EXCEPT ![b] = p.manifest]
           /\ UNCHANGED <<ptr, prior, result>>
  BY <1>3, <1>5, <1>7
<1> QED BY <1>1, <1>4, <1>6, <1>7

(* A commit takes away a served build only with a newer pointer, and the   *)
(* record that follows it makes the new one served.                        *)
LEMMA CommitSteps ==
    ASSUME Steady, Undisturbed, [Next]_vars, NEW c \in Clients,
           CommitAnchor(c) \/ WriteRecord(c) \/ WriteNullRecord(c)
    PROVE  Steady' /\ Keeps /\ Reports
<1> PICK p : p = ptr[c]
  OBVIOUS
<1>1. /\ pc[c] \in {"commit", "withdraw", "record", "null"}
      /\ cache' = cache
  BY DEF CommitAnchor, WriteRecord, WriteNullRecord
<1>2. /\ IInv /\ RecordFollows /\ Served /\ RefreshKnows(c)
      /\ p \in Pointers /\ p.build_id \in Builds /\ p.build_id # None
      /\ committed # None => p = committed \/ Newer(p, committed)
      /\ anchor \in Pointers => anchor = committed
  BY <1>1, Acting, RecordedIsServed, PointerAssumption
     DEF Steady, Accepted, Steps, IInv, AnchorIsCommitted, SentinelAssumption
<1>3. ~Recorded(p)
  <2> SUFFICES ASSUME Recorded(p), pc[c] \in {"withdraw", "null"} PROVE FALSE
    BY <1>1, <1>2 DEF RefreshKnows, Writing
  <2>1. record \in Record /\ record.pointer = p /\ record.installed_build # None
    BY <1>2 DEF Recorded, Record
  <2> QED BY <1>2, <2>1 DEF RecordFollows, RefreshKnows, Installed, BuildComplete
<1>4. CASE CommitAnchor(c)
  <2>1. anchor' = p /\ committed' = p /\ UNCHANGED <<record, cache, ptr, result>>
    BY <1>4 DEF CommitAnchor
  <2>2. ASSUME record \in Record
        PROVE  record.pointer = p \/ Newer(p, record.pointer)
    <3>1. /\ anchor \in Pointers /\ anchor = committed /\ committed # None
          /\ record.pointer \in Pointers
          /\ record.pointer = anchor \/ Newer(anchor, record.pointer)
      BY <1>2, <2>2, PointerAssumption DEF RecordFollows, Record, SentinelAssumption
    <3> QED BY <1>2, <3>1, PointerAssumption DEF Newer, ManifestAssumption
  <2>3. RecordFollows'
    BY <1>2, <2>1, <2>2 DEF RecordFollows, Recorded, Installed, BuildComplete
  <2>4. ServingBuild' = None
    BY <1>3, <2>1, <2>3, RecordedIsServedNext DEF Served, Recorded
  <2>5. Keeps
    BY <1>2, <1>3, <2>1 DEF Keeps, Served
  <2>6. /\ pc'[c] = IF pc[c] = "commit" THEN "record" ELSE "null"
        /\ \A d \in Clients \ {c} : pc'[d] = pc[d]
    BY <1>2, <1>4, GotoMoves DEF CommitAnchor
  <2>7. RefreshKnows(c)'
    BY <1>1, <1>2, <1>3, <1>4, <2>1, <2>6
       DEF RefreshKnows, Writing, Recorded, Installed, BuildComplete, CommitAnchor
  <2> QED BY <1>1, <2>1, <2>3, <2>5, <2>6, <2>7, OneProcessMoves DEF Reports
<1>5. ASSUME anchor = p, UNCHANGED anchor, RecordFollows',
             NEW status, NEW build, Return(c, status, build), build = ServingBuild'
      PROVE  Steady' /\ Keeps /\ Reports
  <2>1. ServingBuild = None
    BY <1>2, <1>3, <1>5 DEF Served
  <2>2. /\ RefreshKnows(c)' /\ Reports
        /\ \A d \in Clients \ {c} : pc'[d] = pc[d]
    BY <1>2, <1>5, ReturnReports
  <2> QED BY <1>1, <1>5, <2>1, <2>2, OneProcessMoves DEF Keeps
<1>6. ASSUME anchor = p, UNCHANGED <<anchor, record>>
      PROVE  RecordFollows' /\ ServingBuild' = None
  BY <1>1, <1>2, <1>3, <1>6, SameDiskServes DEF Served
<1>7. CASE WriteRecord(c)
  <2>1. anchor = p /\ Installed(p) /\ UNCHANGED <<anchor, cache>>
    BY <1>2, <1>7 DEF WriteRecord, RefreshKnows
  <2>2. CASE Return(c, "refused", None) /\ UNCHANGED record
    BY <1>5, <1>6, <2>1, <2>2
  <2>3. CASE /\ record' = [pointer |-> p, installed_build |-> p.build_id]
             /\ Return(c, "installed", p.build_id)
    <3>1. record'.pointer = p /\ record'.installed_build = p.build_id
      BY <2>3
    <3>2. RecordFollows'
      BY <1>2, <2>1, <2>3, <3>1 DEF RecordFollows, Recorded, Installed, BuildComplete
    <3>3. ServingBuild' = p.build_id
      BY <1>2, <2>1, <2>3, <3>2, RecordedIsServedNext DEF Served, Recorded
    <3> QED BY <1>5, <2>1, <2>3, <3>2, <3>3
  <2> QED BY <1>7, <2>2, <2>3 DEF WriteRecord
<1>8. CASE WriteNullRecord(c)
  <2>1. /\ anchor = p /\ UNCHANGED <<anchor, cache>>
        /\ Return(c, "withdrawn", None)
    BY <1>2, <1>8 DEF WriteNullRecord, RefreshKnows
  <2>2. CASE UNCHANGED record
    BY <1>5, <1>6, <2>1, <2>2
  <2>3. CASE record' = [pointer |-> p, installed_build |-> None]
    <3>1. record'.pointer = p /\ record'.installed_build = None
      BY <2>3
    <3>2. RecordFollows'
      BY <1>2, <2>1, <3>1 DEF RecordFollows
    <3>3. ServingBuild' = None
      BY <1>2, <2>1, <3>1 DEF ServingBuild
    <3> QED BY <1>5, <2>1, <3>2, <3>3
  <2> QED BY <1>8, <2>2, <2>3 DEF WriteNullRecord
<1> QED BY <1>4, <1>7, <1>8

(* A process that dies, one that finds the lock taken, and the clock.      *)
LEMMA IdleSteps ==
    ASSUME Steady, Undisturbed, [Next]_vars,
           \/ \E c \in Clients : Crash(c) \/ Contended(c)
           \/ Tick \/ Settle \/ UNCHANGED vars
    PROVE  Steady' /\ Keeps /\ Reports
<1>1. ASSUME UNCHANGED <<disk, pc, ptr, prior>>,
             UNCHANGED result \/ result'.build = ServingBuild
      PROVE  Steady' /\ Keeps /\ Reports
  <2>1. RecordFollows' /\ ServingBuild' = ServingBuild
    BY <1>1, SameDiskServes DEF disk, Steady
  <2>2. ASSUME NEW d \in Clients PROVE RefreshKnows(d)'
    BY <1>1, <2>1 DEF Steady, RefreshKnows, disk, Recorded, Installed, BuildComplete
  <2> QED BY <1>1, <2>1, <2>2, IInvStep DEF Steady, Keeps, Reports
<1>2. CASE Tick \/ Settle \/ UNCHANGED vars
  BY <1>1, <1>2 DEF Tick, Settle, vars, process
<1>3. ASSUME NEW c \in Clients, Contended(c) PROVE Steady' /\ Keeps /\ Reports
  BY <1>1, <1>3 DEF Contended
<1>4. ASSUME NEW c \in Clients, Crash(c) PROVE Steady' /\ Keeps /\ Reports
  <2>1. /\ pc[c] # "idle" /\ UNCHANGED <<anchor, record>>
        /\ \/ UNCHANGED cache
           \/ /\ pc[c] = "swap"
              /\ cache' = [cache EXCEPT ![ptr[c].build_id] = Corrupt]
    BY <1>4 DEF Crash
  <2>2. RecordFollows' /\ ServingBuild' = ServingBuild
    BY <2>1, OtherBuildChanges, SameDiskServes DEF Steady
  <2>3. pc'[c] = "idle" /\ \A d \in Clients \ {c} : pc'[d] = pc[d]
    BY <1>4, GotoMoves DEF Crash, Leave, Steady
  <2>4. RefreshKnows(c)' /\ Reports
    BY <1>4, <2>3 DEF RefreshKnows, Writing, Crash, Reports, NoResult
  <2> QED BY <2>1, <2>2, <2>3, <2>4, OneProcessMoves DEF Keeps
<1> QED BY <1>2, <1>3, <1>4

LEMMA StepIsSteady ==
    ASSUME Steady, Undisturbed, [Next]_vars
    PROVE  Steady' /\ Keeps /\ Reports
<1>1. ~StorageFault
  BY DEF Undisturbed, StorageFault, AnchorFault, RecordFault, BuildFault
<1>2. ASSUME NEW c \in Clients, Progress(c) \/ Failure(c)
      PROVE  Steady' /\ Keeps /\ Reports
  BY <1>2, QuietSteps, SwapSteps, CommitSteps, IdleSteps DEF Progress, Failure
<1>3. CASE Tick \/ Settle \/ UNCHANGED vars
  BY <1>3, IdleSteps
<1> QED BY <1>1, <1>2, <1>3 DEF Next

LEMMA InitIsSteady == Init => Steady
<1> SUFFICES ASSUME Init PROVE Steady
  OBVIOUS
<1>1. IInv
  BY TypeInit, HolderInit, AcceptedInit, AnchorInit DEF IInv
<1>2. RecordFollows
  BY ClientAssumption DEF Init, RecordFollows
<1>3. ASSUME NEW c \in Clients PROVE RefreshKnows(c)
  BY DEF Init, RefreshKnows, Writing
<1> QED BY <1>1, <1>2, <1>3 DEF Steady

-----------------------------------------------------------------------------
(* Without storage faults, a served build is lost only to a commit, and a  *)
(* RefreshResult names what serving_build() proves as refresh() returns    *)
(* (snapshot.py 437-686), for every set of processes and pointers.         *)
THEOREM ServingStaysSteady == ASSUME Undisturbed PROVE Spec => ServingIsSteady
<1>1. Init => Steady
  BY InitIsSteady
<1>2. Steady /\ [Next]_vars => Steady'
  BY StepIsSteady
<1>3. Steady /\ [Next]_vars => [ServingBuild # None /\ ServingBuild' # ServingBuild
                                  => committed' # committed]_vars
  BY StepIsSteady DEF Keeps
<1>4. Steady /\ [Next]_vars => [result' # result /\ result'.status # "none"
                                  => result'.build = ServingBuild']_vars
  BY StepIsSteady DEF Reports
<1> QED BY <1>1, <1>2, <1>3, <1>4, PTL
        DEF Spec, ServingIsSteady, FailuresKeepServing, ReportsWhatItServes

-----------------------------------------------------------------------------
(* Whoever reads beside the refreshes sees every step of the cache.        *)
LEMMA ResolutionStep ==
    [ResolutionNext]_<<vars, resolution>> => [Next]_vars
  BY DEF ResolutionNext, CacheStep, Next, StartResolving, ReadAnchor, ReadRecord,
         ReadBuild

(* The same of the cache a server resolves its module from (server.py).    *)
THEOREM ResolutionStaysSteady ==
    ASSUME Undisturbed PROVE ResolutionSpec => ServingIsSteady
<1>1. ResolutionInit => Init
  BY DEF ResolutionInit
<1> QED BY <1>1, ResolutionStep, ServingStaysSteady, PTL DEF ResolutionSpec, Spec

(* No step writes both trust.json and serving.json, and a record written   *)
(* is the committed pointer's.                                             *)
LEMMA OneFileMoves ==
    ASSUME Steady, Undisturbed, [Next]_vars
    PROVE  record' = record \/ (anchor' = anchor /\ record'.pointer = anchor)
<1>1. ~StorageFault
  BY DEF Undisturbed, StorageFault, AnchorFault, RecordFault, BuildFault
<1>2. ASSUME NEW c \in Clients, WriteRecord(c) \/ WriteNullRecord(c), record' # record
      PROVE  anchor' = anchor /\ record'.pointer = anchor
  <2>1. anchor = ptr[c]
    BY <1>2 DEF Steady, RefreshKnows, WriteRecord, WriteNullRecord
  <2>2. record'.pointer = ptr[c]
    BY <1>2 DEF WriteRecord, WriteNullRecord
  <2> QED BY <1>2, <2>1, <2>2 DEF WriteRecord, WriteNullRecord
<1>3. ASSUME NEW c \in Clients, Progress(c) \/ Failure(c), record' # record
      PROVE  WriteRecord(c) \/ WriteNullRecord(c)
  BY <1>3 DEF Progress, Failure, Acquire, RefuseUnanchored, Evaluate,
     ManifestRefused, ManifestAccepted, Download, RemoveOld, Rename, CommitAnchor,
     Contended, FetchFails, AnchorWriteFails, Crash, disk
<1>4. CASE Tick \/ Settle \/ UNCHANGED vars
  BY <1>4 DEF Tick, Settle, vars, disk
<1> QED BY <1>1, <1>2, <1>3, <1>4 DEF Next

(* A build served without a break is the same build of the same pointer.   *)
LEMMA ServedOn ==
    ASSUME Steady, Steady', Undisturbed, [Next]_vars,
           ServingBuild # None, ServingBuild' # None
    PROVE  anchor' = anchor /\ record' = record
<1>1. /\ Recorded(anchor) /\ Recorded(anchor)'
  BY RecordedIsServed, RecordedIsServedNext DEF Steady, Served
<1>2. record.pointer = anchor /\ record'.pointer = anchor'
  BY <1>1 DEF Recorded
<1> QED BY <1>1, <1>2, OneFileMoves DEF Recorded

(* A refresh beside it takes nothing from what serving_build() has read.   *)
LEMMA ReadersAreNotMisled ==
    ASSUME Steady, Steady', Undisturbed, Reading, CacheStep
    PROVE  Reading'
<1>1. [Next]_vars
  BY DEF CacheStep, Next
<1>2. UNCHANGED <<reading, heldAnchor, heldRecord>>
  BY DEF CacheStep
<1> SUFFICES ASSUME reading # "anchor" PROVE Reading'
  BY <1>2 DEF Reading
<1>3. window' = window \cup {ServingBuild'} /\ ServingBuild \in window
  BY DEF CacheStep, Reading
<1>4. ASSUME None \notin window'
      PROVE  heldAnchor' = anchor' /\ (reading' = "build" => heldRecord' = record')
  <2>1. None \notin window /\ ServingBuild # None /\ ServingBuild' # None
    BY <1>3, <1>4
  <2>2. anchor' = anchor /\ record' = record
    BY <1>1, <2>1, ServedOn
  <2> QED BY <1>2, <2>1, <2>2 DEF Reading
<1>5. ASSUME reading' = "record", heldAnchor' \in Pointers, anchor' # heldAnchor',
             Recorded(heldAnchor)'
      PROVE  heldAnchor'.build_id \in window'
  <2>1. record'.pointer = heldAnchor
    BY <1>2, <1>5 DEF Recorded
  <2>2. record' = record
    BY <1>1, <1>2, <1>5, <2>1, OneFileMoves
  <2>3. Recorded(heldAnchor)
    BY <1>2, <1>5, <2>2 DEF Recorded
  <2>4. CASE anchor # heldAnchor
    BY <1>2, <1>3, <1>5, <2>3, <2>4 DEF Reading
  <2>5. CASE anchor = heldAnchor
    BY <1>2, <1>3, <1>5, <2>3, <2>5, RecordedIsServed DEF Steady, Served
  <2> QED BY <2>4, <2>5
<1>6. HeldMatch' => heldAnchor'.build_id \in window' \/ reading' # "build"
  BY <1>2, <1>3 DEF HeldMatch, Reading
<1> QED BY <1>2, <1>3, <1>4, <1>5, <1>6 DEF Reading

LEMMA ReadsAreTrue ==
    ASSUME Steady, Steady', Undisturbed, Reading, UnlockedReadsAreAtomic,
           [ResolutionNext]_<<vars, resolution>>
    PROVE  Reading' /\ UnlockedReadsAreAtomic'
<1>1. CASE CacheStep
  BY <1>1, ReadersAreNotMisled DEF CacheStep, UnlockedReadsAreAtomic
<1>2. ASSUME UNCHANGED vars
      PROVE  UNCHANGED <<anchor, record>> /\ ServingBuild' = ServingBuild
  BY <1>2, SameDiskServes DEF vars, disk, Steady
<1>3. CASE StartResolving \/ UNCHANGED <<vars, resolution>>
  BY <1>2, <1>3
     DEF StartResolving, resolution, Reading, HeldMatch, Recorded, UnlockedReadsAreAtomic
<1>4. CASE ReadAnchor
  BY <1>2, <1>4 DEF ReadAnchor, Reading, UnlockedReadsAreAtomic
<1>5. CASE ReadRecord
  <2>1. ASSUME HeldMatch' PROVE heldAnchor.build_id \in window
    <3>1. heldAnchor \in Pointers /\ Recorded(heldAnchor)
      BY <1>5, <2>1 DEF ReadRecord, HeldMatch, Recorded
    <3>2. CASE anchor # heldAnchor
      BY <1>5, <3>1, <3>2 DEF ReadRecord, Reading
    <3>3. CASE anchor = heldAnchor
      BY <1>5, <3>1, <3>3, RecordedIsServed DEF ReadRecord, Reading, Steady, Served
    <3> QED BY <3>2, <3>3
  <2> QED BY <1>2, <1>5, <2>1 DEF ReadRecord, Reading, UnlockedReadsAreAtomic
<1>6. CASE ReadBuild
  <2>1. CASE HeldProves
    <3>1. HeldMatch
      BY <2>1 DEF HeldProves, HeldMatch, Record
    <3> QED BY <1>6, <2>1, <3>1 DEF ReadBuild, Reading, UnlockedReadsAreAtomic
  <2>2. CASE ~HeldProves
    <3>1. ASSUME None \notin window PROVE HeldProves
      BY <1>6, <3>1 DEF ReadBuild, Reading, ServingBuild, HeldProves
    <3> QED BY <1>6, <2>2, <3>1 DEF ReadBuild, Reading, UnlockedReadsAreAtomic
  <2> QED BY <2>1, <2>2
<1> QED BY <1>1, <1>3, <1>4, <1>5, <1>6 DEF ResolutionNext

(* Without storage faults, and with one manifest to a build id: whatever   *)
(* refreshes run beside it, serving_build() answers what was served at     *)
(* some moment of the call (snapshot.py 382-435 as server.py calls it).    *)
THEOREM UnlockedReadsAreTrue ==
    ASSUME Undisturbed PROVE ResolutionSpec => []UnlockedReadsAreAtomic
<1>1. ResolutionInit => Steady /\ Reading /\ UnlockedReadsAreAtomic
  BY InitIsSteady DEF ResolutionInit, Reading, UnlockedReadsAreAtomic
<1>2. Steady /\ [ResolutionNext]_<<vars, resolution>> => Steady'
  BY ResolutionStep, StepIsSteady
<1>3. /\ Steady /\ Reading /\ UnlockedReadsAreAtomic
      /\ [ResolutionNext]_<<vars, resolution>>
      => (Steady /\ Reading /\ UnlockedReadsAreAtomic)'
  BY <1>2, ReadsAreTrue
<1> QED BY <1>1, <1>3, PTL DEF ResolutionSpec


-----------------------------------------------------------------------------
(* The external monitor.                                                   *)

(* An attested pointer is installed over a held one only when it is newer. *)
LEMMA InstallIsNewer ==
    ASSUME NEW p, NEW time, NEW held \in Pointers,
           EvaluatePointer(p, time, held) = "install"
    PROVE  p \in Pointers /\ p \in Attested /\ Newer(p, held)
<1>1. UniversallyValid(p, time) /\ held # None
  BY PointerAssumption DEF EvaluatePointer, SentinelAssumption
<1>2. p \in Pointers /\ p \in Attested
  BY <1>1 DEF UniversallyValid
<1>3. p.pointer_version \in Nat /\ held.pointer_version \in Nat
  BY <1>2, PointerAssumption DEF ManifestAssumption
<1>4. ~Newer(held, p)
  BY <1>1 DEF EvaluatePointer
<1>5. p # held
  BY <1>1, <1>4 DEF EvaluatePointer
<1>6. p.pointer_version # held.pointer_version
  BY <1>1, <1>4, <1>5 DEF EvaluatePointer
<1> QED
  BY <1>2, <1>3, <1>4, <1>6 DEF Newer

(* A poll about to persist holds a pointer that passed in full against the *)
(* baseline it is about to replace.                                        *)
EarnedWhenPersisting ==
    step = "persist" =>
        /\ trust \in Pointers /\ seen \in Pointers
        /\ Newer(seen, trust) /\ seen \in Attested
        /\ Authentic(seen) /\ verdict = "pass"

(* A failure that was concluded is still in the counter when the next poll *)
(* looks, or the poll that would have cleared it reports.                  *)
FailuresAreCounted ==
    /\ step = "count" => verdict = "fail"
    /\ step \in {"idle", "count"} /\ streak >= 1 => failures >= 1
    /\ step = "alert" /\ verdict = "fail" => failures >= 1
    /\ step = "alert" => verdict \in {"fail", "alarm"}
    /\ step = "clear" => verdict = "alarm"

MonitorInv ==
    /\ MonitorTypeOK
    /\ EarnedWhenPersisting
    /\ FailuresAreCounted
    /\ SecondFailureAlerts

-----------------------------------------------------------------------------

LEMMA MonitorInitHolds == MonitorInit => MonitorInv
<1> SUFFICES ASSUME MonitorInit PROVE MonitorInv
  OBVIOUS
<1>1. MonitorTypeOK
  <2>1. failures \in 0..MaxFailures /\ clock \in 0..MaxClock /\ streak \in 0..FailureAlarm
    BY MonitorAssumption DEF MonitorAssumption, MonitorInit, FailureAlarm
  <2>2. alerted \in BOOLEAN /\ outage \in BOOLEAN
    BY Zenon DEF MonitorInit
  <2> QED BY <2>1, <2>2 DEF MonitorInit, MonitorTypeOK
<1>2. EarnedWhenPersisting /\ FailuresAreCounted
  BY DEF MonitorInit, EarnedWhenPersisting, FailuresAreCounted
<1>3. SecondFailureAlerts
  BY DEF MonitorInit, SecondFailureAlerts, FailureAlarm
<1> QED BY <1>1, <1>2, <1>3 DEF MonitorInv

(* A poll passes only with an authentic pointer, and goes on to persist    *)
(* only when that pointer was newer than the baseline.                     *)
LEMMA PassingPoll ==
    ASSUME NEW e, trust \in Pointers, Conclude(e) = "pass"
    PROVE  /\ e.pointer \in Pointers /\ Authentic(e.pointer)
           /\ EvaluatePointer(e.pointer, clock, trust) = "install" =>
                Newer(e.pointer, trust) /\ e.pointer \in Attested
<1>1. EvaluatePointer(e.pointer, clock, trust) # "rejected" /\ Authentic(e.pointer)
  BY DEF Conclude
<1>2. e.pointer \in Pointers
  BY <1>1 DEF EvaluatePointer, UniversallyValid
<1> QED BY <1>1, <1>2, InstallIsNewer

LEMMA PollKeeps ==
    ASSUME MonitorInv, NEW e \in Evidence, Poll(e)
    PROVE  MonitorInv'
<1> USE DEF MonitorInv
<1>1. Conclude(e) \in {"fail", "alarm", "pass"}
  BY DEF Conclude
<1>2. /\ verdict' = Conclude(e) /\ trust' = trust /\ trust \in Pointers
      /\ clock' = clock /\ streak' = streak /\ failures' = failures
      /\ outage' = outage /\ alerted' = FALSE /\ step = "idle"
      /\ seen' = IF Conclude(e) = "pass" THEN e.pointer ELSE None
  BY DEF Poll
<1>3. CASE Conclude(e) = "pass"
  <2>1. /\ e.pointer \in Pointers /\ Authentic(e.pointer)
        /\ EvaluatePointer(e.pointer, clock, trust) = "install" =>
             Newer(e.pointer, trust) /\ e.pointer \in Attested
    BY <1>2, <1>3, PassingPoll
  <2>2. step' = IF EvaluatePointer(e.pointer, clock, trust) = "install"
                THEN "persist" ELSE "reset"
    BY <1>3 DEF Poll
  <2>3. MonitorTypeOK'
    BY <1>2, <1>3, <2>1, <2>2 DEF MonitorTypeOK, FailureAlarm
  <2>4. EarnedWhenPersisting'
    BY <1>2, <1>3, <2>1, <2>2 DEF EarnedWhenPersisting, Authentic, Newer
  <2>5. FailuresAreCounted' /\ SecondFailureAlerts'
    BY <2>2 DEF FailuresAreCounted, SecondFailureAlerts
  <2> QED BY <2>3, <2>4, <2>5
<1>4. CASE Conclude(e) # "pass"
  <2>1. step' = IF Conclude(e) = "fail" THEN "count" ELSE "clear"
    BY <1>1, <1>4 DEF Poll
  <2>2. MonitorTypeOK'
    BY <1>1, <1>2, <1>4, <2>1 DEF MonitorTypeOK
  <2>3. EarnedWhenPersisting' /\ SecondFailureAlerts'
    BY <2>1 DEF EarnedWhenPersisting, SecondFailureAlerts
  <2>4. FailuresAreCounted'
    BY <1>1, <1>2, <1>4, <2>1 DEF FailuresAreCounted
  <2> QED BY <2>2, <2>3, <2>4
<1> QED BY <1>3, <1>4

LEMMA FailClosedKeeps ==
    ASSUME MonitorInv, FailClosed
    PROVE  MonitorInv'
  BY MonitorAssumption
     DEF MonitorAssumption, FailureAlarm, MonitorInv, FailClosed, MonitorTypeOK,
         EarnedWhenPersisting, FailuresAreCounted, SecondFailureAlerts

LEMMA CountKeeps ==
    ASSUME MonitorInv, CountFailure
    PROVE  MonitorInv'
<1> USE DEF MonitorInv
<1>1. /\ step = "count" /\ verdict = "fail" /\ verdict' = "fail"
      /\ failures' \in 0..MaxFailures /\ failures' >= 1
      /\ failures' < FailureAlarm => streak = 0
  BY MonitorAssumption
     DEF MonitorAssumption, CountFailure, Increment, MonitorTypeOK, FailureAlarm,
         FailuresAreCounted
<1>2. CASE failures' >= FailureAlarm
  <2>1. step' = "alert" /\ seen' = seen /\ streak' = streak
    BY <1>2 DEF CountFailure
  <2> QED BY <1>1, <2>1
        DEF CountFailure, MonitorTypeOK, EarnedWhenPersisting, FailuresAreCounted,
            SecondFailureAlerts
<1>3. CASE ~(failures' >= FailureAlarm)
  <2>1. streak = 0
    BY <1>1, <1>3 DEF MonitorTypeOK, FailureAlarm
  <2>2. step' = "idle" /\ seen' = None /\ streak' = 1
    BY <1>3, <2>1 DEF CountFailure, Finish, FailureAlarm
  <2> QED BY <1>1, <2>2
        DEF CountFailure, MonitorTypeOK, EarnedWhenPersisting, FailuresAreCounted,
            SecondFailureAlerts, FailureAlarm
<1> QED BY <1>2, <1>3

LEMMA ClearKeeps ==
    ASSUME MonitorInv, ClearForAlarm
    PROVE  MonitorInv'
  BY MonitorAssumption
     DEF MonitorAssumption, MonitorInv, ClearForAlarm, MonitorTypeOK,
         EarnedWhenPersisting, FailuresAreCounted, SecondFailureAlerts

LEMMA AlertKeeps ==
    ASSUME MonitorInv, Alert
    PROVE  MonitorInv'
<1> USE DEF MonitorInv
<1>1. /\ step' = "idle" /\ seen' = None /\ alerted' = TRUE
      /\ verdict' = verdict /\ failures' = failures
  BY DEF Alert, Finish
<1>2. /\ streak' \in 0..FailureAlarm
      /\ streak' >= 1 => verdict = "fail"
  <2>1. streak \in 0..FailureAlarm
    BY DEF MonitorTypeOK
  <2>2. Finish(verdict)
    BY DEF Alert
  <2> QED BY <2>1, <2>2 DEF Finish, FailureAlarm
<1>3. MonitorTypeOK'
  <2>1. UNCHANGED <<trust, failures, verdict, clock, outage>>
    BY DEF Alert
  <2>2. alerted' \in BOOLEAN /\ outage' \in BOOLEAN
    BY <1>1, <2>1, Zenon DEF MonitorTypeOK
  <2> QED BY <1>1, <1>2, <2>1, <2>2 DEF MonitorTypeOK, FailureAlarm
<1>4. EarnedWhenPersisting' /\ SecondFailureAlerts'
  BY <1>1 DEF EarnedWhenPersisting, SecondFailureAlerts
<1>5. FailuresAreCounted'
  BY <1>1, <1>2 DEF Alert, FailuresAreCounted
<1> QED BY <1>3, <1>4, <1>5

LEMMA PersistKeeps ==
    ASSUME MonitorInv, Persist
    PROVE  MonitorInv'
  BY DEF MonitorInv, Persist, MonitorTypeOK, EarnedWhenPersisting,
         FailuresAreCounted, SecondFailureAlerts

LEMMA ResetKeeps ==
    ASSUME MonitorInv, Reset
    PROVE  MonitorInv'
<1> USE DEF MonitorInv
<1>1. step' = "idle" /\ seen' = None /\ streak' = 0 /\ failures' = 0
  <2>1. Finish("pass") /\ failures' = 0
    BY DEF Reset
  <2> QED BY <2>1 DEF Finish
<1>2. MonitorTypeOK'
  <2>1. failures' \in 0..MaxFailures /\ streak' \in 0..FailureAlarm
    BY <1>1, MonitorAssumption DEF MonitorAssumption, FailureAlarm
  <2>2. UNCHANGED <<trust, verdict, alerted, clock, outage>>
    BY DEF Reset
  <2>3. alerted' \in BOOLEAN /\ outage' \in BOOLEAN
    BY <2>2, Zenon DEF MonitorTypeOK
  <2> QED BY <1>1, <2>1, <2>2, <2>3 DEF MonitorTypeOK, FailureAlarm
<1>3. EarnedWhenPersisting' /\ FailuresAreCounted'
  BY <1>1 DEF EarnedWhenPersisting, FailuresAreCounted
<1>4. SecondFailureAlerts'
  BY <1>1 DEF SecondFailureAlerts, FailureAlarm
<1> QED BY <1>2, <1>3, <1>4

LEMMA DiesKeeps ==
    ASSUME MonitorInv, Dies
    PROVE  MonitorInv'
<1> USE DEF MonitorInv
<1>1. failures' \in 0..MaxFailures /\ step' = "idle" /\ seen' = None /\ streak' = 0
  BY MonitorAssumption DEF MonitorAssumption, Dies, MonitorTypeOK
<1>2. streak' \in 0..FailureAlarm /\ ~(streak' >= FailureAlarm)
  BY <1>1 DEF FailureAlarm
<1>3. MonitorTypeOK'
  <2>1. UNCHANGED <<trust, verdict, alerted, clock, outage>>
    BY DEF Dies
  <2>2. alerted' \in BOOLEAN /\ outage' \in BOOLEAN
    BY <2>1, Zenon DEF MonitorTypeOK
  <2> QED BY <1>1, <1>2, <2>1, <2>2 DEF MonitorTypeOK, FailureAlarm
<1>4. EarnedWhenPersisting' /\ FailuresAreCounted' /\ SecondFailureAlerts'
  BY <1>1, <1>2
     DEF EarnedWhenPersisting, FailuresAreCounted, SecondFailureAlerts
<1> QED BY <1>3, <1>4

LEMMA EnvironmentKeeps ==
    ASSUME MonitorInv, LoseTrust \/ RestoreTrust \/ Wait \/ FeedBreaks
    PROVE  MonitorInv'
<1> USE DEF MonitorInv
<1>1. /\ UNCHANGED <<failures, step, seen, verdict, alerted, streak>>
      /\ trust' = trust \/ step = "idle"
  BY DEF LoseTrust, RestoreTrust, Wait, FeedBreaks
<1>2. trust' \in Pointers \cup {None, Corrupt}
  BY DEF LoseTrust, RestoreTrust, Wait, FeedBreaks, MonitorTypeOK
<1>3. clock' \in 0..MaxClock
  <2>1. \/ clock' = clock
        \/ clock < MaxClock /\ clock' = clock + 1
    BY DEF LoseTrust, RestoreTrust, Wait, FeedBreaks
  <2>2. clock \in 0..MaxClock /\ MaxClock \in Nat
    BY MonitorAssumption DEF MonitorAssumption, MonitorTypeOK
  <2> QED BY <2>1, <2>2
<1>4. outage' \in BOOLEAN
  <2>1. outage' = outage \/ outage' = TRUE
    BY Zenon DEF LoseTrust, RestoreTrust, Wait, FeedBreaks
  <2> QED BY <2>1, Zenon DEF MonitorTypeOK
<1>5. MonitorTypeOK'
  BY <1>1, <1>2, <1>3, <1>4 DEF MonitorTypeOK, FailureAlarm
<1>6. EarnedWhenPersisting'
  BY <1>1 DEF EarnedWhenPersisting, Newer, Authentic
<1>7. FailuresAreCounted' /\ SecondFailureAlerts'
  BY <1>1 DEF FailuresAreCounted, SecondFailureAlerts
<1> QED BY <1>5, <1>6, <1>7

-----------------------------------------------------------------------------

THEOREM MonitorInvariant == MonitorSpec => []MonitorInv
<1>1. ASSUME MonitorInv, [MonitorNext]_monitorVars
      PROVE  MonitorInv'
  <2>1. CASE Run
    BY <1>1, <2>1, PollKeeps, FailClosedKeeps, CountKeeps, ClearKeeps,
       AlertKeeps, PersistKeeps, ResetKeeps DEF Run
  <2>2. CASE Dies
    BY <1>1, <2>2, DiesKeeps
  <2>3. CASE LoseTrust \/ RestoreTrust \/ Wait \/ FeedBreaks
    BY <1>1, <2>3, EnvironmentKeeps
  <2>4. CASE UNCHANGED monitorVars
    BY <1>1, <2>4
       DEF monitorVars, MonitorInv, MonitorTypeOK, EarnedWhenPersisting,
           FailuresAreCounted, SecondFailureAlerts, Newer, Authentic
  <2> QED BY <1>1, <2>1, <2>2, <2>3, <2>4 DEF MonitorNext
<1> QED BY <1>1, MonitorInitHolds, PTL DEF MonitorSpec

(* The monitor's files and the poll stay well typed (run_monitor).         *)
THEOREM MonitorTypeCorrect == MonitorSpec => []MonitorTypeOK
  BY MonitorInvariant, PTL DEF MonitorInv

(* No two consecutive failed polls go unreported (_fail), for any bound on *)
(* the counter and whatever crashes leave of its file.                     *)
THEOREM SecondFailureIsReported == MonitorSpec => []SecondFailureAlerts
  BY MonitorInvariant, PTL DEF MonitorInv

(* A pointer becomes the baseline only in a poll that passed in full and   *)
(* only over an older one (run_monitor, monitor.py 293-297).               *)
THEOREM BaselineOnlyEarned == MonitorSpec => BaselineIsEarned
<1>1. ASSUME MonitorInv, [MonitorNext]_monitorVars,
             trust' \in Pointers, trust' # trust
      PROVE  \/ step = "idle" /\ trust \notin Pointers
             \/ /\ trust \in Pointers
                /\ Newer(trust', trust) /\ trust' \in Attested
                /\ Authentic(trust') /\ verdict = "pass"
  <2>1. Persist \/ RestoreTrust \/ LoseTrust
    BY <1>1 DEF MonitorNext, Run, FailClosed, Poll, CountFailure, ClearForAlarm,
                Alert, Reset, Dies, Wait, FeedBreaks, monitorVars
  <2>2. CASE Persist
    BY <1>1, <2>2 DEF Persist, MonitorInv, EarnedWhenPersisting
  <2>3. CASE RestoreTrust
    BY <2>3 DEF RestoreTrust
  <2>4. CASE LoseTrust
    BY <1>1, <2>4, PointerAssumption DEF LoseTrust, SentinelAssumption
  <2> QED BY <2>1, <2>2, <2>3, <2>4
<1> QED BY <1>1, MonitorInvariant, PTL DEF MonitorSpec, BaselineIsEarned

=============================================================================
