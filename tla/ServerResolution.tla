--------------------------- MODULE ServerResolution ---------------------------
(***************************************************************************)
(* The MCP server resolving its institutional module at start-up           *)
(* (_resolve_inst_module, src/populus/mcp_server/server.py) while other    *)
(* processes refresh the same cache.                                       *)
(*                                                                         *)
(* After its own refresh() the server asks the client five questions, each *)
(* a fresh serving_build() that takes no lock and reads trust.json, then   *)
(* serving.json, then the build directory.                                 *)
(***************************************************************************)
EXTENDS SnapshotClient, Sequences

CONSTANT Server        \* the client process that is the MCP server
ASSUME ServerAssumption == Server \in Clients

VARIABLES
    question,    \* what is being asked, "idle" outside a resolution
    reading,     \* the read serving_build() makes next
    heldAnchor,  \* trust.json as this serving_build() read it
    heldRecord,  \* serving.json as this serving_build() read it
    window,      \* history: every value ServingBuild had during this call
    answer       \* history: what the last call answered, and its window

resolution == <<question, reading, heldAnchor, heldRecord, window, answer>>

(* db_path(), current_build(), current_manifest(), then the two calls      *)
(* serving_db_path() makes: its own current_build() and current_manifest() *)
Questions == <<"db_path", "build_id", "watermarks", "serving_db",
               "serving_manifest">>

ResolutionInit ==
    /\ Init
    /\ question = 0
    /\ reading = "anchor"
    /\ heldAnchor = None
    /\ heldRecord = None
    /\ window = {}
    /\ answer = [build |-> None, window |-> {None}]

(* The server's refresh has returned; it starts asking.                    *)
StartResolving ==
    /\ question = 0
    /\ pc[Server] = "idle"
    /\ result.client = Server
    /\ question' = 1
    /\ UNCHANGED <<vars, reading, heldAnchor, heldRecord, window, answer>>

ReadAnchor ==
    /\ question # 0 /\ reading = "anchor"
    /\ heldAnchor' = anchor
    /\ window' = {ServingBuild}
    /\ reading' = "record"
    /\ UNCHANGED <<vars, question, heldRecord, answer>>

ReadRecord ==
    /\ reading = "record"
    /\ heldRecord' = record
    /\ reading' = "build"
    /\ UNCHANGED <<vars, question, heldAnchor, window, answer>>

(* Mutant: a committed tuple and its build are taken for enough.           *)
HeldProvesByAnchor ==
    /\ heldAnchor \in Pointers
    /\ BuildComplete(heldAnchor.build_id, heldAnchor.manifest)

(* serving_build() on what was read, against the directory as it is now.   *)
HeldProves ==
    /\ heldAnchor \in Pointers
    /\ heldRecord \in Record
    /\ heldRecord.pointer = heldAnchor
    /\ heldRecord.installed_build = heldAnchor.build_id
    /\ BuildComplete(heldAnchor.build_id, heldAnchor.manifest)

ReadBuild ==
    LET b == IF HeldProves THEN heldAnchor.build_id ELSE None IN
    /\ reading = "build"
    /\ reading' = "anchor"
    /\ heldAnchor' = None
    /\ heldRecord' = None
    /\ window' = {}
    /\ answer' = [build |-> b, window |-> window]
    /\ question' = IF question = Len(Questions) \/ (question \in {1, 4} /\ b = None)
                   THEN 0 ELSE question + 1
    /\ UNCHANGED vars

(* Any step of the cache; the server itself is busy resolving.             *)
CacheStep ==
    /\ \/ question = 0 /\ Next
       \/ /\ question # 0
          /\ \/ \E c \in Clients \ {Server} : Progress(c) \/ Failure(c)
             \/ Tick \/ Settle \/ StorageFault
    /\ window' = IF reading = "anchor" THEN window
                                       ELSE window \cup {ServingBuild'}
    /\ UNCHANGED <<question, reading, heldAnchor, heldRecord, answer>>

ResolutionNext ==
    CacheStep \/ StartResolving \/ ReadAnchor \/ ReadRecord \/ ReadBuild

ResolutionSpec == ResolutionInit /\ [][ResolutionNext]_<<vars, resolution>>

-----------------------------------------------------------------------------

(* serving_build() takes no lock, yet what it answers was true at some     *)
(* moment during the call, whatever a concurrent refresh was doing: a      *)
(* reader never proves a build that was at no time servable, and never     *)
(* misses one that was servable throughout.                                *)
UnlockedReadsAreAtomic == answer.build \in answer.window

=============================================================================
