----------------------------- MODULE ModuleService -----------------------------
(***************************************************************************)
(* What one module's cache promises, with no files, locks or crashes       *)
(* (docs/architecture/data-contracts/snapshot-withdrawal.md, section 1):   *)
(* a module is served only while the pointer the cache has committed to    *)
(* publishes it, and the commitment only moves to newer pointers.          *)
(***************************************************************************)
EXTENDS TrustedPointer

VARIABLES
    committed,    \* the pointer committed to, None before the first one
    served        \* the build being served, None when the module is absent

promise == <<committed, served>>

(* All a committed pointer allows to be served: its own build, when its    *)
(* manifest carries the module, and nothing otherwise.                     *)
Servable(p) ==
    {None} \cup (IF p \in Pointers /\ p.manifest.carries THEN {p.build_id}
                                                          ELSE {})

PromiseInit == committed = None /\ served = None

(* A newer attested pointer is committed; whatever was served before it is *)
(* withdrawn in the same step.                                             *)
Advance(p) ==
    /\ p \in Attested
    /\ committed # None => Newer(p, committed)
    /\ committed' = p
    /\ served' \in Servable(p)

(* The committed build becomes available, or stops being provable.         *)
Revise == committed' = committed /\ served' \in Servable(committed)

(* Every trace of the cache is gone: a new cache, with nothing to replay.  *)
Forget == committed' = None /\ served' = None

PromiseNext == Revise \/ Forget \/ \E p \in Pointers : Advance(p)

Promise == PromiseInit /\ [][PromiseNext]_promise

=============================================================================
