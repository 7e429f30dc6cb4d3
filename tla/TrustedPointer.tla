---------------------------- MODULE TrustedPointer ----------------------------
(***************************************************************************)
(* latest.json and the pointer state machine every consumer runs on it     *)
(* (src/populus/publish/pointer.py).                                       *)
(*                                                                         *)
(* A pointer stands for its exact bytes: equal records are equal bytes and *)
(* have equal sha256, different records are different bytes.  The held     *)
(* trust tuple (pointer_version, pointer_sha256) is therefore the pointer  *)
(* itself.  A manifest likewise stands for its bytes; a pointer's          *)
(* manifest_sha256 is the manifest it names.                               *)
(***************************************************************************)
EXTENDS Integers

CONSTANTS
    Builds,       \* build ids ("20260725.1", ...)
    Manifests,    \* manifest documents that exist somewhere
    Pointers,     \* pointer documents that exist somewhere
    Attested,     \* the pointers and manifests whose attestation verifies
    Skew,         \* ISSUANCE_SKEW_SECONDS, in clock units
    None,         \* no tuple, no build, no record
    Corrupt,      \* a state file that exists and does not parse
    Garbage       \* fetched bytes that are not a schema-valid pointer

(* A manifest names its own build; "carries" says whether it lists the     *)
(* client's module, "requires" is the least client version its             *)
(* client_compat specifier admits.                                         *)
ManifestAssumption ==
    /\ \A m \in Manifests :
         /\ m.build_id \in Builds
         /\ m.carries \in BOOLEAN
         /\ m.requires \in Nat
    /\ \A p \in Pointers :
         /\ p.pointer_version \in Nat \ {0}
         /\ p.issued_at \in Int
         /\ p.expires_at \in Int
         /\ p.build_id \in Builds
         /\ p.manifest \in Manifests
    /\ Skew \in Nat

SentinelAssumption ==
    /\ None \notin Builds \cup Pointers \cup Manifests
    /\ Corrupt \notin Pointers \cup Manifests \cup {None}
    /\ Garbage \notin Pointers \cup {None, Corrupt}

ASSUME PointerAssumption == ManifestAssumption /\ SentinelAssumption

(* The universal checks, made on every fetched pointer before any version  *)
(* comparison and against the current clock.                               *)
UniversallyValid(p, now) ==
    /\ p \in Pointers
    /\ p.expires_at > now
    /\ p.issued_at <= now + Skew
    /\ p \in Attested

Newer(p, q) == p.pointer_version > q.pointer_version

(* The status of one fetched pointer against the held tuple.               *)
EvaluatePointer(p, now, trust) ==
    CASE ~UniversallyValid(p, now)                       -> "rejected"
      [] UniversallyValid(p, now) /\ trust = None        -> "bootstrap"
      [] /\ UniversallyValid(p, now) /\ trust # None
         /\ Newer(trust, p)                              -> "replay"
      [] /\ UniversallyValid(p, now) /\ trust # None
         /\ p = trust                                    -> "idempotent"
      [] /\ UniversallyValid(p, now) /\ trust # None
         /\ p # trust
         /\ p.pointer_version = trust.pointer_version    -> "equivocation"
      [] OTHER                                           -> "install"

=============================================================================
