------------------------------ MODULE MCMonitor ------------------------------
(***************************************************************************)
(* An instance of Monitor: a first pointer, two that follow it, and one    *)
(* each of the kinds a poll must not adopt.                                *)
(***************************************************************************)
EXTENDS Monitor

CONSTANTS b1, b2

Manifest(b, carries) == [build_id |-> b, carries |-> carries, requires |-> 1]

Pointer(version, b, m, issued, expires) ==
    [pointer_version |-> version, build_id |-> b, manifest |-> m,
     issued_at |-> issued, expires_at |-> expires]

First  == Manifest(b1, TRUE)
Second == Manifest(b2, TRUE)
Forged == Manifest(b2, FALSE)      \* no attestation verifies

P1     == Pointer(1, b1, First, 0, 1)     \* expires at the first tick
P2     == Pointer(2, b2, Second, 0, 9)
P2eq   == Pointer(2, b1, First, 0, 9)     \* other bytes, the same version
P3     == Pointer(3, b1, First, 1, 9)     \* issued at the first tick
P3bad  == Pointer(3, b2, Forged, 0, 9)    \* names an unattested manifest
P3swap == Pointer(3, b2, First, 0, 9)     \* names another build's manifest
P4un   == Pointer(4, b1, First, 0, 9)     \* is itself unattested

MCBuilds == {b1, b2}
MCManifests == {First, Second, Forged}
MCPointers == {P1, P2, P2eq, P3, P3bad, P3swap, P4un}
MCAttested == {P1, P2, P2eq, P3, P3bad, P3swap, First, Second}
AllHazards == {"crash", "disk", "state"}

=============================================================================
