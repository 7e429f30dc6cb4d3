--------------------------- MODULE MCSnapshotClient ---------------------------
(***************************************************************************)
(* Instances of SnapshotClient: the smallest sets of pointers that hold a  *)
(* withdrawal, a rollback to the withdrawn build, an equivocation, an      *)
(* unattested pointer, and an expiry.                                      *)
(***************************************************************************)
EXTENDS SnapshotClient

CONSTANTS c1, c2, b1, b2

Manifest(b, carries, requires) ==
    [build_id |-> b, carries |-> carries, requires |-> requires]

Pointer(version, b, m, issued, expires) ==
    [pointer_version |-> version, build_id |-> b, manifest |-> m,
     issued_at |-> issued, expires_at |-> expires]

First    == Manifest(b1, TRUE, 1)
Withheld == Manifest(b2, FALSE, 1)

P1   == Pointer(1, b1, First, 0, 1)      \* expires at the first tick
P2   == Pointer(2, b2, Withheld, 0, 9)   \* withdraws the module
P2eq == Pointer(2, b1, First, 0, 9)      \* other bytes, the same version
P3   == Pointer(3, b1, First, 1, 9)      \* republishes the first build
P3un == Pointer(4, b1, First, 0, 9)      \* no attestation verifies

TwoClients == {c1, c2}
TwoBuilds  == {b1, b2}
SameVersion  == [c \in TwoClients |-> 2]

HostilePointers == {P1, P2, P2eq, P3, P3un}
HostileManifests == {First, Withheld}
HostileAttested == {P1, P2, P2eq, P3, First, Withheld}

HonestPointers == {P1, P2, P3}
HonestManifests == {First, Withheld}
HonestAttested == HonestPointers \cup HonestManifests

NoFaults == {}
AllFaults == DiskFaults

=============================================================================
