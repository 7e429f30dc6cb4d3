-------------------------- MODULE MCServerResolution --------------------------
(***************************************************************************)
(* Instances of ServerResolution: two builds of the module published one   *)
(* after the other, then a withdrawal, then a rollback to the first build, *)
(* on a cache that c1 (the server) and c2 share.                           *)
(***************************************************************************)
EXTENDS ServerResolution

CONSTANTS c1, c2, b1, b2, b3

Manifest(b, carries) == [build_id |-> b, carries |-> carries, requires |-> 1]

Pointer(version, b, m) ==
    [pointer_version |-> version, build_id |-> b, manifest |-> m,
     issued_at |-> 0, expires_at |-> 9]

MCClients == {c1, c2}
MCVersions == [c \in MCClients |-> 1]
MCBuilds == {b1, b2, b3}
MCManifests == {Manifest(b1, TRUE), Manifest(b2, TRUE), Manifest(b3, FALSE)}
First    == Pointer(1, b1, Manifest(b1, TRUE))
Second   == Pointer(2, b2, Manifest(b2, TRUE))
Withdraw == Pointer(3, b3, Manifest(b3, FALSE))
Back     == Pointer(4, b1, Manifest(b1, TRUE))
MCPointers == {First, Second, Withdraw, Back}
MCAttested == MCPointers \cup MCManifests
NoFaults == {}

=============================================================================
