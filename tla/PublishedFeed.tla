----------------------------- MODULE PublishedFeed -----------------------------
(***************************************************************************)
(* What the publisher promises its consumers (ARCHITECTURE.md 5.5, 13.3):  *)
(* releases that never change once available, and one latest.json whose    *)
(* version only grows and which only ever names a release that is          *)
(* available with the very content the pointer vouches for.                *)
(***************************************************************************)
EXTENDS BuildPointer

VARIABLES
    available,   \* per build id, the content of its public release, or 0
    latest       \* what a consumer fetches as latest.json

feed == <<available, latest>>

FeedInit == available = [b \in Ids |-> 0] /\ latest = NoPointer

Release(b, k) ==
    /\ available[b] = 0
    /\ available' = [available EXCEPT ![b] = k]
    /\ UNCHANGED latest

Point(p) ==
    /\ p.version > latest.version
    /\ p.build \in Ids
    /\ available[p.build] = p.content
    /\ p.content # 0
    /\ latest' = p
    /\ UNCHANGED available

FeedNext ==
    \/ \E b \in Ids, k \in Contents : Release(b, k)
    \/ \E p \in Pointer : Point(p)

Feed == FeedInit /\ [][FeedNext]_feed

=============================================================================
