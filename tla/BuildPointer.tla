------------------------------ MODULE BuildPointer ------------------------------
(***************************************************************************)
(* Build ids, build contents and latest.json as the publisher writes it    *)
(* (build_pointer, src/populus/publish/pointer.py).  Issue and expiry      *)
(* times are the consumer's business, see TrustedPointer.                  *)
(***************************************************************************)
EXTENDS Integers

CONSTANTS
    MaxBuilds,     \* build ids of one day are 1..MaxBuilds
    MaxContents,   \* assembled contents are 1..MaxContents, 0 is none
    MaxVersion     \* bound on pointer_version

Ids      == 1..MaxBuilds
Contents == 1..MaxContents

ASSUME FeedAssumption ==
    MaxBuilds \in Nat \ {0} /\ MaxContents \in Nat \ {0} /\ MaxVersion \in Nat

(* latest.json: its version, the build it names and the content whose      *)
(* manifest it hashes.  Version 0 stands for an absent file.               *)
Pointer   == [version : 0..MaxVersion, build : 0..MaxBuilds,
              content : 0..MaxContents]
NoPointer == [version |-> 0, build |-> 0, content |-> 0]

=============================================================================
