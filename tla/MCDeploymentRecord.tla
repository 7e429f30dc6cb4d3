--------------------------- MODULE MCDeploymentRecord ---------------------------
(***************************************************************************)
(* Instances of DeploymentRecord: builds that share a commit, and an       *)
(* operator with a bounded number of things to do by hand.                 *)
(***************************************************************************)
EXTENDS DeploymentRecord

CONSTANTS s1, s2

TwoBuilds == 1..2
ThreeBuilds == 1..3
TwoSigners == {s1, s2}
=============================================================================
