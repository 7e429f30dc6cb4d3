--------------------------- MODULE MCCongressNightly ---------------------------
(***************************************************************************)
(* Instances of CongressNightly: one House report, a Senate report that    *)
(* starts as a paper scan, its amendment, and a seed filing.               *)
(***************************************************************************)
EXTENDS CongressNightly

CONSTANTS h1, s1, s2, k1

HouseOnly == {h1}
TwoReports == {s1, s2}
OneReport == {s1}
OneSeed == {k1}
SeedOfHouse == [k \in {k1} |-> h1]
SecondAmends == [a \in {s2} |-> s1]
NoAllowance == {{}}
AnyRun == BOOLEAN
=============================================================================
