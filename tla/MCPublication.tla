----------------------------- MODULE MCPublication -----------------------------
(***************************************************************************)
(* Two settings of Publication.  "Hosted" is the armed workflow: a nightly *)
(* runner that starts from a clean checkout, and an operator working from  *)
(* a clone of their own at the same time.  "Local" is a data repository    *)
(* that one person drives by hand: everything happens in one directory     *)
(* that survives between sessions.                                         *)
(***************************************************************************)
EXTENDS Publication

CONSTANTS runner, operator

BothWorkers == {runner, operator}
JustRunner == {runner}
OnlyFirst == {1}

Hosted == [fresh |-> TRUE, operators |-> {operator}, damages |-> FALSE,
           builds |-> 2, contents |-> 2, versions |-> 3]
Local  == [fresh |-> FALSE, operators |-> {runner}, damages |-> TRUE,
           builds |-> 3, contents |-> 3, versions |-> 3]
HostedAndLocal == {Hosted, Local}
=============================================================================
