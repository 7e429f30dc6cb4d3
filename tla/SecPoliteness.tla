----------------------------- MODULE SecPoliteness -----------------------------
(***************************************************************************)
(* What the SEC client promises the agency (ARCHITECTURE.md 11.4): one     *)
(* request at a time, never two within MinInterval, and none at all once   *)
(* it was refused Threshold times in a row.                                *)
(***************************************************************************)
EXTENDS Integers

CONSTANTS
    MinInterval,   \* MIN_INTERVAL_S, in ticks of the clock: a natural number
    Threshold      \* CIRCUIT_403_THRESHOLD: at least 1

VARIABLES
    asking,     \* a request is under way
    quiet,      \* ticks since the last request went out, at most MinInterval
    refusals    \* refusals in a row

manners == <<asking, quiet, refusals>>

PolitenessInit == asking = FALSE /\ quiet = MinInterval /\ refusals = 0

Ask ==
    /\ ~asking /\ quiet = MinInterval /\ refusals < Threshold
    /\ asking' = TRUE /\ quiet' = 0
    /\ UNCHANGED refusals

(* SEC refuses, answers otherwise, or the connection fails.                *)
Answered ==
    /\ asking /\ asking' = FALSE
    /\ refusals' \in {refusals + 1, 0, refusals}
    /\ UNCHANGED quiet

Elapse == quiet < MinInterval /\ quiet' = quiet + 1 /\ UNCHANGED <<asking, refusals>>

Politeness == PolitenessInit /\ [][Ask \/ Answered \/ Elapse]_manners

=============================================================================
