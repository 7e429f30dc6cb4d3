------------------------------- MODULE Monitor -------------------------------
(***************************************************************************)
(* The external heartbeat (run_monitor,                                    *)
(* src/populus/monitoring/monitor.py): a consumer that polls latest.json   *)
(* against a trust tuple of its own, checks what the pointer leads to, and *)
(* alerts.  Its durable state is the tuple and a counter of consecutive    *)
(* failures; a poll writes them one after the other.                       *)
(***************************************************************************)
EXTENDS TrustedPointer

CONSTANTS
    Hazards,       \* what may go wrong: "crash", "disk", "state"
    MaxFailures,   \* bound on the counter
    MaxClock       \* bound on the clock

FailureAlarm == 2    \* CONSECUTIVE_FAILURE_ALARM

ASSUME MonitorAssumption ==
    /\ Hazards \subseteq {"crash", "disk", "state"}
    /\ MaxFailures \in Nat /\ MaxFailures >= FailureAlarm
    /\ MaxClock \in Nat

VARIABLES
    trust,      \* pointer-tuple.json: None, Corrupt, or the held pointer
    failures,   \* the failures file; one that does not parse reads as 0
    step,       \* where the poll is
    seen,       \* the pointer this poll accepted
    verdict,    \* what this poll, or the last one, concluded
    alerted,    \* whether it alerted
    clock,
    outage,     \* TRUE once the feed stays unreachable or stale for good
    streak      \* history: how many polls in a row concluded "fail"

monitorVars == <<trust, failures, step, seen, verdict, alerted, clock, outage,
                 streak>>

MonitorTypeOK ==
    /\ trust \in Pointers \cup {None, Corrupt}
    /\ failures \in 0..MaxFailures
    /\ step \in {"idle", "count", "clear", "alert", "persist", "reset"}
    /\ seen \in Pointers \cup {None}
    /\ verdict \in {"none", "closed", "fail", "alarm", "pass"}
    /\ alerted \in BOOLEAN
    /\ clock \in 0..MaxClock
    /\ outage \in BOOLEAN
    /\ streak \in 0..FailureAlarm

MonitorInit ==
    /\ trust = None
    /\ failures = 0
    /\ step = "idle"
    /\ seen = None
    /\ verdict = "none"
    /\ alerted = FALSE
    /\ clock = 0
    /\ outage = FALSE
    /\ streak = 0

-----------------------------------------------------------------------------

(* What one poll finds: the pointer bytes it fetched (None if the fetch    *)
(* failed), whether the manifest they name could be fetched, what          *)
(* stats.json says about age and watermarks, and the settings check.       *)
Evidence == [pointer  : Pointers \cup {None, Garbage},
             manifest : BOOLEAN,
             stats    : {"current", "stale", "unusable"},
             setting  : {"passed", "unchecked", "failed"}]

Authentic(p) == p.manifest \in Attested /\ p.manifest.build_id = p.build_id

(* Mutant: what the pointer names is not authenticated.                    *)
ConcludeOnTrust(e) ==
    LET status == EvaluatePointer(e.pointer, clock, trust) IN
    CASE e.pointer = None \/ status \in {"rejected", "bootstrap"}  -> "fail"
      [] status \in {"replay", "equivocation"} /\ e.pointer # None -> "alarm"
      [] OTHER -> CASE ~e.manifest \/ e.stats = "unusable"         -> "fail"
                    [] e.manifest /\ e.stats = "stale"             -> "alarm"
                    [] OTHER -> IF e.setting = "failed" THEN "fail" ELSE "pass"

(* The checks in their order: the first that does not hold concludes.      *)
Conclude(e) ==
    LET status == EvaluatePointer(e.pointer, clock, trust) IN
    IF e.pointer = None                             THEN "fail"
    ELSE IF status \in {"replay", "equivocation"}   THEN "alarm"
    ELSE IF status \in {"rejected", "bootstrap"}    THEN "fail"
    ELSE IF ~e.manifest \/ ~Authentic(e.pointer)    THEN "fail"
    ELSE IF e.stats = "unusable"                    THEN "fail"
    ELSE IF e.stats = "stale"                       THEN "alarm"
    ELSE IF e.setting = "failed"                    THEN "fail"
    ELSE "pass"

Broken(e) == e.pointer = None \/ e.stats = "stale"

Increment(c) == IF c < MaxFailures THEN c + 1 ELSE c

(* Nothing is read back from a missing or corrupt tuple: alert and exit 2. *)
FailClosed ==
    /\ step = "idle"
    /\ trust \in {None, Corrupt}
    /\ verdict' = "closed"
    /\ alerted' = TRUE
    /\ streak' = 0
    /\ UNCHANGED <<trust, failures, step, seen, clock, outage>>

Poll(e) ==
    LET outcome == Conclude(e)
        status  == EvaluatePointer(e.pointer, clock, trust)
    IN
    /\ step = "idle"
    /\ trust \in Pointers
    /\ outage => Broken(e)
    /\ verdict' = outcome
    /\ alerted' = FALSE
    /\ seen' = IF outcome = "pass" THEN e.pointer ELSE None
    /\ step' = CASE outcome = "fail"  -> "count"
                 [] outcome = "alarm" -> "clear"
                 [] outcome = "pass"  -> IF status = "install" THEN "persist"
                                                               ELSE "reset"
    /\ UNCHANGED <<trust, failures, clock, outage, streak>>

(* The end of a poll that concluded v.                                     *)
Finish(v) ==
    /\ step' = "idle"
    /\ seen' = None
    /\ streak' = IF v # "fail"               THEN 0
                 ELSE IF streak < FailureAlarm THEN streak + 1
                 ELSE streak

(* Mutant: the counter is never carried from one poll to the next.         *)
CountFromZero ==
    /\ step = "count"
    /\ failures' = 1
    /\ Finish("fail")
    /\ UNCHANGED <<trust, verdict, alerted, clock, outage>>

(* _fail: count, and alert from the second consecutive failure on.         *)
CountFailure ==
    /\ step = "count"
    /\ failures' = Increment(failures)
    /\ IF failures' >= FailureAlarm
       THEN step' = "alert" /\ UNCHANGED <<seen, streak>>
       ELSE Finish("fail")
    /\ UNCHANGED <<trust, verdict, alerted, clock, outage>>

(* _alarm: the counter is cleared first, then the alarm goes out.          *)
ClearForAlarm ==
    /\ step = "clear"
    /\ failures' = 0
    /\ step' = "alert"
    /\ UNCHANGED <<trust, seen, verdict, alerted, clock, outage, streak>>

Alert ==
    /\ step = "alert"
    /\ alerted' = TRUE
    /\ Finish(verdict)
    /\ UNCHANGED <<trust, failures, verdict, clock, outage>>

(* Only after the full check does a higher pointer become the baseline.    *)
Persist ==
    /\ step = "persist"
    /\ trust' = seen
    /\ step' = "reset"
    /\ UNCHANGED <<failures, seen, verdict, alerted, clock, outage, streak>>

Reset ==
    /\ step = "reset"
    /\ failures' = 0
    /\ Finish("pass")
    /\ UNCHANGED <<trust, verdict, alerted, clock, outage>>

(* The process dies in a poll, or a write raises: nothing catches it.  The *)
(* counter is not written atomically and may be left empty.                *)
Dies ==
    /\ ~outage
    /\ \/ "crash" \in Hazards /\ step # "idle"
       \/ "disk" \in Hazards /\ step \in {"count", "clear", "persist", "reset"}
    /\ failures' \in IF step \in {"count", "clear", "reset"} THEN {failures, 0}
                                                             ELSE {failures}
    /\ step' = "idle"
    /\ seen' = None
    /\ streak' = 0
    /\ UNCHANGED <<trust, verdict, alerted, clock, outage>>

-----------------------------------------------------------------------------

LoseTrust ==
    /\ "state" \in Hazards /\ ~outage
    /\ step = "idle" /\ trust \in Pointers
    /\ trust' \in {None, Corrupt}
    /\ UNCHANGED <<failures, step, seen, verdict, alerted, clock, outage,
                   streak>>

(* The runbook: the operator restores a backup or pins a trusted floor,    *)
(* which may be an older or a newer pointer than the one that was lost.    *)
RestoreTrust ==
    /\ step = "idle" /\ trust \notin Pointers
    /\ trust' \in Pointers \cap Attested
    /\ UNCHANGED <<failures, step, seen, verdict, alerted, clock, outage,
                   streak>>

Wait ==
    /\ clock < MaxClock
    /\ clock' = clock + 1
    /\ UNCHANGED <<trust, failures, step, seen, verdict, alerted, outage,
                   streak>>

FeedBreaks ==
    /\ ~outage /\ outage' = TRUE
    /\ UNCHANGED <<trust, failures, step, seen, verdict, alerted, clock,
                   streak>>

Run == \/ FailClosed \/ (\E e \in Evidence : Poll(e))
       \/ CountFailure \/ ClearForAlarm \/ Alert \/ Persist \/ Reset

MonitorNext == Run \/ Dies \/ LoseTrust \/ RestoreTrust \/ Wait \/ FeedBreaks

MonitorSpec == MonitorInit /\ [][MonitorNext]_monitorVars

(* launchd starts a poll every six hours.                                  *)
MonitorFairSpec == MonitorSpec /\ WF_monitorVars(Run)

-----------------------------------------------------------------------------

(* The baseline moves only forward and only to an attested pointer whose   *)
(* manifest is attested and names the same build, in a poll that passed in *)
(* full; once lost, no poll brings one back, only a hand between two polls *)
(* (run_monitor, monitor.py 139-151, 293-297).                             *)
BaselineIsEarned ==
    [][trust' \in Pointers /\ trust' # trust =>
         \/ step = "idle" /\ trust \notin Pointers
         \/ /\ trust \in Pointers
            /\ Newer(trust', trust) /\ trust' \in Attested
            /\ Authentic(trust') /\ verdict = "pass"]_monitorVars

(* No two consecutive failed polls go unreported, whatever happened to the *)
(* counter file before them (_fail, monitor.py 155-160).                   *)
SecondFailureAlerts == step = "idle" /\ streak >= FailureAlarm => alerted

(* A feed that stays unreachable or stale is alerted on again and again:   *)
(* no run of polls leaves the counter short of the alarm for ever.         *)
OutageIsNoticed == outage ~> alerted

=============================================================================
