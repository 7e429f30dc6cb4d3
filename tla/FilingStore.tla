------------------------------ MODULE FilingStore ------------------------------
(***************************************************************************)
(* The congress store: what one filing row and its transactions hold, and  *)
(* what each writer of the store does to them (load.py, amendments.py,     *)
(* views.sql, the join of members.py and the crosswalk of backfill.py).    *)
(* A store is a function from filings to records; a filing that was never  *)
(* loaded is Absent.  Its transactions are a number of rows: which rows    *)
(* they are is never asked, only how many survive.                         *)
(***************************************************************************)
EXTENDS Naturals, FiniteSets

CONSTANTS
    House,      \* filings of the Clerk's index
    Senate,     \* filings of the eFD index
    Kadoa,      \* filings of the licensed third-party seed
    Twin,       \* Twin[k]: the primary filing that seed filing k represents
    Amends,     \* Amends[a]: the report an amendment names in its title
    Punctual,   \* reports filed on the date their title gives
    None        \* no row, no link, nothing published

Absent == None
Primary == House \cup Senate
Filings == Primary \cup Kadoa

(* Ids carry their source: no two of the three share one.                  *)
ASSUME FilingAssumption ==
    /\ House \cap Senate = {} /\ Kadoa \cap Primary = {}
    /\ Twin \in [Kadoa -> Primary]
    /\ None \notin Filings

(* Kind is what the document url says: a paper scan, or a page.  "parsed"  *)
(* stands for the code's parsed and partial, which no decision here tells  *)
(* apart; archived is raw_path IS NOT NULL.                                *)
Filing == [status: {"parsed", "needs_ocr", "failed"}, kind: {"ptr", "paper"},
           archived: BOOLEAN, rows: Nat, flagged: BOOLEAN, joined: BOOLEAN,
           lifecycle: {"active", "retired"}, filed: Nat,
           supersedes: Filings \cup {None}]

ASSUME RowAssumption == None \notin Filing

Loaded(store) == {f \in DOMAIN store : store[f] # Absent}

(* An upsert replaces the whole row and its transactions in one            *)
(* transaction.  It takes no bioguide_id, so the join is lost until the    *)
(* next members run; the supersedes column is not in its update list.      *)
Upsert(store, f, page, lifecycle) ==
    [store EXCEPT ![f] =
        [status |-> page.status, kind |-> page.kind,
         archived |-> page.archived, rows |-> page.rows,
         flagged |-> page.rows > 0 /\ f \in DOMAIN Amends,
         joined |-> FALSE, lifecycle |-> lifecycle, filed |-> page.filed,
         supersedes |-> IF store[f] = Absent THEN None
                                             ELSE store[f].supersedes]]

(* A reparse replaces the transactions and the outcome of the parse.       *)
LoadFiling(store, f, page) ==
    [store EXCEPT ![f].status = page.status, ![f].rows = page.rows,
                  ![f].flagged = page.rows > 0 /\ f \in DOMAIN Amends]

(* The ingests read the lifecycle back and replay it.                      *)
Standing(store, f) == IF store[f] = Absent THEN "active"
                                           ELSE store[f].lifecycle

(* Conservative pairing.  An original is a row of the current index with   *)
(* the amendment's filer and title date, or a stored report of that filer  *)
(* that was filed on the title date.                                       *)
Candidates(store, index, a) ==
    {f \in Senate : f = Amends[a] /\ (f \in index \/ f \in Punctual \cap Loaded(store))}

LinkAmendments(store, index) ==
    [f \in DOMAIN store |->
        IF f \in index \cap DOMAIN Amends /\ store[f] # Absent
        THEN [store[f] EXCEPT !.supersedes =
                LET found == Candidates(store, index, f) IN
                IF Cardinality(found) = 1 THEN CHOOSE o \in found : TRUE
                                          ELSE None]
        ELSE store[f]]

(* Both sides of every link carry amendment_unresolved.                    *)
FlagPairs(store) ==
    LET linked == {a \in Loaded(store) : store[a].supersedes # None}
        sides == linked \cup {store[a].supersedes : a \in linked}
    IN [f \in DOMAIN store |->
            IF f \in sides /\ store[f] # Absent /\ store[f].rows > 0
            THEN [store[f] EXCEPT !.flagged = TRUE] ELSE store[f]]

(* The crosswalk retires an active seed filing whose primary is parsed     *)
(* under the same document url.                                            *)
Crosswalk(store) ==
    [f \in DOMAIN store |->
        IF /\ f \in Kadoa \cap Loaded(store)
           /\ store[f].lifecycle = "active"
           /\ Twin[f] \in Loaded(store)
           /\ store[Twin[f]].status = "parsed"
           /\ store[Twin[f]].kind = store[f].kind
        THEN [store[f] EXCEPT !.lifecycle = "retired"]
        ELSE store[f]]

(* The join pass resolves every filing anew against the roster.            *)
JoinMembers(store, roster) ==
    [f \in DOMAIN store |->
        IF store[f] = Absent THEN Absent
        ELSE [store[f] EXCEPT !.joined = f \in roster]]

(* Every filing of the index holds a status that is not failed.            *)
Reconciled(store, index) ==
    \A f \in index : store[f] # Absent /\ store[f].status # "failed"

FloorByCount(baseline, store, allowed) ==
    Cardinality(Loaded(baseline)) <= Cardinality(Loaded(store))

FloorOfGrowth(baseline, store, allowed) ==
    \A f \in Loaded(baseline) :
        f \in Loaded(store) /\ store[f].rows > baseline[f].rows

(* The corpus floor: by identity, never by count.                          *)
FloorHolds(baseline, store, allowed) ==
    \A f \in Loaded(baseline) :
        /\ f \in Loaded(store)
        /\ f \notin allowed =>
              /\ baseline[f].joined => store[f].joined
              /\ store[f].rows >= baseline[f].rows

=============================================================================
