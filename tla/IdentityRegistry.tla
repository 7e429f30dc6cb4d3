---------------------------- MODULE IdentityRegistry ----------------------------
(***************************************************************************)
(* The identity registry: which security an identifier named on which day. *)
(* Two tables carry intervals, the settlement observations (FTD) and the   *)
(* definitional 13(f) list; a reviewed file, here a registry, declares who *)
(* owns an identifier when.  Each bootstrap first migrates what is stored  *)
(* to the registry it is given, cutting intervals and renaming, merging    *)
(* and splitting securities, then adds what it observes.  Holdings keep    *)
(* the security that they were resolved to when they were loaded.          *)
(*                                                                         *)
(* A run is one transaction: it is applied as a whole or not at all.       *)
(***************************************************************************)
EXTENDS Integers, FiniteSets, FiniteSetsExt, SequencesExt

CONSTANTS
    Values,         \* identifiers
    LastDay,        \* bound: the days are 0..LastDay
    Order,          \* every security id, in the order of their strings
    Provisional,    \* the id an undeclared identifier gets
    Registries,     \* the revisions of the reviewed file
    Files,          \* files of observations
    Lists,          \* for each quarter, the lists published for it
    Quarter,        \* its first day and the day after its last
    Holdings,       \* holdings, as <<identifier, period>>
    Horizon,        \* REUSE_REVIEW_HORIZON_DAYS
    MaxRuns,        \* bound: bootstraps
    None

SecurityIds == Range(Order)
Days == 0..LastDay
Reviews == {"auto", "reviewed", "disputed"}

Observation == [value : Values, day : Days, entity : STRING \cup {None}]

Registry == [owner : [Values -> [Days -> SecurityIds]],
             review : [SecurityIds -> Reviews],
             continuities : SUBSET [value : Values, from : Days, to : Days]]

ASSUME RegistryAssumption ==
    /\ LastDay \in Nat /\ Horizon \in Nat \ {0} /\ MaxRuns \in Nat
    /\ Order \in Seq(STRING) /\ Provisional \in [Values -> SecurityIds]
    /\ Registries \subseteq Registry /\ UNION Files \subseteq Observation
    /\ Holdings \subseteq Values \X Days

ASSUME ListAssumption ==
    /\ Lists \in [DOMAIN Lists -> SUBSET SUBSET Values]
    /\ Quarter \in [DOMAIN Lists -> [from : Days, to : 1..(LastDay + 1)]]
    /\ \A q \in DOMAIN Lists : Quarter[q].from < Quarter[q].to
    /\ \A q, p \in DOMAIN Lists :
          q # p => \/ Quarter[q].to <= Quarter[p].from
                  \/ Quarter[p].to <= Quarter[q].from

ASSUME NoneAssumption ==
    /\ None \notin STRING \cup DOMAIN Lists
    /\ "not loaded" \notin SecurityIds

VARIABLES
    tables,     \* the registry's tables and the holdings, see Empty
    applied,    \* the registry of the last run
    seen,       \* every observation so far
    ever,       \* every id that was ever stored
    settled,    \* the last run observed nothing new
    withdrawn,  \* identifiers that a replaced list took back
    runs

registryVars == <<tables, applied, seen, ever, settled, withdrawn, runs>>

(***************************************************************************)
(* Intervals.                                                              *)
(***************************************************************************)
OwnerOf(reg, v, d) == reg.owner[v][d]

Boundaries(reg, v) ==
    {d \in 1..LastDay : OwnerOf(reg, v, d) # OwnerOf(reg, v, d - 1)}

(* cut_interval: a row is cut at every boundary that it crosses.           *)
CutInterval(reg, r) ==
    LET starts == {r.from} \cup {b \in Boundaries(reg, r.value) :
                                    r.from < b /\ b < r.to}
        EndOf(a) == Min({r.to} \cup {b \in starts : b > a})
    IN {[r EXCEPT !.sid = OwnerOf(reg, r.value, a), !.from = a, !.to = EndOf(a)] :
            a \in starts}

(* A piece that moved gets the verdict of its new owner.                   *)
CutTable(reg, table) ==
    UNION {LET pieces == CutInterval(reg, r) IN
           IF pieces = {r} THEN {r}
           ELSE {[p EXCEPT !.review = reg.review[p.sid]] : p \in pieces} :
           r \in table}

(* union_intervals: days merge when they meet, never across a gap.         *)
UnionIntervals(days) ==
    {[from |-> a, to |-> Min({d \in a..(LastDay + 1) : d \notin days})] :
        a \in {d \in days : d - 1 \notin days}}

Covered(rows) == UNION {r.from..(r.to - 1) : r \in rows}

At(rows, v, d) == {r \in rows : r.value = v /\ r.from <= d /\ d < r.to}

ApplicableValue(rows) ==
    IF Cardinality(rows) = 1 /\ \A r \in rows : r.review # "disputed"
    THEN (CHOOSE r \in rows : TRUE).sid ELSE None

(* The definitional layer decides wherever it covers the day.              *)
ResolveCusip(s, v, d) ==
    IF At(s.lists, v, d) # {} THEN ApplicableValue(At(s.lists, v, d))
    ELSE ApplicableValue(At(s.ids, v, d))

(***************************************************************************)
(* Review of reuse: a gap as long as the horizon is disputed, unless a     *)
(* boundary falls into it or a reviewed continuity covers it.              *)
(***************************************************************************)
Gaps(rows, v) ==
    LET mine == {r \in rows : r.value = v}
        Successive(p, c) == ~ \E r \in mine : p.from < r.from /\ r.from < c.from
    IN UNION {{<<p.to, c.from>> : c \in {c \in mine : /\ c.from - p.to >= Horizon
                                                     /\ Successive(p, c)}} :
                 p \in mine}

AtBoundary(reg, v, gap) ==
    \E b \in Boundaries(reg, v) : gap[1] <= b /\ b <= gap[2]

Continued(reg, v, gap) ==
    \E c \in reg.continuities : /\ c.value = v
                                /\ c.from <= gap[1] /\ gap[2] <= c.to

(* What the gaps of an identifier mean for all its rows; None if nothing.  *)
ReuseVerdict(reg, rows, v) ==
    LET open == {g \in Gaps(rows, v) : ~AtBoundary(reg, v, g)} IN
    IF open = {} THEN None
    ELSE IF \A g \in open : Continued(reg, v, g) THEN "reviewed"
    ELSE "disputed"

ValuesOf(rows) == {r.value : r \in rows}

Stamp(rows, verdict) ==
    {IF verdict[r.value] = None THEN r
     ELSE [r EXCEPT !.review = verdict[r.value]] : r \in rows}

FlagReview(reg, rows) ==
    Stamp(rows, [v \in ValuesOf(rows) |->
                    IF ReuseVerdict(reg, rows, v) = "disputed"
                    THEN "disputed" ELSE None])

(* _reconcile_review_state: the verdict of reuse, or else of the owner; a  *)
(* dispute that the registry has resolved is lifted.                       *)
ReconcileReview(reg, rows) ==
    Stamp({[r EXCEPT !.review = reg.review[r.sid]] : r \in rows},
          [v \in ValuesOf(rows) |-> ReuseVerdict(reg, rows, v)])

(***************************************************************************)
(* The migration of what is stored.                                        *)
(***************************************************************************)
Stored(s) == DOMAIN s.links

Destinations(reg, s, x) ==
    LET rows == {r \in s.ids \cup s.lists : r.sid = x} IN
    IF rows = {} THEN {x}
    ELSE {p.sid : p \in UNION {CutInterval(reg, r) : r \in rows}}

Renamed(dest) ==
    {x \in DOMAIN dest : dest[x] # {x} /\ Cardinality(dest[x]) = 1}
Split(dest) == {x \in DOMAIN dest : Cardinality(dest[x]) > 1}
Receivers(dest) == UNION {dest[x] : x \in Renamed(dest) \cup Split(dest)}

NewId(dest, x) == CHOOSE y \in dest[x] : TRUE

Cyclic(dest) ==
    \E c \in (SUBSET Renamed(dest)) \ {{}} : {NewId(dest, x) : x \in c} = c

EnsureSecurity(s, xs) ==
    [s EXCEPT !.links = [x \in xs \cup Stored(s) |->
                            IF x \in Stored(s) THEN @[x] ELSE {}]]

Retire(s, old) == [s EXCEPT !.links = [x \in Stored(s) \ {old} |-> @[x]]]

Repoint(s, old, new) ==
    [s EXCEPT !.holdings = [h \in Holdings |-> IF @[h] = old THEN new ELSE @[h]],
              !.ledger = {l \in {IF l[2] = old THEN <<l[1], new>> ELSE l : l \in @} :
                             l[1] # l[2]}]

(* The source of a rename hands over holdings, predecessors and, unless it *)
(* receives something itself, its candidates and its place in the ledger.  *)
Rename(s, dest, links, old) ==
    LET new == NewId(dest, old)
        moved == Repoint(s, old, new)
    IN IF old \in Receivers(dest) THEN moved
       ELSE [Retire(moved, old) EXCEPT !.links[new] = @ \cup links[old],
                                       !.ledger = @ \cup {<<old, new>>}]

RehomeToFirst(s, dest, old) ==
    [s EXCEPT !.holdings = [h \in Holdings |->
        IF @[h] = old THEN CHOOSE y \in dest[old] : TRUE ELSE @[h]]]

(* The holdings of a security that is split are resolved again.            *)
Rehome(s, dest, old) ==
    [s EXCEPT !.holdings = [h \in Holdings |->
        IF @[h] = old THEN ResolveCusip(s, h[1], h[2]) ELSE @[h]]]

FanOutOwn(s, dest, old) ==
    [s EXCEPT !.ledger = @ \cup {<<old, y>> : y \in dest[old]}]

(* Whatever the security had replaced leads to every successor.            *)
FanOut(s, dest, old) ==
    LET predecessors == {l[1] : l \in {l \in s.ledger : l[2] = old}} IN
    [s EXCEPT !.ledger = {l \in @ : l[2] # old}
                  \cup {l \in (predecessors \cup {old}) \X dest[old] : l[1] # l[2]}]

SplitUp(s, dest, old) ==
    LET homed == Rehome(s, dest, old) IN
    IF old \in dest[old] THEN homed
    ELSE IF old \in Receivers(dest) THEN FanOut(homed, dest, old)
    ELSE Retire(FanOut(homed, dest, old), old)

ResetRenamed(dest) == Renamed(dest) \cap Receivers(dest)

(* Candidates cannot be told apart after a split: they start over.         *)
ResetTargets(dest) ==
    ResetRenamed(dest) \cup UNION {dest[x] : x \in Split(dest)}

(* The renames, and then the splits, in the order of the ids.              *)
Moved(s, dest) ==
    LET renamed[n \in 0..Len(Order)] ==
            IF n = 0 THEN EnsureSecurity(s, Receivers(dest))
            ELSE IF Order[n] \in Renamed(dest)
                 THEN Rename(renamed[n - 1], dest, s.links, Order[n])
                 ELSE renamed[n - 1]
        split[n \in 0..Len(Order)] ==
            IF n = 0 THEN renamed[Len(Order)]
            ELSE IF Order[n] \in Split(dest)
                 THEN SplitUp(split[n - 1], dest, Order[n])
                 ELSE split[n - 1]
    IN split[Len(Order)]

Migrate(s, dest) ==
    [Moved(s, dest) EXCEPT !.links = [x \in DOMAIN @ |->
        IF x \in ResetTargets(dest) THEN {} ELSE @[x]]]

Plan(reg, s) == [x \in Stored(s) |-> Destinations(reg, s, x)]

ReconcileRegistry(reg, s) ==
    LET cut == [s EXCEPT !.ids = CutTable(reg, @), !.lists = CutTable(reg, @)]
        moved == Migrate(cut, Plan(reg, s))
    IN [moved EXCEPT
          !.ids = ReconcileReview(reg, @),
          !.lists = {[r EXCEPT !.review = reg.review[r.sid]] : r \in @}]

(***************************************************************************)
(* What a run adds.                                                        *)
(***************************************************************************)
OwnedBy(reg, obs, x) == {o \in obs : OwnerOf(reg, o.value, o.day) = x}

DaysOf(obs, v) == {o.day : o \in {o \in obs : o.value = v}}

(* rewrite_identifier_intervals: of one owner, and only if they change.    *)
Rewrite(reg, rows, obs, x, v) ==
    LET mine == {r \in rows : r.sid = x /\ r.value = v}
        after == UnionIntervals(Covered(mine) \cup DaysOf(OwnedBy(reg, obs, x), v))
    IN IF {[from |-> r.from, to |-> r.to] : r \in mine} = after THEN mine
       ELSE {[sid |-> x, value |-> v, from |-> i.from, to |-> i.to,
              review |-> reg.review[x]] : i \in after}

Entities(obs) == {o.entity : o \in obs} \ {None}

BootstrapFtd(reg, s, obs) ==
    LET owners == {<<OwnerOf(reg, o.value, o.day), o.value>> : o \in obs}
        known == EnsureSecurity(s, {o[1] : o \in owners})
        rows == {r \in s.ids : <<r.sid, r.value>> \notin owners}
                   \cup UNION {Rewrite(reg, s.ids, obs, o[1], o[2]) : o \in owners}
    IN [known EXCEPT
          !.ids = Stamp(rows, [v \in ValuesOf(rows) |->
                             IF DaysOf(obs, v) = {} THEN None
                             ELSE ReuseVerdict(reg, rows, v)]),
          !.links = [x \in DOMAIN @ |->
                        @[x] \cup Entities(OwnedBy(reg, obs, x))]]

(* One quarter's list: a row for each identifier on it, cut at boundaries; *)
(* an interval that is there already stays.                                *)
ListRows(reg, q, list) ==
    CutTable(reg, {[sid |-> None, value |-> v, from |-> Quarter[q].from,
                    to |-> Quarter[q].to, review |-> "auto", quarter |-> q] :
                      v \in list})

Bootstrap13fList(reg, s, q, list) ==
    LET kept == IF q \in DOMAIN s.listed => s.listed[q] = list THEN s.lists
                ELSE {r \in s.lists : r.quarter # q}
        new == {r \in ListRows(reg, q, list) :
                   ~ \E k \in kept : k.value = r.value /\ k.from = r.from}
        known == EnsureSecurity(s, {r.sid : r \in ListRows(reg, q, list)})
    IN [known EXCEPT !.lists = kept \cup new,
                     !.listed = [p \in {q} \cup DOMAIN @ |->
                                    IF p = q THEN list ELSE @[p]]]

(***************************************************************************)
(* Runs.                                                                   *)
(***************************************************************************)
Nothing == [x \in {} |-> {}]

Empty == [ids |-> {}, lists |-> {}, links |-> Nothing, ledger |-> {},
          holdings |-> [h \in Holdings |-> "not loaded"], listed |-> Nothing]

Undeclared == [owner |-> [v \in Values |-> [d \in Days |-> Provisional[v]]],
               review |-> [x \in SecurityIds |-> "auto"],
               continuities |-> {}]

(* A quarter without a list leaves the definitional layer alone.           *)
Seeded(reg, s, q, list) ==
    IF q = None THEN s ELSE Bootstrap13fList(reg, s, q, list)

Selections == {<<None, {}>>} \cup UNION {{q} \X Lists[q] : q \in DOMAIN Lists}

Apply(reg, s, obs, selection) ==
    /\ tables' = Seeded(reg, BootstrapFtd(reg, ReconcileRegistry(reg, s), obs),
                       selection[1], selection[2])
    /\ applied' = reg
    /\ runs' = runs + 1

(* A cyclic plan is refused before anything is written, and so is another  *)
(* list for a quarter unless the operator asks to replace it.              *)
RunIdentityBootstrap(reg, files, selection) ==
    LET obs == UNION files IN
    /\ runs < MaxRuns
    /\ ~Cyclic(Plan(reg, tables))
    /\ Apply(reg, tables, obs, selection)
    /\ seen' = seen \cup obs
    /\ ever' = ever \cup Stored(tables')
    /\ settled' = (obs \subseteq seen)
    /\ withdrawn' = withdrawn \cup
          (IF selection[1] = None THEN {}
           ELSE {r.value : r \in {r \in tables.lists : r.quarter = selection[1]}}
                   \ selection[2])

(* Only for a store that holds no holdings, and with a list to start from. *)
RebuildRegistry(reg, files, selection) ==
    LET obs == UNION files IN
    /\ runs < MaxRuns
    /\ \A h \in Holdings : tables.holdings[h] = "not loaded"
    /\ selection[1] # None
    /\ Apply(reg, Empty, obs, selection)
    /\ seen' = obs
    /\ ever' = Stored(tables')
    /\ settled' = FALSE
    /\ withdrawn' = {}

(* The ingest of a filing resolves each of its holdings as of its period.  *)
LoadHolding(h) ==
    /\ tables' = [tables EXCEPT !.holdings[h] = ResolveCusip(tables, h[1], h[2])]
    /\ tables' # tables
    /\ UNCHANGED <<applied, seen, ever, settled, withdrawn, runs>>

RegistryInit ==
    /\ tables = Empty
    /\ applied = Undeclared
    /\ seen = {} /\ ever = {} /\ settled = TRUE /\ withdrawn = {}
    /\ runs = 0

RegistryNext ==
    \/ \E reg \in Registries, files \in SUBSET Files, selection \in Selections :
          \/ RunIdentityBootstrap(reg, files, selection)
          \/ RebuildRegistry(reg, files, selection)
    \/ \E h \in Holdings : LoadHolding(h)

RegistrySpec == RegistryInit /\ [][RegistryNext]_registryVars

(* What a security gives up goes to one that is new or keeps what it has:  *)
(* no chain of renames, no split into a security that is itself split up.  *)
Unchained(dest) == \A x \in Receivers(dest) \cap DOMAIN dest : x \in dest[x]

UnchainedRuns ==
    \A reg \in Registries, files \in SUBSET Files, selection \in Selections :
        RunIdentityBootstrap(reg, files, selection) => Unchained(Plan(reg, tables))

(***************************************************************************)
(* Types.                                                                  *)
(***************************************************************************)
Row == [value : Values, from : Days, to : 1..(LastDay + 1),
        sid : SecurityIds, review : Reviews]
ListRow == [value : Values, from : Days, to : 1..(LastDay + 1),
            sid : SecurityIds, review : Reviews, quarter : DOMAIN Lists]

Tables ==
    [ids : SUBSET Row, lists : SUBSET ListRow,
     links : UNION {[xs -> SUBSET Entities(UNION Files)] : xs \in SUBSET SecurityIds},
     ledger : SUBSET (SecurityIds \X SecurityIds),
     holdings : [Holdings -> SecurityIds \cup {None, "not loaded"}],
     listed : UNION {[qs -> SUBSET Values] : qs \in SUBSET DOMAIN Lists}]

RegistryTypeOK ==
    /\ tables \in Tables /\ applied \in Registry
    /\ seen \subseteq UNION Files /\ ever \subseteq SecurityIds
    /\ settled \in BOOLEAN /\ withdrawn \subseteq Values /\ runs \in Nat

(***************************************************************************)
(* Properties.                                                             *)
(***************************************************************************)
(* What the last registry, every observation and the lists in force give   *)
(* from nothing.                                                           *)
Clean == BootstrapFtd(applied, Empty, seen)
CleanLists == UNION {ListRows(applied, q, tables.listed[q]) : q \in DOMAIN tables.listed}

ByDay(rows) ==
    UNION {{<<r.value, d, r.sid, r.review>> : d \in r.from..(r.to - 1)} : r \in rows}

(* "seed-then-revise converges with revise-then-seed": however revisions,  *)
(* observations and lists came in, once a run brings nothing new both      *)
(* tables say, for each day, what a build from nothing says.               *)
ConvergesLikeACleanBuild ==
    settled => /\ ByDay(tables.ids) = ByDay(Clean.ids)
               /\ ByDay(tables.lists) = ByDay(CleanLists)

(* A holding names the security that owns its identifier in its period     *)
(* under the registry in force, or none, whatever was renamed or split     *)
(* since it was loaded.                                                    *)
HoldingsFollowTheAuthority ==
    \A h \in Holdings :
        \/ tables.holdings[h] \in {"not loaded", None}
        \/ h[1] \in withdrawn
        \/ tables.holdings[h] = OwnerOf(applied, h[1], h[2])

(* No id is lost: one that was ever stored and is gone leads, in one step, *)
(* to securities that are stored, after any sequence of renames, merges,   *)
(* splits and their undoing.                                               *)
LedgerLeadsToTheLiving ==
    /\ \A l \in tables.ledger : l[1] # l[2] /\ l[2] \in Stored(tables)
    /\ ever \ Stored(tables) \subseteq {l[1] : l \in tables.ledger}

(* No security is linked to a company that its identifiers were never      *)
(* observed with on a day it owned them.                                   *)
CandidatesAreObserved ==
    \A x \in Stored(tables) :
        tables.links[x] \subseteq Entities(OwnedBy(applied, seen, x))

(* Ids keep their meaning through every migration.                         *)
IdsKeepTheirMeaning ==
    /\ LedgerLeadsToTheLiving
    /\ CandidatesAreObserved

(* "re-running the same corpus produces rows row-identical to a clean      *)
(* build": after the corpus was fed once more, under whatever registry,    *)
(* the candidates of a security are the companies that its identifiers     *)
(* were observed with on the days it owns them.                            *)
ReplayIsACleanBuild ==
    [][\A reg \in Registries, files \in SUBSET Files, selection \in Selections :
          RunIdentityBootstrap(reg, files, selection) /\ seen \subseteq UNION files =>
             \A x \in Stored(tables') :
                tables'.links[x] = Entities(OwnedBy(reg, UNION files, x))]_registryVars

=============================================================================
