----------------------------- MODULE InstAggregates -----------------------------
(***************************************************************************)
(* The cross-filer aggregates of the institutional module: a function of   *)
(* the filers' reported books that the code has twice, as a Python oracle  *)
(* and as staged SQL with its own arithmetic, and the tables derived from  *)
(* either afterwards.                                                      *)
(*                                                                         *)
(* A book is the set of rows that one filer reports for one quarter; the   *)
(* empty book is a notice, or a report without holdings.  Quarters are     *)
(* consecutive calendar quarters.                                          *)
(***************************************************************************)
EXTENDS Integers, FiniteSets, FiniteSetsExt

CONSTANTS
    Ciks,
    Quarters,
    Offers,         \* the books each filer may report for each quarter
    FiledOn,        \* the date of each of these reports
    Deadline,       \* the filing deadline of each quarter
    Predecessors,   \* succession_map: the registrations a filer succeeded
    Named,          \* the other managers that a filer's cover names
    Managers,       \* the seed: its active, retired and notable filers
    PopulationFloor,
    TopN, RankCap,
    Base, Digits,   \* _BASE and the number of its digits in an integer
    MaxInt,         \* the largest integer of the database
    None

(* A row: the security it resolved to, its reported CUSIP and the issuer    *)
(* block of that, its issuer's entity, its name as reported and normalized, *)
(* its value and shares where disclosed, their unit, its option side and    *)
(* its ticker.                                                              *)
Row ==
    [sid : Nat \cup {None}, cusip : Nat \cup {None}, block : Nat,
     entity : Nat \cup {None}, spelling : Nat, name : Nat,
     value : Int \cup {None}, shares : (-MaxInt .. MaxInt) \cup {None},
     unit : {"SH", "PRN", None}, option : {"LONG", "PUT", "CALL"},
     ticker : STRING \cup {None}]

Power[i \in 0 .. 2 * Digits] == IF i = 0 THEN 1 ELSE Base * Power[i - 1]

ASSUME InstAggregatesAssumption ==
    /\ Ciks \subseteq Nat /\ Quarters \subseteq Nat /\ IsFiniteSet(Quarters)
    /\ \A c \in Ciks, q \in Quarters : \A b \in Offers[c][q] :
          b \subseteq Row /\ IsFiniteSet(b)
    /\ FiledOn \in [Ciks \X Quarters -> Nat]
    /\ Deadline \in [Quarters -> Nat]
    /\ Predecessors \in [Ciks -> SUBSET Ciks]
    /\ Named \in [Ciks -> SUBSET Ciks]
    /\ Managers.active \subseteq Ciks /\ Managers.retired \subseteq Ciks
    /\ Managers.notable \subseteq Managers.active \cup Managers.retired
    /\ TopN \in Nat
    /\ Base \in Nat \ {0} /\ Digits \in Nat \ {0}
    /\ MaxInt \in Nat /\ MaxInt < Power[Digits]

VARIABLES
    books,      \* books[c][q]: what the store holds, None before a filing
    agg         \* inst_agg.db of this source, None until it is derived

vars == <<books, agg>>

(***************************************************************************)
(* Rows, positions and their sums.                                         *)
(***************************************************************************)
Filed(c) == {q \in Quarters : books[c][q] # None}

Book(c, q) == IF books[c][q] = None THEN {} ELSE books[c][q]

(* Sums, of what a function gives; those that are not disclosed do not     *)
(* count in one, and make the other undisclosed.                           *)
SumOf(w) == MapThenSumSet(LAMBDA x : w[x], DOMAIN w)

Disclosed(w) == {x \in DOMAIN w : w[x] # None}

KnownSum(w) == SumOf([x \in Disclosed(w) |-> w[x]])

WholeSum(w) == IF Disclosed(w) = DOMAIN w THEN SumOf(w) ELSE None

Minus(a, b) == IF None \in {a, b} THEN None ELSE a - b

PositionKey(r) ==
    IF r.sid # None THEN <<"sid", r.sid>>
    ELSE IF r.cusip # None THEN <<"cusip", r.cusip>> ELSE None

UnitKey(r) == IF r.unit = None THEN "UNKNOWN" ELSE r.unit

Keys == {"sid", "cusip"} \X Nat
Grains == Keys \X {"LONG", "PUT", "CALL"} \X {"SH", "PRN", "UNKNOWN"}

Grain(r) == <<PositionKey(r), r.option, UnitKey(r)>>
Identity(g) == <<g[1], g[2]>>
Resolved(g) == g[1][1] = "sid"

Keyed(book) == {r \in book : PositionKey(r) # None}

IssuerKey(r) ==
    IF r.entity # None THEN <<"entity", r.entity>>
    ELSE IF r.cusip # None THEN <<"cusip6", r.block>> ELSE <<"name", r.name>>

CleanUnit(rows) ==
    LET units == {r.unit : r \in rows} IN
    IF Cardinality(units) = 1 THEN CHOOSE u \in units : TRUE ELSE None

SingleCusip(rows) ==
    LET cusips == {r.cusip : r \in rows} \ {None} IN
    IF Cardinality(cusips) = 1 THEN CHOOSE c \in cusips : TRUE ELSE None

Finalize(rows) ==
    [value  |-> WholeSum([r \in rows |-> r.value]),
     unit   |-> CleanUnit(rows),
     shares |-> IF CleanUnit(rows) = None THEN None
                ELSE WholeSum([r \in rows |-> r.shares]),
     cusip  |-> SingleCusip(rows)]

Position == [value : Int \cup {None}, unit : {"SH", "PRN", None},
             shares : Int \cup {None}, cusip : Nat \cup {None}]

ASSUME SentinelAssumption ==
    /\ None \notin Int /\ None \notin Keys /\ None \notin {"SH", "PRN"}
    /\ None \notin Position /\ None \notin Ciks \X Quarters \X Grains
    /\ \A c \in Ciks, q \in Quarters : \A b \in Offers[c][q] : b # None

RowsOf(book, g) == {r \in Keyed(book) : Grain(r) = g}

Positions(book) ==
    [g \in {Grain(r) : r \in Keyed(book)} |-> Finalize(RowsOf(book, g))]

(***************************************************************************)
(* Which two books are compared: consecutive filings of one filer, and the *)
(* last book of the latest predecessor with a successor's first.  The      *)
(* comparison is of adjacent quarters alone.                               *)
(***************************************************************************)
Bridgeable(c) ==
    {p \in Predecessors[c] :
        /\ Filed(c) # {} /\ Filed(p) # {}
        /\ Max(Filed(p)) < Min(Filed(c))}

Predecessor(c) ==
    LET last == Max({Max(Filed(p)) : p \in Bridgeable(c)})
    IN Min({p \in Bridgeable(c) : Max(Filed(p)) = last})

Pair(c, from, prev, curr) ==
    [cik |-> c, from |-> from, prev |-> prev, curr |-> curr]

Pairs ==
    (UNION {{Pair(c, c, Max({p \in Filed(c) : p < q}), q) :
                q \in {q \in Filed(c) : \E p \in Filed(c) : p < q}} : c \in Ciks})
    \cup
    {Pair(c, Predecessor(c), Max(Filed(Predecessor(c))), Min(Filed(c))) :
        c \in {c \in Ciks : Bridgeable(c) # {}}}

Adjacent(p) == p.curr = p.prev + 1
Migrated(p) == p.from # p.cik

(***************************************************************************)
(* The oracle.                                                             *)
(***************************************************************************)
Alone(S, key(_), x) == \A y \in S : key(y) = key(x) => y = x

SharesCusip(prev, curr, P, C) ==
    {m \in P \X C : /\ prev[m[1]].cusip # None
                    /\ prev[m[1]].cusip = curr[m[2]].cusip
                    /\ m[1][2] = m[2][2]
                    /\ Resolved(m[1]) # Resolved(m[2])}

NoCusip(prev, curr, P, C) == {}

(* A reported CUSIP joins a resolved position with an unresolved one.      *)
MatchCusip(prev, curr, P, C) ==
    LET was(g) == <<prev[g].cusip, g[2]>>
        is(g) == <<curr[g].cusip, g[2]>>
    IN {m \in SharesCusip(prev, curr, P, C) :
           Alone(P, was, m[1]) /\ Alone(C, is, m[2])}

(* _match_periods: the same grain, then the same security in another unit, *)
(* then the same CUSIP across a gap of the registry; the last two only     *)
(* where neither side has a second candidate.                              *)
MatchPeriods(prev, curr) ==
    LET same == DOMAIN prev \cap DOMAIN curr
        P == DOMAIN prev \ same
        C == DOMAIN curr \ same
        turned == {m \in P \X C : /\ Identity(m[1]) = Identity(m[2])
                                  /\ Alone(P, Identity, m[1])
                                  /\ Alone(C, Identity, m[2])}
        P2 == P \ {m[1] : m \in turned}
        C2 == C \ {m[2] : m \in turned}
        bridged == MatchCusip(prev, curr, P2, C2)
    IN [matched |-> {<<g, g>> : g \in same} \cup turned,
        bridged |-> bridged,
        exits   |-> P2 \ {m[1] : m \in bridged},
        news    |-> C2 \ {m[2] : m \in bridged}]

Flags(on, flag) == IF on THEN {flag} ELSE {}

(* _qoq_row; prev and curr are positions, or None.                         *)
QoqRow(p, key, prev, curr, reconciled, priorBook) ==
    LET was == IF prev # None THEN prev.value
               ELSE IF priorBook THEN 0 ELSE None
        is == IF curr # None THEN curr.value ELSE 0
        sharesWas == IF prev # None THEN prev.shares ELSE None
        sharesIs == IF curr # None THEN curr.shares ELSE None
        both == prev # None /\ curr # None
        compatible == /\ both /\ prev.unit # None /\ prev.unit = curr.unit
                      /\ None \notin {sharesWas, sharesIs}
        moved == IF prev = None THEN (IF priorBook THEN sharesIs ELSE None)
                 ELSE IF curr = None THEN Minus(0, sharesWas)
                 ELSE IF compatible THEN sharesIs - sharesWas ELSE None
        kind == IF prev = None THEN (IF priorBook THEN "new" ELSE "no_prior")
                ELSE IF curr = None THEN "exit"
                ELSE IF moved = None THEN "unclassified"
                ELSE IF moved = 0 THEN "held"
                ELSE IF moved > 0 THEN "add" ELSE "trim"
    IN [cik |-> p.cik, curr |-> p.curr, prev |-> p.prev, key |-> key,
        kind |-> kind, was |-> was, is |-> is, change |-> Minus(is, was),
        sharesWas |-> sharesWas, sharesIs |-> sharesIs, moved |-> moved,
        flags |-> Flags(reconciled, "identity_reconciled_by_cusip")
                  \cup Flags(Migrated(p), "filer_migrated")
                  \cup Flags(both /\ ~compatible, "shares_unit_mismatch")
                  \cup Flags(both /\ moved = None, "change_kind_undeterminable")
                  \cup Flags(\/ prev # None /\ was = None
                             \/ curr # None /\ is = None,
                             "value_undisclosed_one_side")]

OracleRows(p) ==
    LET prev == IF Adjacent(p) THEN Positions(Book(p.from, p.prev))
                ELSE Positions({})
        curr == Positions(Book(p.cik, p.curr))
        m == MatchPeriods(prev, curr)
        hasPrior == DOMAIN prev # {}
    IN {QoqRow(p, x[2], prev[x[1]], curr[x[2]], FALSE, TRUE) : x \in m.matched}
       \cup {QoqRow(p, x[2], prev[x[1]], curr[x[2]], TRUE, TRUE) : x \in m.bridged}
       \cup {QoqRow(p, g, None, curr[g], FALSE, hasPrior) : g \in m.news}
       \cup {QoqRow(p, g, prev[g], None, FALSE, TRUE) : g \in m.exits}

OracleDeltas == UNION {OracleRows(p) : p \in Pairs}

(***************************************************************************)
(* Concentration, over the book a filer reported itself.  A position here  *)
(* is a security and an option side, and an unkeyed row is its own.        *)
(***************************************************************************)
SecurityOf(r) == IF PositionKey(r) = None THEN <<"row", r>> ELSE PositionKey(r)

HoldingKey(r) == <<SecurityOf(r), r.option>>

Weights(book) ==
    LET known == {r \in book : r.value # None} IN
    [k \in {HoldingKey(r) : r \in known} |->
        SumOf([r \in {r \in known : HoldingKey(r) = k} |-> r.value])]

(* No position is worth more than an integer holds: its sum would raise.   *)
ASSUME WorthAssumption ==
    \A c \in Ciks, q \in Quarters : \A b \in Offers[c][q] :
        \A k \in DOMAIN Weights(b) : Weights(b)[k] <= MaxInt

SmallerOf(a, b) == IF a < b THEN a ELSE b

TopSum(w) ==
    LET n == SmallerOf(TopN, Cardinality(DOMAIN w)) IN
    Max({SumOf([k \in T |-> w[k]]) : T \in kSubset(n, DOMAIN w)})

SquareSum(w) == SumOf([k \in DOMAIN w |-> w[k] * w[k]])

OracleConcentration(c, q) ==
    LET book == Book(c, q)
        w == Weights(book)
        total == KnownSum([r \in book |-> r.value])
        nulls == Cardinality({r \in book : r.value = None})
        Share(x) == IF total > 0 /\ nulls = 0
                    THEN (x * 10000) \div total ELSE None
    IN [cik |-> c, quarter |-> q, positions |-> Cardinality(book),
        total |-> total, nulls |-> nulls, top |-> TopSum(w),
        topShare |-> Share(TopSum(w)),
        hhi |-> IF Share(0) = None THEN None
                ELSE (SquareSum(w) * 10000) \div (total * total),
        maxShare |-> IF DOMAIN w = {} THEN Share(0)
                     ELSE Share(Max({w[k] : k \in DOMAIN w}))]

OracleConcentrations ==
    UNION {{OracleConcentration(c, q) : q \in Filed(c)} : c \in Ciks}

(***************************************************************************)
(* The bulk path's arithmetic.  Shares are summed digit by digit, with the *)
(* carries afterwards, and squares are summed as coefficients.             *)
(***************************************************************************)
Places == 0 .. Digits - 1

Digit(n, i) == (n \div Power[i]) % Base

Carried(sums) ==
    LET t[i \in Places] ==
            sums[i] + (IF i = 0 THEN 0 ELSE t[i - 1] \div Base)
    IN t

Overflows(t) ==
    \/ t[Digits - 1] \div Base > 0
    \/ \E i \in Places :
          /\ t[i] % Base > Digit(MaxInt, i)
          /\ \A j \in i + 1 .. Digits - 1 : t[j] % Base = Digit(MaxInt, j)

DigitSums(rows) ==
    [i \in Places |->
        SumOf([r \in rows |-> IF r.shares = None THEN 0 ELSE Digit(r.shares, i)])]

StagedPosition(rows) ==
    LET t == Carried(DigitSums(rows))
        sum == SumOf([i \in Places |-> (t[i] % Base) * Power[i]])
        unknown == \/ CleanUnit(rows) = None \/ Overflows(t)
                   \/ \E r \in rows : r.shares = None
    IN [value |-> WholeSum([r \in rows |-> r.value]),
        unit |-> CleanUnit(rows),
        shares |-> IF unknown THEN None ELSE sum,
        cusip |-> SingleCusip(rows),
        overflow |-> Overflows(t)]

SquareCoefficient(n, k) ==
    SumOf([i \in {i \in Places : k - i \in Places} |-> Digit(n, i) * Digit(n, k - i)])

BulkSquareSum(w) ==
    SumOf([k \in 0 .. 2 * Digits - 2 |->
              SumOf([h \in DOMAIN w |-> SquareCoefficient(w[h], k)]) * Power[k]])

(* ROW_NUMBER orders by the value alone: the first TopN rows are any that   *)
(* no other row exceeds.                                                    *)
FirstRows(w) ==
    CHOOSE T \in kSubset(SmallerOf(TopN, Cardinality(DOMAIN w)), DOMAIN w) :
        \A k \in T, h \in DOMAIN w \ T : w[h] <= w[k]

Coalesce(joined, x) == IF joined THEN x ELSE 0

(* A filing is joined with what its rows and its disclosed positions give:  *)
(* either may be missing.                                                   *)
BulkConcentration(c, q) ==
    LET book == Book(c, q)
        w == Weights(book)
        rows == book # {}
        stats == DOMAIN w # {}
        total == Coalesce(rows, KnownSum([r \in book |-> r.value]))
        nulls == Coalesce(rows, Cardinality({r \in book : r.value = None}))
        top == Coalesce(stats, SumOf([k \in FirstRows(w) |-> w[k]]))
        max == IF stats THEN Max({w[k] : k \in DOMAIN w}) ELSE None
        squares == Coalesce(stats, BulkSquareSum(w))
        known == total > 0 /\ nulls = 0
    IN [cik |-> c, quarter |-> q,
        positions |-> Coalesce(rows, Cardinality(book)),
        total |-> total, nulls |-> nulls, top |-> top,
        topShare |-> IF known THEN (top * 10000) \div total ELSE None,
        hhi |-> IF known THEN (squares * 10000) \div (total * total) ELSE None,
        maxShare |-> IF ~known THEN None
                     ELSE IF max = None THEN 0 ELSE (max * 10000) \div total]

BulkConcentrations ==
    UNION {{BulkConcentration(c, q) : q \in Filed(c)} : c \in Ciks}

(***************************************************************************)
(* The bulk path's matching.  The stages hold every filer and quarter at   *)
(* once, and a position is matched at most once on either side.            *)
(***************************************************************************)
Ids(c, q) == {<<c, q, Grain(r)>> : r \in Keyed(Book(c, q))}

AllIds == UNION {Ids(c, q) : c \in Ciks, q \in Quarters}

StagedPositions ==
    [id \in AllIds |-> StagedPosition(RowsOf(Book(id[1], id[2]), id[3]))]

HasFiling(p) == Adjacent(p) /\ books[p.from][p.prev] # None

HasBook(p) == Adjacent(p) /\ Ids(p.from, p.prev) # {}

PrevSide(p) == IF HasBook(p) THEN Ids(p.from, p.prev) ELSE {}
CurrSide(p) == Ids(p.cik, p.curr)

Match(p, a, b, reconciled) ==
    [pair |-> p, prev |-> a, curr |-> b, reconciled |-> reconciled]

PrevOf(M) == {m.prev : m \in M}
CurrOf(M) == {m.curr : m \in M}

ExactMatches ==
    UNION {{Match(p, x[1], x[2], FALSE) :
               x \in {x \in PrevSide(p) \X CurrSide(p) : x[1][3] = x[2][3]}} :
           p \in Pairs}

TurnedMatches(M) ==
    LET key(id) == Identity(id[3])
        Of(p) == LET A == PrevSide(p) \ PrevOf(M)
                     B == CurrSide(p) \ CurrOf(M)
                 IN {Match(p, x[1], x[2], FALSE) :
                        x \in {x \in A \X B : /\ key(x[1]) = key(x[2])
                                              /\ Alone(A, key, x[1])
                                              /\ Alone(B, key, x[2])}}
    IN UNION {Of(p) : p \in Pairs}

BridgedMatches(M, S) ==
    LET key(id) == <<S[id].cusip, id[3][2]>>
        Known(ids) == {id \in ids : S[id].cusip # None}
        Of(p) == LET A == Known(PrevSide(p) \ PrevOf(M))
                     B == Known(CurrSide(p) \ CurrOf(M))
                 IN {Match(p, x[1], x[2], TRUE) :
                        x \in {x \in A \X B :
                                 /\ key(x[1]) = key(x[2])
                                 /\ Alone(A, key, x[1]) /\ Alone(B, key, x[2])
                                 /\ Resolved(x[1][3]) # Resolved(x[2][3])}}
    IN UNION {Of(p) : p \in Pairs}

BulkMatches(S) ==
    LET first == ExactMatches
        second == first \cup TurnedMatches(first)
    IN second \cup BridgedMatches(second, S)

(* The columns prev_id and curr_id are UNIQUE.                             *)
SidesAreUnique(M) ==
    \A m, n \in M : (m.prev = n.prev \/ m.curr = n.curr) => m = n

(* _QOQ_SOURCE_SQL, for one row of its first relation.                     *)
SourceRow(S, p, a, b, hasBook, reconciled) ==
    LET key == IF b # None THEN b[3] ELSE a[3]
        both == a # None /\ b # None
        was == IF a # None THEN S[a].value ELSE IF hasBook THEN 0 ELSE None
        is == IF b # None THEN S[b].value ELSE 0
        sharesWas == IF a # None THEN S[a].shares ELSE None
        sharesIs == IF b # None THEN S[b].shares ELSE None
        unitsOk == /\ both /\ S[a].unit # None /\ S[a].unit = S[b].unit
                   /\ sharesWas # None /\ sharesIs # None
        moved == IF a = None THEN (IF hasBook THEN sharesIs ELSE None)
                 ELSE IF b = None THEN Minus(0, sharesWas)
                 ELSE IF unitsOk THEN sharesIs - sharesWas ELSE None
        kind == IF a = None THEN (IF hasBook THEN "new" ELSE "no_prior")
                ELSE IF b = None THEN "exit"
                ELSE IF moved = None THEN "unclassified"
                ELSE IF moved = 0 THEN "held"
                ELSE IF moved > 0 THEN "add" ELSE "trim"
    IN [cik |-> p.cik, curr |-> p.curr, prev |-> p.prev, key |-> key,
        kind |-> kind, was |-> was, is |-> is, change |-> Minus(is, was),
        sharesWas |-> sharesWas, sharesIs |-> sharesIs, moved |-> moved,
        flags |-> Flags(both /\ moved = None, "change_kind_undeterminable")
                  \cup Flags(Migrated(p), "filer_migrated")
                  \cup Flags(reconciled, "identity_reconciled_by_cusip")
                  \cup Flags(both /\ ~unitsOk, "shares_unit_mismatch")
                  \cup Flags(\/ a # None /\ was = None
                             \/ b # None /\ is = None,
                             "value_undisclosed_one_side")]

BulkDeltas(S, M) ==
    {SourceRow(S, m.pair, m.prev, m.curr, TRUE, m.reconciled) : m \in M}
    \cup (UNION {{SourceRow(S, p, None, b, HasBook(p), FALSE) :
                     b \in CurrSide(p) \ CurrOf(M)} : p \in Pairs})
    \cup (UNION {{SourceRow(S, p, a, None, TRUE, FALSE) :
                     a \in PrevSide(p) \ PrevOf(M)} : p \in Pairs})

(***************************************************************************)
(* The issuers' holders: a filer's value over every security of an issuer. *)
(***************************************************************************)
HeldOf(i, q, c) == {r \in Book(c, q) : IssuerKey(r) = i}

(* The last flag is stamped on the rows of either path afterwards.          *)
HolderFlags(i, q, c, undisclosed) ==
    Flags(i[1] = "cusip6", "issuer_from_cusip6")
    \cup Flags(i[1] = "name", "issuer_from_name")
    \cup Flags(undisclosed, "value_undisclosed_component")
    \cup Flags(\E e \in Ciks \ {c} : books[e][q] # None /\ c \in Named[e],
               "affiliated_shared_discretion")

OracleHolder(i, q, c) ==
    LET rows == HeldOf(i, q, c) IN
    [issuer |-> i, quarter |-> q, cik |-> c,
     value |-> KnownSum([r \in rows |-> r.value]),
     securities |-> Cardinality({SecurityOf(r) : r \in rows}),
     flags |-> HolderFlags(i, q, c, \E r \in rows : r.value = None)]

(* The bulk path groups the rows of a key at once.  Those with a name alone *)
(* it groups by spelling and security first, normalizes the names of these  *)
(* groups, and groups again.                                                *)
Spelling(r) == <<r.spelling, SecurityOf(r)>>

Spelled(rows, n) == {r \in rows : Spelling(r) = n}

StagedHolder(i, q, c) ==
    LET rows == HeldOf(i, q, c)
        groups == {Spelling(r) : r \in rows}
        Value(n) == KnownSum([r \in Spelled(rows, n) |-> r.value])
        Undisclosed(n) == \E r \in Spelled(rows, n) : r.value = None
        named == i[1] = "name"
    IN [issuer |-> i, quarter |-> q, cik |-> c,
        value |-> IF named THEN SumOf([n \in groups |-> Value(n)])
                  ELSE KnownSum([r \in rows |-> r.value]),
        securities |-> IF named THEN Cardinality({n[2] : n \in groups})
                       ELSE Cardinality({SecurityOf(r) : r \in rows}),
        flags |-> HolderFlags(i, q, c,
                              IF named THEN \E n \in groups : Undisclosed(n)
                              ELSE \E r \in rows : r.value = None)]

Issuers(c, q) == {IssuerKey(r) : r \in Book(c, q)}

OracleHolders ==
    UNION {{OracleHolder(i, q, c) : i \in Issuers(c, q)} : c \in Ciks, q \in Quarters}

StagedHolders ==
    UNION {{StagedHolder(i, q, c) : i \in Issuers(c, q)} : c \in Ciks, q \in Quarters}

(* Both order the holders of an issuer by value, largest first, then CIK.   *)
IssuerRank(H, h) ==
    1 + Cardinality({e \in H : /\ e.issuer = h.issuer /\ e.quarter = h.quarter
                               /\ \/ e.value > h.value
                                  \/ e.value = h.value /\ e.cik < h.cik})

IssuerRows(H) ==
    {<<IssuerRank(H, h), h>> : h \in {h \in H : IssuerRank(H, h) <= TopN}}

(***************************************************************************)
(* The leaderboard of additions.  A change is credited to the issuer of    *)
(* the holdings that stand behind it now; one with several is left out and *)
(* counted.                                                                *)
(***************************************************************************)
Modes == {"all", "new"}
Admits(mode) == IF mode = "all" THEN {"new", "add"} ELSE {"new"}

GrainIssuers(d) == {IssuerKey(r) : r \in RowsOf(Book(d.cik, d.curr), d.key)}

Added(deltas, q, mode) == {d \in deltas : d.curr = q /\ d.kind \in Admits(mode)}

Credited(deltas, q, mode, i) ==
    {d \in Added(deltas, q, mode) : GrainIssuers(d) = {i}}

Subtotal(R) ==
    IF \A d \in R : d.change = None THEN None
    ELSE KnownSum([d \in R |-> d.change])

(* The manager with the largest subtotal over its own legs.                *)
TopAdder(R) ==
    LET Of(c) == Subtotal({d \in R : d.cik = c})
        ranked == {c \in {d.cik : d \in R} : Of(c) # None}
    IN IF ranked = {} THEN None
       ELSE Min({c \in ranked : \A e \in ranked : Of(e) <= Of(c)})

AddsRow(deltas, q, mode, i) ==
    LET R == Credited(deltas, q, mode, i) IN
    [quarter |-> q, mode |-> mode, issuer |-> i,
     managers |-> Cardinality({d.cik : d \in R}),
     new |-> Cardinality({d \in R : d.kind = "new"}),
     total |-> Subtotal(R), partial |-> \E d \in R : d.change = None,
     top |-> TopAdder(R)]

IssuerAdds(deltas) ==
    UNION {{AddsRow(deltas, q, mode, i) :
               i \in {i \in UNION {Issuers(c, q) : c \in Ciks} :
                         Credited(deltas, q, mode, i) # {}}} :
           q \in Quarters, mode \in Modes}

AddsExclusions(deltas) ==
    {[quarter |-> q, mode |-> mode,
      count |-> Cardinality({d \in Added(deltas, q, mode) :
                                Cardinality(GrainIssuers(d)) > 1})] :
     q \in UNION {Filed(c) : c \in Ciks}, mode \in Modes}

(* A quarter in which a filer's book all but ended, without a succession.  *)
BookDiscontinuity(deltas) ==
    {p \in {<<d.cik, d.curr>> : d \in deltas} :
        LET R == {d \in deltas : <<d.cik, d.curr>> = p} IN
        /\ Cardinality({d \in R : d.kind = "exit"}) * 10000
              >= 9500 * Cardinality(R)
        /\ \A d \in R : "filer_migrated" \notin d.flags}

(***************************************************************************)
(* The holders of a ticker, for the newest quarter whose filing deadline   *)
(* the corpus has passed.  Options are not holdings of the class.          *)
(***************************************************************************)
Watermark ==
    Max({0} \cup UNION {{FiledOn[<<c, q>>] : q \in Filed(c)} : c \in Ciks})

ClosedQuarters ==
    {q \in UNION {Filed(c) : c \in Ciks} : Deadline[q] < Watermark}

PriorQuarter(now) == IF now - 1 \in ClosedQuarters THEN now - 1 ELSE None

ClassRows(t, c, q) ==
    IF q = None THEN {}
    ELSE {r \in Book(c, q) : r.ticker = t /\ r.option = "LONG"}

DisclosedShares(rows) ==
    IF \/ rows = {} \/ Cardinality({UnitKey(r) : r \in rows}) # 1
    THEN None ELSE KnownSum([r \in rows |-> r.shares])

ClassShares(rows) ==
    IF \/ rows = {} \/ Cardinality({UnitKey(r) : r \in rows}) # 1
    THEN None ELSE WholeSum([r \in rows |-> r.shares])

FiledIn(c, q) == q # None /\ books[c][q] # None

HolderRow(t, c, now) ==
    LET cur == ClassRows(t, c, now)
        prv == ClassRows(t, c, PriorQuarter(now))
        sharesIs == ClassShares(cur)
        sharesWas == ClassShares(prv)
        unitsOk == /\ {UnitKey(r) : r \in cur} = {UnitKey(r) : r \in prv}
                   /\ None \notin {sharesIs, sharesWas}
        moved == IF prv = {} THEN (IF FiledIn(c, PriorQuarter(now))
                                   THEN sharesIs ELSE None)
                 ELSE IF cur = {} THEN (IF FiledIn(c, now)
                                        THEN Minus(0, sharesWas) ELSE None)
                 ELSE IF unitsOk THEN sharesIs - sharesWas ELSE None
        kind == IF prv = {} THEN (IF FiledIn(c, PriorQuarter(now))
                                  THEN "new" ELSE "no_prior")
                ELSE IF cur = {} THEN (IF FiledIn(c, now)
                                       THEN "exit" ELSE "unclassified")
                ELSE IF moved = None THEN "unclassified"
                ELSE IF moved = 0 THEN "held"
                ELSE IF moved > 0 THEN "add" ELSE "trim"
    IN [ticker |-> t, quarter |-> now, cik |-> c, kind |-> kind,
        value |-> IF cur = {} THEN None ELSE WholeSum([r \in cur |-> r.value]),
        sharesIs |-> sharesIs, sharesWas |-> sharesWas, moved |-> moved,
        holds |-> cur # {}, filed |-> FiledIn(c, now)]

Tickers ==
    {r.ticker : r \in UNION {Book(c, q) : c \in Ciks, q \in Quarters}} \ {None}

HoldersOf(t, now) ==
    {HolderRow(t, c, now) :
        c \in {c \in Ciks : \/ ClassRows(t, c, now) # {}
                            \/ ClassRows(t, c, PriorQuarter(now)) # {}}}

(* Exits come last, then the larger value first, the undisclosed last.     *)
RankValue(h) == IF h.value = None THEN -1 ELSE h.value

RanksAbove(e, h) ==
    \/ e.kind # "exit" /\ h.kind = "exit"
    \/ /\ (e.kind = "exit") = (h.kind = "exit")
       /\ \/ RankValue(e) > RankValue(h)
          \/ RankValue(e) = RankValue(h) /\ e.cik < h.cik

HolderRank(H, h) == 1 + Cardinality({e \in H : RanksAbove(e, h)})

KeptHolders(H) ==
    {<<HolderRank(H, h), h>> :
        h \in {h \in H : \/ HolderRank(H, h) <= RankCap
                         \/ h.cik \in Managers.notable}}

HolderTotals(t, H) ==
    [ticker |-> t,
     holders |-> Cardinality({h \in H : h.holds}),
     value |-> KnownSum([h \in H |-> h.value]),
     adds |-> Cardinality({h \in H : h.kind \in {"new", "add"}}),
     exits |-> Cardinality({h \in H : h.kind = "exit"})]

TickerHolders ==
    IF ClosedQuarters = {} THEN {}
    ELSE {LET H == HoldersOf(t, Max(ClosedQuarters))
          IN <<HolderTotals(t, H), KeptHolders(H)>> :
          t \in {t \in Tickers : HoldersOf(t, Max(ClosedQuarters)) # {}}}

(***************************************************************************)
(* The registry gate, and one derivation.  It reads one transaction of the *)
(* source; an exception leaves no aggregate.                               *)
(***************************************************************************)
Filers == {c \in Ciks : Filed(c) # {}}
Seeded == Managers.active \cup Managers.retired

RegistryRefuses ==
    /\ Filers # {} /\ Cardinality(Filers) >= PopulationFloor
    /\ \/ Managers.active \ Filers # {}
       \/ 5 * Cardinality(Seeded \cap Filers) < 4 * Cardinality(Seeded)

Tables(deltas, concentrations, holders) ==
    [outcome |-> "built", deltas |-> deltas,
     concentration |-> concentrations,
     issuers |-> IssuerRows(holders),
     adds |-> IssuerAdds(deltas), exclusions |-> AddsExclusions(deltas),
     discontinuity |-> BookDiscontinuity(deltas),
     tickers |-> TickerHolders,
     typed |-> Managers.active \cap Filers]

Nothing(outcome) ==
    [outcome |-> outcome, deltas |-> {}, concentration |-> {}, issuers |-> {},
     adds |-> {}, exclusions |-> {}, discontinuity |-> {}, tickers |-> {},
     typed |-> {}]

(* An integer that the database cannot hold raises.                        *)
Fits(deltas) ==
    \A d \in deltas : \A n \in {d.sharesWas, d.sharesIs, d.moved} \ {None} :
        n <= MaxInt /\ -n <= MaxInt

Gated(deltas, concentrations, holders) ==
    IF ~Fits(deltas) THEN Nothing("raised")
    ELSE IF RegistryRefuses THEN Nothing("refused")
    ELSE Tables(deltas, concentrations, holders)

OracleResult == Gated(OracleDeltas, OracleConcentrations, OracleHolders)

Signed ==
    \E c \in Ciks, q \in Quarters : \E r \in Book(c, q) :
        (r.value # None /\ r.value < 0) \/ (r.shares # None /\ r.shares < 0)

(* Signed input and a sum beyond the range go to the oracle.               *)
BulkEligible(S) == ~Signed /\ \A id \in AllIds : ~S[id].overflow

BulkResult ==
    LET S == StagedPositions
        M == BulkMatches(S)
    IN IF ~BulkEligible(S) THEN OracleResult
       ELSE IF ~SidesAreUnique(M) THEN Nothing("raised")
       ELSE Gated(BulkDeltas(S, M), BulkConcentrations, StagedHolders)

(***************************************************************************)
(* Steps.  A correction that is loaded later gives the source that loading *)
(* it at once does.                                                        *)
(***************************************************************************)
Load(c, q) ==
    /\ agg = None /\ books[c][q] = None
    /\ \E b \in Offers[c][q] : books' = [books EXCEPT ![c][q] = b]
    /\ UNCHANGED agg

(* build_inst_agg: staged SQL inside the publisher's materialized scope,   *)
(* the oracle for the inst-agg command.                                    *)
DeriveBulk == agg = None /\ agg' = BulkResult /\ UNCHANGED books

DeriveOracle == agg = None /\ agg' = OracleResult /\ UNCHANGED books

Init ==
    /\ books = [c \in Ciks |-> [q \in Quarters |-> None]]
    /\ agg = None

Next ==
    \/ \E c \in Ciks, q \in Quarters : Load(c, q)
    \/ DeriveBulk
    \/ DeriveOracle

AggregateSpec == Init /\ [][Next]_vars

Built == agg # None /\ agg.outcome = "built"

(***************************************************************************)
(* Properties.                                                             *)
(***************************************************************************)

(* inst_agg: the two build paths "must emit identical rows".  What a       *)
(* publication derives in SQL, digit by digit and over all filers at once, *)
(* is what the oracle derives: the changes, the concentrations and the     *)
(* issuers' holders, which the code has twice, and so the tables that one  *)
(* pass derives after either.  One is refused where the other is.          *)
PathsAgree == agg # None => agg = OracleResult

(* The changes account for both books: every position now and every        *)
(* position of a comparable book before it stands in exactly one row, and  *)
(* the disclosed values add up to the books', whatever was matched to      *)
(* what.                                                                   *)
BooksBalance ==
    Built =>
        /\ \A d, e \in agg.deltas :
              <<d.cik, d.curr, d.key>> = <<e.cik, e.curr, e.key>> => d = e
        /\ \A p \in Pairs :
              LET R == {d \in agg.deltas : d.cik = p.cik /\ d.curr = p.curr}
                  Here == Positions(Book(p.cik, p.curr))
                  There == IF Adjacent(p) THEN Positions(Book(p.from, p.prev))
                           ELSE Positions({})
                  Now == {d \in R : d.kind # "exit"}
                  Before == {d \in R : d.kind \notin {"new", "no_prior"}}
              IN /\ {d.key : d \in Now} = DOMAIN Here
                 /\ Cardinality(Now) = Cardinality(DOMAIN Here)
                 /\ Cardinality(Before) = Cardinality(DOMAIN There)
                 /\ KnownSum([d \in Now |-> d.is]) =
                       KnownSum([g \in DOMAIN Here |-> Here[g].value])
                 /\ KnownSum([d \in Before |-> d.was]) =
                       KnownSum([g \in DOMAIN There |-> There[g].value])

(* A registry that learns or loses a security, and a change of the         *)
(* reported unit, are no trades: where a filer reports the same lines in   *)
(* two adjacent quarters, each CUSIP once, and only their resolution or    *)
(* unit differs, nothing is bought or sold.                                *)
Unresolved(r) == [r EXCEPT !.sid = None, !.unit = None]

Lines(book) == {Unresolved(r) : r \in book}

Simple(book) ==
    /\ Keyed(book) = book
    /\ \A r, s \in book :
          \/ <<r.cusip, r.option>> = <<s.cusip, s.option>>
          \/ r.sid # None /\ r.sid = s.sid
          => r = s

QuietBooksAreHeld ==
    Built =>
        \A p \in Pairs :
            LET now == Book(p.cik, p.curr)
                was == Book(p.from, p.prev)
            IN /\ Adjacent(p) /\ Simple(now) /\ Simple(was)
               /\ Lines(now) = Lines(was)
               /\ \A r \in now, s \in was :
                     {r.sid, s.sid} # {None} /\ None \notin {r.sid, s.sid} =>
                        (r.cusip = s.cusip <=> r.sid = s.sid)
               => \A d \in agg.deltas :
                     d.cik = p.cik /\ d.curr = p.curr =>
                        d.kind \in {"held", "unclassified"}

(* The holders of a ticker and the changes tell one story: where a filer's *)
(* books of both quarters each hold a class in at most one line, and the   *)
(* two lines are one security, or one CUSIP across a gap of the registry,  *)
(* that nothing else in the books has, the holder is listed with the kind  *)
(* and the change of its deltas.  Shares of an unreported unit are         *)
(* subtracted here and not there.                                          *)
OneClassLine(rows, cur, prv, book) ==
    /\ Keyed(rows) = rows
    /\ Cardinality(cur) <= 1 /\ Cardinality(prv) <= 1
    /\ \A r \in rows : r.unit = None => r.shares = None
    /\ \A r, s \in rows :
          \/ r.sid = s.sid /\ r.sid # None
          \/ r.cusip = s.cusip /\ r.cusip # None /\ None \in {r.sid, s.sid}
    /\ \A r \in book \ rows :
          /\ r.cusip # None => r.cusip \notin {x.cusip : x \in rows}
          /\ r.sid # None => r.sid \notin {x.sid : x \in rows}

SurfacesAgree ==
    Built =>
        \A t \in agg.tickers : \A k \in t[2] :
            LET h == k[2]
                before == PriorQuarter(h.quarter)
                cur == ClassRows(h.ticker, h.cik, h.quarter)
                prv == ClassRows(h.ticker, h.cik, before)
                book == Book(h.cik, h.quarter)
                        \cup (IF before = None THEN {} ELSE Book(h.cik, before))
            IN /\ FiledIn(h.cik, h.quarter) /\ FiledIn(h.cik, before)
               /\ Keyed(Book(h.cik, before)) # {}
               /\ OneClassLine(cur \cup prv, cur, prv, book)
               => \E d \in agg.deltas :
                     /\ d.cik = h.cik /\ d.curr = h.quarter
                     /\ d.key \in {Grain(r) : r \in cur \cup prv}
                     /\ d.kind = h.kind /\ d.moved = h.moved

=============================================================================
