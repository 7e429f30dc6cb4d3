------------------------------- MODULE InstStore -------------------------------
(***************************************************************************)
(* The institutional half of the store: one row per 13F filing, what the   *)
(* passes after a load derive from all of them, and the populations that   *)
(* the views and the coverage figures read.                                *)
(*                                                                         *)
(* D gives what each accession's documents say; a row keeps how far they   *)
(* could be read.  Managers are known by their file number, here the CIK.  *)
(***************************************************************************)
EXTENDS Integers, FiniteSets, FiniteSetsExt

CONSTANTS
    Accessions,     \* accession numbers, which the views compare
    Ciks,
    Floor,          \* COVER_TOLERANCE_FLOOR_USD
    Divisor,        \* COVER_TOLERANCE_DIVISOR
    None            \* NULL

ASSUME InstStoreAssumption ==
    /\ Accessions \subseteq Nat /\ IsFiniteSet(Accessions)
    /\ Floor \in Nat /\ Divisor \in Nat \ {0}

Forms == {"HR", "HR/A", "NT", "NT/A"}
Notices == {"NT", "NT/A"}

(* A cover of a holdings report without a total cannot be read, and a      *)
(* notice has no table.  That a cover declares an amendment, and of which  *)
(* type, are two elements of it.                                           *)
Document ==
    {d \in [cik : Ciks, form : Forms, period : Nat, filed : Nat,
            declared : BOOLEAN,
            type : {None, "RESTATEMENT", "NEW HOLDINGS"}, no : Nat,
            total : Nat \cup {None}, resolved : Nat, others : SUBSET Ciks,
            readable : {"all", "cover", "nothing"}] :
        /\ d.form \notin Notices /\ d.total = None => d.readable = "nothing"
        /\ d.form \in Notices => d.resolved = 0}

AffiliationFlags == {"affiliated_covered", "affiliated_mutual_coverage",
                     "affiliated_shared_discretion"}

KnownFlags == {"amendment_unlinked", "cover_rounding", "cover_conflict"}
                 \cup AffiliationFlags

Row == [status : {"parsed", "failed cover", "failed table"},
        amends : Accessions \cup {None}, flags : SUBSET KnownFlags]

ASSUME RowAssumption ==
    /\ None \notin Row
    /\ None \notin Accessions \cup Ciks

Stored(rows) == {a \in Accessions : rows[a] # None}

(* One transaction replaces the row and its holdings; what the passes had  *)
(* derived for it starts over.                                             *)
UpsertInstFiling(rows, a, status) ==
    [rows EXCEPT ![a] = [status |-> status, amends |-> None, flags |-> {}]]

(***************************************************************************)
(* The columns of a row.  A cover that failed leaves only what the index   *)
(* says; a table that failed leaves a filing without holdings.             *)
(***************************************************************************)
Columns(D, rows, a) ==
    LET d == D[a] IN
    [accession |-> a, cik |-> d.cik, form |-> d.form, period |-> d.period,
     filed |-> d.filed, status |-> rows[a].status,
     declared |-> rows[a].status # "failed cover" /\ d.declared,
     type     |-> IF rows[a].status = "failed cover" THEN None ELSE d.type,
     no       |-> IF rows[a].status = "failed cover" THEN 0 ELSE d.no,
     total    |-> IF rows[a].status = "failed cover" THEN None ELSE d.total,
     others   |-> IF rows[a].status = "failed cover" THEN {} ELSE d.others,
     number   |-> IF rows[a].status = "failed cover" THEN None ELSE d.cik,
     resolved |-> IF rows[a].status = "parsed" THEN d.resolved ELSE 0]

Filings(D, rows) == {Columns(D, rows, a) : a \in Stored(rows)}

IsAmendment(f) == f.form \in {"HR/A", "NT/A"} \/ f.declared

(***************************************************************************)
(* Stage 1 of the views, and of the ranking: a restatement replaces what   *)
(* it out-orders, an addition is merged.                                   *)
(***************************************************************************)
OutOrders(r, f) ==
    \/ r.filed > f.filed
    \/ r.filed = f.filed /\ r.no > f.no
    \/ r.filed = f.filed /\ r.no = f.no /\ r.accession > f.accession

Survivors(F) ==
    {f \in F : ~ \E r \in F : /\ r.type = "RESTATEMENT"
                              /\ r.cik = f.cik /\ r.period = f.period
                              /\ r.accession # f.accession
                              /\ OutOrders(r, f)}

(* Stage 2: a notice is dropped where another survivor names its filer.    *)
Coverers(S, f) ==
    {c \in S : /\ c.accession # f.accession
               /\ c.period = f.period
               /\ f.number # None /\ f.number \in c.others}

Reconciled(F) ==
    LET S == Survivors(F) IN
    {f \in S : f.form \notin Notices \/ Coverers(S, f) = {}}

(* Stage 3: what a filing's holdings add up to is within the tolerance of  *)
(* what its cover declares.                                                *)
Tolerance(declared) ==
    IF declared \div Divisor > Floor THEN declared \div Divisor ELSE Floor

WithinCover(f) ==
    f.total = None \/ f.resolved - f.total <= Tolerance(f.total)

DefaultFilings(F) == {f \in Reconciled(F) : WithinCover(f)}

FilerReported(F) == {f \in Survivors(F) : WithinCover(f)}

(***************************************************************************)
(* The passes after a load.                                                *)
(***************************************************************************)
Bases(F, f) ==
    {b \in F : /\ b.cik = f.cik /\ b.period = f.period
               /\ ~IsAmendment(b)
               /\ b.accession # f.accession /\ b.filed <= f.filed}

(* The base is the only original filing that is not later; zero or many    *)
(* leave the amendment without a link.                                     *)
LinkInstAmendment(F, f, row) ==
    LET bases == Bases(F, f) IN
    IF ~IsAmendment(f) THEN row
    ELSE IF Cardinality(bases) = 1
    THEN [row EXCEPT !.amends = (CHOOSE b \in bases : TRUE).accession,
                     !.flags = @ \ {"amendment_unlinked"}]
    ELSE [row EXCEPT !.amends = None,
                     !.flags = @ \cup {"amendment_unlinked"}]

AffiliationOf(S, f) ==
    LET coverers == Coverers(S, f) IN
    IF f \notin S \/ coverers = {} THEN {}
    ELSE IF f.form \notin Notices THEN {"affiliated_shared_discretion"}
    ELSE IF \E c \in coverers : c.number # None /\ c.number \in f.others
    THEN {"affiliated_mutual_coverage"}
    ELSE {"affiliated_covered"}

AccumulateAffiliations(S, f, row) ==
    [row EXCEPT !.flags = @ \cup AffiliationOf(S, f)]

MarkAffiliatedCoverage(S, f, row) ==
    [row EXCEPT !.flags = (@ \ AffiliationFlags) \cup AffiliationOf(S, f)]

(* classify_cover, over the reconciled filings that exceed their cover.    *)
DispositionOf(R, f) ==
    IF f \notin R \/ f.total = None \/ f.resolved <= f.total THEN {}
    ELSE IF WithinCover(f) THEN {"cover_rounding"} ELSE {"cover_conflict"}

MarkCoverDispositions(R, f, row) ==
    [row EXCEPT !.flags = (@ \ {"cover_rounding", "cover_conflict"})
                              \cup DispositionOf(R, f)]

(* The passes in their order; none of them changes a column that another   *)
(* one reads.  No transaction encloses them in the code; here they are one *)
(* step, as the next run ends with all of them again and takes nothing     *)
(* from what they had derived before.                                      *)
FinalizeInstIngest(D, rows) ==
    LET F == Filings(D, rows)
        S == Survivors(F)
        R == Reconciled(F)
        Passed(f, row) ==
            MarkCoverDispositions(R, f,
                MarkAffiliatedCoverage(S, f, LinkInstAmendment(F, f, row)))
    IN [a \in Accessions |->
           IF rows[a] = None THEN None
           ELSE Passed(Columns(D, rows, a), rows[a])]

(* inst_pair_invariant_errors finds nothing.                               *)
LinksHold(D, rows) ==
    \A a \in Stored(rows) :
       LET o == rows[a].amends IN
       o # None =>
          /\ o # a /\ rows[o] # None
          /\ D[o].cik = D[a].cik /\ D[o].period = D[a].period
          /\ ~IsAmendment(Columns(D, rows, o))
          /\ D[o].filed <= D[a].filed

(***************************************************************************)
(* The coverage figures of a set of filings.                               *)
(***************************************************************************)
Numerator(F) == MapThenSumSet(LAMBDA f : f.resolved, DefaultFilings(F))

Banked(f) ==
    IF f.total = None THEN 0
    ELSE IF f.resolved > f.total THEN f.resolved ELSE f.total

Denominator(F) == MapThenSumSet(Banked, DefaultFilings(F))

OfPeriod(F, p) == {f \in F : f.period = p}

=============================================================================
