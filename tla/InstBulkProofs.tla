----------------------------- MODULE InstBulkProofs -----------------------------
(***************************************************************************)
(* Proofs about the bulk ingest, for any filings, managers, journals and   *)
(* any number of refusals, crashes and single ingests: the universe is the *)
(* ranking of what is listed, the archive holds SEC's documents, the       *)
(* derived columns are a clean rebuild's, no figure inflates, and what is  *)
(* journaled as loaded is what was ranked.                                 *)
(***************************************************************************)
EXTENDS InstBulk, FiniteSetTheorems, TLAPS

(***************************************************************************)
(* Finite sets.                                                            *)
(***************************************************************************)

(* A property that fails for some finite set fails for one of whose strict *)
(* subsets it holds.                                                       *)
LEMMA SmallestSet ==
    ASSUME NEW S, IsFiniteSet(S), NEW Odd \in SUBSET SUBSET S, Odd # {}
    PROVE  \E T \in Odd : \A U \in Odd : U \subseteq T => U = T
<1>1. Odd \subseteq FiniteSubsetsOf(S)
  BY FS_FiniteSubsetsOfFinite
<1>2. PICK T \in Odd : \A U \in Odd : ~(<<U, T>> \in StrictSubsetOrdering(S))
  BY <1>1, FS_StrictSubsetOrderingWellFounded, WFMin
<1>3. ASSUME NEW U \in Odd, U \subseteq T PROVE U = T
  BY <1>2, <1>3 DEF StrictSubsetOrdering
<1> QED
  BY <1>3

(* Weights that are natural numbers have a maximum.                        *)
LEMMA Heaviest ==
    ASSUME NEW S, IsFiniteSet(S), S # {}, NEW w \in [S -> Nat]
    PROVE  \E x \in S : \A y \in S : w[y] <= w[x]
<1> DEFINE Odd == {T \in SUBSET S : T # {} /\ ~ \E x \in T : \A y \in T : w[y] <= w[x]}
<1> SUFFICES ASSUME Odd # {} PROVE FALSE
  OBVIOUS
<1>1. PICK T \in Odd : \A U \in Odd : U \subseteq T => U = T
  <2>1. Odd \in SUBSET SUBSET S
    OBVIOUS
  <2> HIDE DEF Odd
  <2> QED
    BY <2>1, SmallestSet
<1>2. PICK x \in T : TRUE
  OBVIOUS
<1>3. T \ {x} \notin Odd
  BY <1>1, <1>2
<1>4. T \ {x} # {}
  BY <1>2
<1>5. PICK z \in T \ {x} : \A y \in T \ {x} : w[y] <= w[z]
  BY <1>3, <1>4
<1>6. w[x] \in Nat /\ w[z] \in Nat /\ \A y \in T : w[y] \in Nat
  BY <1>1
<1>7. CASE w[x] <= w[z]
  BY <1>5, <1>7, <1>1
<1>8. CASE w[z] <= w[x]
  BY <1>5, <1>8, <1>1, <1>6
<1> QED
  BY <1>6, <1>7, <1>8

(***************************************************************************)
(* Sums.  A sum over a finite set is a function of its subsets: the empty  *)
(* set gives zero, any other the weight of a chosen element added to what  *)
(* the others give.                                                        *)
(***************************************************************************)
SumStep(w, g, s) ==
    IF s = {} THEN 0
    ELSE LET x == CHOOSE x \in s : TRUE IN w[x] + g[s \ {x}]

IsSum(g, w, T) == g = [s \in T |-> SumStep(w, g, s)]

UpTo(S, n) == {s \in SUBSET S : Cardinality(s) <= n}

(* Up to n elements at a time there is such a function.                    *)
LEMMA SumUpTo ==
    ASSUME NEW S, IsFiniteSet(S), NEW w \in [S -> Nat], NEW n \in Nat
    PROVE  \E g : IsSum(g, w, UpTo(S, n))
<1> DEFINE Odd == {k \in Nat : ~ \E g : IsSum(g, w, UpTo(S, k))}
<1> SUFFICES ASSUME Odd # {} PROVE FALSE
  OBVIOUS
<1>1. PICK k \in Odd : \A m \in Odd : ~(<<m, k>> \in OpToRel(<, Nat))
  <2>1. Odd \subseteq Nat
    OBVIOUS
  <2> HIDE DEF Odd
  <2> QED
    BY <2>1, NatLessThanWellFounded, WFMin
<1>2. k \in Nat /\ \A m \in Odd : ~(m < k)
  <2> HIDE DEF Odd
  <2>1. Odd \subseteq Nat
    BY DEF Odd
  <2> QED
    BY <1>1, <2>1, Zenon DEF OpToRel
<1>3. k # 0
  <2> SUFFICES ASSUME k = 0 PROVE FALSE
    OBVIOUS
  <2>1. \A s \in UpTo(S, 0) : s = {}
    BY FS_EmptySet, FS_Subset, FS_CardinalityType DEF UpTo
  <2> DEFINE g == [s \in UpTo(S, 0) |-> 0]
  <2>2. IsSum(g, w, UpTo(S, 0))
    BY <2>1 DEF SumStep, IsSum
  <2> QED
    BY <1>1, <2>2
<1>4. PICK g : IsSum(g, w, UpTo(S, k - 1))
  BY <1>2, <1>3
<1> DEFINE h == [s \in UpTo(S, k) |-> SumStep(w, g, s)]
<1>5. ASSUME NEW s \in UpTo(S, k - 1) PROVE h[s] = g[s]
  <2>1. s \in UpTo(S, k)
    BY <1>2, <1>3, FS_Subset, FS_CardinalityType DEF UpTo
  <2> QED
    BY <1>4, <2>1 DEF IsSum
<1>6. ASSUME NEW s \in UpTo(S, k), s # {}, NEW x \in s
      PROVE  s \ {x} \in UpTo(S, k - 1)
  <2>1. IsFiniteSet(s) /\ Cardinality(s) \in Nat
    BY FS_Subset, FS_CardinalityType DEF UpTo
  <2>2. Cardinality(s \ {x}) = Cardinality(s) - 1
    BY <2>1, FS_RemoveElement
  <2>3. Cardinality(s) - 1 <= k - 1
    BY <1>2, <2>1 DEF UpTo
  <2> QED
    BY <2>2, <2>3 DEF UpTo
<1>7. ASSUME NEW s \in UpTo(S, k) PROVE SumStep(w, g, s) = SumStep(w, h, s)
  <2> HIDE DEF h
  <2>1. CASE s = {}
    BY <2>1 DEF SumStep
  <2>2. CASE s # {}
    <3> DEFINE x == CHOOSE x \in s : TRUE
    <3>1. x \in s
      BY <2>2
    <3>2. h[s \ {x}] = g[s \ {x}]
      BY <1>5, <1>6, <2>2, <3>1
    <3> QED
      BY <2>2, <3>2 DEF SumStep
  <2> QED
    BY <2>1, <2>2
<1>8. IsSum(h, w, UpTo(S, k))
  BY <1>7 DEF IsSum
<1> QED
  BY <1>1, <1>8

(* So there is one for all the subsets.                                    *)
LEMMA SumExists ==
    ASSUME NEW S, IsFiniteSet(S), NEW w \in [S -> Nat]
    PROVE  \E g : IsSum(g, w, SUBSET S)
<1>1. Cardinality(S) \in Nat
  BY FS_CardinalityType
<1>2. UpTo(S, Cardinality(S)) = SUBSET S
  BY FS_Subset DEF UpTo
<1>3. \E g : IsSum(g, w, UpTo(S, Cardinality(S)))
  BY <1>1, SumUpTo
<1> QED
  BY <1>2, <1>3

(* The numerator and the denominator of a set of filings are such sums.    *)
ResolvedOf(S) ==
    CHOOSE g : g = [s \in SUBSET S |->
        IF s = {} THEN 0
        ELSE LET x == CHOOSE x \in s : TRUE IN x.resolved + g[s \ {x}]]

BankedOf(S) ==
    CHOOSE g : g = [s \in SUBSET S |->
        IF s = {} THEN 0
        ELSE LET x == CHOOSE x \in s : TRUE IN Banked(x) + g[s \ {x}]]

(* The numerator of the coverage ratio is such a sum.                      *)
LEMMA NumeratorIsASum ==
    ASSUME NEW F PROVE Numerator(F) = ResolvedOf(DefaultFilings(F))[DefaultFilings(F)]
BY DEF Numerator, MapThenSumSet, MapThenFoldSet, ResolvedOf

(* So is its denominator.                                                  *)
LEMMA DenominatorIsASum ==
    ASSUME NEW F PROVE Denominator(F) = BankedOf(DefaultFilings(F))[DefaultFilings(F)]
BY DEF Denominator, MapThenSumSet, MapThenFoldSet, BankedOf

(* What a set of filings resolves is summed filing by filing.              *)
LEMMA ResolvedAdds ==
    ASSUME NEW S, IsFiniteSet(S), \A f \in S : f.resolved \in Nat,
           NEW s \in SUBSET S
    PROVE  ResolvedOf(S)[s] =
              IF s = {} THEN 0
              ELSE LET x == CHOOSE x \in s : TRUE
                   IN x.resolved + ResolvedOf(S)[s \ {x}]
<1> DEFINE w == [f \in S |-> f.resolved]
<1>1. w \in [S -> Nat]
  OBVIOUS
<1>2. PICK g : IsSum(g, w, SUBSET S)
  <2> HIDE DEF w
  <2> QED
    BY <1>1, SumExists
<1>3. ASSUME NEW u \in SUBSET S
      PROVE  SumStep(w, g, u) = IF u = {} THEN 0
                                ELSE LET x == CHOOSE x \in u : TRUE
                                     IN x.resolved + g[u \ {x}]
  BY DEF SumStep
<1>4. g = [u \in SUBSET S |-> IF u = {} THEN 0
                              ELSE LET x == CHOOSE x \in u : TRUE
                                   IN x.resolved + g[u \ {x}]]
  <2> HIDE DEF w
  <2> QED
    BY <1>2, <1>3 DEF IsSum
<1>5. ResolvedOf(S) = [u \in SUBSET S |->
                          IF u = {} THEN 0
                          ELSE LET x == CHOOSE x \in u : TRUE
                               IN x.resolved + ResolvedOf(S)[u \ {x}]]
  <2> HIDE DEF w
  <2> QED
    BY <1>4 DEF ResolvedOf
<1> QED
  BY <1>5

(* What a set of filings banks to the denominator adds up alike.           *)
LEMMA BankedAdds ==
    ASSUME NEW S, IsFiniteSet(S), \A f \in S : Banked(f) \in Nat,
           NEW s \in SUBSET S
    PROVE  BankedOf(S)[s] =
              IF s = {} THEN 0
              ELSE LET x == CHOOSE x \in s : TRUE
                   IN Banked(x) + BankedOf(S)[s \ {x}]
<1> DEFINE w == [f \in S |-> Banked(f)]
<1>1. w \in [S -> Nat]
  OBVIOUS
<1>2. PICK g : IsSum(g, w, SUBSET S)
  <2> HIDE DEF w
  <2> QED
    BY <1>1, SumExists
<1>3. ASSUME NEW u \in SUBSET S
      PROVE  SumStep(w, g, u) = IF u = {} THEN 0
                                ELSE LET x == CHOOSE x \in u : TRUE
                                     IN Banked(x) + g[u \ {x}]
  BY DEF SumStep
<1>4. g = [u \in SUBSET S |-> IF u = {} THEN 0
                              ELSE LET x == CHOOSE x \in u : TRUE
                                   IN Banked(x) + g[u \ {x}]]
  <2> HIDE DEF w
  <2> QED
    BY <1>2, <1>3 DEF IsSum
<1>5. BankedOf(S) = [u \in SUBSET S |->
                        IF u = {} THEN 0
                        ELSE LET x == CHOOSE x \in u : TRUE
                             IN Banked(x) + BankedOf(S)[u \ {x}]]
  <2> HIDE DEF w
  <2> QED
    BY <1>4 DEF BankedOf
<1> QED
  BY <1>5

(* What no filing exceeds, no sum exceeds.                                 *)
LEMMA SumsCompare ==
    ASSUME NEW S, IsFiniteSet(S),
           \A f \in S : /\ f.resolved \in Nat /\ Banked(f) \in Nat
                        /\ f.resolved <= Banked(f)
    PROVE  ResolvedOf(S)[S] <= BankedOf(S)[S]
<1> DEFINE Fits(s) == /\ ResolvedOf(S)[s] \in Nat /\ BankedOf(S)[s] \in Nat
                      /\ ResolvedOf(S)[s] <= BankedOf(S)[s]
           Odd == {s \in SUBSET S : ~Fits(s)}
<1> SUFFICES ASSUME Odd # {} PROVE FALSE
  OBVIOUS
<1>1. PICK s \in Odd : \A u \in Odd : u \subseteq s => u = s
  <2>1. Odd \in SUBSET SUBSET S
    OBVIOUS
  <2> HIDE DEF Odd
  <2> QED
    BY <2>1, SmallestSet
<1>2. CASE s = {}
  <2>1. ResolvedOf(S)[s] = 0 /\ BankedOf(S)[s] = 0
    BY <1>2, ResolvedAdds, BankedAdds
  <2> QED
    BY <1>1, <2>1
<1>3. CASE s # {}
  <2> DEFINE x == CHOOSE x \in s : TRUE
  <2>1. x \in s
    BY <1>3
  <2>2. s \ {x} \notin Odd
    BY <1>1, <2>1
  <2>3. Fits(s \ {x})
    BY <2>2, <1>1
  <2>4. /\ ResolvedOf(S)[s] = x.resolved + ResolvedOf(S)[s \ {x}]
        /\ BankedOf(S)[s] = Banked(x) + BankedOf(S)[s \ {x}]
    <3>1. s \in SUBSET S /\ \A f \in S : f.resolved \in Nat /\ Banked(f) \in Nat
      BY <1>1
    <3> HIDE DEF Odd
    <3>2. ResolvedOf(S)[s] = x.resolved + ResolvedOf(S)[s \ {x}]
      BY <3>1, <1>3, ResolvedAdds
    <3>3. BankedOf(S)[s] = Banked(x) + BankedOf(S)[s \ {x}]
      BY <3>1, <1>3, BankedAdds
    <3> QED
      BY <3>2, <3>3
  <2>5. x.resolved \in Nat /\ Banked(x) \in Nat /\ x.resolved <= Banked(x)
    BY <1>1, <2>1
  <2> HIDE DEF x
  <2>6. Fits(s)
    BY <2>3, <2>4, <2>5
  <2> QED
    BY <1>1, <2>6
<1> QED
  BY <1>2, <1>3

(***************************************************************************)
(* Rows and their columns.                                                 *)
(***************************************************************************)
Rows == [Accessions -> Row \cup {None}]

(* A cover that was read is one that can be read.                          *)
ReadAsTheyCouldBe(W, rows) ==
    \A a \in Stored(rows) :
       rows[a].status # "failed cover" => W[a].readable # "nothing"

(* What is listed has a document.                                          *)
LEMMA DocumentOf ==
    ASSUME NEW W \in Worlds, NEW a \in Accessions PROVE W[a] \in Document
BY InstBulkAssumption

(* What is stored is a row.                                                *)
LEMMA RowOf ==
    ASSUME NEW rows \in Rows, NEW a \in Stored(rows)
    PROVE  a \in Accessions /\ rows[a] \in Row
BY DEF Rows, Stored

(* The columns that a filing shows.                                        *)
LEMMA ColumnsTyped ==
    ASSUME NEW W \in Worlds, NEW rows \in Rows, NEW a \in Stored(rows)
    PROVE  LET f == Columns(W, rows, a) IN
           /\ f.accession = a /\ a \in Nat
           /\ f.cik = W[a].cik /\ f.form = W[a].form
           /\ f.period = W[a].period /\ f.filed = W[a].filed
           /\ f.filed \in Nat /\ f.no \in Nat /\ f.resolved \in Nat
           /\ f.total \in Nat \cup {None}
<1>1. W[a] \in Document /\ a \in Nat
  BY DocumentOf, RowOf, InstStoreAssumption
<1>2. /\ W[a].filed \in Nat /\ W[a].no \in Nat /\ W[a].resolved \in Nat
      /\ W[a].total \in Nat \cup {None}
  BY <1>1 DEF Document
<1> QED
  BY <1>1, <1>2 DEF Columns

(* What a filing's holdings add up to is never more than what is banked    *)
(* for it.                                                                 *)
LEMMA NoFilingInflates ==
    ASSUME NEW W \in Worlds, NEW rows \in Rows, ReadAsTheyCouldBe(W, rows),
           NEW f \in Filings(W, rows)
    PROVE  /\ f.resolved \in Nat /\ Banked(f) \in Nat
           /\ f.resolved <= Banked(f)
<1>1. PICK a \in Stored(rows) : f = Columns(W, rows, a)
  BY DEF Filings
<1>2. f.resolved \in Nat /\ f.total \in Nat \cup {None}
  BY <1>1, ColumnsTyped
<1>3. CASE f.total = None
  <2>1. CASE rows[a].status # "parsed"
    <3>1. f.resolved = 0
      BY <1>1, <2>1 DEF Columns
    <3> QED
      BY <1>3, <3>1 DEF Banked
  <2>2. CASE rows[a].status = "parsed"
    <3>1. f.total = W[a].total /\ f.resolved = W[a].resolved
      BY <1>1, <2>2 DEF Columns
    <3>2. W[a].readable # "nothing"
      BY <2>2 DEF ReadAsTheyCouldBe
    <3>3. W[a] \in Document
      BY DocumentOf, RowOf
    <3>4. W[a].resolved = 0
      BY <1>3, <3>1, <3>2, <3>3 DEF Document
    <3> QED
      BY <1>3, <3>1, <3>4 DEF Banked
  <2> QED
    BY <2>1, <2>2
<1>4. CASE f.total # None
  BY <1>2, <1>4 DEF Banked
<1> QED
  BY <1>3, <1>4

(* A store shows finitely many filings.                                    *)
LEMMA FilingsAreFinite ==
    ASSUME NEW W, NEW rows, NEW F \in SUBSET Filings(W, rows)
    PROVE  IsFiniteSet(F)
<1> DEFINE g == [a \in Stored(rows) |-> Columns(W, rows, a)]
<1>1. IsFiniteSet(Stored(rows))
  BY FS_Subset, InstStoreAssumption DEF Stored
<1>2. g \in Surjection(Stored(rows), Filings(W, rows))
  BY DEF Surjection, Filings
<1>3. IsFiniteSet(Filings(W, rows))
  <2> HIDE DEF g
  <2> QED
    BY <1>1, <1>2, FS_Surjection
<1> QED
  BY <1>3, FS_Subset

(* One of several filings survives: the last in the order of the views.    *)
LEMMA SomeoneSurvives ==
    ASSUME NEW F, IsFiniteSet(F), F # {},
           \A f \in F : f.accession \in Nat /\ f.filed \in Nat /\ f.no \in Nat
    PROVE  Survivors(F) # {}
<1>1. PICK x \in F : \A y \in F : y.filed <= x.filed
  <2> DEFINE w == [f \in F |-> f.filed]
  <2>1. w \in [F -> Nat]
    OBVIOUS
  <2>2. PICK x \in F : \A y \in F : w[y] <= w[x]
    <3> HIDE DEF w
    <3> QED
      BY <2>1, Heaviest
  <2> QED
    BY <2>2
<1> DEFINE G == {f \in F : f.filed = x.filed}
<1>2. PICK y \in G : \A z \in G : z.no <= y.no
  <2> DEFINE w == [f \in G |-> f.no]
  <2>1. w \in [G -> Nat] /\ IsFiniteSet(G) /\ G # {}
    BY FS_Subset
  <2>2. PICK y \in G : \A z \in G : w[z] <= w[y]
    <3> HIDE DEF w, G
    <3> QED
      BY <2>1, Heaviest
  <2> QED
    BY <2>2
<1> DEFINE H == {f \in G : f.no = y.no}
<1>3. PICK z \in H : \A u \in H : u.accession <= z.accession
  <2> DEFINE w == [f \in H |-> f.accession]
  <2>1. w \in [H -> Nat] /\ IsFiniteSet(H) /\ H # {}
    BY FS_Subset
  <2>2. PICK z \in H : \A u \in H : w[u] <= w[z]
    <3> HIDE DEF w, H
    <3> QED
      BY <2>1, Heaviest
  <2> QED
    BY <2>2
<1>4. ASSUME NEW r \in F, OutOrders(r, z) PROVE FALSE
  <2>1. z.filed = x.filed /\ z.no = y.no /\ z \in F
    OBVIOUS
  <2>2. r.filed <= z.filed
    BY <1>1, <2>1
  <2>3. r.filed = z.filed => r.no <= z.no
    BY <1>2, <2>1
  <2>4. r.filed = z.filed /\ r.no = z.no => r.accession <= z.accession
    BY <1>3, <2>1
  <2> QED
    BY <1>4, <2>1, <2>2, <2>3, <2>4 DEF OutOrders
<1>5. z \in Survivors(F)
  BY <1>4 DEF Survivors
<1> QED
  BY <1>5

(* No figure counts a dollar that its denominator does not hold, and the   *)
(* two populations differ by the covered notices alone.                    *)
LEMMA NothingInflates ==
    ASSUME D \in Worlds, store \in Rows, ReadAsTheyCouldBe(D, store)
    PROVE  CoverageNeverInflates
<1> DEFINE F == Filings(D, store)
<1>1. ASSUME NEW p PROVE Numerator(OfPeriod(F, p)) <= Denominator(OfPeriod(F, p))
  <2> DEFINE S == DefaultFilings(OfPeriod(F, p))
  <2>1. S \in SUBSET Filings(D, store)
    BY DEF DefaultFilings, Reconciled, Survivors, OfPeriod
  <2>2. IsFiniteSet(S)
    <3> HIDE DEF S
    <3> QED
      BY <2>1, FilingsAreFinite
  <2>3. \A f \in S : /\ f.resolved \in Nat /\ Banked(f) \in Nat
                     /\ f.resolved <= Banked(f)
    <3> HIDE DEF S
    <3> QED
      BY <2>1, NoFilingInflates
  <2>4. ResolvedOf(S)[S] <= BankedOf(S)[S]
    <3> HIDE DEF S
    <3> QED
      BY <2>2, <2>3, SumsCompare
  <2> QED
    BY <2>4, NumeratorIsASum, DenominatorIsASum
<1>2. ASSUME NEW f \in F PROVE Survivors(OfPeriod(F, f.period)) # {}
  <2> DEFINE S == OfPeriod(F, f.period)
  <2>1. S \in SUBSET Filings(D, store) /\ f \in S
    BY DEF OfPeriod
  <2>2. IsFiniteSet(S)
    <3> HIDE DEF S
    <3> QED
      BY <2>1, FilingsAreFinite
  <2>3. \A g \in S : g.accession \in Nat /\ g.filed \in Nat /\ g.no \in Nat
    <3> HIDE DEF S
    <3> QED
      BY <2>1, ColumnsTyped DEF Filings
  <2> HIDE DEF S
  <2>4. Survivors(S) # {}
    BY <2>1, <2>2, <2>3, SomeoneSurvives
  <2> QED
    BY <2>4 DEF S
<1>3. FilerReported(F) \ DefaultFilings(F) =
         {f \in FilerReported(F) : /\ f.form \in Notices
                                   /\ Coverers(Survivors(F), f) # {}}
  <2> HIDE DEF F
  <2> QED
    BY DEF FilerReported, DefaultFilings, Reconciled
<1> QED
  BY <1>1, <1>2, <1>3 DEF CoverageNeverInflates

(***************************************************************************)
(* The passes after a load.                                                *)
(***************************************************************************)
(* A freshly loaded row.                                                   *)
LEMMA LoadedRow ==
    ASSUME NEW status \in {"parsed", "failed cover", "failed table"}
    PROVE  /\ [status |-> status, amends |-> None, flags |-> {}] \in Row
           /\ [status |-> status, amends |-> None, flags |-> {}] # None
<1>1. [status |-> status, amends |-> None, flags |-> {}] \in Row
  <2>1. {} \in SUBSET KnownFlags /\ None \in Accessions \cup {None}
    OBVIOUS
  <2> QED
    BY <2>1, Zenon DEF Row
<1> QED
  BY <1>1, RowAssumption

(* What earlier passes may have left in a row: a flag of theirs, and a     *)
(* link or the want of one in an amendment only.                           *)
LeftBehind(f, row) ==
    /\ row \in Row
    /\ row.amends # None \/ "amendment_unlinked" \in row.flags => IsAmendment(f)

(* What the passes make of it depends on its status alone.                 *)
Linked(F, f) == IsAmendment(f) /\ Cardinality(Bases(F, f)) = 1

LinkOf(F, f) ==
    IF Linked(F, f) THEN (CHOOSE b \in Bases(F, f) : TRUE).accession ELSE None

FlagsOf(F, f) ==
    (IF IsAmendment(f) /\ ~Linked(F, f) THEN {"amendment_unlinked"} ELSE {})
       \cup AffiliationOf(Survivors(F), f)
       \cup DispositionOf(Reconciled(F), f)

PassedRow(F, f, status) ==
    [status |-> status, amends |-> LinkOf(F, f), flags |-> FlagsOf(F, f)]

(* Linking an amendment touches its link and one flag.                     *)
LEMMA LinkGives ==
    ASSUME NEW F, NEW f, NEW row, LeftBehind(f, row)
    PROVE  LET l == LinkInstAmendment(F, f, row) IN
           /\ l = [status |-> row.status, amends |-> LinkOf(F, f), flags |-> l.flags]
           /\ l.flags \subseteq KnownFlags
           /\ "amendment_unlinked" \in l.flags <=> IsAmendment(f) /\ ~Linked(F, f)
<1> DEFINE l == LinkInstAmendment(F, f, row)
<1>1. /\ row = [status |-> row.status, amends |-> row.amends, flags |-> row.flags]
      /\ row.flags \subseteq KnownFlags
  BY DEF LeftBehind, Row
<1>2. CASE ~IsAmendment(f)
  <2>1. l = row
    BY <1>2 DEF LinkInstAmendment
  <2>2. LinkOf(F, f) = None
    BY <1>2 DEF LinkOf, Linked
  <2> QED
    BY <1>1, <1>2, <2>1, <2>2 DEF LeftBehind
<1>3. CASE Linked(F, f)
  <2>1. l = [row EXCEPT !.amends = LinkOf(F, f),
                        !.flags = row.flags \ {"amendment_unlinked"}]
    BY <1>3 DEF LinkInstAmendment, LinkOf, Linked
  <2>2. l = [status |-> row.status, amends |-> LinkOf(F, f),
             flags |-> row.flags \ {"amendment_unlinked"}]
    <3> HIDE DEF l
    <3> QED
      BY <1>1, <2>1
  <2> HIDE DEF l
  <2>3. /\ l = [status |-> row.status, amends |-> LinkOf(F, f), flags |-> l.flags]
        /\ l.flags \subseteq KnownFlags /\ "amendment_unlinked" \notin l.flags
    BY <1>1, <2>2
  <2> QED
    BY <1>3, <2>3 DEF l
<1>4. CASE IsAmendment(f) /\ ~Linked(F, f)
  <2>1. l = [row EXCEPT !.amends = None,
                        !.flags = row.flags \cup {"amendment_unlinked"}]
    BY <1>4 DEF LinkInstAmendment, Linked
  <2>2. LinkOf(F, f) = None
    BY <1>4 DEF LinkOf
  <2> HIDE DEF l
  <2>3. /\ l = [status |-> row.status, amends |-> LinkOf(F, f), flags |-> l.flags]
        /\ l.flags \subseteq KnownFlags /\ "amendment_unlinked" \in l.flags
    BY <1>1, <2>1, <2>2 DEF KnownFlags
  <2> QED
    BY <1>4, <2>3 DEF l
<1> QED
  BY <1>2, <1>3, <1>4 DEF Linked

(* The affiliation marks are known flags.                                  *)
LEMMA AffiliationsAreFlags ==
    ASSUME NEW S, NEW f PROVE AffiliationOf(S, f) \subseteq AffiliationFlags
BY DEF AffiliationOf, AffiliationFlags

(* The cover dispositions are known flags.                                 *)
LEMMA DispositionsAreFlags ==
    ASSUME NEW R, NEW f
    PROVE  DispositionOf(R, f) \subseteq {"cover_rounding", "cover_conflict"}
BY DEF DispositionOf

Passed(F, f, row) ==
    MarkCoverDispositions(Reconciled(F), f,
        MarkAffiliatedCoverage(Survivors(F), f, LinkInstAmendment(F, f, row)))

(* What the three passes leave in a row.                                   *)
LEMMA PassesGive ==
    ASSUME NEW F, NEW f, NEW row, LeftBehind(f, row)
    PROVE  Passed(F, f, row) = PassedRow(F, f, row.status)
<1> DEFINE l == LinkInstAmendment(F, f, row)
           aff == AffiliationOf(Survivors(F), f)
           disp == DispositionOf(Reconciled(F), f)
           marked == MarkAffiliatedCoverage(Survivors(F), f, l)
           out == MarkCoverDispositions(Reconciled(F), f, marked)
<1>1. /\ l = [status |-> row.status, amends |-> LinkOf(F, f), flags |-> l.flags]
      /\ l.flags \subseteq KnownFlags
      /\ "amendment_unlinked" \in l.flags <=> IsAmendment(f) /\ ~Linked(F, f)
  BY LinkGives
<1>2. aff \subseteq AffiliationFlags /\ disp \subseteq {"cover_rounding", "cover_conflict"}
  BY AffiliationsAreFlags, DispositionsAreFlags
<1>3. marked = [status |-> row.status, amends |-> LinkOf(F, f),
                flags |-> (l.flags \ AffiliationFlags) \cup aff]
  <2> HIDE DEF l
  <2> QED
    BY <1>1 DEF MarkAffiliatedCoverage
<1>4. out = [status |-> row.status, amends |-> LinkOf(F, f),
             flags |-> (((l.flags \ AffiliationFlags) \cup aff)
                           \ {"cover_rounding", "cover_conflict"}) \cup disp]
  <2>1. out = [marked EXCEPT !.flags =
                  (marked.flags \ {"cover_rounding", "cover_conflict"}) \cup disp]
    BY DEF MarkCoverDispositions
  <2> HIDE DEF l, marked, aff, disp, out
  <2> QED
    BY <1>3, <2>1
<1>5. (((l.flags \ AffiliationFlags) \cup aff)
          \ {"cover_rounding", "cover_conflict"}) \cup disp
      = (IF IsAmendment(f) /\ ~Linked(F, f) THEN {"amendment_unlinked"} ELSE {})
          \cup aff \cup disp
  <2> HIDE DEF l, aff, disp
  <2>1. \A x \in AffiliationFlags : x \notin {"amendment_unlinked", "cover_rounding", "cover_conflict"}
    BY DEF AffiliationFlags
  <2> QED
    BY <1>1, <1>2, <2>1 DEF KnownFlags
<1>6. out = PassedRow(F, f, row.status)
  <2> HIDE DEF l, out
  <2> QED
    BY <1>4, <1>5 DEF PassedRow, FlagsOf
<1> QED
  BY <1>6 DEF Passed

(* A row after the passes: its link is to one of its bases.                *)
LEMMA BaseOf ==
    ASSUME NEW F, NEW f, Linked(F, f)
    PROVE  \E b \in Bases(F, f) : LinkOf(F, f) = b.accession
<1>1. Bases(F, f) # {}
  BY FS_EmptySet DEF Linked
<1>2. (CHOOSE b \in Bases(F, f) : TRUE) \in Bases(F, f)
  BY <1>1
<1> QED
  BY <1>2 DEF LinkOf

(* A row that went through the passes is a row.                            *)
LEMMA PassedIsARow ==
    ASSUME NEW F, NEW f, \A b \in F : b.accession \in Accessions,
           NEW status \in {"parsed", "failed cover", "failed table"}
    PROVE  /\ PassedRow(F, f, status) \in Row
           /\ PassedRow(F, f, status).status = status
           /\ LeftBehind(f, PassedRow(F, f, status))
<1>1. LinkOf(F, f) \in Accessions \cup {None}
  <2>1. CASE Linked(F, f)
    <3>1. PICK b \in Bases(F, f) : LinkOf(F, f) = b.accession
      BY <2>1, BaseOf
    <3> QED
      BY <3>1 DEF Bases
  <2>2. CASE ~Linked(F, f)
    BY <2>2 DEF LinkOf
  <2> QED
    BY <2>1, <2>2
<1>2. /\ FlagsOf(F, f) \subseteq KnownFlags
      /\ "amendment_unlinked" \in FlagsOf(F, f) => IsAmendment(f)
  <2>1. "amendment_unlinked" \notin AffiliationFlags \cup {"cover_rounding", "cover_conflict"}
    BY DEF AffiliationFlags
  <2> QED
    BY <2>1, AffiliationsAreFlags, DispositionsAreFlags DEF FlagsOf, KnownFlags
<1>3. LinkOf(F, f) # None => IsAmendment(f)
  BY DEF LinkOf, Linked
<1> QED
  BY <1>1, <1>2, <1>3 DEF PassedRow, LeftBehind, Row

(***************************************************************************)
(* The passes over the whole store.                                        *)
(***************************************************************************)
(* The columns of a filing are its document's and its status.              *)
LEMMA ColumnsFollowTheStatus ==
    ASSUME NEW W, NEW rows, NEW others, NEW a \in Accessions,
           rows[a].status = others[a].status
    PROVE  Columns(W, rows, a) = Columns(W, others, a)
BY DEF Columns

SameStatuses(rows, others) ==
    /\ Stored(rows) = Stored(others)
    /\ \A a \in Stored(rows) : rows[a].status = others[a].status

(* Filings are what the statuses make them: flags and links do not count.  *)
LEMMA FilingsFollowTheStatuses ==
    ASSUME NEW W, NEW rows, NEW others, SameStatuses(rows, others)
    PROVE  Filings(W, rows) = Filings(W, others)
<1>1. \A a \in Stored(rows) : Columns(W, rows, a) = Columns(W, others, a)
  BY ColumnsFollowTheStatus DEF SameStatuses, Stored
<1> QED
  BY <1>1 DEF Filings, SameStatuses

RowsHold(W, rows) ==
    /\ rows \in Rows
    /\ ReadAsTheyCouldBe(W, rows)
    /\ \A a \in Stored(rows) : LeftBehind(Columns(W, rows, a), rows[a])

(* The passes, row by row.                                                 *)
LEMMA PassesOverTheStore ==
    ASSUME NEW W, NEW rows, RowsHold(W, rows)
    PROVE  FinalizeInstIngest(W, rows) =
              [a \in Accessions |->
                 IF rows[a] = None THEN None
                 ELSE PassedRow(Filings(W, rows), Columns(W, rows, a), rows[a].status)]
<1> DEFINE F == Filings(W, rows)
<1>1. FinalizeInstIngest(W, rows) =
         [a \in Accessions |-> IF rows[a] = None THEN None
                               ELSE Passed(F, Columns(W, rows, a), rows[a])]
  BY DEF FinalizeInstIngest, Passed
<1>2. \A a \in Accessions : rows[a] # None =>
         Passed(F, Columns(W, rows, a), rows[a]) =
         PassedRow(F, Columns(W, rows, a), rows[a].status)
  <2> HIDE DEF F
  <2> QED
    BY PassesGive DEF RowsHold, Stored
<1> QED
  BY <1>1, <1>2

(* A filing's accession tells it.                                          *)
LEMMA AccessionOf ==
    ASSUME NEW W, NEW rows, NEW b \in Filings(W, rows)
    PROVE  /\ b.accession \in Stored(rows) /\ b = Columns(W, rows, b.accession)
           /\ b.accession \in Accessions
<1>1. PICK a \in Stored(rows) : b = Columns(W, rows, a)
  BY DEF Filings
<1>2. b.accession = a
  BY <1>1 DEF Columns
<1> QED
  BY <1>1, <1>2 DEF Stored

(* They leave every status, and rows of the same kind.                     *)
LEMMA PassesKeepTheRows ==
    ASSUME NEW W, NEW rows, RowsHold(W, rows)
    PROVE  /\ SameStatuses(rows, FinalizeInstIngest(W, rows))
           /\ RowsHold(W, FinalizeInstIngest(W, rows))
<1> DEFINE F == Filings(W, rows)
           T == FinalizeInstIngest(W, rows)
<1>1. T = [a \in Accessions |->
             IF rows[a] = None THEN None
             ELSE PassedRow(F, Columns(W, rows, a), rows[a].status)]
  BY PassesOverTheStore
<1>2. ASSUME NEW a \in Stored(rows)
      PROVE  /\ T[a] \in Row /\ T[a] # None /\ T[a].status = rows[a].status
             /\ LeftBehind(Columns(W, rows, a), T[a])
  <2>1. a \in Accessions /\ rows[a] # None /\ rows[a] \in Row
    BY RowOf DEF RowsHold, Stored
  <2>2. T[a] = PassedRow(F, Columns(W, rows, a), rows[a].status)
    <3> HIDE DEF F, T
    <3> QED
      BY <1>1, <2>1
  <2>3. \A b \in F : b.accession \in Accessions
    BY AccessionOf
  <2>4. rows[a].status \in {"parsed", "failed cover", "failed table"}
    BY <2>1 DEF Row
  <2> HIDE DEF F, T
  <2> QED
    BY <2>2, <2>3, <2>4, PassedIsARow, RowAssumption
<1>3. \A a \in Accessions : rows[a] = None => T[a] = None
  <2> HIDE DEF F, T
  <2> QED
    BY <1>1
<1>4. DOMAIN T = Accessions /\ T = [a \in Accessions |-> T[a]]
  <2> HIDE DEF F, T
  <2> QED
    BY <1>1
<1> HIDE DEF F, T
<1>5. SameStatuses(rows, T)
  BY <1>2, <1>3 DEF SameStatuses, Stored
<1>6. T \in Rows
  BY <1>2, <1>3, <1>4 DEF Rows, Stored
<1>7. ReadAsTheyCouldBe(W, T)
  BY <1>5 DEF ReadAsTheyCouldBe, RowsHold, SameStatuses
<1>8. \A a \in Stored(T) : LeftBehind(Columns(W, T, a), T[a])
  BY <1>2, <1>5, ColumnsFollowTheStatus DEF SameStatuses, Stored
<1> QED
  BY <1>5, <1>6, <1>7, <1>8 DEF RowsHold, T

(* What they derive is what they derive from freshly loaded rows.          *)
LEMMA PassesConverge ==
    ASSUME NEW W, NEW rows, RowsHold(W, rows)
    PROVE  LET T == FinalizeInstIngest(W, rows)
           IN  T = FinalizeInstIngest(W, Fresh(T))
<1> DEFINE T == FinalizeInstIngest(W, rows)
           fresh == Fresh(T)
<1>1. SameStatuses(rows, T) /\ RowsHold(W, T)
  BY PassesKeepTheRows
<1> HIDE DEF T
<1>2. fresh = [a \in Accessions |->
                 IF T[a] = None THEN None
                 ELSE [status |-> T[a].status, amends |-> None, flags |-> {}]]
  BY DEF Fresh
<1> HIDE DEF fresh
<1>3. ASSUME NEW a \in Accessions, T[a] # None
      PROVE  /\ fresh[a] \in Row /\ fresh[a] # None /\ fresh[a].status = T[a].status
             /\ fresh[a].amends = None /\ fresh[a].flags = {}
  <2>1. T[a] \in Row
    BY <1>1, <1>3, RowOf DEF RowsHold, Stored
  <2>2. fresh[a] = [status |-> T[a].status, amends |-> None, flags |-> {}]
    BY <1>2, <1>3
  <2>3. T[a].status \in {"parsed", "failed cover", "failed table"}
    BY <2>1 DEF Row
  <2>4. /\ [status |-> T[a].status, amends |-> None, flags |-> {}] \in Row
        /\ [status |-> T[a].status, amends |-> None, flags |-> {}] # None
    BY <2>3, LoadedRow
  <2>5. fresh[a] \in Row /\ fresh[a] # None
    BY <2>2, <2>4
  <2> QED
    BY <2>2, <2>5
<1>4. \A a \in Accessions : T[a] = None => fresh[a] = None
  BY <1>2
<1>5. SameStatuses(T, fresh)
  BY <1>3, <1>4 DEF SameStatuses, Stored
<1>6. SameStatuses(rows, fresh)
  BY <1>1, <1>5 DEF SameStatuses
<1>7. RowsHold(W, fresh)
  <2>1. fresh = [a \in Accessions |-> fresh[a]]
    BY <1>2
  <2>2. fresh \in Rows
    BY <2>1, <1>3, <1>4 DEF Rows
  <2>3. ReadAsTheyCouldBe(W, fresh)
    BY <1>1, <1>5 DEF ReadAsTheyCouldBe, RowsHold, SameStatuses
  <2>4. \A a \in Stored(fresh) : LeftBehind(Columns(W, fresh, a), fresh[a])
    BY <1>3, <1>4 DEF LeftBehind, Stored
  <2> QED
    BY <2>2, <2>3, <2>4 DEF RowsHold
<1>8. Filings(W, fresh) = Filings(W, rows)
  BY <1>6, FilingsFollowTheStatuses
<1>9. \A a \in Stored(rows) : /\ Columns(W, fresh, a) = Columns(W, rows, a)
                             /\ fresh[a].status = rows[a].status
  BY <1>6, ColumnsFollowTheStatus DEF SameStatuses, Stored
<1>10. \A a \in Accessions : fresh[a] = None <=> rows[a] = None
  BY <1>6 DEF SameStatuses, Stored
<1>11. FinalizeInstIngest(W, fresh) =
          [a \in Accessions |->
             IF fresh[a] = None THEN None
             ELSE PassedRow(Filings(W, fresh), Columns(W, fresh, a), fresh[a].status)]
  BY <1>7, PassesOverTheStore
<1>12. T = [a \in Accessions |->
             IF rows[a] = None THEN None
             ELSE PassedRow(Filings(W, rows), Columns(W, rows, a), rows[a].status)]
  BY PassesOverTheStore DEF T
<1>13. T = FinalizeInstIngest(W, fresh)
  BY <1>8, <1>9, <1>10, <1>11, <1>12 DEF Stored
<1> QED
  BY <1>13 DEF T, fresh

(* Every link that they leave keeps the pair invariants.                   *)
LEMMA PassesLink ==
    ASSUME NEW W, NEW rows, RowsHold(W, rows)
    PROVE  LinksHold(W, FinalizeInstIngest(W, rows))
<1> DEFINE F == Filings(W, rows)
           T == FinalizeInstIngest(W, rows)
<1>1. SameStatuses(rows, T)
  BY PassesKeepTheRows
<1>2. T = [a \in Accessions |->
             IF rows[a] = None THEN None
             ELSE PassedRow(F, Columns(W, rows, a), rows[a].status)]
  BY PassesOverTheStore
<1> HIDE DEF T
<1>3. ASSUME NEW a \in Stored(T), T[a].amends # None
      PROVE  LET o == T[a].amends IN
             /\ o # a /\ T[o] # None
             /\ W[o].cik = W[a].cik /\ W[o].period = W[a].period
             /\ ~IsAmendment(Columns(W, T, o)) /\ W[o].filed <= W[a].filed
  <2> DEFINE f == Columns(W, rows, a)
             o == T[a].amends
  <2>1. a \in Stored(rows) /\ a \in Accessions /\ rows[a] # None
    BY <1>1 DEF SameStatuses, Stored
  <2>2. o = LinkOf(F, f)
    <3> HIDE DEF F
    <3> QED
      BY <1>2, <2>1 DEF PassedRow
  <2>3. Linked(F, f)
    BY <1>3, <2>2 DEF LinkOf
  <2>4. PICK b \in Bases(F, f) : o = b.accession
    BY <2>2, <2>3, BaseOf
  <2>5. /\ b \in F /\ b.cik = f.cik /\ b.period = f.period /\ ~IsAmendment(b)
        /\ b.accession # f.accession /\ b.filed <= f.filed
    BY <2>4 DEF Bases
  <2>6. o \in Stored(rows) /\ b = Columns(W, rows, o)
    BY <2>4, <2>5, AccessionOf
  <2>7. Columns(W, T, o) = b /\ T[o] # None
    BY <1>1, <2>6, ColumnsFollowTheStatus DEF SameStatuses, Stored
  <2>8. /\ f.accession = a /\ f.cik = W[a].cik
        /\ f.period = W[a].period /\ f.filed = W[a].filed
        /\ b.cik = W[o].cik /\ b.period = W[o].period /\ b.filed = W[o].filed
    BY <2>6 DEF Columns
  <2> QED
    BY <2>4, <2>5, <2>7, <2>8
<1> QED
  BY <1>3 DEF LinksHold, T

(***************************************************************************)
(* The inductive invariant.                                                *)
(***************************************************************************)
Files == [bytes : {None, Good, Bad}, check : {None, Good}]

Statuses == {"parsed", "failed cover", "failed table"}

Runs == [cmd : {"none", "discover", "ingest", "single"},
         refs : SUBSET Accessions,
         facts : [Accessions -> {None, "read", "unreadable"}],
         dirty : Nat, left : SUBSET Ciks, cik : Ciks \cup {None},
         todo : SUBSET Accessions, at : Accessions \cup {None},
         seen : [Accessions -> Statuses \cup {"absent"}]]

IngestJournals(u) ==
    [bound : {u}, disp : [Ciks -> {None, "ingest_error", "circuit_open"} \cup Terminal]]

TypeOK ==
    /\ D \in Worlds /\ listed \subseteq Accessions
    /\ archive \in [Docs -> Files]
    /\ rankJ \in RankJournal \cup {None}
    /\ ingJ \in IngestJournals(universe) \cup {None}
    /\ run \in Runs

(* Bytes have a checkpoint, and it is the document's.                      *)
Checked == \A d \in Docs : archive[d].bytes # None => archive[d].check = Good

(* What a complete sweep of these filings records.                         *)
Full(refs) == [a \in Accessions |-> IF a \in refs THEN Fact(a) ELSE None]

SweptSoFar(refs, facts) == \A a \in Accessions : facts[a] \in {None, Full(refs)[a]}

(* A journal and a sweep know nothing but what the covers say; a universe  *)
(* is the ranking of all of them, and stands beside its own journals.      *)
Ranking ==
    /\ rankJ # None => SweptSoFar(rankJ.refs, rankJ.facts)
    /\ run.cmd = "discover" => /\ SweptSoFar(run.refs, run.facts)
                               /\ run.refs \subseteq Refs
                               /\ universe = None
                               /\ rankJ # None => rankJ.refs = run.refs
    /\ universe # None => /\ universe = SelectTopN(universe.refs, Full(universe.refs))
                          /\ universe.refs \subseteq Refs
                          /\ rankJ # None /\ rankJ.refs = universe.refs
    /\ universe = None => ingJ = None

Loads(c) == ingJ # None /\ ingJ.disp[c] = "loaded"

(* A run writes what it says it has seen, and works on what is not loaded. *)
Ingesting ==
    /\ \A a \in Accessions : run.seen[a] # "absent" =>
          store[a] # None /\ store[a].status = run.seen[a]
    /\ run.cmd = "ingest" =>
          /\ universe # None /\ run.left \subseteq DOMAIN universe.lineage
          /\ \A c \in run.left : ~Loads(c)
          /\ Target => /\ run.cik \in run.left
                       /\ run.todo \subseteq universe.lineage[run.cik]
          /\ ~Target => run.todo = {} /\ run.at = None
          /\ Reading => run.at \in run.todo /\ D[run.at].readable # "nothing"
    /\ run.cmd = "single" => \A a \in run.todo : D[a].cik \in Singles

(* What the bulk ingest alone can have written was listed when its         *)
(* universe was ranked.                                                    *)
Bulked == {a \in Stored(store) : D[a].cik \notin Singles}

Traced ==
    /\ Bulked \subseteq Refs
    /\ run.cmd = "discover" => Bulked \subseteq run.refs
    /\ universe # None => Bulked \subseteq universe.refs

BulkInv ==
    /\ TypeOK /\ Checked /\ Ranking /\ Ingesting /\ Traced
    /\ RowsHold(D, store)
    /\ DerivedLikeACleanRebuild

-----------------------------------------------------------------------------
(* Types.                                                                  *)
LEMMA IdleIsARun == Idle \in Runs
BY DEF Idle, Runs, NoFacts, NoOutcomes, Statuses

(* A cover is read or it is not.                                           *)
LEMMA FactOf == \A a \in Accessions : Fact(a) \in {"read", "unreadable"}
BY DEF Fact

(* A universe ranks what it was given, and each lineage is part of it.     *)
LEMMA UniverseHas ==
    ASSUME NEW refs, NEW facts
    PROVE  LET u == SelectTopN(refs, facts) IN
           /\ u.refs = refs /\ DOMAIN u.lineage \subseteq Ranked(refs, facts)
           /\ DOMAIN u.lineage \subseteq Ciks
           /\ \A c \in DOMAIN u.lineage : u.lineage[c] = Lineage(refs, facts, c)
BY DEF SelectTopN, Ranked

(* A ranked filer's lineage is of filings listed.                          *)
LEMMA LineageOf ==
    ASSUME Ranking, universe # None, NEW c \in DOMAIN universe.lineage
    PROVE  /\ c \in Ciks
           /\ universe.lineage[c] = Lineage(universe.refs, Full(universe.refs), c)
           /\ c \in Ranked(universe.refs, Full(universe.refs))
BY UniverseHas DEF Ranking

(* And of that filer's own.                                                *)
LEMMA LineageHas ==
    ASSUME TypeOK, Ranking, universe # None, NEW c \in DOMAIN universe.lineage,
           NEW a \in universe.lineage[c]
    PROVE  /\ a \in universe.refs /\ a \in Accessions /\ D[a].cik = c
           /\ D[a].period = Period /\ D[a].form \notin Notices
<1>1. a \in Lineage(universe.refs, Full(universe.refs), c)
  BY LineageOf
<1> QED
  BY <1>1 DEF Lineage, Ranking, Refs, TypeOK

(* A fetch leaves a file of the archive.                                   *)
LEMMA ObtainedFile ==
    ASSUME TypeOK, Checked, NEW d \in Docs, NEW got \in Obtained(d)
    PROVE  /\ got.file \in Files
           /\ got.file.bytes # None => got.file.check = Good
<1> DEFINE f == archive[d]
<1>1. /\ f \in Files /\ f = [bytes |-> f.bytes, check |-> f.check]
      /\ f.bytes # None => f.check = Good
  BY DEF TypeOK, Checked, Files
<1>2. CASE OnDisk(f)
  <2>1. f.bytes = Good
    BY <1>1, <1>2, JournalAssumption DEF OnDisk, Good, Bad, Files
  <2>2. got.file = Adopted(f)
    BY <1>2 DEF Obtained
  <2>3. Adopted(f) = [bytes |-> Good, check |-> Good]
    BY <1>1, <2>1 DEF Adopted
  <2> QED
    BY <2>2, <2>3 DEF Files
<1>3. CASE ~OnDisk(f)
  <2>1. got.file \in {Kept(f, 200), Kept(f, 403)}
    BY <1>3 DEF Obtained
  <2>2. Kept(f, 200) = [bytes |-> Good, check |-> Good] /\ Kept(f, 403) = f
    BY DEF Kept
  <2>3. CASE got.file = f
    BY <1>1, <2>3
  <2>4. CASE got.file = [bytes |-> Good, check |-> Good]
    BY <2>4 DEF Files
  <2> QED
    BY <2>1, <2>2, <2>3, <2>4
<1> QED
  BY <1>2, <1>3

(* Recording an outcome keeps the journal's binding.                       *)
LEMMA RecordedIs ==
    ASSUME TypeOK, NEW c, NEW o \in {"ingest_error", "circuit_open"} \cup Terminal
    PROVE  /\ Recorded(c, o) \in IngestJournals(universe)
           /\ \A e \in Ciks : Recorded(c, o).disp[e] = "loaded" =>
                  \/ e = c /\ o = "loaded"
                  \/ e # c /\ Loads(e)
<1> DEFINE disp == IF ingJ = None THEN [x \in Ciks |-> None] ELSE ingJ.disp
           new == [disp EXCEPT ![c] = o]
<1>1. disp \in [Ciks -> {None, "ingest_error", "circuit_open"} \cup Terminal]
  BY DEF TypeOK, IngestJournals
<1>2. Recorded(c, o) = [bound |-> universe, disp |-> new]
  BY DEF Recorded
<1>3. \A e \in Ciks : disp[e] = "loaded" => Loads(e)
  BY JournalAssumption DEF Loads
<1> HIDE DEF disp
<1>4. /\ new \in [Ciks -> {None, "ingest_error", "circuit_open"} \cup Terminal]
      /\ \A e \in Ciks : new[e] = IF e = c THEN o ELSE disp[e]
  BY <1>1
<1> HIDE DEF new
<1> QED
  BY <1>2, <1>3, <1>4 DEF IngestJournals

(* The initial state is well typed.                                        *)
LEMMA TypesInit == Init => TypeOK
<1> SUFFICES ASSUME Init PROVE TypeOK
  OBVIOUS
<1>1. Absent \in Files
  BY DEF Absent, Files
<1> QED
  BY <1>1, IdleIsARun, InstBulkAssumption DEF Init, TypeOK

(* What a run that reads an accession leaves of itself.                    *)
LEMMA EvaluatedRun ==
    ASSUME run \in Runs, NEW a \in Accessions, NEW status \in Statuses,
           Evaluate(a, status)
    PROVE  run' \in Runs
<1>1. [run.seen EXCEPT ![a] = status] \in [Accessions -> Statuses \cup {"absent"}]
  BY DEF Runs
<1>2. run' = [run EXCEPT !.todo = run.todo \ {a}, !.at = None,
                         !.seen = [run.seen EXCEPT ![a] = status]]
  BY DEF Evaluate
<1> QED
  BY <1>1, <1>2 DEF Runs

(* Every step keeps the types.                                             *)
LEMMA TypesStep == BulkInv /\ [Next]_vars => TypeOK'
<1> SUFFICES ASSUME BulkInv, [Next]_vars PROVE TypeOK'
  OBVIOUS
<1>0. /\ TypeOK /\ Checked /\ Ranking /\ Ingesting
      /\ D \in Worlds /\ listed \subseteq Accessions /\ archive \in [Docs -> Files]
      /\ rankJ \in RankJournal \cup {None} /\ run \in Runs
      /\ ingJ \in IngestJournals(universe) \cup {None}
  BY DEF BulkInv, TypeOK
<1>1. ASSUME NEW a \in Accessions, FileAtEdgar(a) PROVE TypeOK'
  BY <1>0, <1>1 DEF FileAtEdgar, TypeOK
<1>2. ASSUME NEW c \in Singles, StartSingle(c) PROVE TypeOK'
  <2>1. run' = [Idle EXCEPT !.cmd = "single", !.todo = {a \in listed : D[a].cik = c}]
    BY <1>2 DEF StartSingle
  <2>2. run' \in Runs
    BY <1>0, <2>1, IdleIsARun DEF Runs
  <2> QED
    BY <1>0, <1>2, <2>2 DEF StartSingle, TypeOK
<1>3. CASE Discover
  <2>1. run' = [Idle EXCEPT !.cmd = "discover", !.refs = Refs,
                  !.facts = IF rankJ = None THEN NoFacts ELSE rankJ.facts]
    BY <1>3 DEF Discover
  <2>2. (IF rankJ = None THEN NoFacts ELSE rankJ.facts)
           \in [Accessions -> {None, "read", "unreadable"}]
    BY <1>0 DEF NoFacts, RankJournal
  <2>3. run' \in Runs
    BY <1>0, <2>1, <2>2, IdleIsARun DEF Runs, Refs
  <2> QED
    BY <1>0, <1>3, <2>3 DEF Discover, TypeOK
<1>4. CASE FinishDiscover
  <2>1. [refs |-> run.refs, facts |-> run.facts] \in RankJournal
    BY <1>0 DEF Runs, RankJournal
  <2>2. ingJ = None
    BY <1>0, <1>4 DEF FinishDiscover, Ranking
  <2> QED
    BY <1>0, <1>4, <2>1, <2>2, IdleIsARun DEF FinishDiscover, WriteRank, End, TypeOK
<1>5. ASSUME NEW a \in Accessions, SweepCover(a) PROVE TypeOK'
  <2> DEFINE facts == [run.facts EXCEPT ![a] = Fact(a)]
  <2>1. facts \in [Accessions -> {None, "read", "unreadable"}]
    BY <1>0, FactOf DEF Runs
  <2>2. \/ rankJ' = [refs |-> run.refs, facts |-> facts]
        \/ rankJ' = rankJ
    BY <1>5 DEF SweepCover, WriteRank
  <2> DEFINE n == IF run.dirty + 1 >= FlushEvery THEN 0 ELSE run.dirty + 1
  <2>3. run' = [run EXCEPT !.facts = facts, !.dirty = n] /\ n \in Nat
    BY <1>0, <1>5 DEF SweepCover, Runs
  <2> HIDE DEF facts, n
  <2>4. run' \in Runs
    BY <1>0, <2>1, <2>3 DEF Runs
  <2>5. rankJ' \in RankJournal \cup {None}
    BY <1>0, <2>1, <2>2 DEF Runs, RankJournal
  <2> QED
    BY <1>0, <1>5, <2>4, <2>5 DEF SweepCover, TypeOK
<1>6. ASSUME NEW a \in Accessions, SweepRefused(a) PROVE TypeOK'
  <2>1. [refs |-> run.refs, facts |-> run.facts] \in RankJournal
    BY <1>0 DEF Runs, RankJournal
  <2>2. rankJ' \in RankJournal \cup {None}
    BY <1>0, <1>6, <2>1 DEF SweepRefused, WriteRank, Refused
  <2> QED
    BY <1>0, <1>6, <2>2, IdleIsARun DEF SweepRefused, End, TypeOK
<1>7. CASE StartOver
  BY <1>0, <1>7 DEF StartOver, TypeOK
<1>8. CASE StartIngest
  <2>1. run' = [Idle EXCEPT !.cmd = "ingest", !.left = Pending]
    BY <1>8 DEF StartIngest
  <2>2. Pending \subseteq Ciks
    BY <1>0, <1>8, LineageOf DEF StartIngest, Pending
  <2>3. run' \in Runs
    BY <2>1, <2>2, IdleIsARun DEF Runs
  <2> QED
    BY <1>0, <1>8, <2>3 DEF StartIngest, TypeOK
<1>9. ASSUME NEW c \in Ciks, OpenFiler(c) PROVE TypeOK'
  <2>1. PICK got \in Obtained(Subs(c)) :
           /\ archive' = [archive EXCEPT ![Subs(c)] = got.file]
           /\ \/ \E todo : run' = [run EXCEPT !.cik = c,
                                     !.todo = todo \cap universe.lineage[c]]
                 /\ UNCHANGED ingJ
              \/ /\ ingJ' = Recorded(c, "ingest_error")
                 /\ run' = [run EXCEPT !.left = run.left \ {c}]
    BY <1>9 DEF OpenFiler
  <2>2. Subs(c) \in Docs
    BY DEF Docs
  <2>3. archive' \in [Docs -> Files]
    BY <1>0, <2>1, <2>2, ObtainedFile
  <2>4. c \in run.left /\ universe' = universe /\ universe # None
        /\ c \in DOMAIN universe.lineage
    BY <1>0, <1>9 DEF OpenFiler, Ingesting
  <2>5. universe.lineage[c] \subseteq Accessions
    BY <1>0, <2>4, LineageHas
  <2>6. run' \in Runs
    BY <1>0, <2>1, <2>5 DEF Runs
  <2>7. ingJ' \in IngestJournals(universe) \cup {None}
    <3>1. Recorded(c, "ingest_error") \in IngestJournals(universe)
      BY <1>0, RecordedIs
    <3> QED
      BY <1>0, <2>1, <3>1
  <2> QED
    BY <1>0, <1>9, <2>3, <2>4, <2>6, <2>7 DEF OpenFiler, TypeOK
<1>10. ASSUME NEW a \in Accessions, ObtainCover(a) PROVE TypeOK'
  <2>1. PICK got \in Obtained(Cover(a)) :
           /\ archive' = [archive EXCEPT ![Cover(a)] = got.file]
           /\ run' = [run EXCEPT !.at = a] \/ Evaluate(a, "failed cover")
    BY <1>10 DEF ObtainCover
  <2>2. Cover(a) \in Docs
    BY DEF Docs
  <2>3. archive' \in [Docs -> Files]
    BY <1>0, <2>1, <2>2, ObtainedFile
  <2>4. run' \in Runs
    BY <1>0, <2>1, EvaluatedRun DEF Runs, Statuses
  <2> QED
    BY <1>0, <1>10, <2>3, <2>4 DEF ObtainCover, TypeOK
<1>11. CASE ObtainTable
  <2>1. run.at \in Accessions
    BY <1>0, <1>11 DEF ObtainTable, Reading, Runs
  <2>2. PICK got \in Obtained(Table(run.at)), status \in Statuses :
           /\ archive' = [archive EXCEPT ![Table(run.at)] = got.file]
           /\ Evaluate(run.at, status)
    BY <1>11 DEF ObtainTable, Statuses
  <2>3. Table(run.at) \in Docs
    BY <2>1 DEF Docs
  <2>4. archive' \in [Docs -> Files]
    BY <1>0, <2>2, <2>3, ObtainedFile
  <2>5. run' \in Runs
    BY <1>0, <2>1, <2>2, EvaluatedRun
  <2> QED
    BY <1>0, <1>11, <2>4, <2>5 DEF ObtainTable, TypeOK
<1>12. CASE CloseFiler
  <2>1. Classify(universe.lineage[run.cik], run.seen) \in Terminal
    BY DEF Classify, Terminal
  <2>2. ingJ' \in IngestJournals(universe)
    BY <1>0, <1>12, <2>1, RecordedIs DEF CloseFiler
  <2>3. run' = [run EXCEPT !.left = run.left \ {run.cik}, !.cik = None, !.todo = {},
                           !.at = None, !.seen = NoOutcomes]
    BY <1>12 DEF CloseFiler, NextFiler
  <2>4. run' \in Runs
    BY <1>0, <2>3 DEF Runs, NoOutcomes
  <2> QED
    BY <1>0, <1>12, <2>2, <2>4 DEF CloseFiler, TypeOK
<1>13. CASE FinishIngest \/ FinishSingle
  BY <1>0, <1>13, IdleIsARun DEF FinishIngest, FinishSingle, End, TypeOK
<1>14. ASSUME NEW a \in Accessions, FetchSingle(a) PROVE TypeOK'
  <2>1. PICK status \in Statuses : Evaluate(a, status)
    BY <1>14 DEF FetchSingle, Statuses
  <2> QED
    BY <1>0, <1>14, <2>1, EvaluatedRun DEF FetchSingle, TypeOK
<1>15. CASE Crash
  BY <1>0, <1>15, IdleIsARun DEF Crash, End, TypeOK
<1>16. CASE LatchInIngest
  <2>1. PICK c : ingJ' = Recorded(c, "circuit_open")
    BY <1>16 DEF LatchInIngest
  <2>2. ingJ' \in IngestJournals(universe)
    BY <1>0, <2>1, RecordedIs
  <2> QED
    BY <1>0, <1>16, <2>2, IdleIsARun DEF LatchInIngest, End, TypeOK
<1>17. ASSUME NEW d \in Docs, Damage(d) PROVE TypeOK'
  <2>1. archive' \in [Docs -> Files]
    BY <1>0, <1>17 DEF Damage, Files
  <2> QED
    BY <1>0, <1>17, <2>1 DEF Damage, TypeOK
<1>18. ASSUME NEW d \in Docs, CrashInWrite(d) PROVE TypeOK'
  <2>1. archive' \in [Docs -> Files]
    BY <1>0, <1>18 DEF CrashInWrite, TornWrite, Files
  <2> QED
    BY <1>0, <1>18, <2>1, IdleIsARun DEF CrashInWrite, End, TypeOK
<1>19. CASE UNCHANGED vars
  BY <1>0, <1>19 DEF vars, TypeOK
<1> QED
  BY <1>1, <1>2, <1>3, <1>4, <1>5, <1>6, <1>7, <1>8, <1>9, <1>10, <1>11, <1>12,
     <1>13, <1>14, <1>15, <1>16, <1>17, <1>18, <1>19 DEF Next, Commands

-----------------------------------------------------------------------------
(* The archive: no step leaves bytes without the document's checkpoint.    *)
LEMMA CheckedStep == BulkInv /\ [Next]_vars => Checked'
<1> SUFFICES ASSUME BulkInv, [Next]_vars PROVE Checked'
  OBVIOUS
<1>0. TypeOK /\ Checked /\ archive \in [Docs -> Files]
  BY DEF BulkInv, TypeOK
<1>1. ASSUME archive' = archive PROVE Checked'
  BY <1>0, <1>1 DEF Checked
<1>2. ASSUME NEW d \in Docs, NEW got \in Obtained(d),
             archive' = [archive EXCEPT ![d] = got.file]
      PROVE  Checked'
  <2>1. got.file.bytes # None => got.file.check = Good
    BY <1>0, ObtainedFile
  <2> QED
    BY <1>0, <1>2, <2>1 DEF Checked
<1>3. ASSUME NEW c \in Ciks, OpenFiler(c) PROVE Checked'
  <2>1. Subs(c) \in Docs
    BY DEF Docs
  <2> QED
    BY <1>2, <1>3, <2>1 DEF OpenFiler
<1>4. ASSUME NEW a \in Accessions, ObtainCover(a) PROVE Checked'
  <2>1. Cover(a) \in Docs
    BY DEF Docs
  <2> QED
    BY <1>2, <1>4, <2>1 DEF ObtainCover
<1>5. CASE ObtainTable
  <2>1. Table(run.at) \in Docs
    BY <1>0, <1>5 DEF ObtainTable, Reading, TypeOK, Runs, Docs
  <2> QED
    BY <1>2, <1>5, <2>1 DEF ObtainTable
<1>6. ASSUME NEW d \in Docs, Damage(d) PROVE Checked'
  <2>1. archive[d].check = Good
    BY <1>0, <1>6, JournalAssumption DEF Damage, Checked, Good
  <2> QED
    BY <1>0, <1>6, <2>1 DEF Damage, Checked, Files
<1>7. ASSUME NEW d \in Docs, CrashInWrite(d) PROVE Checked'
  BY <1>0, <1>7 DEF CrashInWrite, TornWrite, Checked, Files
<1> QED
  BY <1>1, <1>3, <1>4, <1>5, <1>6, <1>7
     DEF Next, Commands, FileAtEdgar, StartSingle, Discover, FinishDiscover,
         SweepCover, SweepRefused, StartOver, StartIngest, FinishIngest,
         CloseFiler, FetchSingle, FinishSingle, Crash, LatchInIngest, vars

-----------------------------------------------------------------------------
(* The ranking.                                                            *)
LEMMA SweptIsFull ==
    ASSUME TypeOK, run.cmd = "discover", SweptSoFar(run.refs, run.facts),
           Unswept = {}
    PROVE  run.facts = Full(run.refs)
<1>1. run.facts \in [Accessions -> {None, "read", "unreadable"}] /\ run.refs \subseteq Accessions
  BY DEF TypeOK, Runs
<1>2. \A a \in Accessions : run.facts[a] = Full(run.refs)[a]
  BY <1>1 DEF SweptSoFar, Unswept, Full
<1> QED
  BY <1>1, <1>2 DEF Full

(* Every step keeps journals and universe to what the covers say.          *)
LEMMA RankingStep == BulkInv /\ [Next]_vars => Ranking'
<1> SUFFICES ASSUME BulkInv, [Next]_vars PROVE Ranking'
  OBVIOUS
<1>0. TypeOK /\ Ranking /\ Ingesting /\ run \in Runs /\ rankJ \in RankJournal \cup {None}
  BY DEF BulkInv, TypeOK
(* The worlds do not change, and what is listed stays listed.              *)
<1>a. D' = D /\ listed \subseteq listed'
  BY DEF Next, Commands, FileAtEdgar, StartSingle, Discover, FinishDiscover,
         SweepCover, SweepRefused, StartOver, StartIngest, FinishIngest,
         OpenFiler, ObtainCover, ObtainTable, CloseFiler, FetchSingle,
         FinishSingle, Crash, LatchInIngest, Damage, CrashInWrite, vars
<1>b. /\ Refs \subseteq Refs' /\ Refs \subseteq Accessions
      /\ \A refs, facts : /\ SelectTopN(refs, facts)' = SelectTopN(refs, facts)
                          /\ SweptSoFar(refs, facts)' = SweptSoFar(refs, facts)
                          /\ Full(refs)' = Full(refs)
  <2>1. Refs \subseteq Refs' /\ Refs \subseteq Accessions
    BY <1>0, <1>a DEF Refs, TypeOK
  <2>2. \A refs, facts : SelectTopN(refs, facts)' = SelectTopN(refs, facts)
    BY <1>a DEF SelectTopN, Ranked, Lineage, Above, Effective, Documented
  <2>3. \A refs, facts : SweptSoFar(refs, facts)' = SweptSoFar(refs, facts) /\ Full(refs)' = Full(refs)
    BY <1>a DEF SweptSoFar, Full, Fact
  <2> QED
    BY <2>1, <2>2, <2>3
(* A step that touches neither, and sweeps no further.                     *)
<1>c. ASSUME rankJ' = rankJ, universe' = universe,
             ingJ # None \/ universe # None \/ ingJ' = None,
             \/ run'.cmd # "discover"
             \/ run'.cmd = "discover" /\ run.cmd = "discover"
                /\ run'.refs = run.refs /\ run'.facts = run.facts
      PROVE  Ranking'
  BY <1>0, <1>b, <1>c DEF Ranking
<1>d. Idle.cmd = "none"
  BY DEF Idle
<1>1. ASSUME NEW a \in Accessions, FileAtEdgar(a) PROVE Ranking'
  BY <1>0, <1>1, <1>c DEF FileAtEdgar, Ranking
<1>2. ASSUME NEW c \in Singles, StartSingle(c) PROVE Ranking'
  <2>1. run'.cmd = "single"
    BY <1>2 DEF StartSingle, Idle
  <2> QED
    BY <1>0, <1>2, <1>c, <2>1 DEF StartSingle, Ranking
<1>3. CASE Discover
  <2> DEFINE facts == IF rankJ = None THEN NoFacts ELSE rankJ.facts
  <2>1. run'.cmd = "discover" /\ run'.refs = Refs /\ run'.facts = facts
    BY <1>3 DEF Discover, Idle
  <2>2. universe = None /\ (rankJ # None => rankJ.refs = Refs)
    BY <1>0, <1>3 DEF Discover, Ranking
  <2>3. SweptSoFar(Refs, facts)
    BY <1>0, <2>2 DEF Ranking, SweptSoFar, NoFacts
  <2>4. UNCHANGED <<rankJ, universe, ingJ>>
    BY <1>3 DEF Discover
  <2> HIDE DEF facts
  <2> QED
    BY <1>0, <1>b, <2>1, <2>2, <2>3, <2>4 DEF Ranking
<1>4. CASE FinishDiscover
  <2>1. run.facts = Full(run.refs)
    BY <1>0, <1>4, SweptIsFull DEF FinishDiscover, Ranking
  <2>2. /\ rankJ' = [refs |-> run.refs, facts |-> run.facts]
        /\ universe' = SelectTopN(run.refs, run.facts)
        /\ run' = Idle /\ ingJ' = ingJ
    BY <1>4 DEF FinishDiscover, WriteRank, End
  <2>3. universe'.refs = run.refs
    BY <2>2, UniverseHas
  <2>4. rankJ' # None
    BY <1>0, <2>2, JournalAssumption DEF Runs, RankJournal
  <2>5. ingJ = None /\ run.refs \subseteq Refs /\ SweptSoFar(run.refs, run.facts)
    BY <1>0, <1>4 DEF FinishDiscover, Ranking
  <2> QED
    BY <1>b, <1>d, <2>1, <2>2, <2>3, <2>4, <2>5 DEF Ranking
<1>5. ASSUME NEW a \in Accessions, SweepCover(a) PROVE Ranking'
  <2> DEFINE facts == [run.facts EXCEPT ![a] = Fact(a)]
  <2>1. /\ run' = [run EXCEPT !.facts = facts, !.dirty = run'.dirty]
        /\ rankJ' = [refs |-> run.refs, facts |-> facts] \/ rankJ' = rankJ
        /\ UNCHANGED <<universe, ingJ>> /\ run.cmd = "discover" /\ a \in run.refs
    BY <1>0, <1>5 DEF SweepCover, WriteRank, Unswept, Runs
  <2>2. SweptSoFar(run.refs, facts)
    BY <1>0, <2>1 DEF Ranking, SweptSoFar, Full, Runs
  <2> HIDE DEF facts
  <2>3. run'.cmd = "discover" /\ run'.refs = run.refs /\ run'.facts = facts
    BY <1>0, <2>1 DEF Runs
  <2> QED
    BY <1>0, <1>b, <2>1, <2>2, <2>3 DEF Ranking
<1>6. ASSUME NEW a \in Accessions, SweepRefused(a) PROVE Ranking'
  <2>1. /\ rankJ' = [refs |-> run.refs, facts |-> run.facts] \/ rankJ' = rankJ
        /\ run' = Idle /\ UNCHANGED <<universe, ingJ>> /\ run.cmd = "discover"
    BY <1>6 DEF SweepRefused, WriteRank, Refused, End
  <2> QED
    BY <1>0, <1>b, <1>d, <2>1 DEF Ranking
<1>7. CASE StartOver
  <2>1. rankJ' = None /\ universe' = None /\ ingJ' = None /\ run' = run /\ run.cmd = "none"
    BY <1>7 DEF StartOver
  <2> QED
    BY <2>1 DEF Ranking
<1>8. CASE StartIngest
  <2>1. run'.cmd = "ingest"
    BY <1>8 DEF StartIngest, Idle
  <2> QED
    BY <1>0, <1>8, <1>c, <2>1 DEF StartIngest, Ranking
<1>9. ASSUME run.cmd = "ingest", run'.cmd = "ingest" \/ run' = Idle,
             UNCHANGED <<rankJ, universe>>
      PROVE  Ranking'
  <2>1. universe # None
    BY <1>0, <1>9 DEF Ingesting
  <2> QED
    BY <1>9, <1>c, <1>d, <2>1
<1>10. CASE \/ FinishIngest \/ ObtainTable \/ CloseFiler \/ LatchInIngest
            \/ \E c \in Ciks : OpenFiler(c)
            \/ \E a \in Accessions : ObtainCover(a)
            \/ \E d \in Docs : CrashInWrite(d)
  <2>1. run.cmd = "ingest" /\ UNCHANGED <<rankJ, universe>>
    BY <1>10 DEF FinishIngest, OpenFiler, ObtainCover, ObtainTable, CloseFiler,
                 LatchInIngest, CrashInWrite
  <2>2. run' = Idle \/ run'.cmd = run.cmd
    BY <1>0, <1>10 DEF FinishIngest, OpenFiler, ObtainCover, ObtainTable, CloseFiler,
                 LatchInIngest, CrashInWrite, End, Evaluate, NextFiler, Runs
  <2> QED
    BY <1>9, <2>1, <2>2
<1>11. ASSUME NEW a \in Accessions, FetchSingle(a) PROVE Ranking'
  <2>1. run'.cmd = "single"
    BY <1>0, <1>11 DEF FetchSingle, Evaluate, Runs
  <2> QED
    BY <1>0, <1>11, <1>c, <2>1 DEF FetchSingle, Ranking
<1>12. CASE FinishSingle \/ Crash
  <2>1. run' = Idle /\ UNCHANGED <<rankJ, universe, ingJ>>
    BY <1>12 DEF FinishSingle, Crash, End
  <2> QED
    BY <1>0, <1>c, <1>d, <2>1 DEF Ranking
<1>13. ASSUME NEW d \in Docs, Damage(d) PROVE Ranking'
  BY <1>0, <1>13, <1>c DEF Damage, Ranking
<1>14. CASE UNCHANGED vars
  BY <1>0, <1>14, <1>c DEF vars, Ranking
<1> QED
  BY <1>1, <1>2, <1>3, <1>4, <1>5, <1>6, <1>7, <1>8, <1>10, <1>11, <1>12, <1>13,
     <1>14 DEF Next, Commands

-----------------------------------------------------------------------------
(* The store.  Every step leaves it, writes one row or runs the passes.    *)
Writes(a, status) ==
    /\ a \in Accessions /\ status \in Statuses /\ a \in run.todo
    /\ status # "failed cover" => D[a].readable # "nothing"
    /\ run.cmd \in {"ingest", "single"}
    /\ Evaluate(a, status)
    /\ UNCHANGED <<D, listed, universe, ingJ>>

Derives ==
    /\ store' = FinalizeInstIngest(D, store) /\ derived' = TRUE
    /\ End
    /\ UNCHANGED <<D, listed, universe, ingJ>>

(* What obtaining a cover may do to the store.                             *)
LEMMA CoverSteps ==
    ASSUME NEW a \in Accessions, ObtainCover(a)
    PROVE  \/ Writes(a, "failed cover")
           \/ /\ run' = [run EXCEPT !.at = a] /\ D[a].readable # "nothing"
              /\ UNCHANGED <<D, store, derived>>
BY DEF ObtainCover, Writes, Statuses

(* What obtaining a table may do to it.                                    *)
LEMMA TableSteps ==
    ASSUME TypeOK, Ingesting, ObtainTable
    PROVE  \E status : Writes(run.at, status)
<1> DEFINE s(got) == IF got.body = Good /\ D[run.at].readable = "all"
                     THEN "parsed" ELSE "failed table"
<1>1. PICK got \in Obtained(Table(run.at)) : Evaluate(run.at, s(got))
  BY DEF ObtainTable
<1>2. /\ run.at \in run.todo /\ run.at \in Accessions
      /\ D[run.at].readable # "nothing"
  BY DEF ObtainTable, Ingesting, TypeOK, Runs
<1>3. Writes(run.at, s(got))
  BY <1>1, <1>2 DEF ObtainTable, Writes, Statuses
<1> QED
  BY <1>3

(* What a single ingest may do to it.                                      *)
LEMMA SingleSteps ==
    ASSUME NEW a \in Accessions, FetchSingle(a)
    PROVE  \E status : Writes(a, status)
<1>1. PICK cover \in Fetched, table \in Fetched :
        LET read == cover.body = Good /\ D[a].readable # "nothing"
            rows == table.body = Good /\ D[a].readable = "all"
        IN Evaluate(a, IF ~read THEN "failed cover"
                       ELSE IF D[a].form \in Notices \/ rows THEN "parsed"
                       ELSE "failed table")
  BY DEF FetchSingle
<1>2. PICK status \in Statuses :
        /\ Evaluate(a, status)
        /\ status # "failed cover" => D[a].readable # "nothing"
  BY <1>1 DEF Statuses
<1>3. run.cmd = "single" /\ a \in run.todo /\ UNCHANGED <<D, listed, universe, ingJ>>
  BY DEF FetchSingle
<1>4. run.cmd \in {"ingest", "single"}
  BY <1>3
<1>5. Writes(a, status)
  BY <1>2, <1>3, <1>4 DEF Writes
<1> QED
  BY <1>5

(* A step leaves the store, writes one row, or runs the passes.            *)
LEMMA StoreSteps ==
    ASSUME BulkInv, [Next]_vars
    PROVE  \/ \E a, status : Writes(a, status)
           \/ Derives
           \/ UNCHANGED <<D, store, derived>>
<1>0. TypeOK /\ Ingesting
  BY DEF BulkInv
<1>1. CASE \E a \in Accessions : ObtainCover(a)
  BY <1>1, CoverSteps
<1>2. CASE ObtainTable
  BY <1>0, <1>2, TableSteps
<1>3. CASE \E a \in Accessions : FetchSingle(a)
  BY <1>3, SingleSteps
<1>4. CASE FinishIngest \/ FinishSingle
  BY <1>4 DEF FinishIngest, FinishSingle, Derives
<1> QED
  BY <1>1, <1>2, <1>3, <1>4
     DEF Next, Commands, FileAtEdgar, StartSingle, Discover, FinishDiscover,
         SweepCover, SweepRefused, StartOver, StartIngest, OpenFiler,
         CloseFiler, Crash, LatchInIngest, Damage, CrashInWrite, vars

(* A row that a run writes.                                                *)
LEMMA WrittenRow ==
    ASSUME store \in Rows, NEW a, NEW status, Writes(a, status)
    PROVE  LET row == [status |-> status, amends |-> None, flags |-> {}] IN
           /\ store' = [store EXCEPT ![a] = row] /\ store' \in Rows
           /\ store'[a] = row /\ row \in Row /\ row # None /\ row.status = status
           /\ \A b \in Accessions \ {a} : store'[b] = store[b]
           /\ Stored(store') = Stored(store) \cup {a}
<1> DEFINE row == [status |-> status, amends |-> None, flags |-> {}]
<1>1. a \in Accessions /\ store' = [store EXCEPT ![a] = row]
  BY DEF Writes, Evaluate, UpsertInstFiling
<1>2. row \in Row /\ row # None
  BY LoadedRow DEF Writes, Statuses
<1>3. row.status = status
  OBVIOUS
<1> HIDE DEF row
<1>4. store' \in Rows /\ store'[a] = row /\ \A b \in Accessions \ {a} : store'[b] = store[b]
  BY <1>1, <1>2 DEF Rows
<1>5. Stored(store') = Stored(store) \cup {a}
  BY <1>1, <1>2, <1>4 DEF Stored
<1> QED
  BY <1>1, <1>2, <1>3, <1>4, <1>5 DEF row

(* Every step keeps the store a table of rows.                             *)
LEMMA RowsStep ==
    ASSUME BulkInv, [Next]_vars
    PROVE  RowsHold(D, store)' /\ DerivedLikeACleanRebuild'
<1>0. TypeOK /\ RowsHold(D, store) /\ DerivedLikeACleanRebuild /\ store \in Rows
  BY DEF BulkInv, RowsHold
<1>1. ASSUME NEW a, NEW status, Writes(a, status)
      PROVE  RowsHold(D, store)' /\ DerivedLikeACleanRebuild'
  <2> DEFINE row == [status |-> status, amends |-> None, flags |-> {}]
  <2>1. /\ store' \in Rows /\ store'[a] = row /\ row \in Row
        /\ \A b \in Accessions \ {a} : store'[b] = store[b]
        /\ Stored(store') = Stored(store) \cup {a}
    BY <1>0, <1>1, WrittenRow
  <2>2. /\ row.status = status /\ row.amends = None /\ row.flags = {}
        /\ D' = D /\ derived' = FALSE
        /\ status # "failed cover" => D[a].readable # "nothing"
    BY <1>1 DEF Writes, Evaluate
  <2> HIDE DEF row
  <2>3. ReadAsTheyCouldBe(D, store')
    BY <1>0, <2>1, <2>2 DEF ReadAsTheyCouldBe, RowsHold, Stored
  <2>4. ASSUME NEW b \in Stored(store') PROVE LeftBehind(Columns(D, store', b), store'[b])
    <3>1. CASE b = a
      BY <2>1, <2>2, <3>1 DEF LeftBehind
    <3>2. CASE b # a
      <4>1. b \in Stored(store) /\ b \in Accessions /\ store'[b] = store[b]
        BY <2>1, <2>4, <3>2 DEF Stored
      <4>2. Columns(D, store', b) = Columns(D, store, b)
        BY <4>1, ColumnsFollowTheStatus
      <4> QED
        BY <1>0, <4>1, <4>2 DEF RowsHold
    <3> QED
      BY <3>1, <3>2
  <2> QED
    BY <2>1, <2>2, <2>3, <2>4 DEF RowsHold, DerivedLikeACleanRebuild
<1>2. CASE Derives
  <2>1. store' = FinalizeInstIngest(D, store) /\ D' = D
    BY <1>2 DEF Derives
  <2>2. RowsHold(D, store')
    BY <1>0, <2>1, PassesKeepTheRows
  <2>3. store' = FinalizeInstIngest(D, Fresh(store')) /\ LinksHold(D, store')
    BY <1>0, <2>1, PassesConverge, PassesLink
  <2> QED
    BY <2>1, <2>2, <2>3 DEF DerivedLikeACleanRebuild
<1>3. CASE UNCHANGED <<D, store, derived>>
  BY <1>0, <1>3 DEF DerivedLikeACleanRebuild
<1> QED
  BY <1>1, <1>2, <1>3, StoreSteps

-----------------------------------------------------------------------------
(* The ingest.                                                             *)
LEMMA IngestingStep == BulkInv /\ [Next]_vars => Ingesting'
<1> SUFFICES ASSUME BulkInv, [Next]_vars PROVE Ingesting'
  OBVIOUS
<1>0. /\ TypeOK /\ Ranking /\ Ingesting /\ run \in Runs /\ store \in Rows
      /\ listed \subseteq Accessions
  BY DEF BulkInv, TypeOK, RowsHold
(* A run that ends or begins has seen nothing.                             *)
<1>a. ASSUME run'.seen = NoOutcomes, run'.cmd \notin {"ingest", "single"}
      PROVE  Ingesting'
  BY <1>a DEF Ingesting, NoOutcomes
<1>b. Idle.seen = NoOutcomes /\ Idle.cmd = "none" /\ Idle \in Runs
  BY IdleIsARun DEF Idle
<1>c. CASE run' = Idle
  BY <1>a, <1>b, <1>c
<1>d. ASSUME UNCHANGED <<D, store, run, universe, ingJ>> PROVE Ingesting'
  BY <1>0, <1>d DEF Ingesting, Loads, Target, Reading
<1>1. ASSUME NEW c \in Singles, StartSingle(c) PROVE Ingesting'
  <2>1. /\ run'.cmd = "single" /\ run'.seen = NoOutcomes /\ D' = D
        /\ run'.todo = {a \in listed : D[a].cik = c}
    BY <1>1 DEF StartSingle, Idle
  <2> QED
    BY <2>1 DEF Ingesting, NoOutcomes
<1>2. CASE Discover
  <2>1. run'.cmd = "discover" /\ run'.seen = NoOutcomes
    BY <1>2 DEF Discover, Idle
  <2> QED
    BY <1>a, <2>1
<1>3. ASSUME NEW a \in Accessions, SweepCover(a) PROVE Ingesting'
  <2>1. run'.cmd = "discover" /\ run'.seen = run.seen /\ store' = store
    BY <1>0, <1>3 DEF SweepCover, Runs
  <2> QED
    BY <1>0, <2>1 DEF Ingesting
<1>4. CASE StartOver
  <2>1. run.cmd = "none" /\ run' = run /\ store' = store
    BY <1>4 DEF StartOver
  <2> QED
    BY <1>0, <2>1 DEF Ingesting
<1>5. CASE StartIngest
  <2>1. /\ run'.cmd = "ingest" /\ run'.seen = NoOutcomes /\ run'.left = Pending
        /\ run'.cik = None /\ run'.todo = {} /\ run'.at = None
        /\ UNCHANGED <<universe, ingJ>> /\ universe # None
    BY <1>5 DEF StartIngest, Idle
  <2>2. Pending \subseteq DOMAIN universe.lineage /\ \A c \in Pending : ~Loads(c)
    BY DEF Pending, Loads, Terminal
  <2> QED
    BY <2>1, <2>2 DEF Ingesting, NoOutcomes, Target, Reading, Loads
<1>6. ASSUME NEW c \in Ciks, OpenFiler(c) PROVE Ingesting'
  <2>1. /\ run.cmd = "ingest" /\ ~Target /\ c \in run.left
        /\ UNCHANGED <<D, universe, store>>
    BY <1>6 DEF OpenFiler
  <2>2. \/ \E todo : /\ run' = [run EXCEPT !.cik = c,
                                    !.todo = todo \cap universe.lineage[c]]
                    /\ UNCHANGED ingJ
        \/ /\ ingJ' = Recorded(c, "ingest_error")
           /\ run' = [run EXCEPT !.left = run.left \ {c}]
    BY <1>6 DEF OpenFiler
  <2>3. run.at = None /\ run.todo = {} /\ run.cik = None
    BY <1>0, <2>1 DEF Ingesting, Target
  <2>4. CASE \E todo : /\ run' = [run EXCEPT !.cik = c,
                                     !.todo = todo \cap universe.lineage[c]]
                     /\ UNCHANGED ingJ
    <3>1. /\ run'.cmd = "ingest" /\ run'.left = run.left /\ run'.cik = c
          /\ run'.todo \subseteq universe.lineage[c] /\ run'.at = None
          /\ run'.seen = run.seen /\ ingJ' = ingJ
      BY <1>0, <2>1, <2>3, <2>4 DEF Runs
    <3>2. c # None
      BY <1>0, RowAssumption
    <3> QED
      BY <1>0, <2>1, <3>1, <3>2 DEF Ingesting, Loads, Target, Reading
  <2>5. CASE /\ ingJ' = Recorded(c, "ingest_error")
             /\ run' = [run EXCEPT !.left = run.left \ {c}]
    <3>1. /\ run'.cmd = "ingest" /\ run'.left = run.left \ {c} /\ run'.cik = None
          /\ run'.todo = {} /\ run'.at = None /\ run'.seen = run.seen
      BY <1>0, <2>1, <2>3, <2>5 DEF Runs
    <3>2. \A e \in Ciks : Loads(e)' => Loads(e)
      BY <1>0, <2>5, RecordedIs DEF Loads
    <3>3. run.left \subseteq Ciks
      BY <1>0 DEF Runs
    <3> QED
      BY <1>0, <2>1, <3>1, <3>2, <3>3 DEF Ingesting, Target, Reading
  <2> QED
    BY <2>2, <2>4, <2>5
<1>7. ASSUME NEW a, NEW status, Writes(a, status) PROVE Ingesting'
  <2>1. /\ a \in Accessions /\ status \in Statuses
        /\ run.cmd \in {"ingest", "single"} /\ UNCHANGED <<D, universe, ingJ>>
        /\ run' = [run EXCEPT !.todo = run.todo \ {a}, !.at = None,
                              !.seen = [run.seen EXCEPT ![a] = status]]
    BY <1>7 DEF Writes, Evaluate
  <2>2. /\ run'.cmd = run.cmd /\ run'.left = run.left /\ run'.cik = run.cik
        /\ run'.todo = run.todo \ {a} /\ run'.at = None
        /\ run'.seen = [run.seen EXCEPT ![a] = status]
    BY <1>0, <2>1 DEF Runs
  <2>3. /\ run'.seen[a] = status
        /\ \A b \in Accessions \ {a} : run'.seen[b] = run.seen[b]
    BY <1>0, <2>1, <2>2 DEF Runs
  <2>4. /\ store'[a] # None /\ store'[a].status = status
        /\ \A b \in Accessions \ {a} : store'[b] = store[b]
    BY <1>0, <1>7, WrittenRow
  <2>5. \A b \in Accessions : run'.seen[b] # "absent" =>
           store'[b] # None /\ store'[b].status = run'.seen[b]
    BY <1>0, <2>3, <2>4 DEF Ingesting
  <2> QED
    BY <1>0, <2>1, <2>2, <2>5 DEF Ingesting, Loads, Target, Reading
<1>8. ASSUME NEW a \in Accessions, ObtainCover(a), UNCHANGED <<D, store, derived>>,
             run' = [run EXCEPT !.at = a], D[a].readable # "nothing"
      PROVE  Ingesting'
  <2>1. /\ run.cmd = "ingest" /\ a \in run.todo /\ UNCHANGED <<D, universe, ingJ>>
        /\ ~Reading
    BY <1>8 DEF ObtainCover
  <2>3. /\ run'.cmd = "ingest" /\ run'.left = run.left /\ run'.cik = run.cik
        /\ run'.todo = run.todo /\ run'.at = a /\ run'.seen = run.seen
    BY <1>0, <1>8, <2>1 DEF Runs
  <2>4. Target
    BY <1>0, <2>1 DEF Ingesting
  <2> QED
    BY <1>0, <1>8, <2>1, <2>3, <2>4 DEF Ingesting, Loads, Target, Reading
<1>9. CASE CloseFiler
  <2>1. /\ run.cmd = "ingest" /\ Target /\ UNCHANGED <<D, store, universe>>
        /\ ingJ' = Recorded(run.cik, Classify(universe.lineage[run.cik], run.seen))
        /\ run' = [run EXCEPT !.left = run.left \ {run.cik}, !.cik = None,
                              !.todo = {}, !.at = None, !.seen = NoOutcomes]
    BY <1>9 DEF CloseFiler, NextFiler
  <2>2. /\ run'.cmd = "ingest" /\ run'.left = run.left \ {run.cik} /\ run'.cik = None
        /\ run'.todo = {} /\ run'.at = None /\ run'.seen = NoOutcomes
    BY <1>0, <2>1 DEF Runs
  <2>3. Classify(universe.lineage[run.cik], run.seen) \in Terminal
    BY DEF Classify, Terminal
  <2>4. \A e \in Ciks \ {run.cik} : Loads(e)' => Loads(e)
    BY <1>0, <2>1, <2>3, RecordedIs DEF Loads
  <2>5. run.left \subseteq Ciks
    BY <1>0 DEF Runs
  <2> QED
    BY <1>0, <2>1, <2>2, <2>4, <2>5 DEF Ingesting, Target, Reading, NoOutcomes
<1>10. CASE \/ FinishDiscover \/ FinishIngest \/ FinishSingle \/ Crash \/ LatchInIngest
            \/ \E a \in Accessions : SweepRefused(a)
            \/ \E d \in Docs : CrashInWrite(d)
  BY <1>10, <1>c DEF FinishDiscover, FinishIngest, FinishSingle, Crash, LatchInIngest,
                     SweepRefused, CrashInWrite, End
<1>11. CASE \/ \E a \in Accessions : FileAtEdgar(a)
            \/ \E d \in Docs : Damage(d)
            \/ UNCHANGED vars
  BY <1>11, <1>d DEF FileAtEdgar, Damage, vars
<1>12. CASE \E a \in Accessions : ObtainCover(a)
  BY <1>12, <1>7, <1>8, CoverSteps
<1>13. CASE ObtainTable
  BY <1>0, <1>13, <1>7, TableSteps
<1>14. CASE \E a \in Accessions : FetchSingle(a)
  BY <1>14, <1>7, SingleSteps
<1> QED
  BY <1>1, <1>2, <1>3, <1>4, <1>5, <1>6, <1>9, <1>10, <1>11, <1>12, <1>13, <1>14
     DEF Next, Commands

-----------------------------------------------------------------------------
(* What the bulk ingest writes was ranked.                                 *)
LEMMA TracedStep == BulkInv /\ [Next]_vars => Traced'
<1> SUFFICES ASSUME BulkInv, [Next]_vars PROVE Traced'
  OBVIOUS
<1>0. /\ TypeOK /\ Ranking /\ Ingesting /\ Traced /\ run \in Runs /\ store \in Rows
      /\ RowsHold(D, store)
  BY DEF BulkInv, TypeOK, RowsHold
<1>a. Refs \subseteq Refs'
  BY <1>0 DEF Next, Commands, FileAtEdgar, StartSingle, Discover, FinishDiscover,
         SweepCover, SweepRefused, StartOver, StartIngest, FinishIngest,
         OpenFiler, ObtainCover, ObtainTable, CloseFiler, FetchSingle,
         FinishSingle, Crash, LatchInIngest, Damage, CrashInWrite, vars, Refs
(* Steps that write nothing new.                                           *)
<1>b. ASSUME Bulked' \subseteq Bulked, universe' = universe \/ universe' = None,
             \/ run'.cmd # "discover"
             \/ run'.cmd = "discover" /\ run.cmd = "discover" /\ run'.refs = run.refs
      PROVE  Traced'
  BY <1>0, <1>a, <1>b DEF Traced
<1>c. ASSUME UNCHANGED <<D, store>> PROVE Bulked' \subseteq Bulked
  BY <1>c DEF Bulked
<1>d. Idle.cmd = "none"
  BY DEF Idle
<1>1. ASSUME NEW a, NEW status, Writes(a, status) PROVE Traced'
  <2>1. /\ run.cmd \in {"ingest", "single"} /\ a \in run.todo /\ run'.cmd = run.cmd
        /\ a \in Accessions /\ UNCHANGED <<D, listed, universe>>
    BY <1>0, <1>1 DEF Writes, Evaluate, Runs
  <2>2. Stored(store') = Stored(store) \cup {a}
    BY <1>0, <1>1, WrittenRow
  <2>3. CASE run.cmd = "single"
    <3>1. D[a].cik \in Singles
      BY <1>0, <2>1, <2>3 DEF Ingesting
    <3>2. Bulked' \subseteq Bulked
      BY <2>1, <2>2, <3>1 DEF Bulked
    <3> QED
      BY <1>b, <2>1, <2>3, <3>2
  <2>4. CASE run.cmd = "ingest"
    <3>1. universe # None /\ Target /\ run.cik \in DOMAIN universe.lineage
          /\ a \in universe.lineage[run.cik]
      BY <1>0, <2>1, <2>4 DEF Ingesting
    <3>2. a \in universe.refs /\ universe.refs \subseteq Refs
      BY <1>0, <3>1, LineageHas DEF Ranking
    <3>3. Bulked' \subseteq Bulked \cup {a}
      BY <2>1, <2>2 DEF Bulked
    <3> QED
      BY <1>0, <1>a, <2>1, <2>4, <3>1, <3>2, <3>3 DEF Traced
  <2> QED
    BY <2>1, <2>3, <2>4
<1>2. CASE Derives
  <2>1. Stored(store') = Stored(store) /\ D' = D /\ universe' = universe /\ run' = Idle
    BY <1>0, <1>2, PassesKeepTheRows DEF Derives, SameStatuses, End
  <2>2. Bulked' \subseteq Bulked
    BY <2>1 DEF Bulked
  <2> QED
    BY <1>b, <1>d, <2>1, <2>2
<1>3. CASE Discover
  <2>1. run'.refs = Refs /\ run'.cmd = "discover" /\ UNCHANGED <<D, store, universe, listed>>
    BY <1>3 DEF Discover, Idle
  <2>2. Bulked' \subseteq Bulked /\ Refs' = Refs
    BY <2>1, <1>c DEF Refs
  <2> QED
    BY <1>0, <2>1, <2>2 DEF Traced
<1>4. CASE FinishDiscover
  <2>1. /\ universe' = SelectTopN(run.refs, run.facts) /\ run' = Idle
        /\ run.cmd = "discover" /\ UNCHANGED <<D, store>>
    BY <1>4 DEF FinishDiscover, End
  <2>2. universe'.refs = run.refs
    BY <2>1, UniverseHas
  <2> QED
    BY <1>0, <1>a, <1>c, <1>d, <2>1, <2>2 DEF Traced
<1>5. CASE UNCHANGED <<D, store, derived>> /\ ~Discover /\ ~FinishDiscover
  <2>1. universe' = universe \/ universe' = None
    BY <1>5 DEF Next, Commands, FileAtEdgar, StartSingle,
         SweepCover, SweepRefused, StartOver, StartIngest, FinishIngest,
         OpenFiler, ObtainCover, ObtainTable, CloseFiler, FetchSingle,
         FinishSingle, Crash, LatchInIngest, Damage, CrashInWrite, vars
  <2>2. ASSUME NEW c \in Ciks, OpenFiler(c) PROVE run'.cmd = "ingest"
    BY <1>0, <2>2 DEF OpenFiler, Runs
  <2>3. ASSUME NEW a \in Accessions, SweepCover(a)
        PROVE  run.cmd = "discover" /\ run'.cmd = "discover" /\ run'.refs = run.refs
    BY <1>0, <2>3 DEF SweepCover, Runs
  <2>4. ASSUME CloseFiler PROVE run'.cmd = "ingest"
    BY <1>0, <2>4 DEF CloseFiler, NextFiler, Runs
  <2>5. ASSUME NEW a \in Accessions, ObtainCover(a) PROVE run'.cmd = "ingest"
    BY <1>0, <2>5 DEF ObtainCover, Evaluate, Runs
  <2>6. ASSUME ObtainTable PROVE run'.cmd = "ingest"
    BY <1>0, <2>6 DEF ObtainTable, Evaluate, Runs
  <2>7. ASSUME NEW a \in Accessions, FetchSingle(a) PROVE run'.cmd = "single"
    BY <1>0, <2>7 DEF FetchSingle, Evaluate, Runs
  <2>8. ASSUME NEW c \in Singles, StartSingle(c) PROVE run'.cmd = "single"
    BY <2>8 DEF StartSingle, Idle
  <2>9. ASSUME StartIngest PROVE run'.cmd = "ingest"
    BY <2>9 DEF StartIngest, Idle
  <2>10. \/ run' = Idle \/ run' = run \/ run'.cmd \in {"single", "ingest"}
         \/ \E a \in Accessions : SweepCover(a)
    BY <1>5, <2>2, <2>4, <2>5, <2>6, <2>7, <2>8, <2>9
       DEF Next, Commands, FileAtEdgar, SweepRefused, StartOver, FinishIngest,
           FinishSingle, Crash, LatchInIngest, Damage, CrashInWrite, vars, End
  <2> QED
    BY <1>0, <1>5, <1>b, <1>c, <1>d, <2>1, <2>3, <2>10
<1> QED
  BY <1>1, <1>2, <1>3, <1>4, <1>5, StoreSteps

-----------------------------------------------------------------------------
(* The invariant holds at first.                                           *)
LEMMA InvInit == Init => BulkInv
<1> SUFFICES ASSUME Init PROVE BulkInv
  OBVIOUS
<1>1. TypeOK
  BY TypesInit
<1>2. Checked
  BY DEF Init, Checked, Absent
<1>3. Idle.cmd = "none" /\ Idle.seen = NoOutcomes
  BY DEF Idle
<1>4. Ranking
  BY <1>3 DEF Init, Ranking
<1>5. Ingesting
  BY <1>3 DEF Init, Ingesting, NoOutcomes
<1>6. Stored(store) = {} /\ \A a \in Accessions : store[a] = None
  BY DEF Init, Stored
<1>7. Traced
  BY <1>3, <1>6 DEF Init, Traced, Bulked
<1>8. RowsHold(D, store)
  BY <1>6 DEF Init, RowsHold, Rows, ReadAsTheyCouldBe
<1>9. DerivedLikeACleanRebuild
  <2>1. store = [a \in Accessions |-> None]
    BY DEF Init
  <2>2. Fresh(store) = store
    BY <2>1 DEF Fresh
  <2>3. FinalizeInstIngest(D, store) =
          [a \in Accessions |->
             IF store[a] = None THEN None
             ELSE PassedRow(Filings(D, store), Columns(D, store, a), store[a].status)]
    BY <1>8, PassesOverTheStore
  <2>4. FinalizeInstIngest(D, store) = store
    BY <2>1, <2>3
  <2>5. LinksHold(D, store)
    BY <1>6 DEF LinksHold
  <2> QED
    BY <2>2, <2>4, <2>5 DEF DerivedLikeACleanRebuild
<1> QED
  BY <1>1, <1>2, <1>4, <1>5, <1>7, <1>8, <1>9 DEF BulkInv

(* The inductive invariant of the bulk ingest.                             *)
THEOREM BulkInvariant == BulkSpec => []BulkInv
<1>1. BulkInv /\ [Next]_vars => BulkInv'
  BY TypesStep, CheckedStep, RankingStep, IngestingStep, TracedStep, RowsStep
     DEF BulkInv
<1> QED
  BY <1>1, InvInit, PTL DEF BulkSpec

-----------------------------------------------------------------------------
(* Whatever crashes and refusals the sweep went through, a universe that   *)
(* it leaves is the ranking of what the index lists (inst_bulk.py).        *)
THEOREM UniverseIsRanked == BulkSpec => UniverseIsTheRanking
<1> DEFINE A == universe' # universe /\ universe' # None =>
          universe' = SelectTopN(universe'.refs,
                         [a \in Accessions |->
                            IF a \in universe'.refs THEN Fact(a) ELSE None])
<1>1. BulkInv /\ [Next]_vars => A
  <2> SUFFICES ASSUME BulkInv, [Next]_vars, universe' # universe, universe' # None
               PROVE  universe' = SelectTopN(universe'.refs, Full(universe'.refs))
    BY DEF Full
  <2>1. FinishDiscover
    BY DEF Next, Commands, FileAtEdgar, StartSingle, Discover,
         SweepCover, SweepRefused, StartOver, StartIngest, FinishIngest,
         OpenFiler, ObtainCover, ObtainTable, CloseFiler, FetchSingle,
         FinishSingle, Crash, LatchInIngest, Damage, CrashInWrite, vars
  <2>2. run.facts = Full(run.refs)
    BY <2>1, SweptIsFull DEF FinishDiscover, BulkInv, Ranking
  <2>3. universe' = SelectTopN(run.refs, run.facts)
    BY <2>1 DEF FinishDiscover
  <2>4. universe'.refs = run.refs
    BY <2>3, UniverseHas
  <2> QED
    BY <2>2, <2>3, <2>4
<1>2. BulkInv /\ [Next]_vars => [A]_vars
  BY <1>1
<1> QED
  BY <1>2, BulkInvariant, PTL DEF BulkSpec, UniverseIsTheRanking

(* A document on disk that the next run reads without a request is SEC's.  *)
LEMMA DurableHolds == BulkInv => DurableIsTheDocument
<1> SUFFICES ASSUME BulkInv, NEW d \in Docs, OnDisk(archive[d])
             PROVE  archive[d].bytes = Good
  BY DEF DurableIsTheDocument
<1>1. archive[d].bytes # None /\ archive[d].check = Good
  BY DEF BulkInv, Checked, OnDisk
<1>2. None # Good
  BY JournalAssumption DEF Good
<1> QED
  BY <1>1, <1>2 DEF OnDisk

(* The archive never vouches for anything but the document: not after a    *)
(* torn write, damage, or a page that SEC changed (ingest/checkpoint.py).  *)
THEOREM ArchiveIsDurable == BulkSpec => []DurableIsTheDocument
  BY DurableHolds, BulkInvariant, PTL

(* The derived columns are a clean rebuild's after every run, and nothing  *)
(* built on them counts a dollar that its denominator does not hold        *)
(* (the passes and the coverage gate of ingest/inst13f.py).                *)
THEOREM DerivationsAreHeld == BulkSpec => []DerivationsHold
<1>1. BulkInv => DerivationsHold
  BY NothingInflates DEF BulkInv, TypeOK, RowsHold, DerivationsHold
<1> QED
  BY <1>1, BulkInvariant, PTL

-----------------------------------------------------------------------------
(* What is journaled as loaded is what was ranked.                         *)

(* The ingest of single managers stays off the universe: theirs are no     *)
(* holdings reports of the ranked period.                                  *)
Apart ==
    \A W \in Worlds, a \in Accessions :
       W[a].cik \in Singles /\ W[a].period = Period => W[a].form \in Notices

LoadedRows ==
    universe # None =>
       \A c \in DOMAIN universe.lineage : Loads(c) =>
          \A a \in universe.lineage[c] :
             a \in Stored(store) /\ store[a].status = "parsed"

(* A filer closed as loaded keeps its rows, whatever step is taken.        *)
LEMMA LoadedStep ==
    ASSUME Apart, BulkInv, LoadedRows, [Next]_vars
    PROVE  LoadedRows'
<1>0. /\ TypeOK /\ Ranking /\ Ingesting /\ RowsHold(D, store) /\ store \in Rows
      /\ D \in Worlds
  BY DEF BulkInv, RowsHold, TypeOK
<1>1. ASSUME NEW a, NEW status, Writes(a, status) PROVE LoadedRows'
  <2>1. /\ a \in run.todo /\ a \in Accessions /\ run.cmd \in {"ingest", "single"}
        /\ UNCHANGED <<D, universe, ingJ>>
    BY <1>1 DEF Writes
  <2>2. \A b \in Accessions \ {a} : store'[b] = store[b]
    BY <1>0, <1>1, WrittenRow
  <2>3. ASSUME universe # None, NEW c \in DOMAIN universe.lineage, Loads(c)
        PROVE  a \notin universe.lineage[c]
    <3> SUFFICES ASSUME a \in universe.lineage[c] PROVE FALSE
      OBVIOUS
    <3>1. D[a].cik = c /\ D[a].period = Period /\ D[a].form \notin Notices
      BY <1>0, <2>3, LineageHas
    <3>2. CASE run.cmd = "single"
      BY <1>0, <2>1, <3>1, <3>2 DEF Ingesting, Apart
    <3>3. CASE run.cmd = "ingest"
      <4>1. /\ Target /\ run.cik \in DOMAIN universe.lineage
            /\ a \in universe.lineage[run.cik] /\ ~Loads(run.cik)
        BY <1>0, <2>1, <3>3 DEF Ingesting
      <4>2. D[a].cik = run.cik
        BY <1>0, <2>3, <4>1, LineageHas
      <4> QED
        BY <2>3, <3>1, <4>1, <4>2
    <3> QED
      BY <2>1, <3>2, <3>3
  <2>4. ASSUME universe # None, NEW c \in DOMAIN universe.lineage, Loads(c),
               NEW b \in universe.lineage[c]
        PROVE  b \in Stored(store') /\ store'[b].status = "parsed"
    <3>1. b \in Accessions /\ b # a
      BY <1>0, <2>3, <2>4, LineageHas
    <3>2. b \in Stored(store) /\ store[b].status = "parsed"
      BY <2>4 DEF LoadedRows
    <3> QED
      BY <2>2, <3>1, <3>2 DEF Stored
  <2> QED
    BY <2>1, <2>4 DEF LoadedRows, Loads
<1>2. CASE Derives
  <2>1. SameStatuses(store, store') /\ UNCHANGED <<universe, ingJ>>
    BY <1>0, <1>2, PassesKeepTheRows DEF Derives
  <2>2. \A a \in Stored(store) : a \in Stored(store') /\ store'[a].status = store[a].status
    BY <2>1 DEF SameStatuses
  <2> QED
    BY <2>1, <2>2 DEF LoadedRows, Loads
(* A step that writes no row: who is loaded after it was before, or is the *)
(* filer that it closes.                                                   *)
<1>3. CASE UNCHANGED <<D, store, derived>> /\ universe' = universe /\ ingJ' = ingJ
  BY <1>3 DEF LoadedRows, Loads
<1>4. CASE UNCHANGED <<D, store, derived>> /\ FinishDiscover
  <2>1. ingJ' = None
    BY <1>0, <1>4 DEF FinishDiscover, Ranking
  <2> QED
    BY <2>1 DEF LoadedRows, Loads
<1>5. CASE StartOver
  BY <1>5 DEF StartOver, LoadedRows
<1>6. CASE UNCHANGED <<D, store, derived>> /\ CloseFiler
  <2> DEFINE o == Classify(universe.lineage[run.cik], run.seen)
  <2>1. /\ run.cmd = "ingest" /\ Target /\ universe' = universe
        /\ ingJ' = Recorded(run.cik, o)
    BY <1>6 DEF CloseFiler
  <2>2. o \in Terminal
    BY DEF Classify, Terminal
  <2>3. ASSUME o = "loaded", NEW a \in universe.lineage[run.cik]
        PROVE  run.seen[a] = "parsed"
    BY <2>3 DEF Classify
  <2> HIDE DEF o
  <2>4. \A e \in Ciks : Recorded(run.cik, o).disp[e] = "loaded" =>
           (e = run.cik /\ o = "loaded") \/ Loads(e)
    BY <1>0, <2>2, RecordedIs
  <2>5. \A e \in Ciks : Loads(e)' => (e = run.cik /\ o = "loaded") \/ Loads(e)
    BY <2>1, <2>4 DEF Loads
  <2>6. run.cik \in DOMAIN universe.lineage /\ universe # None
    BY <1>0, <2>1 DEF Ingesting
  <2>7. ASSUME o = "loaded", NEW a \in universe.lineage[run.cik]
        PROVE  a \in Stored(store) /\ store[a].status = "parsed"
    <3>1. run.seen[a] = "parsed" /\ a \in Accessions
      BY <1>0, <2>3, <2>6, <2>7, LineageHas
    <3> QED
      BY <1>0, <3>1 DEF Ingesting, Stored
  <2>8. DOMAIN universe.lineage \subseteq Ciks
    BY <1>0, <2>6, LineageOf
  <2> QED
    BY <1>6, <2>1, <2>5, <2>7, <2>8 DEF LoadedRows
<1>7. ASSUME UNCHANGED <<D, store, derived>>, universe' = universe,
             NEW c, ingJ' \in {Recorded(c, "ingest_error"), Recorded(c, "circuit_open")}
      PROVE  LoadedRows'
  <2>1. \A e \in Ciks : Loads(e)' => Loads(e)
    BY <1>0, <1>7, RecordedIs DEF Loads, Terminal
  <2>2. universe # None => DOMAIN universe.lineage \subseteq Ciks
    BY <1>0, LineageOf
  <2> QED
    BY <1>7, <2>1, <2>2 DEF LoadedRows
<1>8. CASE UNCHANGED <<D, store, derived>> /\ ~FinishDiscover /\ ~StartOver /\ ~CloseFiler
  <2>1. universe' = universe
    BY <1>8 DEF Next, Commands, FileAtEdgar, StartSingle, Discover,
         SweepCover, SweepRefused, StartIngest, FinishIngest,
         OpenFiler, ObtainCover, ObtainTable, FetchSingle,
         FinishSingle, Crash, LatchInIngest, Damage, CrashInWrite, vars
  <2>2. \/ ingJ' = ingJ
        \/ \E c : ingJ' \in {Recorded(c, "ingest_error"), Recorded(c, "circuit_open")}
    BY <1>8 DEF Next, Commands, FileAtEdgar, StartSingle, Discover,
         SweepCover, SweepRefused, StartIngest, FinishIngest,
         OpenFiler, ObtainCover, ObtainTable, FetchSingle,
         FinishSingle, Crash, LatchInIngest, Damage, CrashInWrite, vars
  <2> QED
    BY <1>3, <1>7, <1>8, <2>1, <2>2
<1> QED
  BY <1>1, <1>2, <1>4, <1>5, <1>6, <1>8, StoreSteps

(* Who has the rows has the survivors.                                     *)
LEMMA LoadedHolds ==
    ASSUME Apart, BulkInv, LoadedRows PROVE LoadedIsWhatWasRanked
<1> SUFFICES ASSUME ingJ # None, NEW c \in DOMAIN ingJ.bound.lineage,
                    ingJ.disp[c] = "loaded"
             PROVE  Survivors(Documented(ingJ.bound.lineage[c])) =
                    {f \in Survivors(Filings(D, store)) : f.cik = c /\ f.period = Period}
  BY DEF LoadedIsWhatWasRanked
<1> DEFINE L == universe.lineage[c]
           kept == [a \in Accessions |->
                      IF a \in L THEN [status |-> "parsed", amends |-> None,
                                       flags |-> {}] ELSE None]
           G == {f \in Filings(D, store) : f.cik = c /\ f.period = Period}
<1>0. /\ TypeOK /\ Ranking /\ Traced /\ D \in Worlds /\ store \in Rows
      /\ universe # None /\ ingJ.bound = universe /\ Loads(c)
      /\ c \in DOMAIN universe.lineage
  BY DEF BulkInv, TypeOK, RowsHold, Ranking, IngestJournals, Loads
<1>1. /\ c \in Ciks /\ c \in Ranked(universe.refs, Full(universe.refs))
      /\ L = Lineage(universe.refs, Full(universe.refs), c)
  BY <1>0, LineageOf
<1>2. c \notin Singles
  <2>1. PICK a \in L : TRUE
    BY <1>1 DEF Ranked
  <2>2. a \in Accessions /\ D[a].cik = c /\ D[a].period = Period /\ D[a].form \notin Notices
    BY <1>0, <2>1, LineageHas
  <2> QED
    BY <1>0, <2>2 DEF Apart
<1>3. ASSUME NEW a \in Stored(store), D[a].cik = c, D[a].period = Period
      PROVE  a \in L
  <2>1. a \in universe.refs
    BY <1>0, <1>2, <1>3 DEF Traced, Bulked
  <2>2. Full(universe.refs)[a] = "read"
    BY <1>1, <1>3, <2>1 DEF Ranked
  <2> QED
    BY <1>1, <1>3, <2>1, <2>2 DEF Lineage
<1>4. \A a \in L : /\ a \in Stored(store) /\ store[a].status = "parsed" /\ a \in Accessions
                   /\ D[a].cik = c /\ D[a].period = Period
  BY <1>0, LineageHas DEF LoadedRows
<1>5. Stored(kept) = L
  <2>1. [status |-> "parsed", amends |-> None, flags |-> {}] # None
    BY LoadedRow
  <2> QED
    BY <1>4, <2>1 DEF Stored
<1>6. ASSUME NEW a \in L PROVE Columns(D, kept, a) = Columns(D, store, a)
  <2>1. kept[a].status = store[a].status /\ a \in Accessions
    BY <1>4
  <2> HIDE DEF kept
  <2> QED
    BY <2>1, ColumnsFollowTheStatus
<1> HIDE DEF kept, L
<1>7. Filings(D, kept) = {Columns(D, store, a) : a \in L}
  BY <1>5, <1>6 DEF Filings
<1>8. \A a \in Stored(store) : /\ Columns(D, store, a).cik = D[a].cik
                               /\ Columns(D, store, a).period = D[a].period
  BY DEF Columns
<1>9. Filings(D, kept) = G
  BY <1>3, <1>4, <1>7, <1>8 DEF Filings
<1>10. Documented(L) = G
  BY <1>9 DEF Documented, kept
(* Who survives among a manager's filings of a period is decided by them   *)
(* alone.                                                                  *)
<1>11. Survivors(G) = {f \in Survivors(Filings(D, store)) : f.cik = c /\ f.period = Period}
  <2> DEFINE F == Filings(D, store)
  <2>1. \A f : f \in G <=> f \in F /\ f.cik = c /\ f.period = Period
    OBVIOUS
  <2> HIDE DEF G, F
  <2>2. \A f : f \in Survivors(G) <=>
                 f \in Survivors(F) /\ f.cik = c /\ f.period = Period
    BY <2>1 DEF Survivors
  <2>3. Survivors(G) = {f \in Survivors(F) : f.cik = c /\ f.period = Period}
    BY <2>2 DEF Survivors
  <2> QED
    BY <2>3 DEF F
<1>12. ingJ.bound.lineage[c] = L
  BY <1>0 DEF L
<1> QED
  BY <1>10, <1>11, <1>12

(* A filer that is journaled as loaded stands in the store with the        *)
(* survivors that it was ranked by, and what the archive gives without a   *)
(* request is SEC's document (inst_bulk.py, ingest/checkpoint.py).         *)
THEOREM LoadedIsRanked ==
    ASSUME Apart PROVE BulkSpec => []StoreMatchesTheArchive
<1>1. Init => LoadedRows
  BY DEF Init, LoadedRows
<1>2. BulkInv /\ LoadedRows /\ [Next]_vars => LoadedRows'
  BY LoadedStep
<1>3. BulkInv /\ LoadedRows => StoreMatchesTheArchive
  BY DurableHolds, LoadedHolds DEF StoreMatchesTheArchive
<1> QED
  BY <1>1, <1>2, <1>3, BulkInvariant, PTL DEF BulkSpec

=============================================================================
