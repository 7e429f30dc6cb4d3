------------------------- MODULE InstAggregatesProofs -------------------------
(***************************************************************************)
(* The bulk path and the oracle of the institutional aggregates derive the *)
(* same tables from any books.  The proof follows the staged SQL: sums of  *)
(* digits with their carries are sums, coefficients of squares are         *)
(* squares, and the matches of each stage, taken over all filers at once,  *)
(* are those of the oracle's comparison of two books.  What the tables say *)
(* of the books is then proved of the oracle.                              *)
(***************************************************************************)
EXTENDS InstAggregates, FiniteSetTheorems, TLAPS

(* A property that fails for some finite set fails for one of whose strict *)
(* subsets it holds.                                                       *)
LEMMA SmallestSet ==
    ASSUME NEW S, IsFiniteSet(S), NEW Odd \in SUBSET SUBSET S, Odd # {}
    PROVE  \E T \in Odd : \A U \in Odd : U \subseteq T => U = T
<1>1. Odd \subseteq FiniteSubsetsOf(S)
  BY FS_FiniteSubsetsOfFinite
<1>2. PICK T \in Odd : \A U \in Odd : ~(<<U, T>> \in StrictSubsetOrdering(S))
  BY <1>1, FS_StrictSubsetOrderingWellFounded, WFMin
<1>3. ASSUME NEW U \in Odd, U \subseteq T PROVE U = T
  BY <1>2, <1>3 DEF StrictSubsetOrdering
<1> QED
  BY <1>3

(***************************************************************************)
(* Sums.  A sum over a finite set is a function of its subsets: the empty  *)
(* set gives zero, any other the weight of a chosen element added to what  *)
(* the others give.                                                        *)
(***************************************************************************)
SumStep(w, g, s) ==
    IF s = {} THEN 0
    ELSE LET x == CHOOSE x \in s : TRUE IN w[x] + g[s \ {x}]

IsSum(g, w, T) == g = [s \in T |-> SumStep(w, g, s)]

UpTo(S, n) == {s \in SUBSET S : Cardinality(s) <= n}

(* Up to n elements at a time there is such a function.                    *)
LEMMA SumUpTo ==
    ASSUME NEW S, IsFiniteSet(S), NEW w \in [S -> Int], NEW n \in Nat
    PROVE  \E g : IsSum(g, w, UpTo(S, n))
<1> DEFINE Odd == {k \in Nat : ~ \E g : IsSum(g, w, UpTo(S, k))}
<1> SUFFICES ASSUME Odd # {} PROVE FALSE
  OBVIOUS
<1>1. PICK k \in Odd : \A m \in Odd : ~(<<m, k>> \in OpToRel(<, Nat))
  <2>1. Odd \subseteq Nat
    OBVIOUS
  <2> HIDE DEF Odd
  <2> QED
    BY <2>1, NatLessThanWellFounded, WFMin
<1>2. k \in Nat /\ \A m \in Odd : ~(m < k)
  <2> HIDE DEF Odd
  <2>1. Odd \subseteq Nat
    BY DEF Odd
  <2> QED
    BY <1>1, <2>1, Zenon DEF OpToRel
<1>3. k # 0
  <2> SUFFICES ASSUME k = 0 PROVE FALSE
    OBVIOUS
  <2>1. \A s \in UpTo(S, 0) : s = {}
    BY FS_EmptySet, FS_Subset, FS_CardinalityType DEF UpTo
  <2> DEFINE g == [s \in UpTo(S, 0) |-> 0]
  <2>2. IsSum(g, w, UpTo(S, 0))
    BY <2>1 DEF SumStep, IsSum
  <2> QED
    BY <1>1, <2>2
<1>4. PICK g : IsSum(g, w, UpTo(S, k - 1))
  BY <1>2, <1>3
<1> DEFINE h == [s \in UpTo(S, k) |-> SumStep(w, g, s)]
<1>5. ASSUME NEW s \in UpTo(S, k - 1) PROVE h[s] = g[s]
  <2>1. s \in UpTo(S, k)
    BY <1>2, <1>3, FS_Subset, FS_CardinalityType DEF UpTo
  <2> QED
    BY <1>4, <2>1 DEF IsSum
<1>6. ASSUME NEW s \in UpTo(S, k), s # {}, NEW x \in s
      PROVE  s \ {x} \in UpTo(S, k - 1)
  <2>1. IsFiniteSet(s) /\ Cardinality(s) \in Nat
    BY FS_Subset, FS_CardinalityType DEF UpTo
  <2>2. Cardinality(s \ {x}) = Cardinality(s) - 1
    BY <2>1, FS_RemoveElement
  <2>3. Cardinality(s) - 1 <= k - 1
    BY <1>2, <2>1 DEF UpTo
  <2> QED
    BY <2>2, <2>3 DEF UpTo
<1>7. ASSUME NEW s \in UpTo(S, k) PROVE SumStep(w, g, s) = SumStep(w, h, s)
  <2> HIDE DEF h
  <2>1. CASE s = {}
    BY <2>1 DEF SumStep
  <2>2. CASE s # {}
    <3> DEFINE x == CHOOSE x \in s : TRUE
    <3>1. x \in s
      BY <2>2
    <3>2. h[s \ {x}] = g[s \ {x}]
      BY <1>5, <1>6, <2>2, <3>1
    <3> QED
      BY <2>2, <3>2 DEF SumStep
  <2> QED
    BY <2>1, <2>2
<1>8. IsSum(h, w, UpTo(S, k))
  BY <1>7 DEF IsSum
<1> QED
  BY <1>1, <1>8

(* So there is one for all the subsets.                                    *)
LEMMA SumExists ==
    ASSUME NEW S, IsFiniteSet(S), NEW w \in [S -> Int]
    PROVE  \E g : IsSum(g, w, SUBSET S)
<1>1. Cardinality(S) \in Nat
  BY FS_CardinalityType
<1>2. UpTo(S, Cardinality(S)) = SUBSET S
  BY FS_Subset DEF UpTo
<1>3. \E g : IsSum(g, w, UpTo(S, Cardinality(S)))
  BY <1>1, SumUpTo
<1> QED
  BY <1>2, <1>3


(***************************************************************************)
(* What a set of weights adds up to.                                       *)
(***************************************************************************)
Part(w, T) == SumOf([x \in T |-> w[x]])

(* SumOf is one of them.                                                   *)
LEMMA SumOfIs ==
    ASSUME NEW T, IsFiniteSet(T), NEW v \in [T -> Int]
    PROVE  \E h : IsSum(h, v, SUBSET T) /\ SumOf(v) = h[T]
<1> DEFINE h == CHOOSE h : IsSum(h, v, SUBSET T)
<1>1. IsSum(h, v, SUBSET T)
  BY SumExists
<1>2. SumOf(v) = h[T]
  <2>1. DOMAIN v = T
    OBVIOUS
  <2>2. SumOf(v) = LET g[s \in SUBSET T] ==
                         IF s = {} THEN 0
                         ELSE LET x == CHOOSE x \in s : TRUE IN v[x] + g[s \ {x}]
                   IN g[T]
    BY <2>1 DEF SumOf, MapThenSumSet, MapThenFoldSet
  <2> QED
    BY <2>2 DEF IsSum, SumStep
<1> QED
  BY <1>1, <1>2

(* The sums of all the parts of a set are one function.                    *)
LEMMA PartsAreSums ==
    ASSUME NEW S, IsFiniteSet(S), NEW w \in [S -> Int]
    PROVE  \E g : IsSum(g, w, SUBSET S) /\ \A T \in SUBSET S : Part(w, T) = g[T]
<1>1. PICK g : IsSum(g, w, SUBSET S)
  BY SumExists
<1>2. ASSUME NEW T \in SUBSET S PROVE Part(w, T) = g[T]
  <2> DEFINE v == [x \in T |-> w[x]]
  <2>1. v \in [T -> Int] /\ IsFiniteSet(T) /\ \A x \in T : v[x] = w[x]
    BY FS_Subset
  <2>2. Part(w, T) = SumOf(v)
    BY DEF Part
  <2> HIDE DEF v
  <2>3. PICK h : IsSum(h, v, SUBSET T) /\ SumOf(v) = h[T]
    BY <2>1, SumOfIs
  <2>4. \A u \in SUBSET T : g[u] = h[u]
    <3> DEFINE Odd == {u \in SUBSET T : g[u] # h[u]}
    <3> SUFFICES ASSUME Odd # {} PROVE FALSE
      OBVIOUS
    <3>1. PICK u \in Odd : \A s \in Odd : s \subseteq u => s = u
      <4>1. Odd \in SUBSET SUBSET T /\ IsFiniteSet(T)
        BY <2>1
      <4> HIDE DEF Odd
      <4> QED
        BY <4>1, SmallestSet
    <3>2. g[u] = SumStep(w, g, u) /\ h[u] = SumStep(v, h, u)
      BY <1>1, <2>3, <3>1 DEF IsSum
    <3>3. CASE u = {}
      BY <3>1, <3>2, <3>3 DEF SumStep
    <3>4. CASE u # {}
      <4> DEFINE c == CHOOSE c \in u : TRUE
      <4>1. c \in u
        BY <3>4
      <4>2. u \ {c} \notin Odd
        BY <3>1, <4>1
      <4>3. g[u \ {c}] = h[u \ {c}] /\ v[c] = w[c]
        BY <2>1, <3>1, <4>1, <4>2
      <4>4. /\ SumStep(w, g, u) = w[c] + g[u \ {c}]
            /\ SumStep(v, h, u) = v[c] + h[u \ {c}]
        BY <3>4 DEF SumStep
      <4> QED
        BY <3>1, <3>2, <4>3, <4>4
    <3> QED
      BY <3>3, <3>4
  <2> QED
    BY <1>1, <2>2, <2>3, <2>4
<1> QED
  BY <1>1, <1>2

(* Integers that are given to the elements of a finite set.                *)
Weighs(w, S) == IsFiniteSet(S) /\ w \in [S -> Int]

(* Nothing adds up to zero, and anything to an integer.                    *)
LEMMA PartType ==
    ASSUME NEW S, NEW w, Weighs(w, S)
    PROVE  /\ Part(w, {}) = 0
           /\ \A T \in SUBSET S : Part(w, T) \in Int
           /\ \A T \in SUBSET S : T # {} =>
                 \E c \in T : Part(w, T) = w[c] + Part(w, T \ {c})
<1>a. IsFiniteSet(S) /\ w \in [S -> Int]
  BY DEF Weighs
<1>1. PICK g : IsSum(g, w, SUBSET S) /\ \A T \in SUBSET S : Part(w, T) = g[T]
  BY <1>a, PartsAreSums
<1>2. Part(w, {}) = 0
  BY <1>1 DEF IsSum, SumStep
<1>3. ASSUME NEW T \in SUBSET S, T # {}
      PROVE  \E c \in T : Part(w, T) = w[c] + Part(w, T \ {c})
  <2> DEFINE c == CHOOSE c \in T : TRUE
  <2>1. c \in T
    BY <1>3
  <2>2. g[T] = w[c] + g[T \ {c}]
    BY <1>1, <1>3 DEF IsSum, SumStep
  <2> QED
    BY <1>1, <2>1, <2>2
<1> DEFINE Odd == {T \in SUBSET S : Part(w, T) \notin Int}
<1>4. Odd = {}
  <2> SUFFICES ASSUME Odd # {} PROVE FALSE
    OBVIOUS
  <2>1. PICK T \in Odd : \A U \in Odd : U \subseteq T => U = T
    <3>1. Odd \in SUBSET SUBSET S
      OBVIOUS
    <3> HIDE DEF Odd
    <3> QED
      BY <1>a, <3>1, SmallestSet
  <2>2. T # {}
    <3>1. Part(w, T) \notin Int
      BY <2>1
    <3> QED
      BY <1>2, <3>1
  <2>3. PICK c \in T : Part(w, T) = w[c] + Part(w, T \ {c})
    BY <1>3, <2>1, <2>2
  <2>4. T \ {c} \notin Odd
    BY <2>1
  <2> QED
    BY <1>a, <2>1, <2>3, <2>4
<1> QED
  BY <1>2, <1>3, <1>4

(* Any element may be added last.                                          *)
LEMMA PartRemove ==
    ASSUME NEW S, NEW w, Weighs(w, S)
    PROVE  \A T \in SUBSET S : \A x \in T :
              Part(w, T) = w[x] + Part(w, T \ {x})
<1>a. IsFiniteSet(S) /\ w \in [S -> Int]
  BY DEF Weighs
<1> DEFINE Odd == {T \in SUBSET S :
                     \E x \in T : Part(w, T) # w[x] + Part(w, T \ {x})}
<1> SUFFICES ASSUME Odd # {} PROVE FALSE
  OBVIOUS
<1>1. PICK T \in Odd : \A U \in Odd : U \subseteq T => U = T
  <2>1. Odd \in SUBSET SUBSET S
    OBVIOUS
  <2> HIDE DEF Odd
  <2> QED
    BY <1>a, <2>1, SmallestSet
<1>2. PICK x \in T : Part(w, T) # w[x] + Part(w, T \ {x})
  BY <1>1
<1>3. PICK c \in T : Part(w, T) = w[c] + Part(w, T \ {c})
  BY <1>1, PartType
<1>4. c # x
  BY <1>2, <1>3
<1>5. Part(w, T \ {c}) = w[x] + Part(w, (T \ {c}) \ {x})
  <2>1. T \ {c} \notin Odd
    BY <1>1, <1>3
  <2> QED
    BY <1>1, <1>4, <2>1
<1>6. T \ {x} \notin Odd
  BY <1>1
<1>7. Part(w, T \ {x}) = w[c] + Part(w, (T \ {x}) \ {c})
  BY <1>1, <1>4, <1>6
<1>8. (T \ {c}) \ {x} = (T \ {x}) \ {c}
  OBVIOUS
<1>9. w[x] \in Int /\ w[c] \in Int /\ Part(w, (T \ {x}) \ {c}) \in Int
  BY <1>a, <1>1, PartType
<1>10. Part(w, T) = w[x] + Part(w, T \ {x})
  <2> DEFINE rest == Part(w, (T \ {x}) \ {c})
  <2>1. Part(w, T) = w[c] + (w[x] + rest)
    BY <1>3, <1>5, <1>8, Zenon
  <2>2. rest \in Int
    BY <1>9
  <2> HIDE DEF Odd, rest
  <2>3. w[c] + (w[x] + rest) = w[x] + (w[c] + rest)
    BY <1>9, <2>2
  <2> QED
    BY <1>7, <2>1, <2>3 DEF rest
<1> QED
  BY <1>2, <1>10

(* What holds of the empty set, and of a set when it holds of it without   *)
(* one of its elements, holds of every finite set.                         *)
LEMMA SetInduction ==
    ASSUME NEW S, IsFiniteSet(S), NEW Good \in SUBSET SUBSET S, {} \in Good,
           \A T \in SUBSET S : \A x \in T : T \ {x} \in Good => T \in Good
    PROVE  \A T \in SUBSET S : T \in Good
<1> DEFINE Odd == (SUBSET S) \ Good
<1> SUFFICES ASSUME Odd # {} PROVE FALSE
  OBVIOUS
<1>1. PICK T \in Odd : \A U \in Odd : U \subseteq T => U = T
  <2>1. Odd \in SUBSET SUBSET S
    OBVIOUS
  <2> HIDE DEF Odd
  <2> QED
    BY <2>1, SmallestSet
<1>2. T # {}
  BY <1>1, Zenon
<1>3. PICK x \in T : T \ {x} \notin Odd
  BY <1>1, <1>2
<1> QED
  BY <1>1, <1>3

(* Equal weights add up to the same.                                       *)
LEMMA PartSame ==
    ASSUME NEW T, NEW w, NEW v, \A x \in T : w[x] = v[x]
    PROVE  Part(w, T) = Part(v, T)
<1>1. [x \in T |-> w[x]] = [x \in T |-> v[x]]
  OBVIOUS
<1> QED
  BY <1>1, Zenon DEF Part

(* The sum of a function is that of its whole domain.                      *)
LEMMA SumIsPart ==
    ASSUME NEW S, NEW w, Weighs(w, S) PROVE SumOf(w) = Part(w, S)
<1>1. w = [x \in S |-> w[x]]
  BY DEF Weighs
<1> QED
  BY <1>1, Zenon DEF Part

(* Sums of naturals are naturals.                                          *)
LEMMA PartNat ==
    ASSUME NEW S, NEW w, Weighs(w, S), \A x \in S : w[x] >= 0
    PROVE  \A T \in SUBSET S : Part(w, T) \in Nat
<1> DEFINE Good == {T \in SUBSET S : Part(w, T) \in Nat}
<1>1. {} \in Good
  BY PartType
<1>2. ASSUME NEW T \in SUBSET S, NEW x \in T, T \ {x} \in Good
      PROVE  T \in Good
  <2>1. Part(w, T) = w[x] + Part(w, T \ {x})
    BY PartRemove
  <2>2. w[x] \in Nat /\ Part(w, T \ {x}) \in Nat
    BY <1>2 DEF Weighs
  <2> QED
    BY <2>1, <2>2
<1>3. Good \in SUBSET SUBSET S /\ IsFiniteSet(S)
  BY DEF Weighs
<1>4. \A T \in SUBSET S : T \in Good
  <2> HIDE DEF Good
  <2> QED
    BY <1>1, <1>2, <1>3, SetInduction
<1> QED
  BY <1>4

(* Elements without weight may be left out.                                *)
LEMMA PartWider ==
    ASSUME NEW S, NEW w, Weighs(w, S), NEW R \in SUBSET S,
           \A x \in S \ R : w[x] = 0
    PROVE  Part(w, S) = Part(w, R)
<1> DEFINE Good == {T \in SUBSET S : Part(w, T) = Part(w, T \cap R)}
<1>1. {} \in Good
  <2>1. {} \cap R = {}
    OBVIOUS
  <2> QED
    BY <2>1
<1>2. ASSUME NEW T \in SUBSET S, NEW x \in T, T \ {x} \in Good
      PROVE  T \in Good
  <2>1. Part(w, T) = w[x] + Part(w, T \ {x})
    BY PartRemove
  <2>2. Part(w, T \ {x}) = Part(w, (T \ {x}) \cap R)
    BY <1>2
  <2>3. CASE x \in R
    <3>1. Part(w, T \cap R) = w[x] + Part(w, (T \cap R) \ {x})
      BY <2>3, PartRemove
    <3>2. (T \cap R) \ {x} = (T \ {x}) \cap R
      OBVIOUS
    <3>3. Part(w, T) = Part(w, T \cap R)
      BY <2>1, <2>2, <3>1, <3>2
    <3> QED
      BY <3>3
  <2>4. CASE x \notin R
    <3>1. (T \ {x}) \cap R = T \cap R
      BY <2>4
    <3>2. w[x] = 0 /\ Part(w, T \cap R) \in Int
      BY <2>4, PartType
    <3>3. Part(w, T \ {x}) = Part(w, T \cap R)
      BY <2>2, <3>1, Zenon
    <3>4. Part(w, T) = 0 + Part(w, T \cap R)
      BY <2>1, <3>2, <3>3, Zenon
    <3>5. Part(w, T) = Part(w, T \cap R)
      BY <3>2, <3>4
    <3> QED
      BY <3>5
  <2> QED
    BY <2>3, <2>4
<1>3. Good \in SUBSET SUBSET S /\ IsFiniteSet(S)
  BY DEF Weighs
<1>4. S \in Good
  <2> HIDE DEF Good
  <2> QED
    BY <1>1, <1>2, <1>3, SetInduction
<1>5. S \cap R = R
  OBVIOUS
<1> QED
  BY <1>4, <1>5

(* A common factor.                                                        *)
LEMMA PartScale ==
    ASSUME NEW S, NEW w, Weighs(w, S), NEW v, Weighs(v, S),
           NEW n \in Int, \A x \in S : v[x] = w[x] * n
    PROVE  Part(v, S) = Part(w, S) * n
<1> DEFINE Good == {T \in SUBSET S : Part(v, T) = Part(w, T) * n}
<1>1. {} \in Good
  BY PartType
<1>2. ASSUME NEW T \in SUBSET S, NEW x \in T, T \ {x} \in Good
      PROVE  T \in Good
  <2>1. Part(w, T) = w[x] + Part(w, T \ {x}) /\ Part(v, T) = v[x] + Part(v, T \ {x})
    BY PartRemove
  <2>2. Part(v, T \ {x}) = Part(w, T \ {x}) * n /\ v[x] = w[x] * n
    BY <1>2
  <2>3. w[x] \in Int /\ Part(w, T \ {x}) \in Int
    BY PartType DEF Weighs
  <2>4. (w[x] + Part(w, T \ {x})) * n = (w[x] * n) + (Part(w, T \ {x}) * n)
    BY <2>3
  <2>5. Part(v, T) = Part(w, T) * n
    BY <2>1, <2>2, <2>4
  <2> QED
    BY <2>5
<1>3. Good \in SUBSET SUBSET S /\ IsFiniteSet(S)
  BY DEF Weighs
<1>4. S \in Good
  <2> HIDE DEF Good
  <2> QED
    BY <1>1, <1>2, <1>3, SetInduction
<1> QED
  BY <1>4

(* Sums of two weights.                                                    *)
LEMMA PartPlus ==
    ASSUME NEW S, NEW w, Weighs(w, S), NEW v, Weighs(v, S),
           NEW u, Weighs(u, S), \A x \in S : u[x] = w[x] + v[x]
    PROVE  Part(u, S) = Part(w, S) + Part(v, S)
<1> DEFINE Good == {T \in SUBSET S : Part(u, T) = Part(w, T) + Part(v, T)}
<1>1. {} \in Good
  BY PartType
<1>2. ASSUME NEW T \in SUBSET S, NEW x \in T, T \ {x} \in Good
      PROVE  T \in Good
  <2> DEFINE R == T \ {x}
  <2>1. /\ Part(w, T) = w[x] + Part(w, R) /\ Part(v, T) = v[x] + Part(v, R)
        /\ Part(u, T) = u[x] + Part(u, R)
    BY PartRemove
  <2>2. Part(u, R) = Part(w, R) + Part(v, R) /\ u[x] = w[x] + v[x]
    BY <1>2
  <2>3. w[x] \in Int /\ Part(w, R) \in Int /\ v[x] \in Int /\ Part(v, R) \in Int
    BY PartType DEF Weighs
  <2> HIDE DEF R
  <2>4. Part(u, T) = Part(w, T) + Part(v, T)
    BY <2>1, <2>2, <2>3
  <2> QED
    BY <2>4
<1>3. Good \in SUBSET SUBSET S /\ IsFiniteSet(S)
  BY DEF Weighs
<1>4. S \in Good
  <2> HIDE DEF Good
  <2> QED
    BY <1>1, <1>2, <1>3, SetInduction
<1> QED
  BY <1>4

(* A sum over two sets may be taken in either order: rows[x] has what is   *)
(* given to x and any element of the other set, columns[y] the same of y.  *)
LEMMA PartSwap ==
    ASSUME NEW S, IsFiniteSet(S), NEW U, IsFiniteSet(U),
           NEW rows, \A x \in S : Weighs(rows[x], U),
           NEW columns, \A y \in U : Weighs(columns[y], S),
           \A x \in S, y \in U : rows[x][y] = columns[y][x],
           NEW w, w = [x \in S |-> Part(rows[x], U)],
           NEW v, v = [y \in U |-> Part(columns[y], S)]
    PROVE  /\ Weighs(w, S) /\ Weighs(v, U)
           /\ Part(w, S) = Part(v, U)
<1>1. Weighs(w, S)
  <2>1. \A x \in S : Part(rows[x], U) \in Int
    BY PartType
  <2> QED
    BY <2>1 DEF Weighs
<1>2. \A T \in SUBSET S : Weighs([y \in U |-> Part(columns[y], T)], U)
  <2>1. \A y \in U : \A T \in SUBSET S : Part(columns[y], T) \in Int
    BY PartType
  <2> QED
    BY <2>1 DEF Weighs
<1> DEFINE sub == [T \in SUBSET S |-> [y \in U |-> Part(columns[y], T)]]
           Good == {T \in SUBSET S : Part(w, T) = Part(sub[T], U)}
<1>3. \A T \in SUBSET S : Weighs(sub[T], U)
  BY <1>2
<1>4. {} \in Good
  <2>1. \A y \in U : sub[{}][y] = 0
    BY PartType
  <2> HIDE DEF sub
  <2>2. Part(sub[{}], U) = Part(sub[{}], {})
    <3>1. Weighs(sub[{}], U) /\ {} \in SUBSET U /\ \A y \in U \ {} : sub[{}][y] = 0
      BY <1>3, <2>1
    <3> QED
      BY <3>1, PartWider
  <2>3. Part(sub[{}], {}) = 0 /\ Part(w, {}) = 0
    BY <1>1, <1>3, PartType
  <2> QED
    BY <2>2, <2>3
<1>5. ASSUME NEW T \in SUBSET S, NEW x \in T, T \ {x} \in Good
      PROVE  T \in Good
  <2> DEFINE R == T \ {x}
  <2>1. Part(w, T) = w[x] + Part(w, R)
    BY <1>1, PartRemove
  <2>2. Part(w, R) = Part(sub[R], U)
    BY <1>5
  <2>3. w[x] = Part(rows[x], U)
    OBVIOUS
  <2>4. \A y \in U : sub[T][y] = rows[x][y] + sub[R][y]
    <3>1. \A y \in U : Part(columns[y], T) = columns[y][x] + Part(columns[y], R)
      BY PartRemove
    <3> QED
      BY <3>1
  <2>5. Weighs(sub[T], U) /\ Weighs(sub[R], U) /\ Weighs(rows[x], U)
    BY <1>3
  <2> DEFINE all == sub[T]
             rest == sub[R]
             new == rows[x]
  <2> HIDE DEF sub
  <2>6. Part(all, U) = Part(new, U) + Part(rest, U)
    <3>1. /\ Weighs(new, U) /\ Weighs(rest, U) /\ Weighs(all, U)
          /\ \A y \in U : all[y] = new[y] + rest[y]
      BY <2>4, <2>5
    <3> HIDE DEF all, rest, new
    <3> QED
      BY <3>1, PartPlus
  <2>7. Part(w, T) = Part(sub[T], U)
    BY <2>1, <2>2, <2>3, <2>6
  <2> QED
    BY <2>7
<1>6. Good \in SUBSET SUBSET S
  OBVIOUS
<1>7. S \in Good
  <2> HIDE DEF Good
  <2> QED
    BY <1>4, <1>5, <1>6, SetInduction
<1>8. sub[S] = v
  OBVIOUS
<1>9. Weighs(v, U)
  BY <1>2
<1> QED
  BY <1>1, <1>7, <1>8, <1>9

(* Weights that are carried over by a one-to-one map add up alike.         *)
LEMMA PartMoved ==
    ASSUME NEW S, NEW w, Weighs(w, S), NEW U, NEW v, Weighs(v, U),
           NEW h \in [S -> U], \A x, y \in S : h[x] = h[y] => x = y,
           \A x \in S : w[x] = v[h[x]]
    PROVE  Part(w, S) = Part(v, {h[x] : x \in S})
<1> DEFINE Good == {T \in SUBSET S : Part(w, T) = Part(v, {h[x] : x \in T})}
<1>1. {} \in Good
  <2>1. {h[x] : x \in {}} = {}
    OBVIOUS
  <2> QED
    BY <2>1, PartType
<1>2. ASSUME NEW T \in SUBSET S, NEW x \in T, T \ {x} \in Good
      PROVE  T \in Good
  <2> DEFINE I == {h[y] : y \in T}
  <2>1. Part(w, T) = w[x] + Part(w, T \ {x})
    BY PartRemove
  <2>2. I \in SUBSET U /\ h[x] \in I
    OBVIOUS
  <2>3. {h[y] : y \in T \ {x}} = I \ {h[x]}
    OBVIOUS
  <2>4. Part(w, T \ {x}) = Part(v, I \ {h[x]})
    BY <1>2, <2>3
  <2> HIDE DEF I
  <2>5. Part(v, I) = v[h[x]] + Part(v, I \ {h[x]})
    BY <2>2, PartRemove
  <2>6. Part(w, T) = Part(v, I)
    BY <2>1, <2>4, <2>5
  <2> QED
    BY <2>6 DEF I
<1>3. Good \in SUBSET SUBSET S /\ IsFiniteSet(S)
  BY DEF Weighs
<1>4. S \in Good
  <2> HIDE DEF Good
  <2> QED
    BY <1>1, <1>2, <1>3, SetInduction
<1> QED
  BY <1>4

(* What holds at zero and of a number after it holds up to any number.     *)
LEMMA UpToInduction ==
    ASSUME NEW n \in Nat, NEW Good \in SUBSET (0 .. n), 0 \in Good,
           \A i \in 0 .. n - 1 : i \in Good => i + 1 \in Good
    PROVE  Good = 0 .. n
<1> DEFINE Odd == (0 .. n) \ Good
<1> SUFFICES ASSUME Odd # {} PROVE FALSE
  OBVIOUS
<1>1. PICK k \in Odd : \A m \in Odd : ~(<<m, k>> \in OpToRel(<, Nat))
  <2>1. Odd \subseteq Nat
    OBVIOUS
  <2> HIDE DEF Odd
  <2> QED
    BY <2>1, NatLessThanWellFounded, WFMin
<1>2. k \in 0 .. n /\ k \notin Good
  BY <1>1
<1>3. k # 0
  BY <1>2
<1>4. k - 1 \in 0 .. n - 1
  BY <1>2, <1>3
<1>5. k - 1 \notin Odd
  <2>1. k - 1 < k /\ k - 1 \in Nat /\ k \in Nat
    BY <1>2, <1>4
  <2>2. <<k - 1, k>> \in OpToRel(<, Nat)
    BY <2>1, Zenon DEF OpToRel
  <2> HIDE DEF Odd
  <2> QED
    BY <1>1, <2>2, Zenon
<1>6. (k - 1) + 1 = k
  BY <1>2
<1> QED
  BY <1>2, <1>4, <1>5, <1>6

(* A recursion over an interval defines a function.                        *)
Stepwise(next, n) == next \in [0 .. n -> [Int -> Int]]

Solves(f, next, k) ==
    f[0] = next[0][0] /\ \A i \in 1 .. k : f[i] = next[i][f[i - 1]]

(* A function that is defined step by step up to a number exists.          *)
LEMMA Recursion ==
    ASSUME NEW n \in Nat, NEW next, Stepwise(next, n)
    PROVE  \E f \in [0 .. n -> Int] : Solves(f, next, n)
<1> DEFINE Good == {k \in 0 .. n :
                      \E f \in [0 .. n -> Int] : Solves(f, next, k)}
<1> USE DEF Stepwise
<1>1. 0 \in Good
  <2> DEFINE f == [i \in 0 .. n |-> next[0][0]]
  <2>1. f \in [0 .. n -> Int] /\ f[0] = next[0][0] /\ 1 .. 0 = {} /\ 0 \in 0 .. n
    OBVIOUS
  <2> HIDE DEF f
  <2>2. Solves(f, next, 0)
    BY <2>1 DEF Solves
  <2> QED
    BY <2>1, <2>2
<1>2. ASSUME NEW k \in 0 .. n - 1, k \in Good PROVE k + 1 \in Good
  <2>1. PICK f \in [0 .. n -> Int] : Solves(f, next, k)
    BY <1>2
  <2> DEFINE g == [f EXCEPT ![k + 1] = next[k + 1][f[k]]]
  <2>2. k + 1 \in 0 .. n /\ k \in 0 .. n
    OBVIOUS
  <2>3. g \in [0 .. n -> Int]
    BY <2>2
  <2>4. g[k + 1] = next[k + 1][f[k]] /\ \A i \in 0 .. k : g[i] = f[i]
    BY <2>2
  <2> HIDE DEF g
  <2>5. Solves(g, next, k + 1)
    <3>1. g[0] = next[0][0]
      <4>1. 0 \in 0 .. k
        OBVIOUS
      <4> QED
        BY <2>1, <2>4, <4>1 DEF Solves
    <3>2. ASSUME NEW i \in 1 .. k + 1 PROVE g[i] = next[i][g[i - 1]]
      <4>1. CASE i = k + 1
        <5>1. i - 1 = k /\ k \in 0 .. k
          BY <4>1
        <5>2. g[i - 1] = f[k]
          BY <2>4, <5>1
        <5> QED
          BY <2>4, <4>1, <5>2, Zenon
      <4>2. CASE i # k + 1
        <5>1. i \in 1 .. k /\ i \in 0 .. k /\ i - 1 \in 0 .. k
          BY <4>2
        <5> QED
          BY <2>1, <2>4, <5>1 DEF Solves
      <4> QED
        BY <4>1, <4>2
    <3> QED
      BY <3>1, <3>2 DEF Solves
  <2> QED
    BY <2>2, <2>3, <2>5
<1>3. Good \in SUBSET (0 .. n)
  OBVIOUS
<1>4. Good = 0 .. n
  <2> HIDE DEF Good
  <2> QED
    BY <1>1, <1>2, <1>3, UpToInduction
<1>5. n \in 0 .. n
  OBVIOUS
<1> QED
  BY <1>4, <1>5

-----------------------------------------------------------------------------
(* What the assumptions say of the numbers.                                *)
LEMMA Sized ==
    /\ Base \in Nat \ {0} /\ Digits \in Nat \ {0} /\ MaxInt \in Nat
    /\ MaxInt < Power[Digits] /\ 2 * Digits \in Nat
    /\ IsFiniteSet(Places) /\ Digits \in 0 .. 2 * Digits
    /\ \A i \in Places : i \in 0 .. 2 * Digits - 1 /\ i + 1 \in 1 .. Digits
BY InstAggregatesAssumption, FS_Interval DEF Places

(* Powers of the base.                                                     *)
LEMMA PowerIs ==
    /\ Power[0] = 1
    /\ \A i \in 0 .. 2 * Digits : Power[i] \in Nat \ {0}
    /\ \A i \in 0 .. 2 * Digits - 1 : Power[i + 1] = Base * Power[i]
<1> DEFINE n == 2 * Digits
           times == [i \in 0 .. n |-> [z \in Int |-> IF i = 0 THEN 1 ELSE Base * z]]
<1>1. n \in Nat /\ Base \in Nat \ {0}
  BY Sized
<1>2. PICK f \in [0 .. n -> Int] : Solves(f, times, n)
  <2>1. Stepwise(times, n)
    BY <1>1 DEF Stepwise
  <2> HIDE DEF n, times
  <2> QED
    BY <1>1, <2>1, Recursion
<1>a. f[0] = 1
  BY <1>1, <1>2 DEF Solves
<1> HIDE DEF n
<1>3. f = [i \in 0 .. n |-> IF i = 0 THEN 1 ELSE Base * f[i - 1]]
  <2>1. ASSUME NEW i \in 1 .. n PROVE f[i] = Base * f[i - 1]
    <3>1. i \in 0 .. n /\ f[i - 1] \in Int
      BY <1>1
    <3>2. f[i] = times[i][f[i - 1]]
      BY <1>2 DEF Solves
    <3> QED
      BY <3>1, <3>2
  <2> QED
    BY <1>1, <1>a, <2>1
<1>4. Power = [i \in 0 .. n |-> IF i = 0 THEN 1 ELSE Base * Power[i - 1]]
  BY <1>3, Zenon DEF Power, n
<1>5. Power[0] = 1
  BY <1>1, <1>4
<1>6. \A i \in 0 .. n - 1 : Power[i + 1] = Base * Power[i]
  <2> SUFFICES ASSUME NEW i \in 0 .. n - 1 PROVE Power[i + 1] = Base * Power[i]
    OBVIOUS
  <2>1. i + 1 \in 0 .. n /\ i + 1 # 0 /\ (i + 1) - 1 = i
    BY <1>1
  <2>2. Power[i + 1] = Base * Power[(i + 1) - 1]
    BY <1>4, <2>1
  <2> QED
    BY <2>1, <2>2
<1> DEFINE Good == {i \in 0 .. n : Power[i] \in Nat \ {0}}
<1>7. Good = 0 .. n
  <2>1. 0 \in Good
    BY <1>1, <1>5
  <2>2. ASSUME NEW i \in 0 .. n - 1, i \in Good PROVE i + 1 \in Good
    <3>1. Power[i + 1] = Base * Power[i] /\ Power[i] \in Nat \ {0}
      BY <1>6, <2>2
    <3>2. \A x, y \in Nat \ {0} : x * y \in Nat \ {0}
      OBVIOUS
    <3>3. Power[i + 1] \in Nat \ {0}
      BY <1>1, <3>1, <3>2
    <3> QED
      BY <1>1, <3>3
  <2>3. Good \in SUBSET (0 .. n)
    OBVIOUS
  <2> HIDE DEF Good
  <2> QED
    BY <1>1, <2>1, <2>2, <2>3, UpToInduction
<1> QED
  BY <1>5, <1>6, <1>7 DEF n

(* Powers of the base multiply as their exponents add.                     *)
LEMMA PowerAdds ==
    ASSUME NEW i \in Places, NEW j \in Places
    PROVE  Power[i + j] = Power[i] * Power[j]
<1> DEFINE n == Digits - 1
           Good == {k \in 0 .. n : Power[k + j] = Power[k] * Power[j]}
<1>1. n \in Nat /\ j \in 0 .. n /\ Places = 0 .. n /\ 2 * Digits = (2 * n) + 2
      /\ Base \in Nat
  BY Sized DEF Places
<1> HIDE DEF n
<1>2. 0 \in Good
  <2>1. Power[j] \in Int /\ Power[0] = 1
    BY <1>1, PowerIs
  <2> QED
    BY <1>1, <2>1
<1>3. ASSUME NEW k \in 0 .. n - 1, k \in Good PROVE k + 1 \in Good
  <2>1. k \in 0 .. 2 * Digits - 1 /\ k + j \in 0 .. 2 * Digits - 1
        /\ j \in 0 .. 2 * Digits
    BY <1>1
  <2>2. Power[k + 1] = Base * Power[k] /\ Power[(k + j) + 1] = Base * Power[k + j]
    BY <2>1, PowerIs
  <2>3. Power[k] \in Int /\ Power[j] \in Int
    BY <1>1, <2>1, PowerIs
  <2>4. Power[k + j] = Power[k] * Power[j] /\ (k + j) + 1 = (k + 1) + j
    BY <1>1, <1>3
  <2>5. Base * (Power[k] * Power[j]) = (Base * Power[k]) * Power[j]
    BY <1>1, <2>3
  <2>6. Power[(k + 1) + j] = Power[k + 1] * Power[j]
    BY <2>2, <2>4, <2>5
  <2> QED
    BY <1>1, <2>6
<1>4. Good \in SUBSET (0 .. n)
  OBVIOUS
<1>5. i \in Good
  <2> HIDE DEF Good
  <2> QED
    BY <1>1, <1>2, <1>3, <1>4, UpToInduction
<1> QED
  BY <1>5

(* A quotient and a remainder of naturals are naturals.                    *)
LEMMA Quotients ==
    ASSUME NEW n \in Nat, NEW a \in Nat \ {0}, NEW b \in Nat \ {0}
    PROVE  /\ n \div a \in Nat /\ n % a \in 0 .. a - 1
           /\ n = (a * (n \div a)) + (n % a)
           /\ (n \div a) \div b = n \div (b * a)
           /\ n < a => n \div a = 0
OBVIOUS

(* Products of naturals are naturals, and distribute.                      *)
LEMMA Products ==
    /\ \A x, y \in Int : x * y \in Int /\ x * y = y * x
    /\ \A x, y, z \in Int : (x + y) * z = (x * z) + (y * z)
    /\ \A x, y, z \in Int : (x * y) * z = x * (y * z)
    /\ \A x, y \in Nat : x * y \in Nat
OBVIOUS

(* A sum over an interval, from its start and from the one before.         *)
LEMMA PartGrows ==
    ASSUME NEW n \in Nat, NEW w, Weighs(w, 0 .. n)
    PROVE  /\ Part(w, 0 .. 0) = w[0]
           /\ \A k \in 0 .. n : w[k] \in Int /\ Part(w, 0 .. k) \in Int
           /\ \A k \in 0 .. n - 1 :
                 Part(w, 0 .. k + 1) = w[k + 1] + Part(w, 0 .. k)
<1>1. ASSUME NEW T, T \in SUBSET (0 .. n), NEW x, x \in T, NEW R, R = T \ {x}
      PROVE  Part(w, T) = w[x] + Part(w, R)
  <2> DEFINE whole == 0 .. n
  <2>1. T \in SUBSET whole /\ Weighs(w, whole) /\ x \in T
    BY <1>1
  <2> HIDE DEF whole
  <2>2. Part(w, T) = w[x] + Part(w, T \ {x})
    BY <2>1, PartRemove
  <2> QED
    BY <1>1, <2>2, Zenon
<1>2. \A k \in 0 .. n : w[k] \in Int
  BY DEF Weighs
<1>3. ASSUME NEW k \in 0 .. n PROVE Part(w, 0 .. k) \in Int
  <2> DEFINE S == 0 .. n
             T == 0 .. k
  <2>1. T \in SUBSET S /\ Weighs(w, S)
    OBVIOUS
  <2>2. Part(w, T) \in Int
    <3> HIDE DEF S, T
    <3> QED
      BY <2>1, PartType
  <2> QED
    BY <2>2
<1>4. Part(w, 0 .. 0) = w[0]
  <2>1. /\ 0 .. 0 \in SUBSET (0 .. n) /\ 0 \in 0 .. 0 /\ {} = (0 .. 0) \ {0}
        /\ 0 \in 0 .. n
    OBVIOUS
  <2>2. Part(w, 0 .. 0) = w[0] + Part(w, {})
    BY <1>1, <2>1
  <2>3. Part(w, {}) = 0
    BY PartType
  <2> QED
    BY <1>2, <2>1, <2>2, <2>3
<1>5. ASSUME NEW k \in 0 .. n - 1
      PROVE  Part(w, 0 .. k + 1) = w[k + 1] + Part(w, 0 .. k)
  <2>1. /\ 0 .. k + 1 \in SUBSET (0 .. n) /\ k + 1 \in 0 .. k + 1
        /\ 0 .. k = (0 .. k + 1) \ {k + 1}
    OBVIOUS
  <2> QED
    BY <1>1, <2>1
<1> QED
  BY <1>2, <1>3, <1>4, <1>5

(* A number that is no larger than the largest is the sum of its digits.   *)
Expansion(n) == [i \in Places |-> Digit(n, i) * Power[i]]

(* A digit is a natural below the base.                                    *)
LEMMA DigitType ==
    ASSUME NEW n \in Nat
    PROVE  /\ \A i \in Places : Digit(n, i) \in 0 .. Base - 1
           /\ Weighs(Expansion(n), Places)
<1>1. ASSUME NEW i \in Places PROVE Digit(n, i) \in 0 .. Base - 1
  <2>1. Power[i] \in Nat \ {0} /\ Base \in Nat \ {0}
    BY Sized, PowerIs
  <2> QED
    BY <2>1, Quotients DEF Digit
<1>2. ASSUME NEW i \in Places PROVE Digit(n, i) * Power[i] \in Int
  <2>1. Power[i] \in Int /\ Digit(n, i) \in Int
    BY <1>1, Sized, PowerIs
  <2> QED
    BY <2>1
<1> QED
  BY <1>1, <1>2, Sized DEF Weighs, Expansion

(* A number is the sum of its digits times their powers.                   *)
LEMMA DigitsAddUp ==
    ASSUME NEW n \in 0 .. MaxInt
    PROVE  n = Part(Expansion(n), Places)
<1> DEFINE w == Expansion(n)
           d == Digits - 1
           Good == {k \in 0 .. d :
                      n = Part(w, 0 .. k) + ((n \div Power[k + 1]) * Power[k + 1])}
<1>1. d \in Nat /\ Places = 0 .. d /\ Base \in Nat \ {0} /\ n \in Nat
  BY Sized DEF Places
<1>2. Weighs(w, 0 .. d)
  BY <1>1, DigitType
<1>3. ASSUME NEW k \in 0 .. d
      PROVE  /\ Power[k] \in Nat \ {0} /\ Power[k + 1] \in Nat \ {0}
             /\ n \div Power[k] \in Nat /\ n \div Power[k + 1] \in Nat
             /\ (n \div Power[k]) * Power[k] =
                  w[k] + ((n \div Power[k + 1]) * Power[k + 1])
  <2>1. Power[k] \in Nat \ {0} /\ Power[k + 1] = Base * Power[k]
        /\ Power[k + 1] \in Nat \ {0}
    BY <1>1, Sized, PowerIs
  <2> DEFINE q == n \div Power[k]
             r == n \div Power[k + 1]
  <2>2. q \in Nat /\ r \in Nat /\ q = (Base * (q \div Base)) + (q % Base)
        /\ q \div Base = r
    <3>1. q \in Nat /\ r \in Nat /\ q \div Base = n \div (Base * Power[k])
      BY <1>1, <2>1, Quotients
    <3>2. q \div Base = r
      BY <2>1, <3>1, Zenon
    <3> HIDE DEF q, r
    <3> QED
      BY <1>1, <3>1, <3>2, Quotients
  <2>3. w[k] = (q % Base) * Power[k]
    BY <1>1 DEF Expansion, Digit
  <2>4. q % Base \in Int
    BY <1>1, <2>2, Quotients
  <2> DEFINE m == q % Base
             b == Power[k]
             c == Power[k + 1]
  <2>5. q = (Base * r) + m
    BY <2>2
  <2>6. b \in Int /\ c = Base * b /\ w[k] = m * b /\ m \in Int /\ r \in Int
        /\ Base \in Int
    <3> HIDE DEF q, r, w
    <3> QED
      BY <1>1, <2>1, <2>2, <2>3, <2>4
  <2>7. q * b = w[k] + (r * c)
    <3> HIDE DEF q, r, m, b, c, w
    <3>1. q * b = ((Base * r) * b) + (m * b)
      BY <2>5, <2>6
    <3>2. (Base * r) * b = r * (Base * b)
      BY <2>6
    <3>3. (r * c) \in Int /\ m * b \in Int
      BY <2>6
    <3> QED
      BY <2>6, <3>1, <3>2, <3>3
  <2> QED
    BY <2>1, <2>2, <2>7
<1> HIDE DEF w, d
<1>4. 0 \in Good
  <2>1. Part(w, 0 .. 0) = w[0]
    BY <1>1, <1>2, PartGrows
  <2>2. n \div 1 = n /\ n * 1 = n /\ Power[0] = 1 /\ 0 \in 0 .. d
    BY <1>1, PowerIs
  <2>3. n = w[0] + ((n \div Power[0 + 1]) * Power[0 + 1])
    BY <1>3, <2>2
  <2> QED
    BY <2>1, <2>2, <2>3
<1>5. ASSUME NEW k \in 0 .. d - 1, k \in Good PROVE k + 1 \in Good
  <2>1. k + 1 \in 0 .. d /\ k \in 0 .. d
    BY <1>1
  <2>2. Part(w, 0 .. k + 1) = w[k + 1] + Part(w, 0 .. k)
    BY <1>1, <1>2, PartGrows
  <2>3. w[k + 1] \in Int /\ Part(w, 0 .. k) \in Int
    BY <1>1, <1>2, <2>1, PartGrows
  <2> DEFINE a == (n \div Power[k + 1]) * Power[k + 1]
             b == (n \div Power[(k + 1) + 1]) * Power[(k + 1) + 1]
  <2>4. a = w[k + 1] + b
    BY <1>3, <2>1
  <2>5. b \in Int
    <3>1. /\ n \div Power[(k + 1) + 1] \in Int /\ Power[(k + 1) + 1] \in Int
      BY <1>3, <2>1
    <3> QED
      BY <3>1
  <2>6. n = Part(w, 0 .. k) + a
    BY <1>5
  <2> HIDE DEF a, b
  <2>7. n = Part(w, 0 .. k + 1) + b
    BY <2>2, <2>3, <2>4, <2>5, <2>6
  <2> QED
    BY <2>1, <2>7 DEF b
<1>6. Good \in SUBSET (0 .. d)
  OBVIOUS
<1>7. Good = 0 .. d
  <2> HIDE DEF Good
  <2> QED
    BY <1>1, <1>4, <1>5, <1>6, UpToInduction
<1>8. d \in Good
  <2>1. d \in 0 .. d
    BY <1>1
  <2> QED
    BY <1>7, <2>1
<1>9. (n \div Power[d + 1]) * Power[d + 1] = 0
  <2>1. d + 1 = Digits /\ n < Power[Digits] /\ Power[Digits] \in Nat \ {0}
    BY Sized, PowerIs DEF d
  <2>2. n \div Power[Digits] = 0
    BY <1>1, <2>1, Quotients
  <2> QED
    BY <2>1, <2>2
<1>10. Part(w, 0 .. d) \in Int
  BY <1>1, <1>2, PartGrows
<1> QED
  BY <1>1, <1>8, <1>9, <1>10 DEF w

(* A quotient and a remainder make up the number.                          *)
LEMMA Splits ==
    \A n \in Nat, a \in Nat \ {0} :
        /\ n \div a \in Nat /\ n % a \in Nat
        /\ n = (a * (n \div a)) + (n % a)
OBVIOUS

(* The carries: what each place holds is its sum and the carry from below. *)
LEMMA CarriedIs ==
    ASSUME NEW sums, sums \in [Places -> Nat]
    PROVE  /\ Carried(sums) \in [Places -> Nat]
           /\ Carried(sums)[0] = sums[0]
           /\ \A i \in 1 .. Digits - 1 :
                 Carried(sums)[i] = sums[i] + (Carried(sums)[i - 1] \div Base)
<1> DEFINE n == Digits - 1
           steps == [i \in 0 .. n |-> [z \in Int |->
                       IF i = 0 THEN sums[0] ELSE sums[i] + (z \div Base)]]
           t == Carried(sums)
<1>1. n \in Nat /\ Base \in Nat \ {0} /\ Places = 0 .. n
  BY Sized DEF Places
<1>2. PICK f \in [0 .. n -> Int] : Solves(f, steps, n)
  <2>1. Stepwise(steps, n)
    BY <1>1 DEF Stepwise
  <2> HIDE DEF n, steps
  <2> QED
    BY <1>1, <2>1, Recursion
<1>3. f[0] = sums[0] /\ \A i \in 1 .. n : f[i] = sums[i] + (f[i - 1] \div Base)
  <2>1. f[0] = sums[0]
    BY <1>1, <1>2 DEF Solves
  <2>2. ASSUME NEW i \in 1 .. n PROVE f[i] = sums[i] + (f[i - 1] \div Base)
    <3>1. i \in 0 .. n /\ f[i - 1] \in Int
      BY <1>1
    <3>2. f[i] = steps[i][f[i - 1]]
      BY <1>2 DEF Solves
    <3> QED
      BY <3>1, <3>2
  <2> QED
    BY <2>1, <2>2
<1> HIDE DEF n
<1>4. \A i \in 0 .. n :
         f[i] = sums[i] + (IF i = 0 THEN 0 ELSE f[i - 1] \div Base)
  BY <1>1, <1>3
<1>5. f = [i \in Places |->
             sums[i] + (IF i = 0 THEN 0 ELSE f[i - 1] \div Base)]
  BY <1>1, <1>4
<1>6. t = [i \in Places |->
             sums[i] + (IF i = 0 THEN 0 ELSE t[i - 1] \div Base)]
  <2> DEFINE r == CHOOSE r : r = [i \in Places |->
                     sums[i] + (IF i = 0 THEN 0 ELSE r[i - 1] \div Base)]
  <2>1. r = [i \in Places |->
                sums[i] + (IF i = 0 THEN 0 ELSE r[i - 1] \div Base)]
    BY <1>5, Zenon
  <2>2. t = r
    BY Zenon DEF Carried
  <2> QED
    BY <2>1, <2>2, Zenon
<1> HIDE DEF t
<1>7. t[0] = sums[0]
  BY <1>1, <1>6
<1>8. ASSUME NEW i \in 1 .. n PROVE t[i] = sums[i] + (t[i - 1] \div Base)
  <2>1. i \in Places /\ i # 0
    BY <1>1
  <2> QED
    BY <1>6, <2>1
<1> DEFINE Good == {i \in 0 .. n : t[i] \in Nat}
<1>9. Good = 0 .. n
  <2>1. 0 \in Good
    BY <1>1, <1>7
  <2>2. ASSUME NEW i \in 0 .. n - 1, i \in Good PROVE i + 1 \in Good
    <3>1. i + 1 \in 1 .. n /\ i + 1 \in Places /\ (i + 1) - 1 = i
      BY <1>1
    <3>2. t[i + 1] = sums[i + 1] + (t[i] \div Base)
      BY <1>8, <3>1
    <3>3. sums[i + 1] \in Nat /\ t[i] \div Base \in Nat
      BY <1>1, <2>2, <3>1, Quotients
    <3> QED
      BY <1>1, <3>1, <3>2, <3>3
  <2>3. Good \in SUBSET (0 .. n)
    OBVIOUS
  <2> HIDE DEF Good
  <2> QED
    BY <1>1, <2>1, <2>2, <2>3, UpToInduction
<1>10. t \in [Places -> Nat]
  BY <1>1, <1>6, <1>9
<1> QED
  BY <1>7, <1>8, <1>10 DEF t, n

(* The digits that the carries leave stand for the sum of the places, if   *)
(* nothing is carried out of the highest one.                              *)
LEMMA CarriesKeepTheSum ==
    ASSUME NEW sums, sums \in [Places -> Nat], NEW t, t = Carried(sums),
           ~(t[Digits - 1] \div Base > 0),
           NEW w, w = [i \in Places |-> sums[i] * Power[i]],
           NEW v, v = [i \in Places |-> (t[i] % Base) * Power[i]]
    PROVE  /\ Weighs(w, Places) /\ Weighs(v, Places)
           /\ Part(v, Places) = Part(w, Places)
<1> DEFINE n == Digits - 1
<1>1. n \in Nat /\ Base \in Nat \ {0} /\ Places = 0 .. n /\ IsFiniteSet(Places)
      /\ Base \in Int
  BY Sized DEF Places
<1>2. ASSUME NEW i \in 0 .. n
      PROVE  /\ sums[i] \in Int /\ t[i] \in Int /\ t[i] % Base \in Int
             /\ t[i] \div Base \in Int /\ Power[i] \in Int /\ Power[i + 1] \in Int
             /\ t[i] = (Base * (t[i] \div Base)) + (t[i] % Base)
             /\ Power[i + 1] = Base * Power[i]
             /\ v[i] = (t[i] % Base) * Power[i] /\ w[i] = sums[i] * Power[i]
  <2>1. t[i] \in Nat /\ sums[i] \in Nat
    BY <1>1, CarriedIs
  <2>2. /\ t[i] % Base \in Int /\ t[i] \div Base \in Int
        /\ t[i] = (Base * (t[i] \div Base)) + (t[i] % Base)
    <3> DEFINE x == t[i]
    <3>1. x \in Nat
      BY <2>1
    <3> HIDE DEF x
    <3>2. /\ x % Base \in Int /\ x \div Base \in Int
          /\ x = (Base * (x \div Base)) + (x % Base)
      BY <1>1, <3>1, Splits
    <3> QED
      BY <3>2, Zenon DEF x
  <2>3. Power[i] \in Int /\ Power[i + 1] \in Int /\ Power[i + 1] = Base * Power[i]
    <3>1. i \in 0 .. 2 * Digits - 1 /\ i \in 0 .. 2 * Digits
          /\ i + 1 \in 0 .. 2 * Digits
      BY <1>1, Sized
    <3> QED
      BY <3>1, PowerIs
  <2>4. i \in Places
    BY <1>1
  <2> QED
    BY <2>1, <2>2, <2>3, <2>4
<1>3. Weighs(w, 0 .. n) /\ Weighs(v, 0 .. n)
  BY <1>1, <1>2, Products DEF Weighs
<1>4. t[0] = sums[0] /\ \A i \in 1 .. n : t[i] = sums[i] + (t[i - 1] \div Base)
  BY CarriedIs
<1> HIDE DEF n
<1> DEFINE Good == {k \in 0 .. n : Part(w, 0 .. k) =
                       Part(v, 0 .. k) + ((t[k] \div Base) * Power[k + 1])}
<1>5. ASSUME NEW k \in 0 .. n
      PROVE  /\ (t[k] \div Base) * Power[k + 1] \in Int
             /\ t[k] * Power[k] = v[k] + ((t[k] \div Base) * Power[k + 1])
  <2> DEFINE q == t[k] \div Base
             m == t[k] % Base
             b == Power[k]
             c == Power[k + 1]
             x == t[k]
  <2>1. /\ q \in Int /\ m \in Int /\ b \in Int /\ c \in Int
        /\ x = (Base * q) + m /\ c = Base * b /\ v[k] = m * b
    BY <1>2
  <2> HIDE DEF q, m, b, c, x
  <2>2. x * b = ((Base * q) * b) + (m * b)
    BY <1>1, <2>1
  <2>3. (Base * q) * b = q * (Base * b)
    BY <1>1, <2>1
  <2>4. q * c \in Int /\ m * b \in Int
    BY <2>1
  <2>5. x * b = v[k] + (q * c)
    BY <2>1, <2>2, <2>3, <2>4
  <2> QED
    BY <2>4, <2>5 DEF q, c, x, b
<1>6. 0 \in Good
  <2>1. Part(w, 0 .. 0) = w[0] /\ Part(v, 0 .. 0) = v[0]
    BY <1>1, <1>3, PartGrows
  <2>2. 0 \in 0 .. n /\ w[0] = t[0] * Power[0]
    BY <1>1, <1>2, <1>4
  <2>3. w[0] = v[0] + ((t[0] \div Base) * Power[0 + 1])
    BY <1>5, <2>2
  <2> QED
    BY <2>1, <2>2, <2>3
<1>7. ASSUME NEW k \in 0 .. n - 1, k \in Good PROVE k + 1 \in Good
  <2> DEFINE j == k + 1
  <2>1. j \in 0 .. n /\ k \in 0 .. n /\ j \in 1 .. n /\ j - 1 = k
    BY <1>1
  <2>2. /\ Part(w, 0 .. j) = w[j] + Part(w, 0 .. k)
        /\ Part(v, 0 .. j) = v[j] + Part(v, 0 .. k)
    BY <1>1, <1>3, PartGrows
  <2>3. /\ w[j] \in Int /\ Part(w, 0 .. k) \in Int
        /\ v[j] \in Int /\ Part(v, 0 .. k) \in Int
    BY <1>1, <1>3, <2>1, PartGrows
  <2> DEFINE a == (t[k] \div Base) * Power[j]
             b == (t[j] \div Base) * Power[j + 1]
  <2>4. Part(w, 0 .. k) = Part(v, 0 .. k) + a
    BY <1>7
  <2> HIDE DEF j
  <2>5. a \in Int /\ b \in Int
    BY <1>5, <2>1 DEF j
  <2>6. t[j] = sums[j] + (t[k] \div Base)
    BY <1>4, <2>1
  <2>7. t[j] * Power[j] = v[j] + b
    BY <1>5, <2>1
  <2>8. t[j] * Power[j] = w[j] + a
    <3>1. /\ sums[j] \in Int /\ t[k] \div Base \in Int /\ Power[j] \in Int
          /\ w[j] = sums[j] * Power[j]
      BY <1>2, <2>1
    <3> QED
      BY <2>6, <3>1, Products
  <2> DEFINE x == Part(w, 0 .. k)
             y == Part(v, 0 .. k)
             wj == w[j]
             vj == v[j]
  <2>9. /\ wj \in Int /\ vj \in Int /\ x \in Int /\ y \in Int
        /\ a \in Int /\ b \in Int /\ x = y + a /\ wj + a = vj + b
    BY <2>3, <2>4, <2>5, <2>7, <2>8, Zenon
  <2> HIDE DEF a, b, x, y, wj, vj
  <2>10. wj + x = (vj + y) + b
    BY <2>9
  <2>11. Part(w, 0 .. j) = Part(v, 0 .. j) + b
    BY <2>2, <2>10, Zenon DEF x, y, wj, vj
  <2> QED
    BY <2>1, <2>11 DEF j, b
<1>8. Good \in SUBSET (0 .. n)
  OBVIOUS
<1>9. Good = 0 .. n
  <2> HIDE DEF Good
  <2> QED
    BY <1>1, <1>6, <1>7, <1>8, UpToInduction
<1>10. n \in 0 .. n
  BY <1>1
<1>11. (t[n] \div Base) * Power[n + 1] = 0
  <2>1. t[n] \in Nat
    BY <1>1, <1>10, CarriedIs
  <2>2. t[n] \div Base \in Nat /\ ~(t[n] \div Base > 0)
    BY <1>1, <2>1, Quotients DEF n
  <2>3. t[n] \div Base = 0
    BY <2>2
  <2>4. Power[n + 1] \in Int
    BY <1>2, <1>10
  <2>5. \A x \in Int : 0 * x = 0
    OBVIOUS
  <2> QED
    BY <2>3, <2>4, <2>5, Zenon
<1>12. Part(w, 0 .. n) = Part(v, 0 .. n) /\ Part(v, 0 .. n) \in Int
  <2>1. Part(v, 0 .. n) \in Int
    BY <1>1, <1>3, <1>10, PartGrows
  <2>2. Part(w, 0 .. n) = Part(v, 0 .. n) + ((t[n] \div Base) * Power[n + 1])
    BY <1>9, <1>10
  <2> QED
    BY <1>11, <2>1, <2>2
<1> QED
  BY <1>1, <1>3, <1>12

(* What the digits of the shares add up to, place by place, is their sum.  *)
LEMMA DigitSumsAre ==
    ASSUME NEW rows, IsFiniteSet(rows), \A r \in rows : r.shares \in 0 .. MaxInt
    PROVE  /\ DigitSums(rows) \in [Places -> Nat]
           /\ Weighs([r \in rows |-> r.shares], rows)
           /\ Part([i \in Places |-> DigitSums(rows)[i] * Power[i]], Places) =
                 Part([r \in rows |-> r.shares], rows)
<1> DEFINE sums == DigitSums(rows)
           digits == [i \in Places |-> [r \in rows |-> Digit(r.shares, i)]]
           columns == [i \in Places |->
                         [r \in rows |-> Digit(r.shares, i) * Power[i]]]
           expansions == [r \in rows |-> Expansion(r.shares)]
           each == [r \in rows |-> Part(expansions[r], Places)]
           places == [i \in Places |-> Part(columns[i], rows)]
<1>1. IsFiniteSet(Places) /\ \A i \in Places : Power[i] \in Int
  BY Sized, PowerIs
<1>2. \A r \in rows : r.shares # None /\ r.shares \in Nat /\ r.shares \in 0 .. MaxInt
  BY SentinelAssumption
<1>3. \A r \in rows, i \in Places : Digit(r.shares, i) \in Nat
  <2>1. \A n \in Nat, i \in Places : Digit(n, i) \in 0 .. Base - 1
    BY DigitType
  <2> QED
    BY <1>2, <2>1
<1>4. ASSUME NEW i \in Places
      PROVE  /\ Weighs(digits[i], rows) /\ Weighs(columns[i], rows)
             /\ sums[i] = Part(digits[i], rows) /\ sums[i] \in Nat
             /\ Part(columns[i], rows) = sums[i] * Power[i]
  <2>1. Weighs(digits[i], rows) /\ \A r \in rows : digits[i][r] >= 0
    BY <1>3 DEF Weighs
  <2>2. Weighs(columns[i], rows)
    BY <1>1, <1>3, Products DEF Weighs
  <2>3. sums[i] = SumOf(digits[i])
    <3>1. [r \in rows |-> IF r.shares = None THEN 0 ELSE Digit(r.shares, i)]
             = [r \in rows |-> Digit(r.shares, i)]
      BY <1>2
    <3> QED
      BY <3>1, Zenon DEF DigitSums
  <2>4. \A r \in rows : columns[i][r] = digits[i][r] * Power[i]
    OBVIOUS
  <2> DEFINE d == digits[i]
             c == columns[i]
             n == Power[i]
  <2>5. Weighs(d, rows) /\ Weighs(c, rows) /\ n \in Int
        /\ (\A r \in rows : d[r] >= 0) /\ (\A r \in rows : c[r] = d[r] * n)
    BY <1>1, <2>1, <2>2, <2>4
  <2> HIDE DEF d, c, n
  <2>6. Part(c, rows) = Part(d, rows) * n
    BY <2>5, PartScale
  <2>7. Part(d, rows) \in Nat /\ SumOf(d) = Part(d, rows)
    BY <2>5, PartNat, SumIsPart
  <2> QED
    BY <2>1, <2>2, <2>3, <2>6, <2>7, Zenon DEF c, d, n
<1>5. sums \in [Places -> Nat]
  <2>1. sums = [i \in Places |-> sums[i]]
    BY DEF DigitSums
  <2> HIDE DEF sums
  <2> QED
    BY <1>4, <2>1
<1>6. ASSUME NEW r \in rows
      PROVE  Weighs(expansions[r], Places) /\ Part(expansions[r], Places) = r.shares
  BY <1>2, DigitType, DigitsAddUp
<1>7. ASSUME NEW r \in rows, NEW i \in Places PROVE expansions[r][i] = columns[i][r]
  BY DEF Expansion
<1>8. Part(each, rows) = Part(places, Places)
  <2>1. /\ \A r \in rows : Weighs(expansions[r], Places)
        /\ \A i \in Places : Weighs(columns[i], rows)
        /\ \A r \in rows, i \in Places : expansions[r][i] = columns[i][r]
    BY <1>4, <1>6, <1>7, Zenon
  <2>2. /\ each = [r \in rows |-> Part(expansions[r], Places)]
        /\ places = [i \in Places |-> Part(columns[i], rows)]
    OBVIOUS
  <2> HIDE DEF expansions, columns, each, places
  <2> QED
    BY <1>1, <2>1, <2>2, PartSwap
<1>9. each = [r \in rows |-> r.shares]
  BY <1>6
<1>10. places = [i \in Places |-> sums[i] * Power[i]]
  BY <1>4
<1>11. Weighs([r \in rows |-> r.shares], rows)
  BY <1>2 DEF Weighs
<1> QED
  BY <1>5, <1>8, <1>9, <1>10, <1>11, Zenon

(* A staged position that does not overflow is the oracle's.               *)
Unsigned(rows) ==
    \A r \in rows : /\ r.shares = None \/ r.shares \in 0 .. MaxInt
                    /\ r.value = None \/ r.value \in Nat

(* Where the sum of the digits does not overflow, the staged position is   *)
(* the oracle's.                                                           *)
LEMMA StagedIsFinal ==
    ASSUME NEW rows, IsFiniteSet(rows), Unsigned(rows),
           ~StagedPosition(rows).overflow
    PROVE  /\ StagedPosition(rows).value = Finalize(rows).value
           /\ StagedPosition(rows).unit = Finalize(rows).unit
           /\ StagedPosition(rows).shares = Finalize(rows).shares
           /\ StagedPosition(rows).cusip = Finalize(rows).cusip
<1> DEFINE t == Carried(DigitSums(rows))
           whole == [r \in rows |-> r.shares]
           v == [i \in Places |-> (t[i] % Base) * Power[i]]
<1>1. ~Overflows(t)
  BY DEF StagedPosition
<1>2. CASE CleanUnit(rows) = None \/ \E r \in rows : r.shares = None
  <2>1. StagedPosition(rows).shares = None
    BY <1>2, Zenon DEF StagedPosition
  <2>2. Finalize(rows).shares = None
    <3>1. (\E r \in rows : r.shares = None) => Disclosed(whole) # DOMAIN whole
      BY DEF Disclosed
    <3> QED
      BY <1>2, <3>1, Zenon DEF Finalize, WholeSum
  <2> QED
    BY <2>1, <2>2 DEF StagedPosition, Finalize
<1>3. CASE CleanUnit(rows) # None /\ \A r \in rows : r.shares # None
  <2>1. \A r \in rows : r.shares \in 0 .. MaxInt
    BY <1>3 DEF Unsigned
  <2>2. ~(t[Digits - 1] \div Base > 0)
    BY <1>1 DEF Overflows
  <2>3. /\ DigitSums(rows) \in [Places -> Nat] /\ Weighs(whole, rows)
        /\ Part([i \in Places |-> DigitSums(rows)[i] * Power[i]], Places)
              = Part(whole, rows)
    BY <2>1, DigitSumsAre
  <2>4. Weighs(v, Places) /\ Part(v, Places) = Part(whole, rows)
    <3> HIDE DEF whole
    <3> QED
      BY <2>2, <2>3, CarriesKeepTheSum
  <2>5. SumOf(v) = SumOf(whole)
    <3> HIDE DEF v, whole
    <3> QED
      BY <2>3, <2>4, SumIsPart
  <2>6. StagedPosition(rows).shares = SumOf(v)
    BY <1>1, <1>3 DEF StagedPosition
  <2>7. Finalize(rows).shares = SumOf(whole)
    <3>1. Disclosed(whole) = DOMAIN whole
      BY <1>3 DEF Disclosed
    <3> QED
      BY <1>3, <3>1, Zenon DEF Finalize, WholeSum
  <2> QED
    BY <2>5, <2>6, <2>7 DEF StagedPosition, Finalize
<1> QED
  BY <1>2, <1>3

(* The square of a number is the sum of the products of its digits, taken  *)
(* by the place where they stand.                                          *)
Coefficients == 0 .. 2 * Digits - 2

(* The places of the digits and those of the products of two digits.       *)
LEMMA PlacesIs ==
    /\ IsFiniteSet(Places) /\ IsFiniteSet(Coefficients)
    /\ \A i \in Places : i \in Int /\ Power[i] \in Int
    /\ \A k \in Coefficients : k \in Int /\ Power[k] \in Int
    /\ \A i, j \in Places : i + j \in Coefficients /\ (i + j) - i = j
<1>1. Digits \in Nat \ {0} /\ Coefficients \subseteq 0 .. 2 * Digits
      /\ Places \subseteq 0 .. 2 * Digits
  BY Sized DEF Coefficients, Places
<1>2. IsFiniteSet(Coefficients)
  <2>1. 0 \in Int /\ 2 * Digits - 2 \in Int
    BY <1>1
  <2> QED
    BY <2>1, FS_Interval DEF Coefficients
<1>3. \A i, j \in Places : i + j \in Coefficients /\ (i + j) - i = j
  BY <1>1 DEF Coefficients, Places
<1>4. \A i \in 0 .. 2 * Digits : i \in Int /\ Power[i] \in Int
  BY PowerIs
<1> QED
  BY <1>1, <1>2, <1>3, <1>4, Sized

(* The coefficients of a square add up to it.                              *)
LEMMA SquareIs ==
    ASSUME NEW n \in 0 .. MaxInt
    PROVE  /\ \A k \in Coefficients : SquareCoefficient(n, k) \in Int
           /\ Part([k \in Coefficients |-> SquareCoefficient(n, k) * Power[k]],
                   Coefficients) = n * n
<1> DEFINE d == [i \in Places |-> Digit(n, i)]
           e == Expansion(n)
           coef == [k \in Coefficients |-> [i \in Places |->
                      IF k - i \in Places THEN d[i] * d[k - i] ELSE 0]]
           columns == [k \in Coefficients |-> [i \in Places |->
                         coef[k][i] * Power[k]]]
           lines == [i \in Places |-> [k \in Coefficients |->
                         coef[k][i] * Power[k]]]
           each == [i \in Places |-> Part(lines[i], Coefficients)]
           places == [k \in Coefficients |-> Part(columns[k], Places)]
<1>1. n \in Nat /\ n \in Int
  BY Sized
<1>2. \A i \in Places : d[i] \in Int
  BY <1>1, DigitType
<1>3. Weighs(e, Places) /\ Part(e, Places) = n
  BY <1>1, DigitType, DigitsAddUp
<1>4. \A i \in Places : e[i] = d[i] * Power[i] /\ e[i] \in Int
  BY <1>3 DEF Expansion, Weighs
<1> HIDE DEF e
<1>5. ASSUME NEW k \in Coefficients
      PROVE  /\ Weighs(columns[k], Places) /\ SquareCoefficient(n, k) \in Int
             /\ Part(columns[k], Places) = SquareCoefficient(n, k) * Power[k]
  <2> DEFINE R == {i \in Places : k - i \in Places}
             c == coef[k]
             s == columns[k]
             m == Power[k]
  <2>1. \A i \in Places : c[i] \in Int
    BY <1>2, Products
  <2>2. Weighs(c, Places) /\ Weighs(s, Places) /\ m \in Int
    BY <2>1, PlacesIs, Products DEF Weighs
  <2>3. \A i \in Places : s[i] = c[i] * m
    OBVIOUS
  <2>4. R \in SUBSET Places /\ \A i \in Places \ R : c[i] = 0
    OBVIOUS
  <2>5. SquareCoefficient(n, k) = Part(c, R)
    <3>1. [i \in {i \in Places : k - i \in Places} |->
               Digit(n, i) * Digit(n, k - i)] = [i \in R |-> c[i]]
      OBVIOUS
    <3> QED
      BY <3>1, Zenon DEF SquareCoefficient, Part
  <2> HIDE DEF c, s, m, R
  <2>6. Part(c, Places) = Part(c, R)
    BY <2>2, <2>4, PartWider
  <2>7. Part(s, Places) = Part(c, Places) * m /\ Part(c, Places) \in Int
    BY <2>2, <2>3, PartScale, PartType
  <2> QED
    BY <2>2, <2>5, <2>6, <2>7, Zenon DEF s, m
<1>6. ASSUME NEW i \in Places
      PROVE  /\ Weighs(lines[i], Coefficients)
             /\ Part(lines[i], Coefficients) = n * e[i]
  <2> DEFINE h == [j \in Places |-> i + j]
             v == lines[i]
             w == [j \in Places |-> e[j] * e[i]]
             I == {h[j] : j \in Places}
             m == e[i]
  <2>1. Weighs(v, Coefficients)
    <3>1. \A k \in Coefficients : coef[k][i] \in Int
      BY <1>2, Products
    <3> QED
      BY <3>1, PlacesIs, Products DEF Weighs
  <2>2. Weighs(w, Places)
    BY <1>4, PlacesIs, Products DEF Weighs
  <2>3. h \in [Places -> Coefficients] /\ (\A x, y \in Places : h[x] = h[y] => x = y)
    <3>1. \A x, y \in Places : i + x = i + y => x = y
      BY PlacesIs
    <3> QED
      BY <3>1, PlacesIs
  <2>4. ASSUME NEW j \in Places PROVE w[j] = v[h[j]]
    <3>1. i + j \in Coefficients /\ (i + j) - i = j
      BY PlacesIs
    <3>2. v[i + j] = (d[i] * d[j]) * Power[i + j]
      BY <3>1
    <3>3. Power[i + j] = Power[i] * Power[j]
      BY PowerAdds
    <3>4. /\ w[j] = (d[j] * Power[j]) * (d[i] * Power[i])
          /\ d[i] \in Int /\ d[j] \in Int /\ Power[i] \in Int /\ Power[j] \in Int
      BY <1>2, <1>4, PlacesIs
    <3>5. \A a, b, x, y \in Int : (b * y) * (a * x) = (a * b) * (x * y)
      OBVIOUS
    <3> DEFINE a == d[i]
               b == d[j]
               x == Power[i]
               y == Power[j]
    <3>6. (b * y) * (a * x) = (a * b) * (x * y)
      <4>1. a \in Int /\ b \in Int /\ x \in Int /\ y \in Int
        BY <3>4
      <4> HIDE DEF a, b, x, y
      <4> QED
        BY <3>5, <4>1
    <3>7. h[j] = i + j
      OBVIOUS
    <3> QED
      BY <3>2, <3>3, <3>4, <3>6, <3>7, Zenon
  <2>5. I \in SUBSET Coefficients
    BY PlacesIs
  <2>6. ASSUME NEW k \in Coefficients, k \notin I PROVE v[k] = 0
    <3>1. k - i \notin Places
      <4> SUFFICES ASSUME k - i \in Places PROVE FALSE
        OBVIOUS
      <4>1. i + (k - i) = k
        BY PlacesIs
      <4>2. h[k - i] = k
        BY <4>1
      <4> QED
        BY <2>6, <4>2
    <3>2. v[k] = 0 * Power[k] /\ Power[k] \in Int
      BY <3>1, PlacesIs
    <3> QED
      BY <3>2, Products
  <2>7. Part(v, Coefficients) = Part(v, I)
    <3>1. \A k \in Coefficients \ I : v[k] = 0
      BY <2>6
    <3> HIDE DEF v, I
    <3> QED
      BY <2>1, <2>5, <3>1, PartWider
  <2>8. Part(w, Places) = Part(v, I)
    <3> HIDE DEF v, w, h
    <3> QED
      BY <2>1, <2>2, <2>3, <2>4, PartMoved
  <2>9. Part(w, Places) = Part(e, Places) * m
    <3>1. \A j \in Places : w[j] = e[j] * m
      OBVIOUS
    <3>2. m \in Int
      BY <1>4
    <3> HIDE DEF w, m
    <3> QED
      BY <1>3, <2>2, <3>1, <3>2, PartScale
  <2> QED
    BY <1>3, <2>1, <2>7, <2>8, <2>9, Zenon DEF m
<1>7. Part(each, Places) = Part(places, Coefficients)
  <2>1. /\ \A i \in Places : Weighs(lines[i], Coefficients)
        /\ \A k \in Coefficients : Weighs(columns[k], Places)
        /\ \A i \in Places, k \in Coefficients : lines[i][k] = columns[k][i]
    BY <1>5, <1>6
  <2>2. /\ each = [i \in Places |-> Part(lines[i], Coefficients)]
        /\ places = [k \in Coefficients |-> Part(columns[k], Places)]
    OBVIOUS
  <2>3. IsFiniteSet(Places) /\ IsFiniteSet(Coefficients)
    BY PlacesIs
  <2> HIDE DEF lines, columns, each, places
  <2> QED
    BY <2>1, <2>2, <2>3, PartSwap
<1>8. places = [k \in Coefficients |-> SquareCoefficient(n, k) * Power[k]]
  BY <1>5
<1>9. \A i \in Places : each[i] = e[i] * n
  <2>1. \A i \in Places : each[i] = n * e[i]
    BY <1>6
  <2> HIDE DEF each
  <2> QED
    BY <1>1, <1>4, <2>1, Products
<1>10. Weighs(each, Places)
  <2>1. \A i \in Places : each[i] \in Int
    <3> HIDE DEF each
    <3> QED
      BY <1>1, <1>4, <1>9, Products
  <2> QED
    BY <2>1, PlacesIs DEF Weighs
<1>11. Part(each, Places) = n * n
  <2> HIDE DEF each
  <2>1. Part(each, Places) = Part(e, Places) * n
    BY <1>1, <1>3, <1>9, <1>10, PartScale
  <2> QED
    BY <1>3, <2>1
<1> HIDE DEF each, places, columns, lines, coef
<1> QED
  BY <1>5, <1>7, <1>8, <1>11

(* So the squares of weights that no place overflows are summed exactly.   *)
LEMMA BulkSquareSumIs ==
    ASSUME NEW D, IsFiniteSet(D), NEW u \in [D -> 0 .. MaxInt]
    PROVE  BulkSquareSum(u) = SquareSum(u)
<1> DEFINE c(k) == [x \in D |-> SquareCoefficient(u[x], k)]
           columns == [k \in Coefficients |->
                         [x \in D |-> SquareCoefficient(u[x], k) * Power[k]]]
           lines == [x \in D |-> [k \in Coefficients |->
                         SquareCoefficient(u[x], k) * Power[k]]]
           squares == [x \in D |-> u[x] * u[x]]
           each == [x \in D |-> Part(lines[x], Coefficients)]
           places == [k \in Coefficients |-> Part(columns[k], D)]
           sums == [k \in Coefficients |->
                      SumOf([x \in D |-> SquareCoefficient(u[x], k)]) * Power[k]]
<1>1. /\ IsFiniteSet(Coefficients) /\ \A k \in Coefficients : Power[k] \in Int
      /\ DOMAIN u = D /\ \A x \in D : u[x] \in 0 .. MaxInt /\ u[x] \in Int
  BY PlacesIs
<1>2. \A x \in D : \A k \in Coefficients : SquareCoefficient(u[x], k) \in Int
  BY <1>1, SquareIs
<1>3. ASSUME NEW k \in Coefficients
      PROVE  /\ Weighs(columns[k], D)
             /\ sums[k] = Part(columns[k], D) /\ sums[k] \in Int
  <2> DEFINE a == [x \in D |-> SquareCoefficient(u[x], k)]
             b == columns[k]
             n == Power[k]
  <2>1. Weighs(a, D) /\ Weighs(b, D) /\ n \in Int /\ \A x \in D : b[x] = a[x] * n
    BY <1>1, <1>2, Products DEF Weighs
  <2>2. sums[k] = SumOf(a) * n
    OBVIOUS
  <2> HIDE DEF a, b, n, sums
  <2>3. Part(b, D) = Part(a, D) * n /\ SumOf(a) = Part(a, D) /\ Part(b, D) \in Int
    BY <2>1, PartScale, SumIsPart, PartType
  <2> QED
    BY <2>1, <2>2, <2>3 DEF b
<1>4. ASSUME NEW x \in D
      PROVE  /\ Weighs(lines[x], Coefficients)
             /\ Part(lines[x], Coefficients) = u[x] * u[x]
  <2>1. Weighs(lines[x], Coefficients)
    BY <1>1, <1>2, Products DEF Weighs
  <2>2. lines[x] = [k \in Coefficients |-> SquareCoefficient(u[x], k) * Power[k]]
    OBVIOUS
  <2>3. Part([k \in Coefficients |-> SquareCoefficient(u[x], k) * Power[k]],
             Coefficients) = u[x] * u[x]
    BY <1>1, SquareIs
  <2> QED
    BY <2>1, <2>2, <2>3, Zenon
<1>5. Part(each, D) = Part(places, Coefficients)
  <2>1. /\ \A x \in D : Weighs(lines[x], Coefficients)
        /\ \A k \in Coefficients : Weighs(columns[k], D)
        /\ \A x \in D, k \in Coefficients : lines[x][k] = columns[k][x]
    BY <1>3, <1>4
  <2>2. /\ each = [x \in D |-> Part(lines[x], Coefficients)]
        /\ places = [k \in Coefficients |-> Part(columns[k], D)]
    OBVIOUS
  <2> HIDE DEF lines, columns, each, places
  <2> QED
    BY <1>1, <2>1, <2>2, PartSwap
<1>6. each = squares
  BY <1>4
<1>7. places = sums
  <2> HIDE DEF columns
  <2>1. \A k \in Coefficients : sums[k] = Part(columns[k], D)
    BY <1>3
  <2> QED
    BY <2>1
<1>8. Weighs(sums, Coefficients) /\ Weighs(squares, D)
  <2>1. \A k \in Coefficients : sums[k] \in Int
    BY <1>3
  <2>2. \A x \in D : squares[x] \in Int
    BY <1>1, Products
  <2> QED
    BY <1>1, <2>1, <2>2 DEF Weighs
<1>9. SumOf(sums) = SumOf(squares)
  <2> HIDE DEF sums, squares, each, places
  <2> QED
    BY <1>5, <1>6, <1>7, <1>8, SumIsPart
<1>10. BulkSquareSum(u) = SumOf(sums)
  BY <1>1, Zenon DEF BulkSquareSum, Coefficients
<1>11. SquareSum(u) = SumOf(squares)
  BY <1>1, Zenon DEF SquareSum
<1> QED
  BY <1>9, <1>10, <1>11, Zenon

(* The largest and the smallest of some numbers.                           *)
LEMMA Extremes ==
    ASSUME NEW S \in SUBSET Nat, IsFiniteSet(S), S # {}
    PROVE  /\ Max(S) \in S /\ \A y \in S : y <= Max(S)
           /\ Min(S) \in S /\ \A y \in S : Min(S) <= y
<1> DEFINE Good == {T \in SUBSET S : T = {} \/
                      ((\E x \in T : \A y \in T : x >= y) /\
                       (\E x \in T : \A y \in T : x <= y))}
<1>1. {} \in Good
  OBVIOUS
<1>2. ASSUME NEW T \in SUBSET S, NEW z \in T, T \ {z} \in Good
      PROVE  T \in Good
  <2>1. CASE T \ {z} = {}
    <3>1. \A y \in T : y = z
      BY <2>1
    <3>2. z \in Nat /\ z >= z /\ z <= z
      OBVIOUS
    <3> QED
      BY <3>1, <3>2
  <2>2. CASE T \ {z} # {}
    <3>1. PICK a \in T \ {z} : \A y \in T \ {z} : a >= y
      BY <1>2, <2>2
    <3>2. PICK b \in T \ {z} : \A y \in T \ {z} : b <= y
      BY <1>2, <2>2
    <3>3. \E x \in T : \A y \in T : x >= y
      <4>1. CASE a >= z
        BY <3>1, <4>1
      <4>2. CASE ~(a >= z)
        BY <3>1, <4>2
      <4> QED
        BY <4>1, <4>2
    <3>4. \E x \in T : \A y \in T : x <= y
      <4>1. CASE b <= z
        BY <3>2, <4>1
      <4>2. CASE ~(b <= z)
        BY <3>2, <4>2
      <4> QED
        BY <4>1, <4>2
    <3> QED
      BY <3>3, <3>4
  <2> QED
    BY <2>1, <2>2
<1>3. Good \in SUBSET SUBSET S
  OBVIOUS
<1>4. S \in Good
  <2> HIDE DEF Good
  <2> QED
    BY <1>1, <1>2, <1>3, SetInduction
<1>5. (\E x \in S : \A y \in S : x >= y) /\ (\E x \in S : \A y \in S : x <= y)
  BY <1>4
<1>6. Max(S) \in S /\ \A y \in S : Max(S) >= y
  BY <1>5 DEF Max
<1>7. Min(S) \in S /\ \A y \in S : Min(S) <= y
  BY <1>5 DEF Min
<1> QED
  BY <1>6, <1>7

(* A sum splits over any set.                                              *)
LEMMA PartSplit ==
    ASSUME NEW S, NEW w, Weighs(w, S)
    PROVE  \A T, R \in SUBSET S : Part(w, T) = Part(w, T \cap R) + Part(w, T \ R)
<1> SUFFICES ASSUME NEW R \in SUBSET S
             PROVE  \A T \in SUBSET S : Part(w, T) = Part(w, T \cap R) + Part(w, T \ R)
  OBVIOUS
<1> DEFINE Good == {T \in SUBSET S : Part(w, T) = Part(w, T \cap R) + Part(w, T \ R)}
<1>1. {} \in Good
  <2>1. {} \cap R = {} /\ {} \ R = {}
    OBVIOUS
  <2> QED
    BY <2>1, PartType
<1>2. ASSUME NEW T \in SUBSET S, NEW x \in T, T \ {x} \in Good
      PROVE  T \in Good
  <2> DEFINE U == T \ {x}
  <2>1. /\ Part(w, T) = w[x] + Part(w, U)
        /\ Part(w, U) = Part(w, U \cap R) + Part(w, U \ R)
    BY <1>2, PartRemove
  <2>2. w[x] \in Int /\ Part(w, U \cap R) \in Int /\ Part(w, U \ R) \in Int
    BY PartType DEF Weighs
  <2>3. CASE x \in R
    <3>1. (T \cap R) \ {x} = U \cap R /\ T \ R = U \ R /\ x \in T \cap R
      BY <2>3
    <3>2. Part(w, T \cap R) = w[x] + Part(w, (T \cap R) \ {x})
      BY <3>1, PartRemove
    <3>3. Part(w, T \cap R) = w[x] + Part(w, U \cap R) /\ Part(w, T \ R) = Part(w, U \ R)
      BY <3>1, <3>2, Zenon
    <3> HIDE DEF U
    <3>4. Part(w, T) = Part(w, T \cap R) + Part(w, T \ R)
      BY <2>1, <2>2, <3>3
    <3> QED
      BY <3>4
  <2>4. CASE x \notin R
    <3>1. (T \ R) \ {x} = U \ R /\ T \cap R = U \cap R /\ x \in T \ R
      BY <2>4
    <3>2. Part(w, T \ R) = w[x] + Part(w, (T \ R) \ {x})
      BY <3>1, PartRemove
    <3>3. Part(w, T \ R) = w[x] + Part(w, U \ R) /\ Part(w, T \cap R) = Part(w, U \cap R)
      BY <3>1, <3>2, Zenon
    <3> HIDE DEF U
    <3>4. Part(w, T) = Part(w, T \cap R) + Part(w, T \ R)
      BY <2>1, <2>2, <3>3
    <3> QED
      BY <3>4
  <2> QED
    BY <2>3, <2>4
<1>3. Good \in SUBSET SUBSET S /\ IsFiniteSet(S)
  BY DEF Weighs
<1>4. \A T \in SUBSET S : T \in Good
  <2> HIDE DEF Good
  <2> QED
    BY <1>1, <1>2, <1>3, SetInduction
<1> QED
  BY <1>4

(* As many elements, none of them heavier, do not add up to more.          *)
LEMMA PartBelow ==
    ASSUME NEW S, NEW w, Weighs(w, S)
    PROVE  \A A, B \in SUBSET S :
              Cardinality(A) = Cardinality(B) /\ (\A a \in A, b \in B : w[a] <= w[b])
                 => Part(w, A) <= Part(w, B)
<1> DEFINE Light(A, B) == /\ Cardinality(A) = Cardinality(B)
                          /\ \A a \in A, b \in B : w[a] <= w[b]
           Good == {A \in SUBSET S : \A B \in SUBSET S :
                       Light(A, B) => Part(w, A) <= Part(w, B)}
<1>1. {} \in Good
  <2>1. ASSUME NEW B \in SUBSET S, Light({}, B) PROVE Part(w, {}) <= Part(w, B)
    <3>1. IsFiniteSet(B) /\ Cardinality(B) = 0
      BY <2>1, FS_Subset, FS_EmptySet DEF Weighs
    <3>2. B = {} /\ Part(w, {}) = 0
      BY <3>1, FS_EmptySet, PartType
    <3> QED
      BY <3>2
  <2> QED
    BY <2>1
<1>2. ASSUME NEW A \in SUBSET S, NEW a \in A, A \ {a} \in Good
      PROVE  A \in Good
  <2>1. ASSUME NEW B \in SUBSET S, Light(A, B) PROVE Part(w, A) <= Part(w, B)
    <3>1. IsFiniteSet(A) /\ IsFiniteSet(B)
      BY FS_Subset DEF Weighs
    <3>2. /\ Cardinality(A) \in Nat /\ Cardinality(A) # 0
          /\ Cardinality(A \ {a}) = Cardinality(A) - 1
      BY <3>1, FS_CardinalityType, FS_EmptySet, FS_RemoveElement
    <3>3. PICK b : b \in B
      BY <2>1, <3>2, FS_EmptySet
    <3>4. Cardinality(B \ {b}) = Cardinality(A) - 1
      BY <2>1, <3>1, <3>3, FS_RemoveElement
    <3>5. Light(A \ {a}, B \ {b})
      BY <2>1, <3>2, <3>4
    <3>6. Part(w, A \ {a}) <= Part(w, B \ {b})
      BY <1>2, <3>5
    <3>7. /\ Part(w, A) = w[a] + Part(w, A \ {a}) /\ Part(w, B) = w[b] + Part(w, B \ {b})
          /\ w[a] \in Int /\ w[b] \in Int
          /\ Part(w, A \ {a}) \in Int /\ Part(w, B \ {b}) \in Int
      BY <3>3, PartRemove, PartType DEF Weighs
    <3>8. w[a] <= w[b]
      BY <2>1, <3>3
    <3> QED
      BY <3>6, <3>7, <3>8
  <2> QED
    BY <2>1
<1>3. Good \in SUBSET SUBSET S /\ IsFiniteSet(S)
  BY DEF Weighs
<1>4. \A A \in SUBSET S : A \in Good
  <2> HIDE DEF Good
  <2> QED
    BY <1>1, <1>2, <1>3, SetInduction
<1> QED
  BY <1>4

(* A part of a set and the rest of it.                                     *)
LEMMA PartWithout ==
    ASSUME NEW S, NEW w, Weighs(w, S), NEW T \in SUBSET S, NEW R \in SUBSET T
    PROVE  Part(w, T) = Part(w, R) + Part(w, T \ R)
<1>1. Part(w, T) = Part(w, T \cap R) + Part(w, T \ R)
  BY PartSplit
<1>2. T \cap R = R
  OBVIOUS
<1> QED
  BY <1>1, <1>2, Zenon

(* Nor do as many of two sets, whatever they share, when none that only    *)
(* the first has is heavier than one that only the other has.              *)
LEMMA PartExchanged ==
    ASSUME NEW S, NEW w, Weighs(w, S), NEW T \in SUBSET S, NEW U \in SUBSET S,
           Cardinality(T) = Cardinality(U),
           \A a \in T \ U, b \in U \ T : w[a] <= w[b]
    PROVE  Part(w, T) <= Part(w, U)
<1> DEFINE A == T \ U
           B == U \ T
           C == T \cap U
<1>1. /\ A \in SUBSET S /\ B \in SUBSET S /\ C \in SUBSET S
      /\ IsFiniteSet(T) /\ IsFiniteSet(U)
  BY FS_Subset DEF Weighs
<1>2. Cardinality(A) = Cardinality(B)
  <2>1. /\ Cardinality(T \ U) = Cardinality(T) - Cardinality(T \cap U)
        /\ Cardinality(U \ T) = Cardinality(U) - Cardinality(U \cap T)
    BY <1>1, FS_Difference
  <2>2. T \cap U = U \cap T
    OBVIOUS
  <2> QED
    BY <2>1, <2>2
<1>3. Part(w, A) <= Part(w, B)
  <2> HIDE DEF A, B
  <2>1. \A a \in A, b \in B : w[a] <= w[b]
    BY DEF A, B
  <2> QED
    BY <1>1, <1>2, <2>1, PartBelow
<1>4. C \in SUBSET T /\ C \in SUBSET U /\ A = T \ C /\ B = U \ C
  OBVIOUS
<1>5. Part(w, T) = Part(w, C) + Part(w, A) /\ Part(w, U) = Part(w, C) + Part(w, B)
  <2> HIDE DEF A, B, C
  <2>1. Part(w, T) = Part(w, C) + Part(w, T \ C) /\ Part(w, U) = Part(w, C) + Part(w, U \ C)
    BY <1>4, PartWithout
  <2> QED
    BY <1>4, <2>1, Zenon
<1> HIDE DEF A, B, C
<1>6. Part(w, A) \in Int /\ Part(w, B) \in Int /\ Part(w, C) \in Int
  BY <1>1, PartType
<1> QED
  BY <1>3, <1>5, <1>6

(* A finite set has subsets of every size up to its own.                   *)
LEMMA SubsetOfSize ==
    ASSUME NEW S, IsFiniteSet(S), NEW n \in Nat, n <= Cardinality(S)
    PROVE  \E T \in SUBSET S : Cardinality(T) = n
<1> DEFINE Good == {T \in SUBSET S : n <= Cardinality(T) =>
                       \E U \in SUBSET T : Cardinality(U) = n}
<1>1. {} \in Good
  BY FS_EmptySet
<1>2. ASSUME NEW T \in SUBSET S, NEW x \in T, T \ {x} \in Good
      PROVE  T \in Good
  <2>1. /\ Cardinality(T) \in Nat
        /\ Cardinality(T \ {x}) = Cardinality(T) - 1
    BY FS_Subset, FS_CardinalityType, FS_RemoveElement
  <2>2. CASE n <= Cardinality(T \ {x})
    BY <1>2, <2>2
  <2>3. CASE ~(n <= Cardinality(T \ {x}))
    <3>1. n <= Cardinality(T) => Cardinality(T) = n
      BY <2>1, <2>3
    <3> QED
      BY <3>1
  <2> QED
    BY <2>2, <2>3
<1>3. Good \in SUBSET SUBSET S
  OBVIOUS
<1>4. S \in Good
  <2> HIDE DEF Good
  <2> QED
    BY <1>1, <1>2, <1>3, SetInduction
<1> QED
  BY <1>4

(* The store holds reports that were filed.                                *)
BooksType ==
    /\ books = [c \in Ciks |-> books[c]]
    /\ \A c \in Ciks : books[c] = [q \in Quarters |-> books[c][q]]
    /\ \A c \in Ciks, q \in Quarters :
          books[c][q] # None => books[c][q] \in Offers[c][q]

(* No two filers succeed one: the staged comparison would raise.           *)
OneSuccessor ==
    \A c, d \in Ciks : Predecessors[c] \cap Predecessors[d] # {} => c = d

(* The quarters of a filer are finitely many naturals.                     *)
LEMMA FiledIs ==
    \A c : /\ Filed(c) \in SUBSET Nat /\ Filed(c) \in SUBSET Quarters
           /\ IsFiniteSet(Filed(c)) /\ \A T \in SUBSET Filed(c) : IsFiniteSet(T)
<1> SUFFICES ASSUME NEW c
             PROVE  /\ Filed(c) \in SUBSET Nat /\ Filed(c) \in SUBSET Quarters
                    /\ IsFiniteSet(Filed(c))
                    /\ \A T \in SUBSET Filed(c) : IsFiniteSet(T)
  OBVIOUS
<1>1. Filed(c) \in SUBSET Quarters /\ Quarters \subseteq Nat /\ IsFiniteSet(Quarters)
  BY InstAggregatesAssumption DEF Filed
<1> QED
  BY <1>1, FS_Subset

(* What a filer follows: its filing before, or its predecessor's last.     *)
Earlier(c, q) == {p \in Filed(c) : p < q}

(* The filing before one is the latest of the earlier ones.                *)
LEMMA EarlierIs ==
    ASSUME NEW c, NEW q \in Filed(c), Earlier(c, q) # {}
    PROVE  /\ Max(Earlier(c, q)) \in Filed(c) /\ Max(Earlier(c, q)) < q
           /\ \A p \in Filed(c) : p < q => p <= Max(Earlier(c, q))
<1>1. Earlier(c, q) \in SUBSET Filed(c) /\ Earlier(c, q) \in SUBSET Nat
      /\ IsFiniteSet(Earlier(c, q))
  BY FiledIs DEF Earlier
<1>2. /\ Max(Earlier(c, q)) \in Earlier(c, q)
      /\ \A y \in Earlier(c, q) : y <= Max(Earlier(c, q))
  BY <1>1, Extremes
<1> QED
  BY <1>2 DEF Earlier

(* The predecessor of a filer is one that the seed names and that filed    *)
(* before it.                                                              *)
LEMMA PredecessorIs ==
    ASSUME NEW c \in Ciks, Bridgeable(c) # {}
    PROVE  /\ Predecessor(c) \in Predecessors[c] /\ Predecessor(c) \in Ciks
           /\ Filed(c) # {} /\ Filed(Predecessor(c)) # {}
           /\ Max(Filed(Predecessor(c))) < Min(Filed(c))
<1> DEFINE lasts == {Max(Filed(p)) : p \in Bridgeable(c)}
           late == {p \in Bridgeable(c) : Max(Filed(p)) = Max(lasts)}
<1>1. Predecessors[c] \in SUBSET Ciks /\ Ciks \subseteq Nat
  BY InstAggregatesAssumption
<1>2. Bridgeable(c) \in SUBSET Predecessors[c]
  BY DEF Bridgeable
<1>3. \A p \in Bridgeable(c) : Max(Filed(p)) \in Filed(p) /\ Filed(p) \in SUBSET Quarters
  BY FiledIs, Extremes DEF Bridgeable
<1>4. lasts \in SUBSET Quarters /\ lasts # {}
  BY <1>3
<1>5. lasts \in SUBSET Nat /\ IsFiniteSet(lasts)
  BY <1>4, InstAggregatesAssumption, FS_Subset
<1>6. Max(lasts) \in lasts
  <2> HIDE DEF lasts
  <2> QED
    BY <1>4, <1>5, Extremes
<1>7. late # {} /\ late \in SUBSET Nat /\ late \in SUBSET Bridgeable(c)
  BY <1>1, <1>2, <1>6
<1>8. Min(late) \in late
  <2>1. PICK p \in late : TRUE
    BY <1>7
  <2> DEFINE Odd == late
  <2>2. PICK k \in Odd : \A m \in Odd : ~(<<m, k>> \in OpToRel(<, Nat))
    <3>1. Odd \subseteq Nat /\ Odd # {}
      BY <1>7
    <3> HIDE DEF Odd
    <3> QED
      BY <3>1, NatLessThanWellFounded, WFMin
  <2>3. \A m \in late : ~(m < k)
    <3>1. \A m \in late : <<m, k>> \in OpToRel(<, Nat) <=> m < k
      <4> SUFFICES ASSUME NEW m \in late
                   PROVE  <<m, k>> \in OpToRel(<, Nat) <=> m < k
        OBVIOUS
      <4>1. m \in Nat /\ k \in Nat
        BY <1>7
      <4> HIDE DEF late
      <4> QED
        BY <4>1, Zenon DEF OpToRel
    <3> HIDE DEF late
    <3> QED
      BY <2>2, <3>1, Zenon
  <2>4. k \in late /\ \A m \in late : k <= m
    <3>1. k \in late /\ k \in Nat /\ \A m \in late : m \in Nat
      BY <1>7
    <3> HIDE DEF late, Odd
    <3>2. \A m \in late : k <= m
      BY <2>3, <3>1
    <3> QED
      BY <3>1, <3>2
  <2> HIDE DEF late
  <2> QED
    BY <2>4 DEF Min
<1>9. Predecessor(c) = Min(late)
  BY Zenon DEF Predecessor
<1>10. Predecessor(c) \in Bridgeable(c)
  BY <1>8, <1>9
<1> QED
  BY <1>1, <1>2, <1>10 DEF Bridgeable

(* A comparison is one filer's and starts from one book: pairs are told    *)
(* apart by either side.                                                   *)
Follows(p) ==
    /\ p = Pair(p.cik, p.cik, p.prev, p.curr)
    /\ p.curr \in Filed(p.cik) /\ Earlier(p.cik, p.curr) # {}
    /\ p.prev = Max(Earlier(p.cik, p.curr))

Succeeds(p) ==
    /\ p = Pair(p.cik, Predecessor(p.cik), p.prev, p.curr)
    /\ Bridgeable(p.cik) # {}
    /\ p.prev = Max(Filed(p.from)) /\ p.curr = Min(Filed(p.cik))

(* A comparison is of two filed books: of one filer, or of a successor     *)
(* with its predecessor.                                                   *)
LEMMA PairIs ==
    ASSUME NEW p \in Pairs
    PROVE  /\ p.cik \in Ciks /\ p.from \in Ciks
           /\ p.prev \in Quarters /\ p.curr \in Quarters
           /\ p.prev \in Filed(p.from) /\ p.curr \in Filed(p.cik)
           /\ Follows(p) \/ Succeeds(p)
<1>1. CASE \E c \in Ciks : \E q \in Filed(c) :
              /\ \E r \in Filed(c) : r < q
              /\ p = Pair(c, c, Max({r \in Filed(c) : r < q}), q)
  <2>0. PICK c \in Ciks : \E q \in Filed(c) :
              /\ \E r \in Filed(c) : r < q
              /\ p = Pair(c, c, Max({r \in Filed(c) : r < q}), q)
    BY <1>1
  <2>1. PICK q \in Filed(c) :
              /\ \E r \in Filed(c) : r < q
              /\ p = Pair(c, c, Max({r \in Filed(c) : r < q}), q)
    BY <2>0
  <2>2. Earlier(c, q) # {} /\ p = Pair(c, c, Max(Earlier(c, q)), q)
    BY <2>1 DEF Earlier
  <2>3. p.cik = c /\ p.from = c /\ p.prev = Max(Earlier(c, q)) /\ p.curr = q
    BY <2>2 DEF Pair
  <2>4. Follows(p)
    BY <2>2, <2>3 DEF Follows
  <2>5. p.prev \in Filed(c) /\ Filed(c) \in SUBSET Quarters
    BY <2>2, <2>3, EarlierIs, FiledIs
  <2> QED
    BY <2>3, <2>4, <2>5
<1>2. CASE \E c \in Ciks :
              /\ Bridgeable(c) # {}
              /\ p = Pair(c, Predecessor(c), Max(Filed(Predecessor(c))),
                          Min(Filed(c)))
  <2>1. PICK c \in Ciks :
              /\ Bridgeable(c) # {}
              /\ p = Pair(c, Predecessor(c), Max(Filed(Predecessor(c))),
                          Min(Filed(c)))
    BY <1>2
  <2>2. /\ p.cik = c /\ p.from = Predecessor(c)
        /\ p.prev = Max(Filed(Predecessor(c))) /\ p.curr = Min(Filed(c))
    BY <2>1 DEF Pair
  <2>3. Succeeds(p)
    BY <2>1, <2>2 DEF Succeeds
  <2>4. Filed(c) # {} /\ Filed(Predecessor(c)) # {} /\ Predecessor(c) \in Ciks
    BY <2>1, PredecessorIs
  <2>5. /\ Max(Filed(Predecessor(c))) \in Filed(Predecessor(c))
        /\ Min(Filed(c)) \in Filed(c)
        /\ Filed(c) \in SUBSET Quarters
        /\ Filed(Predecessor(c)) \in SUBSET Quarters
    BY <2>4, Extremes, FiledIs
  <2> QED
    BY <2>2, <2>3, <2>4, <2>5
<1> DEFINE Own(c) == {Pair(c, c, Max({r \in Filed(c) : r < q}), q) :
                         q \in {q \in Filed(c) : \E r \in Filed(c) : r < q}}
           Inherited == {Pair(c, Predecessor(c), Max(Filed(Predecessor(c))),
                             Min(Filed(c))) :
                            c \in {c \in Ciks : Bridgeable(c) # {}}}
<1>3. Pairs = (UNION {Own(c) : c \in Ciks}) \cup Inherited
  BY Zenon DEF Pairs
<1>4. (\E c \in Ciks : p \in Own(c)) \/ p \in Inherited
  <2>1. p \in (UNION {Own(c) : c \in Ciks}) \cup Inherited
    BY <1>3, Zenon
  <2> HIDE DEF Own, Inherited
  <2> QED
    BY <2>1
<1>5. ASSUME NEW c \in Ciks, p \in Own(c)
      PROVE  \E q \in Filed(c) :
                /\ \E r \in Filed(c) : r < q
                /\ p = Pair(c, c, Max({r \in Filed(c) : r < q}), q)
  BY <1>5
<1> QED
  BY <1>1, <1>2, <1>4, <1>5

(* A comparison is told by its later side, and by its earlier one where no *)
(* two filers succeed one.                                                 *)
LEMMA PairsApart ==
    ASSUME NEW p \in Pairs, NEW r \in Pairs
    PROVE  /\ p.cik = r.cik /\ p.curr = r.curr => p = r
           /\ OneSuccessor /\ p.from = r.from /\ p.prev = r.prev => p = r
<1> DEFINE Found(x) == /\ x.cik \in Ciks /\ x.from \in Ciks
                       /\ x.prev \in Filed(x.from) /\ x.curr \in Filed(x.cik)
<1>1. Found(p) /\ Found(r) /\ (Follows(p) \/ Succeeds(p))
      /\ (Follows(r) \/ Succeeds(r))
  BY PairIs
<1>2. ASSUME NEW x \in Pairs, Follows(x)
      PROVE  /\ x.from = x.cik /\ x.prev < x.curr /\ x.prev \in Filed(x.cik)
             /\ \A y \in Filed(x.cik) : y < x.curr => y <= x.prev
  <2>1. x.from = x.cik
    BY <1>2 DEF Follows, Pair
  <2> QED
    BY <1>2, <2>1, EarlierIs DEF Follows
<1>3. ASSUME NEW x \in Pairs, Succeeds(x)
      PROVE  /\ x.from = Predecessor(x.cik) /\ x.from \in Predecessors[x.cik]
             /\ x.cik \in Ciks
             /\ \A y \in Filed(x.from) : y <= x.prev
             /\ \A y \in Filed(x.cik) : x.curr <= y
  <2>1. x.from = Predecessor(x.cik) /\ Bridgeable(x.cik) # {} /\ x.cik \in Ciks
    BY <1>3, PairIs DEF Succeeds, Pair
  <2>2. x.from \in Predecessors[x.cik] /\ Filed(x.cik) # {} /\ Filed(x.from) # {}
    BY <2>1, PredecessorIs
  <2>3. /\ \A y \in Filed(x.from) : y <= Max(Filed(x.from))
        /\ \A y \in Filed(x.cik) : Min(Filed(x.cik)) <= y
    BY <2>2, Extremes, FiledIs
  <2> QED
    BY <1>3, <2>1, <2>2, <2>3 DEF Succeeds
<1>4. \A c : \A y \in Filed(c) : y \in Nat
  BY FiledIs
<1>5. ASSUME NEW x \in Pairs, NEW y \in Pairs, Follows(x), Succeeds(y),
             Found(x), Found(y)
      PROVE  /\ ~(x.cik = y.cik /\ x.curr = y.curr)
             /\ ~(x.from = y.from /\ x.prev = y.prev)
  <2>1. ~(x.cik = y.cik /\ x.curr = y.curr)
    BY <1>2, <1>3, <1>4, <1>5
  <2>2. ~(x.from = y.from /\ x.prev = y.prev)
    BY <1>2, <1>3, <1>4, <1>5
  <2> QED
    BY <2>1, <2>2
<1>6. CASE Follows(p) /\ Follows(r)
  <2>1. p.cik = r.cik /\ p.curr = r.curr => p = r
    BY <1>6 DEF Follows
  <2>2. ASSUME p.from = r.from, p.prev = r.prev PROVE p = r
    <3>1. p.cik = r.cik
      BY <1>2, <1>6, <2>2
    <3>2. p.curr = r.curr
      <4>1. /\ p.prev \in Nat /\ p.curr \in Nat /\ r.curr \in Nat
            /\ p.curr \in Filed(p.cik) /\ r.curr \in Filed(p.cik)
        BY <1>1, <1>4, <3>1
      <4>2. /\ p.prev < p.curr /\ p.prev < r.curr
            /\ p.curr < r.curr => p.curr <= p.prev
            /\ r.curr < p.curr => r.curr <= p.prev
        BY <1>2, <1>6, <2>2, <3>1, <4>1
      <4> QED
        BY <4>1, <4>2
    <3> QED
      BY <2>1, <3>1, <3>2
  <2> QED
    BY <2>1, <2>2
<1>7. CASE Succeeds(p) /\ Succeeds(r)
  <2>1. p.cik = r.cik => p = r
    <3> SUFFICES ASSUME p.cik = r.cik PROVE p = r
      OBVIOUS
    <3>1. p.from = r.from
      BY <1>3, <1>7
    <3>2. p.prev = r.prev /\ p.curr = r.curr
      BY <1>7, <3>1 DEF Succeeds
    <3> QED
      BY <1>7, <3>2 DEF Succeeds
  <2>2. ASSUME OneSuccessor, p.from = r.from PROVE p.cik = r.cik
    <3>1. /\ p.from \in Predecessors[p.cik] /\ p.from \in Predecessors[r.cik]
          /\ p.cik \in Ciks /\ r.cik \in Ciks
      BY <1>3, <1>7, <2>2
    <3> QED
      BY <2>2, <3>1 DEF OneSuccessor
  <2> QED
    BY <2>1, <2>2
<1>8. CASE Follows(p) /\ Succeeds(r)
  BY <1>1, <1>5, <1>8
<1>9. CASE Succeeds(p) /\ Follows(r)
  <2>1. /\ ~(r.cik = p.cik /\ r.curr = p.curr)
        /\ ~(r.from = p.from /\ r.prev = p.prev)
    BY <1>1, <1>5, <1>9
  <2> QED
    BY <2>1
<1> QED
  BY <1>1, <1>6, <1>7, <1>8, <1>9

(***************************************************************************)
(* Books and their positions.                                              *)
(***************************************************************************)
Proper(book) == IsFiniteSet(book) /\ book \subseteq Row

(* A book is a finite set of rows that was offered, or empty.              *)
LEMMA BookIs ==
    ASSUME BooksType, NEW c \in Ciks, NEW q \in Quarters
    PROVE  /\ Proper(Book(c, q)) /\ Book(c, q) \in Offers[c][q] \cup {{}}
<1>1. CASE books[c][q] = None
  <2>1. Book(c, q) = {} /\ IsFiniteSet({})
    BY <1>1, FS_EmptySet DEF Book
  <2> QED
    BY <2>1 DEF Proper
<1>2. CASE books[c][q] # None
  <2>1. Book(c, q) \in Offers[c][q]
    BY <1>2 DEF Book, BooksType
  <2>2. Book(c, q) \subseteq Row /\ IsFiniteSet(Book(c, q))
    BY <2>1, InstAggregatesAssumption
  <2> QED
    BY <2>1, <2>2 DEF Proper
<1> QED
  BY <1>1, <1>2

(* So is the empty book.                                                   *)
LEMMA EmptyIsProper == Proper({})
BY FS_EmptySet DEF Proper

(* The image of a finite set, and its size under a one-to-one function.    *)
LEMMA ImageIs ==
    ASSUME NEW S, IsFiniteSet(S), NEW T, NEW f, f = [x \in S |-> f[x]],
           T = {f[x] : x \in S}
    PROVE  /\ IsFiniteSet(T) /\ Cardinality(T) \in Nat
           /\ (\A x, y \in S : f[x] = f[y] => x = y) =>
                 Cardinality(T) = Cardinality(S)
<1>1. f \in Surjection(S, T)
  BY DEF Surjection
<1>2. /\ IsFiniteSet(T) /\ Cardinality(T) \in Nat
      /\ Cardinality(T) = Cardinality(S) <=> f \in Injection(S, T)
  BY <1>1, FS_Surjection, FS_CardinalityType
<1>3. ASSUME \A x, y \in S : f[x] = f[y] => x = y PROVE f \in Injection(S, T)
  BY <1>1, <1>3 DEF Injection, Surjection, IsInjective
<1> QED
  BY <1>2, <1>3

(* A row that has a key has a grain.                                       *)
LEMMA GrainIs ==
    ASSUME NEW r \in Row, PositionKey(r) # None
    PROVE  Grain(r) \in Grains
<1>1. PositionKey(r) \in Keys
  BY DEF PositionKey, Keys, Row
<1>2. r.option \in {"LONG", "PUT", "CALL"}
  BY DEF Row
<1>3. UnitKey(r) \in {"SH", "PRN", "UNKNOWN"}
  BY DEF UnitKey, Row
<1> QED
  BY <1>1, <1>2, <1>3 DEF Grain, Grains

(* Sums of what is disclosed.                                              *)
LEMMA DisclosedIs ==
    ASSUME NEW S, IsFiniteSet(S), NEW w, w \in [S -> Int \cup {None}]
    PROVE  /\ Disclosed(w) \in SUBSET S
           /\ KnownSum(w) = Part(w, Disclosed(w)) /\ KnownSum(w) \in Int
           /\ WholeSum(w) \in Int \cup {None}
<1> DEFINE D == Disclosed(w)
           v == [x \in D |-> w[x]]
<1>1. D \in SUBSET S /\ \A x \in D : w[x] \in Int
  BY DEF Disclosed
<1>2. Weighs(v, D)
  BY <1>1, FS_Subset DEF Weighs
<1>3. KnownSum(w) = Part(w, D) /\ KnownSum(w) = SumOf(v)
  BY Zenon DEF KnownSum, Part
<1>4. SumOf(v) \in Int
  <2> HIDE DEF v, D
  <2> QED
    BY <1>2, SumIsPart, PartType
<1>5. WholeSum(w) \in Int \cup {None}
  <2>1. CASE D = DOMAIN w
    <3>1. v = w
      BY <2>1
    <3>2. WholeSum(w) = SumOf(v)
      BY <2>1, <3>1, Zenon DEF WholeSum
    <3> QED
      BY <1>4, <3>2
  <2>2. CASE D # DOMAIN w
    BY <2>2 DEF WholeSum
  <2> QED
    BY <2>1, <2>2
<1> QED
  BY <1>1, <1>3, <1>4, <1>5

(* The rows of a grain make a position.                                    *)
LEMMA PositionIs ==
    ASSUME NEW rows, Proper(rows)
    PROVE  Finalize(rows) \in Position /\ Finalize(rows) # None
<1>1. /\ [r \in rows |-> r.value] \in [rows -> Int \cup {None}]
      /\ [r \in rows |-> r.shares] \in [rows -> Int \cup {None}]
      /\ IsFiniteSet(rows)
  <2>1. \A r \in rows : r.value \in Int \cup {None} /\ r.shares \in Int \cup {None}
    <3> SUFFICES ASSUME NEW r \in rows
                 PROVE  r.value \in Int \cup {None} /\ r.shares \in Int \cup {None}
      OBVIOUS
    <3>1. r \in Row
      BY DEF Proper
    <3>2. r.value \in Int \cup {None} /\ r.shares \in (-MaxInt .. MaxInt) \cup {None}
      BY <3>1 DEF Row
    <3> QED
      BY <3>2, Sized
  <2> QED
    BY <2>1 DEF Proper
<1>2. /\ WholeSum([r \in rows |-> r.value]) \in Int \cup {None}
      /\ WholeSum([r \in rows |-> r.shares]) \in Int \cup {None}
  BY <1>1, DisclosedIs
<1>3. CleanUnit(rows) \in {"SH", "PRN", None}
  <2> DEFINE units == {r.unit : r \in rows}
  <2>1. units \subseteq {"SH", "PRN", None}
    BY DEF Proper, Row
  <2>2. Cardinality(units) = 1 => units # {}
    BY FS_EmptySet
  <2> HIDE DEF units
  <2>3. (CHOOSE u \in units : TRUE) \in units \/ units = {}
    OBVIOUS
  <2> QED
    BY <2>1, <2>2, <2>3 DEF CleanUnit, units
<1>4. SingleCusip(rows) \in Nat \cup {None}
  <2> DEFINE cusips == {r.cusip : r \in rows} \ {None}
  <2>1. cusips \subseteq Nat
    BY DEF Proper, Row
  <2>2. Cardinality(cusips) = 1 => cusips # {}
    BY FS_EmptySet
  <2> HIDE DEF cusips
  <2>3. (CHOOSE u \in cusips : TRUE) \in cusips \/ cusips = {}
    OBVIOUS
  <2> QED
    BY <2>1, <2>2, <2>3 DEF SingleCusip, cusips
<1>5. Finalize(rows) \in Position
  BY <1>2, <1>3, <1>4 DEF Finalize, Position
<1> QED
  BY <1>5, SentinelAssumption

(* The rows of a grain are a book of their own.                            *)
LEMMA RowsAre ==
    ASSUME NEW book, Proper(book), NEW g
    PROVE  Proper(RowsOf(book, g)) /\ RowsOf(book, g) \subseteq book
<1>1. RowsOf(book, g) \subseteq book
  BY DEF RowsOf, Keyed
<1>2. IsFiniteSet(RowsOf(book, g))
  BY <1>1, FS_Subset DEF Proper
<1> QED
  BY <1>1, <1>2 DEF Proper

(* The positions of a book are finitely many, one for each grain of its    *)
(* rows.                                                                   *)
LEMMA PositionsAre ==
    ASSUME NEW book, Proper(book)
    PROVE  /\ DOMAIN Positions(book) = {Grain(r) : r \in Keyed(book)}
           /\ IsFiniteSet(DOMAIN Positions(book))
           /\ DOMAIN Positions(book) \subseteq Grains
           /\ \A g \in DOMAIN Positions(book) :
                 /\ Positions(book)[g] = Finalize(RowsOf(book, g))
                 /\ Positions(book)[g] \in Position /\ Positions(book)[g] # None
<1>1. DOMAIN Positions(book) = {Grain(r) : r \in Keyed(book)}
  BY DEF Positions
<1>2. Keyed(book) \subseteq book /\ IsFiniteSet(Keyed(book))
  <2>1. Keyed(book) \subseteq book
    BY DEF Keyed
  <2> QED
    BY <2>1, FS_Subset DEF Proper
<1>3. IsFiniteSet({Grain(r) : r \in Keyed(book)})
  <2> DEFINE f == [r \in Keyed(book) |-> Grain(r)]
             T == {f[r] : r \in Keyed(book)}
  <2>1. f = [r \in Keyed(book) |-> f[r]] /\ T = {Grain(r) : r \in Keyed(book)}
    OBVIOUS
  <2> HIDE DEF f
  <2>2. IsFiniteSet(T)
    BY <1>2, <2>1, ImageIs
  <2> QED
    BY <2>1, <2>2
<1>4. {Grain(r) : r \in Keyed(book)} \subseteq Grains
  <2> SUFFICES ASSUME NEW r \in Keyed(book) PROVE Grain(r) \in Grains
    OBVIOUS
  <2>1. r \in Row /\ PositionKey(r) # None
    BY <1>2 DEF Keyed, Proper
  <2> QED
    BY <2>1, GrainIs
<1>5. ASSUME NEW g \in DOMAIN Positions(book)
      PROVE  /\ Positions(book)[g] = Finalize(RowsOf(book, g))
             /\ Positions(book)[g] \in Position /\ Positions(book)[g] # None
  <2>1. Positions(book)[g] = Finalize(RowsOf(book, g))
    BY <1>1 DEF Positions
  <2> QED
    BY <2>1, RowsAre, PositionIs
<1> QED
  BY <1>1, <1>3, <1>4, <1>5

(***************************************************************************)
(* A comparison of two books matches each position at most once.           *)
(***************************************************************************)
Joined(m) == m.matched \cup m.bridged

(* The matches of two books are one to one, and what they leave are the    *)
(* exits and the new positions.                                            *)
LEMMA MatchingIs ==
    ASSUME NEW prev, NEW curr, NEW m, m = MatchPeriods(prev, curr)
    PROVE  /\ Joined(m) \subseteq (DOMAIN prev) \X (DOMAIN curr)
           /\ \A x, y \in Joined(m) : x[1] = y[1] \/ x[2] = y[2] => x = y
           /\ m.matched \cap m.bridged = {}
           /\ m.exits = (DOMAIN prev) \ {x[1] : x \in Joined(m)}
           /\ m.news = (DOMAIN curr) \ {x[2] : x \in Joined(m)}
<1> DEFINE same == DOMAIN prev \cap DOMAIN curr
           P == (DOMAIN prev) \ same
           C == (DOMAIN curr) \ same
           turned == {x \in P \X C : /\ Identity(x[1]) = Identity(x[2])
                                     /\ Alone(P, Identity, x[1])
                                     /\ Alone(C, Identity, x[2])}
           P2 == P \ {x[1] : x \in turned}
           C2 == C \ {x[2] : x \in turned}
           bridged == MatchCusip(prev, curr, P2, C2)
           exact == {<<g, g>> : g \in same}
<1>1. /\ m.matched = exact \cup turned /\ m.bridged = bridged
      /\ m.exits = P2 \ {x[1] : x \in bridged}
      /\ m.news = C2 \ {x[2] : x \in bridged}
  BY Zenon DEF MatchPeriods
<1>2. turned \subseteq P \X C
      /\ \A x, y \in turned : x[1] = y[1] \/ x[2] = y[2] => x = y
  BY DEF Alone
<1>3. bridged \subseteq P2 \X C2
      /\ \A x, y \in bridged : x[1] = y[1] \/ x[2] = y[2] => x = y
  BY DEF MatchCusip, SharesCusip, Alone
<1>4. /\ exact \subseteq same \X same
      /\ \A x, y \in exact : x[1] = y[1] \/ x[2] = y[2] => x = y
  OBVIOUS
<1> HIDE DEF turned, bridged
<1>5. Joined(m) = (exact \cup turned) \cup bridged
  BY <1>1 DEF Joined
<1>6. {x[1] : x \in exact} = same /\ {x[2] : x \in exact} = same
  <2>1. \A g \in same : <<g, g>> \in exact /\ <<g, g>>[1] = g /\ <<g, g>>[2] = g
    OBVIOUS
  <2>2. \A x \in exact : x[1] \in same /\ x[2] \in same
    OBVIOUS
  <2> HIDE DEF exact, same
  <2> QED
    BY <2>1, <2>2
<1> HIDE DEF exact
<1>7. Joined(m) \subseteq (DOMAIN prev) \X (DOMAIN curr)
  <2> DEFINE A == DOMAIN prev
             B == DOMAIN curr
  <2>1. /\ same \in SUBSET A /\ P \in SUBSET A /\ P2 \in SUBSET A
        /\ same \in SUBSET B /\ C \in SUBSET B /\ C2 \in SUBSET B
    OBVIOUS
  <2> HIDE DEF A, B, same, P, C, P2, C2
  <2>2. same \X same \subseteq A \X B /\ P \X C \subseteq A \X B
        /\ P2 \X C2 \subseteq A \X B
    BY <2>1
  <2>3. Joined(m) \subseteq A \X B
    BY <1>2, <1>3, <1>4, <1>5, <2>2
  <2> QED
    BY <2>3 DEF A, B
<1>8. \A x, y \in Joined(m) : x[1] = y[1] \/ x[2] = y[2] => x = y
  BY <1>2, <1>3, <1>4, <1>5
<1>9. m.matched \cap m.bridged = {}
  BY <1>1, <1>2, <1>3, <1>4
<1>10. m.exits = (DOMAIN prev) \ {x[1] : x \in Joined(m)}
  BY <1>1, <1>5, <1>6
<1>11. m.news = (DOMAIN curr) \ {x[2] : x \in Joined(m)}
  BY <1>1, <1>5, <1>6
<1> QED
  BY <1>7, <1>8, <1>9, <1>10, <1>11

(***************************************************************************)
(* The stages of the bulk path hold what the oracle compares.              *)
(***************************************************************************)
PrevBook(p) == IF Adjacent(p) THEN Book(p.from, p.prev) ELSE {}
CurrBook(p) == Book(p.cik, p.curr)
Prev(p) == Positions(PrevBook(p))
Curr(p) == Positions(CurrBook(p))
PrevId(p, g) == <<p.from, p.prev, g>>
CurrId(p, g) == <<p.cik, p.curr, g>>

(* The two sides of a comparison are books.                                *)
LEMMA PairBooks ==
    ASSUME BooksType, NEW p \in Pairs
    PROVE  Proper(PrevBook(p)) /\ Proper(CurrBook(p))
BY PairIs, BookIs, EmptyIsProper DEF PrevBook, CurrBook

(* The staged positions of a book are those of the oracle.                 *)
LEMMA IdsAre ==
    ASSUME BooksType, NEW c \in Ciks, NEW q \in Quarters
    PROVE  /\ Ids(c, q) = {<<c, q, g>> : g \in DOMAIN Positions(Book(c, q))}
           /\ Ids(c, q) \subseteq AllIds
           /\ None \notin Ids(c, q)
<1>1. DOMAIN Positions(Book(c, q)) = {Grain(r) : r \in Keyed(Book(c, q))}
      /\ DOMAIN Positions(Book(c, q)) \subseteq Grains
  BY BookIs, PositionsAre
<1>2. Ids(c, q) = {<<c, q, g>> : g \in {Grain(r) : r \in Keyed(Book(c, q))}}
  BY DEF Ids
<1>3. Ids(c, q) \subseteq AllIds
  BY DEF AllIds
<1>4. \A id \in Ids(c, q) : id \in Ciks \X Quarters \X Grains
  BY <1>1, <1>2
<1>5. None \notin Ciks \X Quarters \X Grains
  BY SentinelAssumption
<1> QED
  BY <1>1, <1>2, <1>3, <1>4, <1>5

(* So are those of either side of a comparison.                            *)
LEMMA SidesAre ==
    ASSUME BooksType, NEW p \in Pairs
    PROVE  /\ PrevSide(p) = {PrevId(p, g) : g \in DOMAIN Prev(p)}
           /\ CurrSide(p) = {CurrId(p, g) : g \in DOMAIN Curr(p)}
           /\ HasBook(p) <=> DOMAIN Prev(p) # {}
           /\ PrevSide(p) \subseteq AllIds /\ CurrSide(p) \subseteq AllIds
           /\ None \notin PrevSide(p) /\ None \notin CurrSide(p)
<1>1. /\ p.cik \in Ciks /\ p.from \in Ciks
      /\ p.prev \in Quarters /\ p.curr \in Quarters
  BY PairIs
<1>2. /\ CurrSide(p) = {CurrId(p, g) : g \in DOMAIN Curr(p)}
      /\ CurrSide(p) \subseteq AllIds /\ None \notin CurrSide(p)
  BY <1>1, IdsAre DEF CurrSide, CurrId, Curr, CurrBook
<1>3. CASE ~Adjacent(p)
  <2>1. DOMAIN Prev(p) = {}
    <3>1. DOMAIN Prev(p) = {Grain(r) : r \in Keyed({})}
      BY <1>3, EmptyIsProper, PositionsAre DEF Prev, PrevBook
    <3>2. Keyed({}) = {}
      BY DEF Keyed
    <3> QED
      BY <3>1, <3>2
  <2>2. ~HasBook(p) /\ PrevSide(p) = {}
    BY <1>3 DEF HasBook, PrevSide
  <2> QED
    BY <1>2, <2>1, <2>2
<1>4. CASE Adjacent(p)
  <2> DEFINE D == DOMAIN Prev(p)
  <2>1. /\ Ids(p.from, p.prev) = {PrevId(p, g) : g \in D}
        /\ Ids(p.from, p.prev) \subseteq AllIds /\ None \notin Ids(p.from, p.prev)
    BY <1>1, <1>4, IdsAre DEF PrevId, Prev, PrevBook
  <2>2. HasBook(p) <=> Ids(p.from, p.prev) # {}
    BY <1>4 DEF HasBook
  <2>3. Ids(p.from, p.prev) # {} <=> D # {}
    <3> HIDE DEF D
    <3> QED
      BY <2>1
  <2>4. PrevSide(p) = {PrevId(p, g) : g \in D}
    <3> HIDE DEF D
    <3>1. CASE D = {}
      BY <2>2, <2>3, <3>1 DEF PrevSide
    <3>2. CASE D # {}
      BY <2>1, <2>2, <2>3, <3>2 DEF PrevSide
    <3> QED
      BY <3>1, <3>2
  <2>5. PrevSide(p) \subseteq Ids(p.from, p.prev)
    BY DEF PrevSide
  <2> QED
    BY <1>2, <2>1, <2>2, <2>3, <2>4, <2>5
<1> QED
  BY <1>3, <1>4

(* A match for every couple of positions that X gives for a pair.          *)
Placed(p, Y, reconciled) ==
    {Match(p, PrevId(p, y[1]), CurrId(p, y[2]), reconciled) : y \in Y}

Spread(X, reconciled) == UNION {Placed(p, X[p], reconciled) : p \in Pairs}

Within(X) == \A p \in Pairs : X[p] \subseteq (DOMAIN Prev(p)) \X (DOMAIN Curr(p))

(* The matches that are spread are those of some pair.                     *)
LEMMA SpreadHas ==
    ASSUME NEW X, NEW reconciled, NEW m
    PROVE  m \in Spread(X, reconciled) <=> \E p \in Pairs : \E x \in X[p] :
              m = Match(p, PrevId(p, x[1]), CurrId(p, x[2]), reconciled)
<1>1. \A p : m \in Placed(p, X[p], reconciled) <=> \E x \in X[p] :
              m = Match(p, PrevId(p, x[1]), CurrId(p, x[2]), reconciled)
  BY DEF Placed
<1>2. m \in Spread(X, reconciled) <=>
         \E p \in Pairs : m \in Placed(p, X[p], reconciled)
  BY DEF Spread
<1> QED
  BY <1>1, <1>2

(* What they leave of the sides of a pair.                                 *)
LEMMA SpreadIs ==
    ASSUME BooksType, OneSuccessor, NEW X, Within(X), NEW reconciled,
           NEW p \in Pairs
    PROVE  /\ PrevSide(p) \ PrevOf(Spread(X, reconciled)) =
                 {PrevId(p, g) : g \in (DOMAIN Prev(p)) \ {x[1] : x \in X[p]}}
           /\ CurrSide(p) \ CurrOf(Spread(X, reconciled)) =
                 {CurrId(p, g) : g \in (DOMAIN Curr(p)) \ {x[2] : x \in X[p]}}
<1> DEFINE M == Spread(X, reconciled)
           A == {x[1] : x \in X[p]}
           B == {x[2] : x \in X[p]}
<1>1. ASSUME NEW id
      PROVE  /\ id \in PrevOf(M) <=>
                   \E r \in Pairs : \E x \in X[r] : id = PrevId(r, x[1])
             /\ id \in CurrOf(M) <=>
                   \E r \in Pairs : \E x \in X[r] : id = CurrId(r, x[2])
  <2>1. ASSUME NEW m
        PROVE  m \in M <=> \E r \in Pairs : \E x \in X[r] :
                  m = Match(r, PrevId(r, x[1]), CurrId(r, x[2]), reconciled)
    BY SpreadHas
  <2>2. \A r, x, y : /\ Match(r, x, y, reconciled).prev = x
                     /\ Match(r, x, y, reconciled).curr = y
    BY DEF Match
  <2> HIDE DEF M
  <2>3. id \in PrevOf(M) <=> \E m \in M : id = m.prev
    BY DEF PrevOf
  <2>4. id \in CurrOf(M) <=> \E m \in M : id = m.curr
    BY DEF CurrOf
  <2>5. id \in PrevOf(M) <=> \E r \in Pairs : \E x \in X[r] : id = PrevId(r, x[1])
    BY <2>1, <2>2, <2>3
  <2>6. id \in CurrOf(M) <=> \E r \in Pairs : \E x \in X[r] : id = CurrId(r, x[2])
    BY <2>1, <2>2, <2>4
  <2> QED
    BY <2>5, <2>6
<1>2. ASSUME NEW r \in Pairs, NEW g, NEW h
      PROVE  /\ PrevId(p, g) = PrevId(r, h) <=> p = r /\ g = h
             /\ CurrId(p, g) = CurrId(r, h) <=> p = r /\ g = h
  BY PairsApart DEF PrevId, CurrId
<1>3. ASSUME NEW g
      PROVE  /\ PrevId(p, g) \in PrevOf(M) <=> g \in A
             /\ CurrId(p, g) \in CurrOf(M) <=> g \in B
  <2> HIDE DEF M
  <2>1. PrevId(p, g) \in PrevOf(M) <=> \E x \in X[p] : g = x[1]
    <3>1. ASSUME PrevId(p, g) \in PrevOf(M) PROVE \E x \in X[p] : g = x[1]
      <4>1. PICK r \in Pairs : \E x \in X[r] : PrevId(p, g) = PrevId(r, x[1])
        BY <1>1, <3>1
      <4>2. PICK x \in X[r] : PrevId(p, g) = PrevId(r, x[1])
        BY <4>1
      <4> QED
        BY <1>2, <4>2
    <3>2. ASSUME NEW x \in X[p], g = x[1] PROVE PrevId(p, g) \in PrevOf(M)
      BY <1>1, <3>2
    <3> QED
      BY <3>1, <3>2
  <2>2. CurrId(p, g) \in CurrOf(M) <=> \E x \in X[p] : g = x[2]
    <3>1. ASSUME CurrId(p, g) \in CurrOf(M) PROVE \E x \in X[p] : g = x[2]
      <4>1. PICK r \in Pairs : \E x \in X[r] : CurrId(p, g) = CurrId(r, x[2])
        BY <1>1, <3>1
      <4>2. PICK x \in X[r] : CurrId(p, g) = CurrId(r, x[2])
        BY <4>1
      <4> QED
        BY <1>2, <4>2
    <3>2. ASSUME NEW x \in X[p], g = x[2] PROVE CurrId(p, g) \in CurrOf(M)
      BY <1>1, <3>2
    <3> QED
      BY <3>1, <3>2
  <2> QED
    BY <2>1, <2>2
<1>4. /\ PrevSide(p) = {PrevId(p, g) : g \in DOMAIN Prev(p)}
      /\ CurrSide(p) = {CurrId(p, g) : g \in DOMAIN Curr(p)}
  BY SidesAre
<1> DEFINE D == DOMAIN Prev(p)
           C == DOMAIN Curr(p)
<1> HIDE DEF M, A, B, D, C
<1>5. PrevSide(p) \ PrevOf(M) = {PrevId(p, g) : g \in D \ A}
  BY <1>3, <1>4 DEF D
<1>6. CurrSide(p) \ CurrOf(M) = {CurrId(p, g) : g \in C \ B}
  BY <1>3, <1>4 DEF C
<1> QED
  BY <1>5, <1>6 DEF M, A, B, D, C

(* What the oracle matches in the comparison of a pair.                    *)
Matching(p) == MatchPeriods(Prev(p), Curr(p))

Both(p) == DOMAIN Prev(p) \cap DOMAIN Curr(p)
SameOf(p) == {<<g, g>> : g \in Both(p)}
LeftBefore(p) == (DOMAIN Prev(p)) \ Both(p)
LeftNow(p) == (DOMAIN Curr(p)) \ Both(p)
TurnedOf(p) ==
    {m \in LeftBefore(p) \X LeftNow(p) :
        /\ Identity(m[1]) = Identity(m[2])
        /\ Alone(LeftBefore(p), Identity, m[1])
        /\ Alone(LeftNow(p), Identity, m[2])}
OverBefore(p) == LeftBefore(p) \ {m[1] : m \in TurnedOf(p)}
OverNow(p) == LeftNow(p) \ {m[2] : m \in TurnedOf(p)}

(* The oracle's three stages.                                              *)
LEMMA MatchingOf ==
    \A p : /\ Matching(p).matched = SameOf(p) \cup TurnedOf(p)
           /\ Matching(p).bridged =
                 MatchCusip(Prev(p), Curr(p), OverBefore(p), OverNow(p))
BY Zenon DEF Matching, MatchPeriods, Both, SameOf, LeftBefore, LeftNow, TurnedOf,
   OverBefore, OverNow

Same == [p \in Pairs |-> SameOf(p)]
Turned == [p \in Pairs |-> TurnedOf(p)]
Matched == [p \in Pairs |-> Matching(p).matched]
Bridged == [p \in Pairs |-> Matching(p).bridged]

(* The matches of every stage are of the pair's positions.                 *)
LEMMA AllWithin == Within(Same) /\ Within(Turned) /\ Within(Matched) /\ Within(Bridged)
<1> SUFFICES ASSUME NEW p \in Pairs
             PROVE  /\ SameOf(p) \subseteq (DOMAIN Prev(p)) \X (DOMAIN Curr(p))
                    /\ TurnedOf(p) \subseteq (DOMAIN Prev(p)) \X (DOMAIN Curr(p))
                    /\ Matching(p).matched \subseteq
                          (DOMAIN Prev(p)) \X (DOMAIN Curr(p))
                    /\ Matching(p).bridged \subseteq
                          (DOMAIN Prev(p)) \X (DOMAIN Curr(p))
  BY DEF Within, Same, Turned, Matched, Bridged
<1>1. Joined(Matching(p)) \subseteq (DOMAIN Prev(p)) \X (DOMAIN Curr(p))
  BY MatchingIs DEF Matching
<1> QED
  BY <1>1, MatchingOf DEF Joined

(* Two families spread together.                                           *)
LEMMA SpreadJoins ==
    Spread(Same, FALSE) \cup Spread(Turned, FALSE) = Spread(Matched, FALSE)
<1>1. \A p \in Pairs : Matched[p] = Same[p] \cup Turned[p]
  BY MatchingOf DEF Matched, Same, Turned
<1>2. ASSUME NEW p \in Pairs, NEW m
      PROVE  m \in Placed(p, Matched[p], FALSE) <=>
                m \in Placed(p, Same[p], FALSE) \/ m \in Placed(p, Turned[p], FALSE)
  <2> DEFINE F(x) == Match(p, PrevId(p, x[1]), CurrId(p, x[2]), FALSE)
  <2>1. \A Y : m \in Placed(p, Y, FALSE) <=> \E x \in Y : m = F(x)
    BY DEF Placed
  <2> HIDE DEF F
  <2> QED
    BY <1>1, <2>1
<1>3. ASSUME NEW X, NEW m
      PROVE  m \in Spread(X, FALSE) <=>
                \E p \in Pairs : m \in Placed(p, X[p], FALSE)
  BY DEF Spread
<1>4. ASSUME NEW m
      PROVE  m \in Spread(Matched, FALSE) <=>
                m \in Spread(Same, FALSE) \/ m \in Spread(Turned, FALSE)
  BY <1>2, <1>3
<1> QED
  BY <1>4

(* A stage that keeps the couples of two sides that a condition holds of   *)
(* keeps those of their positions.                                         *)
Couples(p, K, reconciled) == {Match(p, x[1], x[2], reconciled) : x \in K}

Stage(p, P, C, K, Y) ==
    /\ K \subseteq {PrevId(p, g) : g \in P} \X {CurrId(p, g) : g \in C}
    /\ Y \subseteq P \X C
    /\ \A g \in P, h \in C :
          <<PrevId(p, g), CurrId(p, h)>> \in K <=> <<g, h>> \in Y

(* A stage of couples that agree is spread.                                *)
LEMMA StageIs ==
    ASSUME NEW p, NEW P, NEW C, NEW reconciled,
           NEW K, NEW Y, Stage(p, P, C, K, Y)
    PROVE  Couples(p, K, reconciled) = Placed(p, Y, reconciled)
<1> USE DEF Stage
<1>1. ASSUME NEW x \in K
      PROVE  \E y \in Y : Match(p, x[1], x[2], reconciled) =
                             Match(p, PrevId(p, y[1]), CurrId(p, y[2]), reconciled)
  <2>1. PICK g \in P, h \in C : x = <<PrevId(p, g), CurrId(p, h)>>
    <3>1. x \in {PrevId(p, g) : g \in P} \X {CurrId(p, g) : g \in C}
      OBVIOUS
    <3> QED
      BY <3>1
  <2>2. <<g, h>> \in Y /\ <<g, h>>[1] = g /\ <<g, h>>[2] = h
    BY <2>1
  <2>3. x[1] = PrevId(p, g) /\ x[2] = CurrId(p, h)
    BY <2>1
  <2> QED
    BY <2>2, <2>3, Zenon
<1>2. ASSUME NEW y \in Y
      PROVE  \E x \in K : Match(p, x[1], x[2], reconciled) =
                             Match(p, PrevId(p, y[1]), CurrId(p, y[2]), reconciled)
  <2> DEFINE x == <<PrevId(p, y[1]), CurrId(p, y[2])>>
  <2>1. y \in P \X C
    OBVIOUS
  <2>2. y[1] \in P /\ y[2] \in C /\ <<y[1], y[2]>> \in Y
    BY <2>1
  <2>3. x \in K /\ x[1] = PrevId(p, y[1]) /\ x[2] = CurrId(p, y[2])
    BY <2>2
  <2> HIDE DEF x
  <2> QED
    BY <2>3, Zenon
<1> DEFINE f(x) == Match(p, x[1], x[2], reconciled)
           g(y) == Match(p, PrevId(p, y[1]), CurrId(p, y[2]), reconciled)
<1>3. (\A x \in K : \E y \in Y : f(x) = g(y)) /\ (\A y \in Y : \E x \in K : f(x) = g(y))
  BY <1>1, <1>2, Zenon
<1> HIDE DEF f, g
<1>4. {f(x) : x \in K} = {g(y) : y \in Y}
  BY <1>3
<1> QED
  BY <1>4, Zenon DEF f, g, Couples, Placed

(* The first stage matches the same grains.                                *)
LEMMA ExactIs ==
    ASSUME BooksType PROVE ExactMatches = Spread(Same, FALSE)
<1> DEFINE K(p) == {x \in PrevSide(p) \X CurrSide(p) : x[1][3] = x[2][3]}
<1>1. ASSUME NEW p \in Pairs PROVE Couples(p, K(p), FALSE) = Placed(p, Same[p], FALSE)
  <2> DEFINE P == DOMAIN Prev(p)
             C == DOMAIN Curr(p)
             k == K(p)
             y == Same[p]
  <2>1. /\ PrevSide(p) = {PrevId(p, g) : g \in P}
        /\ CurrSide(p) = {CurrId(p, g) : g \in C}
    BY SidesAre
  <2>2. k \subseteq PrevSide(p) \X CurrSide(p) /\ y \subseteq P \X C
    BY AllWithin DEF Within
  <2>3. ASSUME NEW g \in P, NEW h \in C
        PROVE  <<PrevId(p, g), CurrId(p, h)>> \in k <=> <<g, h>> \in y
    <3>1. <<PrevId(p, g), CurrId(p, h)>> \in k <=> g = h
      BY <2>1 DEF PrevId, CurrId
    <3>2. <<g, h>> \in y <=> g = h
      BY DEF Same, SameOf, Both
    <3> QED
      BY <3>1, <3>2
  <2> HIDE DEF k, y, P, C
  <2>4. Stage(p, P, C, k, y)
    BY <2>1, <2>2, <2>3, Zenon DEF Stage
  <2>5. Couples(p, k, FALSE) = Placed(p, y, FALSE)
    BY <2>4, StageIs, Zenon
  <2> QED
    BY <2>5, Zenon DEF k, y
<1>2. ExactMatches = UNION {Couples(p, K(p), FALSE) : p \in Pairs}
  BY Zenon DEF ExactMatches, Couples
<1> HIDE DEF K
<1> QED
  BY <1>1, <1>2 DEF Spread

(* The second matches the same security in another unit.                   *)
LEMMA TurnedIs ==
    ASSUME BooksType, OneSuccessor
    PROVE  TurnedMatches(ExactMatches) = Spread(Turned, FALSE)
<1> DEFINE M == ExactMatches
           key(id) == Identity(id[3])
           Here(p) == PrevSide(p) \ PrevOf(M)
           There(p) == CurrSide(p) \ CurrOf(M)
           K(p) == {x \in Here(p) \X There(p) :
                      /\ key(x[1]) = key(x[2])
                      /\ Alone(Here(p), key, x[1]) /\ Alone(There(p), key, x[2])}
<1>1. ASSUME NEW p \in Pairs
      PROVE  Couples(p, K(p), FALSE) = Placed(p, Turned[p], FALSE)
  <2> DEFINE P == LeftBefore(p)
             C == LeftNow(p)
             k == K(p)
             y == Turned[p]
             A == Here(p)
             B == There(p)
  <2>1. A = {PrevId(p, g) : g \in P} /\ B = {CurrId(p, g) : g \in C}
    <3>1. {x[1] : x \in Same[p]} = Both(p) /\ {x[2] : x \in Same[p]} = Both(p)
      <4>1. Same[p] = {<<g, g>> : g \in Both(p)}
        BY DEF Same, SameOf
      <4>2. \A g \in Both(p) : <<g, g>> \in Same[p] /\ <<g, g>>[1] = g
                               /\ <<g, g>>[2] = g
        BY <4>1
      <4>3. \A x \in Same[p] : x[1] \in Both(p) /\ x[2] \in Both(p)
        BY <4>1
      <4> QED
        BY <4>2, <4>3
    <3>2. M = Spread(Same, FALSE)
      BY ExactIs
    <3>3. /\ A = {PrevId(p, g) : g \in (DOMAIN Prev(p)) \ {x[1] : x \in Same[p]}}
          /\ B = {CurrId(p, g) : g \in (DOMAIN Curr(p)) \ {x[2] : x \in Same[p]}}
      <4> HIDE DEF M
      <4> QED
        BY <3>2, AllWithin, SpreadIs
    <3> QED
      BY <3>1, <3>3, Zenon DEF LeftBefore, LeftNow
  <2>2. k \subseteq A \X B /\ y \subseteq P \X C
    BY DEF Turned, TurnedOf
  <2>3. ASSUME NEW g \in P, NEW h \in C
        PROVE  <<PrevId(p, g), CurrId(p, h)>> \in k <=> <<g, h>> \in y
    <3>1. <<g, h>> \in y <=>
             /\ Identity(g) = Identity(h)
             /\ \A x \in P : Identity(x) = Identity(g) => x = g
             /\ \A x \in C : Identity(x) = Identity(h) => x = h
      BY DEF Turned, TurnedOf, Alone
    <3>2. <<PrevId(p, g), CurrId(p, h)>> \in k <=>
             /\ key(PrevId(p, g)) = key(CurrId(p, h))
             /\ \A x \in A : key(x) = key(PrevId(p, g)) => x = PrevId(p, g)
             /\ \A x \in B : key(x) = key(CurrId(p, h)) => x = CurrId(p, h)
      <4>1. PrevId(p, g) \in A /\ CurrId(p, h) \in B
        BY <2>1
      <4> HIDE DEF A, B, key
      <4> QED
        BY <4>1 DEF Alone, A, B
    <3>3. /\ \A x : key(PrevId(p, x)) = Identity(x)
          /\ \A x : key(CurrId(p, x)) = Identity(x)
      BY DEF PrevId, CurrId
    <3>4. /\ \A x, z : PrevId(p, x) = PrevId(p, z) <=> x = z
          /\ \A x, z : CurrId(p, x) = CurrId(p, z) <=> x = z
      BY DEF PrevId, CurrId
    <3> HIDE DEF A, B, key, P, C, k, y
    <3>5. (\A x \in A : key(x) = key(PrevId(p, g)) => x = PrevId(p, g)) <=>
             \A x \in P : Identity(x) = Identity(g) => x = g
      BY <2>1, <3>3, <3>4
    <3>6. (\A x \in B : key(x) = key(CurrId(p, h)) => x = CurrId(p, h)) <=>
             \A x \in C : Identity(x) = Identity(h) => x = h
      BY <2>1, <3>3, <3>4
    <3> QED
      BY <3>1, <3>2, <3>3, <3>5, <3>6
  <2> HIDE DEF k, y, P, C, A, B
  <2>4. Stage(p, P, C, k, y)
    BY <2>1, <2>2, <2>3, Zenon DEF Stage
  <2>5. Couples(p, k, FALSE) = Placed(p, y, FALSE)
    BY <2>4, StageIs, Zenon
  <2> QED
    BY <2>5, Zenon DEF k, y
<1>2. TurnedMatches(M) = UNION {Couples(p, K(p), FALSE) : p \in Pairs}
  BY Zenon DEF TurnedMatches, Couples
<1> HIDE DEF K
<1> QED
  BY <1>1, <1>2 DEF Spread

(* What the stages hold of a position is what the oracle has.              *)
Alike(s, x) ==
    s.value = x.value /\ s.unit = x.unit /\ s.shares = x.shares /\ s.cusip = x.cusip

StagesHold(S) ==
    \A p \in Pairs :
        /\ \A g \in DOMAIN Prev(p) : Alike(S[PrevId(p, g)], Prev(p)[g])
        /\ \A g \in DOMAIN Curr(p) : Alike(S[CurrId(p, g)], Curr(p)[g])

(* The sides of some couples, one of which is of the same grains.          *)
LEMMA SidesOf ==
    ASSUME NEW B, NEW T
    PROVE  /\ {x[1] : x \in {<<g, g>> : g \in B} \cup T} = B \cup {x[1] : x \in T}
           /\ {x[2] : x \in {<<g, g>> : g \in B} \cup T} = B \cup {x[2] : x \in T}
<1> DEFINE S == {<<g, g>> : g \in B}
<1>1. \A g \in B : <<g, g>> \in S /\ <<g, g>>[1] = g /\ <<g, g>>[2] = g
  OBVIOUS
<1>2. \A x \in S : x[1] \in B /\ x[2] \in B
  OBVIOUS
<1> HIDE DEF S
<1>3. \A y : y \in {x[1] : x \in S \cup T} <=> y \in B \cup {x[1] : x \in T}
  <2> TAKE y
  <2>1. y \in {x[1] : x \in S \cup T} <=> \E x \in S \cup T : y = x[1]
    OBVIOUS
  <2>2. y \in {x[1] : x \in T} <=> \E x \in T : y = x[1]
    OBVIOUS
  <2>3. y \in B <=> \E x \in S : y = x[1]
    BY <1>1, <1>2
  <2> QED
    BY <2>1, <2>2, <2>3
<1>4. \A y : y \in {x[2] : x \in S \cup T} <=> y \in B \cup {x[2] : x \in T}
  <2> TAKE y
  <2>1. y \in {x[2] : x \in S \cup T} <=> \E x \in S \cup T : y = x[2]
    OBVIOUS
  <2>2. y \in {x[2] : x \in T} <=> \E x \in T : y = x[2]
    OBVIOUS
  <2>3. y \in B <=> \E x \in S : y = x[2]
    BY <1>1, <1>2
  <2> QED
    BY <2>1, <2>2, <2>3
<1>5. /\ {x[1] : x \in S \cup T} = B \cup {x[1] : x \in T}
      /\ {x[2] : x \in S \cup T} = B \cup {x[2] : x \in T}
  BY <1>3, <1>4
<1> QED
  BY <1>5, Zenon DEF S

Second == ExactMatches \cup TurnedMatches(ExactMatches)

(* The third matches the same CUSIP across a gap of the registry.          *)
LEMMA BridgedIs ==
    ASSUME BooksType, OneSuccessor, NEW S, StagesHold(S)
    PROVE  BridgedMatches(Second, S) = Spread(Bridged, TRUE)
<1> DEFINE M == Second
           key(id) == <<S[id].cusip, id[3][2]>>
           Known(ids) == {id \in ids : S[id].cusip # None}
           Here(p) == Known(PrevSide(p) \ PrevOf(M))
           There(p) == Known(CurrSide(p) \ CurrOf(M))
           K(p) == {x \in Here(p) \X There(p) :
                      /\ key(x[1]) = key(x[2])
                      /\ Alone(Here(p), key, x[1]) /\ Alone(There(p), key, x[2])
                      /\ Resolved(x[1][3]) # Resolved(x[2][3])}
<1>1. ASSUME NEW p \in Pairs
      PROVE  Couples(p, K(p), TRUE) = Placed(p, Bridged[p], TRUE)
  <2> DEFINE W == OverBefore(p)
             N == OverNow(p)
             P == {g \in W : Prev(p)[g].cusip # None}
             C == {g \in N : Curr(p)[g].cusip # None}
             k == K(p)
             y == Bridged[p]
             A == Here(p)
             B == There(p)
  <2>1. /\ W \subseteq DOMAIN Prev(p) /\ N \subseteq DOMAIN Curr(p)
        /\ \A g \in W : S[PrevId(p, g)].cusip = Prev(p)[g].cusip
        /\ \A g \in N : S[CurrId(p, g)].cusip = Curr(p)[g].cusip
    BY DEF OverBefore, OverNow, LeftBefore, LeftNow, StagesHold, Alike
  <2>2. A = {PrevId(p, g) : g \in P} /\ B = {CurrId(p, g) : g \in C}
    <3> DEFINE X == {x[1] : x \in Matched[p]}
               Z == {x[2] : x \in Matched[p]}
    <3>1. (DOMAIN Prev(p)) \ X = W /\ (DOMAIN Curr(p)) \ Z = N
      <4>1. Matched[p] = SameOf(p) \cup TurnedOf(p)
        BY MatchingOf DEF Matched
      <4>2. /\ X = {x[1] : x \in {<<g, g>> : g \in Both(p)} \cup TurnedOf(p)}
            /\ Z = {x[2] : x \in {<<g, g>> : g \in Both(p)} \cup TurnedOf(p)}
        BY <4>1, Zenon DEF SameOf
      <4>3. /\ X = Both(p) \cup {x[1] : x \in TurnedOf(p)}
            /\ Z = Both(p) \cup {x[2] : x \in TurnedOf(p)}
        BY <4>2, SidesOf
      <4> HIDE DEF X, Z
      <4> QED
        BY <4>3 DEF OverBefore, OverNow, LeftBefore, LeftNow
    <3>2. M = Spread(Matched, FALSE)
      BY ExactIs, TurnedIs, SpreadJoins DEF Second
    <3>3. /\ PrevSide(p) \ PrevOf(M) = {PrevId(p, g) : g \in (DOMAIN Prev(p)) \ X}
          /\ CurrSide(p) \ CurrOf(M) = {CurrId(p, g) : g \in (DOMAIN Curr(p)) \ Z}
      <4> HIDE DEF M
      <4> QED
        BY <3>2, AllWithin, SpreadIs
    <3>4. /\ PrevSide(p) \ PrevOf(M) = {PrevId(p, g) : g \in W}
          /\ CurrSide(p) \ CurrOf(M) = {CurrId(p, g) : g \in N}
      BY <3>1, <3>3, Zenon
    <3> HIDE DEF M, W, N
    <3>5. Known({PrevId(p, g) : g \in W}) = {PrevId(p, g) : g \in P}
      BY <2>1
    <3>6. Known({CurrId(p, g) : g \in N}) = {CurrId(p, g) : g \in C}
      BY <2>1
    <3> QED
      BY <3>4, <3>5, <3>6, Zenon
  <2>3. ASSUME NEW g \in W, NEW h \in N
        PROVE  <<g, h>> \in y <=>
             /\ Prev(p)[g].cusip # None /\ Prev(p)[g].cusip = Curr(p)[h].cusip
             /\ g[2] = h[2] /\ Resolved(g) # Resolved(h)
             /\ \A x \in W : <<Prev(p)[x].cusip, x[2]>> = <<Prev(p)[g].cusip, g[2]>>
                                => x = g
             /\ \A x \in N : <<Curr(p)[x].cusip, x[2]>> = <<Curr(p)[h].cusip, h[2]>>
                                => x = h
    <3>1. y = MatchCusip(Prev(p), Curr(p), W, N)
      BY MatchingOf DEF Bridged
    <3> HIDE DEF y, W, N
    <3> QED
      BY <3>1 DEF MatchCusip, SharesCusip, Alone
  <2>4. k \subseteq A \X B /\ y \subseteq P \X C
    <3>1. k \subseteq A \X B
      OBVIOUS
    <3>2. y \subseteq W \X N
      BY MatchingOf DEF Bridged, MatchCusip, SharesCusip
    <3>3. \A x \in y : /\ Prev(p)[x[1]].cusip # None /\ Curr(p)[x[2]].cusip # None
      <4>1. y = MatchCusip(Prev(p), Curr(p), W, N)
        BY MatchingOf DEF Bridged
      <4> HIDE DEF y, W, N
      <4>2. y \subseteq SharesCusip(Prev(p), Curr(p), W, N)
        BY <4>1 DEF MatchCusip
      <4> QED
        BY <4>2 DEF SharesCusip
    <3> HIDE DEF y, W, N, k
    <3> QED
      BY <3>1, <3>2, <3>3
  <2>5. ASSUME NEW g \in P, NEW h \in C
        PROVE  <<PrevId(p, g), CurrId(p, h)>> \in k <=> <<g, h>> \in y
    <3>1. <<PrevId(p, g), CurrId(p, h)>> \in k <=>
             /\ key(PrevId(p, g)) = key(CurrId(p, h))
             /\ \A x \in A : key(x) = key(PrevId(p, g)) => x = PrevId(p, g)
             /\ \A x \in B : key(x) = key(CurrId(p, h)) => x = CurrId(p, h)
             /\ Resolved(PrevId(p, g)[3]) # Resolved(CurrId(p, h)[3])
      <4>1. PrevId(p, g) \in A /\ CurrId(p, h) \in B
        BY <2>2
      <4> HIDE DEF A, B, key
      <4> QED
        BY <4>1 DEF Alone, A, B
    <3>2. /\ \A x \in W : key(PrevId(p, x)) = <<Prev(p)[x].cusip, x[2]>>
          /\ \A x \in N : key(CurrId(p, x)) = <<Curr(p)[x].cusip, x[2]>>
          /\ PrevId(p, g)[3] = g /\ CurrId(p, h)[3] = h
      BY <2>1 DEF PrevId, CurrId
    <3>3. /\ \A x, z : PrevId(p, x) = PrevId(p, z) <=> x = z
          /\ \A x, z : CurrId(p, x) = CurrId(p, z) <=> x = z
      BY DEF PrevId, CurrId
    <3>4. /\ g \in W /\ h \in N /\ P \subseteq W /\ C \subseteq N
          /\ Prev(p)[g].cusip # None /\ Curr(p)[h].cusip # None
          /\ \A x \in W : Prev(p)[x].cusip # None => x \in P
          /\ \A x \in N : Curr(p)[x].cusip # None => x \in C
      OBVIOUS
    <3> HIDE DEF A, B, key, P, C, k, y, W, N
    <3>5. (\A x \in A : key(x) = key(PrevId(p, g)) => x = PrevId(p, g)) <=>
             \A x \in W : <<Prev(p)[x].cusip, x[2]>> = <<Prev(p)[g].cusip, g[2]>>
                                => x = g
      BY <2>2, <3>2, <3>3, <3>4
    <3>6. (\A x \in B : key(x) = key(CurrId(p, h)) => x = CurrId(p, h)) <=>
             \A x \in N : <<Curr(p)[x].cusip, x[2]>> = <<Curr(p)[h].cusip, h[2]>>
                                => x = h
      BY <2>2, <3>2, <3>3, <3>4
    <3>7. key(PrevId(p, g)) = key(CurrId(p, h)) <=>
             Prev(p)[g].cusip = Curr(p)[h].cusip /\ g[2] = h[2]
      BY <3>2, <3>4
    <3> QED
      BY <2>3, <3>1, <3>2, <3>4, <3>5, <3>6, <3>7
  <2> HIDE DEF k, y, P, C, A, B
  <2>6. Stage(p, P, C, k, y)
    BY <2>2, <2>4, <2>5, Zenon DEF Stage
  <2>7. Couples(p, k, TRUE) = Placed(p, y, TRUE)
    BY <2>6, StageIs, Zenon
  <2> QED
    BY <2>7, Zenon DEF k, y
<1>2. BridgedMatches(M, S) = UNION {Couples(p, K(p), TRUE) : p \in Pairs}
  BY Zenon DEF BridgedMatches, Couples
<1> HIDE DEF K
<1> QED
  BY <1>1, <1>2 DEF Spread

(* What the bulk path matches is what the oracle matches in every pair.    *)
Tie(p, x) == Match(p, PrevId(p, x[1]), CurrId(p, x[2]), x \in Matching(p).bridged)

(* The three together match what the oracle matches, in every pair.        *)
LEMMA TiesAre ==
    ASSUME BooksType, OneSuccessor, NEW S, StagesHold(S), NEW m
    PROVE  m \in BulkMatches(S) <=>
              \E p \in Pairs : \E x \in Joined(Matching(p)) : m = Tie(p, x)
<1>1. BulkMatches(S) = Second \cup BridgedMatches(Second, S)
  BY Zenon DEF BulkMatches, Second
<1>2. Second = Spread(Matched, FALSE)
  BY ExactIs, TurnedIs, SpreadJoins DEF Second
<1>3. BridgedMatches(Second, S) = Spread(Bridged, TRUE)
  BY BridgedIs
<1>4. m \in BulkMatches(S) <=> \/ m \in Spread(Matched, FALSE)
                               \/ m \in Spread(Bridged, TRUE)
  BY <1>1, <1>2, <1>3
<1>5. \A p \in Pairs :
         /\ Matched[p] = Matching(p).matched /\ Bridged[p] = Matching(p).bridged
  BY DEF Matched, Bridged
<1>6. \A p : \A x \in Joined(Matching(p)) :
         \/ x \in Matching(p).bridged /\ (x \in Matching(p).bridged) = TRUE
         \/ x \in Matching(p).matched /\ (x \in Matching(p).bridged) = FALSE
  BY MatchingIs DEF Matching, Joined
<1>7. \A p : \A x : /\ x \in Matching(p).matched => x \in Joined(Matching(p))
                    /\ x \in Matching(p).bridged => x \in Joined(Matching(p))
  BY DEF Joined
<1>8. m \in Spread(Matched, FALSE) <=>
         \E p \in Pairs : \E x \in Matching(p).matched :
            m = Match(p, PrevId(p, x[1]), CurrId(p, x[2]), FALSE)
  <2> DEFINE F(p, x) == Match(p, PrevId(p, x[1]), CurrId(p, x[2]), FALSE)
  <2>1. m \in Spread(Matched, FALSE) <=> \E p \in Pairs : m \in Placed(p, Matched[p], FALSE)
    BY DEF Spread
  <2>2. ASSUME NEW p \in Pairs
        PROVE  m \in Placed(p, Matched[p], FALSE) <=>
                  \E x \in Matching(p).matched : m = F(p, x)
    <3>1. Placed(p, Matched[p], FALSE) = {F(p, x) : x \in Matching(p).matched}
      BY <1>5, Zenon DEF Placed
    <3> HIDE DEF F
    <3> QED
      BY <3>1
  <2>3. m \in Spread(Matched, FALSE) <=>
           \E p \in Pairs : \E x \in Matching(p).matched : m = F(p, x)
    <3> HIDE DEF F
    <3> QED
      BY <2>1, <2>2
  <2> QED
    BY <2>3, Zenon DEF F
<1>9. m \in Spread(Bridged, TRUE) <=>
         \E p \in Pairs : \E x \in Matching(p).bridged :
            m = Match(p, PrevId(p, x[1]), CurrId(p, x[2]), TRUE)
  <2> DEFINE F(p, x) == Match(p, PrevId(p, x[1]), CurrId(p, x[2]), TRUE)
  <2>1. m \in Spread(Bridged, TRUE) <=> \E p \in Pairs : m \in Placed(p, Bridged[p], TRUE)
    BY DEF Spread
  <2>2. ASSUME NEW p \in Pairs
        PROVE  m \in Placed(p, Bridged[p], TRUE) <=>
                  \E x \in Matching(p).bridged : m = F(p, x)
    <3>1. Placed(p, Bridged[p], TRUE) = {F(p, x) : x \in Matching(p).bridged}
      BY <1>5, Zenon DEF Placed
    <3> HIDE DEF F
    <3> QED
      BY <3>1
  <2>3. m \in Spread(Bridged, TRUE) <=>
           \E p \in Pairs : \E x \in Matching(p).bridged : m = F(p, x)
    <3> HIDE DEF F
    <3> QED
      BY <2>1, <2>2
  <2> QED
    BY <2>3, Zenon DEF F
<1>10. \A p : \A x \in Matching(p).matched :
         x \in Joined(Matching(p)) /\ (x \in Matching(p).bridged) = FALSE
  BY MatchingIs DEF Matching, Joined
<1>11. ASSUME NEW p \in Pairs, NEW x \in Matching(p).matched
       PROVE  Tie(p, x) = Match(p, PrevId(p, x[1]), CurrId(p, x[2]), FALSE)
  BY <1>10, Zenon DEF Tie
<1>12. ASSUME NEW p \in Pairs, NEW x \in Matching(p).bridged
       PROVE  Tie(p, x) = Match(p, PrevId(p, x[1]), CurrId(p, x[2]), TRUE)
  <2>1. (x \in Matching(p).bridged) = TRUE
    OBVIOUS
  <2> QED
    BY <2>1, Zenon DEF Tie
<1>13. ASSUME m \in BulkMatches(S)
       PROVE  \E p \in Pairs : \E x \in Joined(Matching(p)) : m = Tie(p, x)
  BY <1>4, <1>7, <1>8, <1>9, <1>11, <1>12, <1>13
<1>14. ASSUME NEW p \in Pairs, NEW x \in Joined(Matching(p)), m = Tie(p, x)
       PROVE  m \in BulkMatches(S)
  BY <1>4, <1>6, <1>8, <1>9, <1>11, <1>12, <1>14
<1> QED
  BY <1>13, <1>14

(* No position is matched twice.                                           *)
LEMMA UniqueIs ==
    ASSUME BooksType, OneSuccessor, NEW S, StagesHold(S)
    PROVE  SidesAreUnique(BulkMatches(S))
<1> SUFFICES ASSUME NEW m \in BulkMatches(S), NEW n \in BulkMatches(S),
                    m.prev = n.prev \/ m.curr = n.curr
             PROVE  m = n
  BY DEF SidesAreUnique
<1>1. PICK p \in Pairs : \E x \in Joined(Matching(p)) : m = Tie(p, x)
  BY TiesAre
<1>2. PICK x \in Joined(Matching(p)) : m = Tie(p, x)
  BY <1>1
<1>3. PICK r \in Pairs : \E y \in Joined(Matching(r)) : n = Tie(r, y)
  BY TiesAre
<1>4. PICK y \in Joined(Matching(r)) : n = Tie(r, y)
  BY <1>3
<1>5. /\ m.prev = PrevId(p, x[1]) /\ m.curr = CurrId(p, x[2])
      /\ n.prev = PrevId(r, y[1]) /\ n.curr = CurrId(r, y[2])
  BY <1>2, <1>4 DEF Tie, Match
<1>6. p = r /\ (x[1] = y[1] \/ x[2] = y[2])
  BY <1>5, PairsApart DEF PrevId, CurrId
<1>7. x = y
  BY <1>6, MatchingIs DEF Matching
<1> QED
  BY <1>2, <1>4, <1>6, <1>7

(* What neither matches is what the oracle calls exits and new positions.  *)
LEMMA RestIs ==
    ASSUME BooksType, OneSuccessor, NEW S, StagesHold(S), NEW p \in Pairs
    PROVE  /\ PrevSide(p) \ PrevOf(BulkMatches(S)) =
                 {PrevId(p, g) : g \in Matching(p).exits}
           /\ CurrSide(p) \ CurrOf(BulkMatches(S)) =
                 {CurrId(p, g) : g \in Matching(p).news}
<1> DEFINE M == BulkMatches(S)
           X == {x[1] : x \in Joined(Matching(p))}
           Z == {x[2] : x \in Joined(Matching(p))}
<1>1. /\ PrevSide(p) = {PrevId(p, g) : g \in DOMAIN Prev(p)}
      /\ CurrSide(p) = {CurrId(p, g) : g \in DOMAIN Curr(p)}
  BY SidesAre
<1>2. ASSUME NEW id
      PROVE  /\ id \in PrevOf(M) <=>
                   \E r \in Pairs : \E x \in Joined(Matching(r)) : id = PrevId(r, x[1])
             /\ id \in CurrOf(M) <=>
                   \E r \in Pairs : \E x \in Joined(Matching(r)) : id = CurrId(r, x[2])
  <2>1. \A m : m \in M <=>
           \E r \in Pairs : \E x \in Joined(Matching(r)) : m = Tie(r, x)
    BY TiesAre
  <2>2. \A r, x : Tie(r, x).prev = PrevId(r, x[1]) /\ Tie(r, x).curr = CurrId(r, x[2])
    BY DEF Tie, Match
  <2> HIDE DEF M
  <2>3. id \in PrevOf(M) <=> \E m \in M : id = m.prev
    BY DEF PrevOf
  <2>4. id \in CurrOf(M) <=> \E m \in M : id = m.curr
    BY DEF CurrOf
  <2> QED
    BY <2>1, <2>2, <2>3, <2>4
<1>3. ASSUME NEW r \in Pairs, NEW g, NEW h
      PROVE  /\ PrevId(p, g) = PrevId(r, h) => p = r /\ g = h
             /\ CurrId(p, g) = CurrId(r, h) => p = r /\ g = h
  BY PairsApart DEF PrevId, CurrId
<1>4. ASSUME NEW g
      PROVE  /\ PrevId(p, g) \in PrevOf(M) <=> g \in X
             /\ CurrId(p, g) \in CurrOf(M) <=> g \in Z
  <2> HIDE DEF M
  <2>1. ASSUME PrevId(p, g) \in PrevOf(M) PROVE g \in X
    <3>1. PICK r \in Pairs : \E x \in Joined(Matching(r)) :
                                PrevId(p, g) = PrevId(r, x[1])
      BY <1>2, <2>1
    <3>2. PICK x \in Joined(Matching(r)) : PrevId(p, g) = PrevId(r, x[1])
      BY <3>1
    <3> QED
      BY <1>3, <3>2
  <2>2. ASSUME CurrId(p, g) \in CurrOf(M) PROVE g \in Z
    <3>1. PICK r \in Pairs : \E x \in Joined(Matching(r)) :
                                CurrId(p, g) = CurrId(r, x[2])
      BY <1>2, <2>2
    <3>2. PICK x \in Joined(Matching(r)) : CurrId(p, g) = CurrId(r, x[2])
      BY <3>1
    <3> QED
      BY <1>3, <3>2
  <2> QED
    BY <1>2, <2>1, <2>2
<1>5. /\ Matching(p).exits = (DOMAIN Prev(p)) \ X
      /\ Matching(p).news = (DOMAIN Curr(p)) \ Z
  BY MatchingIs DEF Matching
<1> DEFINE D == DOMAIN Prev(p)
           C == DOMAIN Curr(p)
           exits == Matching(p).exits
           news == Matching(p).news
<1>6. /\ PrevSide(p) = {PrevId(p, g) : g \in D} /\ exits = D \ X
      /\ CurrSide(p) = {CurrId(p, g) : g \in C} /\ news = C \ Z
  BY <1>1, <1>5
<1> HIDE DEF M, X, Z, D, C, exits, news
<1>7. PrevSide(p) \ PrevOf(M) = {PrevId(p, g) : g \in exits}
  BY <1>4, <1>6
<1>8. CurrSide(p) \ CurrOf(M) = {CurrId(p, g) : g \in news}
  BY <1>4, <1>6
<1> QED
  BY <1>7, <1>8, Zenon DEF M, exits, news

(* The books of an eligible source have no negative numbers.               *)
LEMMA BookUnsigned ==
    ASSUME BooksType, ~Signed, NEW c \in Ciks, NEW q \in Quarters
    PROVE  /\ Unsigned(Book(c, q))
           /\ \A g : Unsigned(RowsOf(Book(c, q), g))
<1>1. ASSUME NEW r \in Book(c, q)
      PROVE  /\ r.shares = None \/ r.shares \in 0 .. MaxInt
             /\ r.value = None \/ r.value \in Nat
  <2>1. r \in Row
    BY BookIs DEF Proper
  <2>2. r.value \in Int \cup {None} /\ r.shares \in (-MaxInt .. MaxInt) \cup {None}
    BY <2>1 DEF Row
  <2>3. /\ r.value = None \/ ~(r.value < 0)
        /\ r.shares = None \/ ~(r.shares < 0)
    BY DEF Signed
  <2>4. MaxInt \in Nat
    BY InstAggregatesAssumption
  <2> QED
    BY <2>2, <2>3, <2>4
<1>2. \A g : RowsOf(Book(c, q), g) \subseteq Book(c, q)
  BY DEF RowsOf, Keyed
<1> QED
  BY <1>1, <1>2 DEF Unsigned

(* The stages of an eligible source hold what the oracle compares.         *)
LEMMA EligibleHolds ==
    ASSUME BooksType, BulkEligible(StagedPositions)
    PROVE  StagesHold(StagedPositions)
<1>1. ~Signed /\ \A id \in AllIds : ~StagedPositions[id].overflow
  BY DEF BulkEligible
<1>2. ASSUME NEW c \in Ciks, NEW q \in Quarters,
             NEW g \in DOMAIN Positions(Book(c, q))
      PROVE  Alike(StagedPositions[<<c, q, g>>], Positions(Book(c, q))[g])
  <2> DEFINE id == <<c, q, g>>
             rows == RowsOf(Book(c, q), g)
  <2>1. id \in AllIds
    <3>1. Ids(c, q) = {<<c, q, h>> : h \in DOMAIN Positions(Book(c, q))}
          /\ Ids(c, q) \subseteq AllIds
      BY IdsAre
    <3> QED
      BY <3>1
  <2>2. StagedPositions[id] = StagedPosition(rows)
    <3>1. id[1] = c /\ id[2] = q /\ id[3] = g
      OBVIOUS
    <3> HIDE DEF id
    <3>2. StagedPositions[id] = StagedPosition(RowsOf(Book(id[1], id[2]), id[3]))
      BY <2>1 DEF StagedPositions
    <3> QED
      BY <3>1, <3>2, Zenon
  <2>3. ~StagedPosition(rows).overflow
    BY <1>1, <2>1, <2>2
  <2>4. Proper(Book(c, q))
    BY BookIs
  <2>5. IsFiniteSet(rows) /\ Unsigned(rows)
    BY <1>1, <2>4, BookUnsigned, RowsAre DEF Proper
  <2>6. Positions(Book(c, q))[g] = Finalize(rows)
    BY <2>4, PositionsAre
  <2> HIDE DEF rows
  <2>7. /\ StagedPosition(rows).value = Finalize(rows).value
        /\ StagedPosition(rows).unit = Finalize(rows).unit
        /\ StagedPosition(rows).shares = Finalize(rows).shares
        /\ StagedPosition(rows).cusip = Finalize(rows).cusip
    BY <2>3, <2>5, StagedIsFinal
  <2> QED
    BY <2>2, <2>6, <2>7, Zenon DEF Alike
<1>3. ASSUME NEW p \in Pairs
      PROVE  /\ \A g \in DOMAIN Prev(p) :
                   Alike(StagedPositions[PrevId(p, g)], Prev(p)[g])
             /\ \A g \in DOMAIN Curr(p) :
                   Alike(StagedPositions[CurrId(p, g)], Curr(p)[g])
  <2>1. /\ p.cik \in Ciks /\ p.from \in Ciks
        /\ p.prev \in Quarters /\ p.curr \in Quarters
    BY PairIs
  <2>2. ASSUME NEW g \in DOMAIN Curr(p)
        PROVE  Alike(StagedPositions[CurrId(p, g)], Curr(p)[g])
    BY <1>2, <2>1 DEF Curr, CurrBook, CurrId
  <2>3. ASSUME NEW g \in DOMAIN Prev(p)
        PROVE  Alike(StagedPositions[PrevId(p, g)], Prev(p)[g])
    <3>1. CASE Adjacent(p)
      BY <1>2, <2>1, <3>1 DEF Prev, PrevBook, PrevId
    <3>2. CASE ~Adjacent(p)
      <4>1. DOMAIN Prev(p) = {Grain(r) : r \in Keyed({})}
        BY <3>2, EmptyIsProper, PositionsAre DEF Prev, PrevBook
      <4>2. Keyed({}) = {}
        BY DEF Keyed
      <4> QED
        BY <4>1, <4>2
    <3> QED
      BY <3>1, <3>2
  <2> QED
    BY <2>2, <2>3
<1> QED
  BY <1>3 DEF StagesHold

(* A row of the bulk path is the oracle's, for positions held alike.       *)
Held(S, a, b, prev, curr, key) ==
    /\ a = None <=> prev = None
    /\ b = None <=> curr = None
    /\ a # None => Alike(S[a], prev)
    /\ b # None => Alike(S[b], curr)
    /\ key = IF b # None THEN b[3] ELSE a[3]

(* A staged row of two positions is the oracle's of the same two.          *)
LEMMA SourceIs ==
    ASSUME NEW S, NEW p, NEW a, NEW b, NEW has \in BOOLEAN,
           NEW reconciled \in BOOLEAN, NEW prev, NEW curr, NEW key,
           Held(S, a, b, prev, curr, key)
    PROVE  SourceRow(S, p, a, b, has, reconciled)
              = QoqRow(p, key, prev, curr, reconciled, has)
<1> DEFINE was == IF prev # None THEN prev.value
                  ELSE IF has THEN 0 ELSE None
           is == IF curr # None THEN curr.value ELSE 0
           sharesWas == IF prev # None THEN prev.shares ELSE None
           sharesIs == IF curr # None THEN curr.shares ELSE None
           both == prev # None /\ curr # None
           compatible == /\ both /\ prev.unit # None /\ prev.unit = curr.unit
                         /\ None \notin {sharesWas, sharesIs}
           moved == IF prev = None THEN (IF has THEN sharesIs ELSE None)
                    ELSE IF curr = None THEN Minus(0, sharesWas)
                    ELSE IF compatible THEN sharesIs - sharesWas ELSE None
           kind == IF prev = None THEN (IF has THEN "new" ELSE "no_prior")
                   ELSE IF curr = None THEN "exit"
                   ELSE IF moved = None THEN "unclassified"
                   ELSE IF moved = 0 THEN "held"
                   ELSE IF moved > 0 THEN "add" ELSE "trim"
           was2 == IF a # None THEN S[a].value ELSE IF has THEN 0 ELSE None
           is2 == IF b # None THEN S[b].value ELSE 0
           sharesWas2 == IF a # None THEN S[a].shares ELSE None
           sharesIs2 == IF b # None THEN S[b].shares ELSE None
           both2 == a # None /\ b # None
           compatible2 == /\ both2 /\ S[a].unit # None /\ S[a].unit = S[b].unit
                          /\ sharesWas2 # None /\ sharesIs2 # None
           moved2 == IF a = None THEN (IF has THEN sharesIs2 ELSE None)
                     ELSE IF b = None THEN Minus(0, sharesWas2)
                     ELSE IF compatible2 THEN sharesIs2 - sharesWas2 ELSE None
           kind2 == IF a = None THEN (IF has THEN "new" ELSE "no_prior")
                    ELSE IF b = None THEN "exit"
                    ELSE IF moved2 = None THEN "unclassified"
                    ELSE IF moved2 = 0 THEN "held"
                    ELSE IF moved2 > 0 THEN "add" ELSE "trim"
           key2 == IF b # None THEN b[3] ELSE a[3]
           flags == Flags(reconciled, "identity_reconciled_by_cusip")
                    \cup Flags(Migrated(p), "filer_migrated")
                    \cup Flags(both /\ ~compatible, "shares_unit_mismatch")
                    \cup Flags(both /\ moved = None, "change_kind_undeterminable")
                    \cup Flags(\/ prev # None /\ was = None
                               \/ curr # None /\ is = None,
                               "value_undisclosed_one_side")
           flags2 == Flags(both2 /\ moved2 = None, "change_kind_undeterminable")
                     \cup Flags(Migrated(p), "filer_migrated")
                     \cup Flags(reconciled, "identity_reconciled_by_cusip")
                     \cup Flags(both2 /\ ~compatible2, "shares_unit_mismatch")
                     \cup Flags(\/ a # None /\ was2 = None
                                \/ b # None /\ is2 = None,
                                "value_undisclosed_one_side")
<1>0. (a = None <=> prev = None) /\ (b = None <=> curr = None)
  BY DEF Held
<1>1. /\ was2 = was /\ is2 = is /\ sharesWas2 = sharesWas
      /\ sharesIs2 = sharesIs /\ both2 = both
  BY DEF Alike, Held
<1>2. both => S[a].unit = prev.unit /\ S[b].unit = curr.unit
  BY DEF Alike, Held
<1>3. compatible2 <=> compatible
  <2> HIDE DEF sharesWas, sharesIs, sharesWas2, sharesIs2
  <2> QED
    BY <1>1, <1>2
<1>4. moved2 = moved
  <2> HIDE DEF sharesWas, sharesIs, sharesWas2, sharesIs2, compatible, compatible2
  <2> QED
    BY <1>0, <1>1, <1>3
<1>5. kind2 = kind
  <2> HIDE DEF moved, moved2
  <2> QED
    BY <1>0, <1>4
<1>6. flags2 = flags
  <2> DEFINE f1 == Flags(reconciled, "identity_reconciled_by_cusip")
             f2 == Flags(Migrated(p), "filer_migrated")
             f3 == Flags(both /\ ~compatible, "shares_unit_mismatch")
             f4 == Flags(both /\ moved = None, "change_kind_undeterminable")
             f5 == Flags(\/ prev # None /\ was = None
                         \/ curr # None /\ is = None,
                         "value_undisclosed_one_side")
             g3 == Flags(both2 /\ ~compatible2, "shares_unit_mismatch")
             g4 == Flags(both2 /\ moved2 = None, "change_kind_undeterminable")
             g5 == Flags(\/ a # None /\ was2 = None
                         \/ b # None /\ is2 = None,
                         "value_undisclosed_one_side")
  <2>1. g3 = f3
    <3> HIDE DEF compatible, compatible2
    <3> QED
      BY <1>1, <1>3 DEF Flags
  <2>2. g4 = f4
    <3> HIDE DEF moved, moved2
    <3> QED
      BY <1>1, <1>4 DEF Flags
  <2>3. g5 = f5
    <3> HIDE DEF was, was2, is, is2
    <3> QED
      BY <1>0, <1>1 DEF Flags
  <2>4. flags = f1 \cup f2 \cup f3 \cup f4 \cup f5
    BY Zenon
  <2>5. flags2 = g4 \cup f2 \cup f1 \cup g3 \cup g5
    BY Zenon
  <2> HIDE DEF flags, flags2, f1, f2, f3, f4, f5, g3, g4, g5
  <2> QED
    BY <2>1, <2>2, <2>3, <2>4, <2>5
<1>7. QoqRow(p, key, prev, curr, reconciled, has) =
        [cik |-> p.cik, curr |-> p.curr, prev |-> p.prev, key |-> key,
         kind |-> kind, was |-> was, is |-> is, change |-> Minus(is, was),
         sharesWas |-> sharesWas, sharesIs |-> sharesIs, moved |-> moved,
         flags |-> flags]
  BY Zenon DEF QoqRow
<1>8. SourceRow(S, p, a, b, has, reconciled) =
        [cik |-> p.cik, curr |-> p.curr, prev |-> p.prev, key |-> key2,
         kind |-> kind2, was |-> was2, is |-> is2, change |-> Minus(is2, was2),
         sharesWas |-> sharesWas2, sharesIs |-> sharesIs2, moved |-> moved2,
         flags |-> flags2]
  BY Zenon DEF SourceRow
<1>9. key2 = key
  BY DEF Held
<1> HIDE DEF was, is, sharesWas, sharesIs, moved, kind, flags, was2, is2,
             sharesWas2, sharesIs2, moved2, kind2, flags2, key2
<1> QED
  BY <1>1, <1>4, <1>5, <1>6, <1>7, <1>8, <1>9, Zenon

(* The oracle's rows, by stage.                                            *)
LEMMA OracleRowsAre ==
    ASSUME NEW p
    PROVE  OracleRows(p) =
              {QoqRow(p, x[2], Prev(p)[x[1]], Curr(p)[x[2]], FALSE, TRUE) :
                  x \in Matching(p).matched}
              \cup {QoqRow(p, x[2], Prev(p)[x[1]], Curr(p)[x[2]], TRUE, TRUE) :
                  x \in Matching(p).bridged}
              \cup {QoqRow(p, g, None, Curr(p)[g], FALSE, DOMAIN Prev(p) # {}) :
                  g \in Matching(p).news}
              \cup {QoqRow(p, g, Prev(p)[g], None, FALSE, TRUE) :
                  g \in Matching(p).exits}
<1> DEFINE prev == IF Adjacent(p) THEN Positions(Book(p.from, p.prev))
                   ELSE Positions({})
           curr == Positions(Book(p.cik, p.curr))
<1>1. prev = Prev(p)
  <2>1. CASE Adjacent(p)
    BY <2>1, Zenon DEF Prev, PrevBook
  <2>2. CASE ~Adjacent(p)
    BY <2>2, Zenon DEF Prev, PrevBook
  <2> QED
    BY <2>1, <2>2
<1>2. curr = Curr(p)
  BY Zenon DEF Curr, CurrBook
<1>3. OracleRows(p) =
         {QoqRow(p, x[2], prev[x[1]], curr[x[2]], FALSE, TRUE) :
                  x \in MatchPeriods(prev, curr).matched}
              \cup {QoqRow(p, x[2], prev[x[1]], curr[x[2]], TRUE, TRUE) :
                  x \in MatchPeriods(prev, curr).bridged}
              \cup {QoqRow(p, g, None, curr[g], FALSE, DOMAIN prev # {}) :
                  g \in MatchPeriods(prev, curr).news}
              \cup {QoqRow(p, g, prev[g], None, FALSE, TRUE) :
                  g \in MatchPeriods(prev, curr).exits}
  BY Zenon DEF OracleRows
<1> HIDE DEF prev, curr
<1> QED
  BY <1>1, <1>2, <1>3, Zenon DEF Matching

(* The sides of a comparison are positions.                                *)
LEMMA SidesHold ==
    ASSUME BooksType, NEW p \in Pairs
    PROVE  /\ \A g \in DOMAIN Prev(p) : Prev(p)[g] # None /\ PrevId(p, g) # None
           /\ \A g \in DOMAIN Curr(p) : Curr(p)[g] # None /\ CurrId(p, g) # None
           /\ \A g : PrevId(p, g)[3] = g /\ CurrId(p, g)[3] = g
<1>1. /\ \A g \in DOMAIN Prev(p) : Prev(p)[g] # None
      /\ \A g \in DOMAIN Curr(p) : Curr(p)[g] # None
  BY PairBooks, PositionsAre DEF Prev, Curr
<1>2. /\ \A g \in DOMAIN Prev(p) : PrevId(p, g) # None
      /\ \A g \in DOMAIN Curr(p) : CurrId(p, g) # None
  BY SidesAre
<1>3. \A g : PrevId(p, g)[3] = g /\ CurrId(p, g)[3] = g
  BY DEF PrevId, CurrId
<1> QED
  BY <1>1, <1>2, <1>3

(* A match, a new position and an exit give one row on either path.        *)
LEMMA RowsAgree ==
    ASSUME BooksType, NEW S, StagesHold(S), NEW p \in Pairs
    PROVE  /\ \A x \in Joined(Matching(p)), reconciled \in BOOLEAN :
                 SourceRow(S, p, PrevId(p, x[1]), CurrId(p, x[2]), TRUE, reconciled)
                    = QoqRow(p, x[2], Prev(p)[x[1]], Curr(p)[x[2]], reconciled, TRUE)
           /\ \A g \in Matching(p).news :
                 SourceRow(S, p, None, CurrId(p, g), HasBook(p), FALSE)
                    = QoqRow(p, g, None, Curr(p)[g], FALSE, DOMAIN Prev(p) # {})
           /\ \A g \in Matching(p).exits :
                 SourceRow(S, p, PrevId(p, g), None, TRUE, FALSE)
                    = QoqRow(p, g, Prev(p)[g], None, FALSE, TRUE)
<1>1. /\ \A g \in DOMAIN Prev(p) : Alike(S[PrevId(p, g)], Prev(p)[g])
      /\ \A g \in DOMAIN Curr(p) : Alike(S[CurrId(p, g)], Curr(p)[g])
  BY DEF StagesHold
<1>2. /\ Joined(Matching(p)) \subseteq (DOMAIN Prev(p)) \X (DOMAIN Curr(p))
      /\ Matching(p).exits \subseteq DOMAIN Prev(p)
      /\ Matching(p).news \subseteq DOMAIN Curr(p)
  BY MatchingIs DEF Matching
<1>3. ASSUME NEW x \in Joined(Matching(p)), NEW reconciled \in BOOLEAN
      PROVE  SourceRow(S, p, PrevId(p, x[1]), CurrId(p, x[2]), TRUE, reconciled)
                = QoqRow(p, x[2], Prev(p)[x[1]], Curr(p)[x[2]], reconciled, TRUE)
  <2> DEFINE a == PrevId(p, x[1])
             b == CurrId(p, x[2])
             prev == Prev(p)[x[1]]
             curr == Curr(p)[x[2]]
             key == x[2]
  <2>1. x[1] \in DOMAIN Prev(p) /\ x[2] \in DOMAIN Curr(p)
    BY <1>2
  <2>2. /\ a # None /\ b # None /\ prev # None /\ curr # None
        /\ Alike(S[a], prev) /\ Alike(S[b], curr) /\ key = b[3]
    BY <1>1, <2>1, SidesHold
  <2> HIDE DEF a, b, prev, curr, key
  <2>3. Held(S, a, b, prev, curr, key)
    BY <2>2 DEF Held
  <2>4. \A has \in BOOLEAN : SourceRow(S, p, a, b, has, reconciled)
                              = QoqRow(p, key, prev, curr, reconciled, has)
    BY <2>3, SourceIs
  <2>5. SourceRow(S, p, a, b, TRUE, reconciled)
           = QoqRow(p, key, prev, curr, reconciled, TRUE)
    BY <2>4
  <2> QED
    BY <2>5, Zenon DEF a, b, prev, curr, key
<1>4. ASSUME NEW g \in Matching(p).news
      PROVE  SourceRow(S, p, None, CurrId(p, g), HasBook(p), FALSE)
                = QoqRow(p, g, None, Curr(p)[g], FALSE, DOMAIN Prev(p) # {})
  <2> DEFINE b == CurrId(p, g)
             curr == Curr(p)[g]
             has == HasBook(p)
  <2>1. /\ b # None /\ curr # None /\ Alike(S[b], curr) /\ g = b[3]
    BY <1>1, <1>2, SidesHold
  <2>2. has \in BOOLEAN
    BY DEF HasBook
  <2>3. has = (DOMAIN Prev(p) # {})
    BY <2>2, SidesAre
  <2> HIDE DEF b, curr, has
  <2>4. Held(S, None, b, None, curr, g)
    BY <2>1 DEF Held
  <2>5. \A r \in BOOLEAN : SourceRow(S, p, None, b, has, r)
                            = QoqRow(p, g, None, curr, r, has)
    BY <2>2, <2>4, SourceIs
  <2>6. SourceRow(S, p, None, b, has, FALSE) = QoqRow(p, g, None, curr, FALSE, has)
    BY <2>5
  <2> QED
    BY <2>3, <2>6, Zenon DEF b, curr, has
<1>5. ASSUME NEW g \in Matching(p).exits
      PROVE  SourceRow(S, p, PrevId(p, g), None, TRUE, FALSE)
                = QoqRow(p, g, Prev(p)[g], None, FALSE, TRUE)
  <2> DEFINE a == PrevId(p, g)
             prev == Prev(p)[g]
  <2>1. /\ a # None /\ prev # None /\ Alike(S[a], prev) /\ g = a[3]
    BY <1>1, <1>2, SidesHold
  <2> HIDE DEF a, prev
  <2>2. Held(S, a, None, prev, None, g)
    BY <2>1 DEF Held
  <2>3. \A has, r \in BOOLEAN : SourceRow(S, p, a, None, has, r)
                                 = QoqRow(p, g, prev, None, r, has)
    BY <2>2, SourceIs
  <2>4. SourceRow(S, p, a, None, TRUE, FALSE) = QoqRow(p, g, prev, None, FALSE, TRUE)
    BY <2>3
  <2> QED
    BY <2>4, Zenon DEF a, prev
<1> QED
  BY <1>3, <1>4, <1>5

(* The rows of a comparison: one for every match, new position and exit.   *)
TiedRow(p, x) ==
    QoqRow(p, x[2], Prev(p)[x[1]], Curr(p)[x[2]], x \in Matching(p).bridged, TRUE)
NewRow(p, g) == QoqRow(p, g, None, Curr(p)[g], FALSE, DOMAIN Prev(p) # {})
LeftRow(p, g) == QoqRow(p, g, Prev(p)[g], None, FALSE, TRUE)

Tied(p, d) == \E x \in Joined(Matching(p)) : d = TiedRow(p, x)
Newly(p, d) == \E g \in Matching(p).news : d = NewRow(p, g)
Left(p, d) == \E g \in Matching(p).exits : d = LeftRow(p, g)

(* A row of the oracle's is of a match, of a new position or of an exit.   *)
LEMMA OracleRowsHave ==
    ASSUME NEW p, NEW d
    PROVE  d \in OracleRows(p) <=> Tied(p, d) \/ Newly(p, d) \/ Left(p, d)
<1> DEFINE matched == Matching(p).matched
           bridged == Matching(p).bridged
           news == Matching(p).news
           exits == Matching(p).exits
           Qm(x) == QoqRow(p, x[2], Prev(p)[x[1]], Curr(p)[x[2]], FALSE, TRUE)
           Qb(x) == QoqRow(p, x[2], Prev(p)[x[1]], Curr(p)[x[2]], TRUE, TRUE)
           Qn(g) == QoqRow(p, g, None, Curr(p)[g], FALSE, DOMAIN Prev(p) # {})
           Qe(g) == QoqRow(p, g, Prev(p)[g], None, FALSE, TRUE)
<1>1. OracleRows(p) = {Qm(x) : x \in matched} \cup {Qb(x) : x \in bridged}
         \cup {Qn(g) : g \in news} \cup {Qe(g) : g \in exits}
  BY OracleRowsAre, Zenon
<1>2. matched \cap bridged = {} /\ Joined(Matching(p)) = matched \cup bridged
  BY MatchingIs DEF Matching, Joined
<1>3. ASSUME NEW x \in matched PROVE TiedRow(p, x) = Qm(x)
  <2>1. (x \in Matching(p).bridged) = FALSE
    BY <1>2
  <2> QED
    BY <2>1, Zenon DEF TiedRow
<1>4. ASSUME NEW x \in bridged PROVE TiedRow(p, x) = Qb(x)
  <2>1. (x \in Matching(p).bridged) = TRUE
    OBVIOUS
  <2> QED
    BY <2>1, Zenon DEF TiedRow
<1>5. /\ Newly(p, d) <=> \E g \in news : d = Qn(g)
      /\ Left(p, d) <=> \E g \in exits : d = Qe(g)
  BY Zenon DEF Newly, Left, NewRow, LeftRow
<1> HIDE DEF matched, bridged, news, exits, Qm, Qb, Qn, Qe
<1>6. d \in OracleRows(p) <=>
         \/ \E x \in matched : d = Qm(x)
         \/ \E x \in bridged : d = Qb(x)
         \/ \E g \in news : d = Qn(g)
         \/ \E g \in exits : d = Qe(g)
  BY <1>1
<1> QED
  BY <1>2, <1>3, <1>4, <1>5, <1>6 DEF Tied

(* Both paths compare the books alike.                                     *)
LEMMA DeltasAgree ==
    ASSUME BooksType, OneSuccessor, NEW S, StagesHold(S)
    PROVE  BulkDeltas(S, BulkMatches(S)) = OracleDeltas
<1> DEFINE M == BulkMatches(S)
<1>1. \A p, d : d \in OracleRows(p) <=> Tied(p, d) \/ Newly(p, d) \/ Left(p, d)
  BY OracleRowsHave
<1>2. ASSUME NEW d
      PROVE  (\E m \in M : d = SourceRow(S, m.pair, m.prev, m.curr, TRUE, m.reconciled))
                <=> \E p \in Pairs : Tied(p, d)
  <2> DEFINE F(m) == SourceRow(S, m.pair, m.prev, m.curr, TRUE, m.reconciled)
  <2>1. ASSUME NEW p \in Pairs, NEW x \in Joined(Matching(p))
        PROVE  F(Tie(p, x)) = TiedRow(p, x)
    <3> DEFINE r == x \in Matching(p).bridged
    <3>1. /\ Tie(p, x).pair = p /\ Tie(p, x).prev = PrevId(p, x[1])
          /\ Tie(p, x).curr = CurrId(p, x[2])
      BY DEF Tie, Match
    <3>2. Tie(p, x).reconciled = r
      BY Zenon DEF Tie, Match
    <3>3. F(Tie(p, x)) = SourceRow(S, p, PrevId(p, x[1]), CurrId(p, x[2]), TRUE, r)
      BY <3>1, <3>2, Zenon
    <3>4. r \in BOOLEAN
      OBVIOUS
    <3> HIDE DEF r, F
    <3>5. SourceRow(S, p, PrevId(p, x[1]), CurrId(p, x[2]), TRUE, r)
             = QoqRow(p, x[2], Prev(p)[x[1]], Curr(p)[x[2]], r, TRUE)
      BY <3>4, RowsAgree
    <3> QED
      BY <3>3, <3>5, Zenon DEF r, TiedRow
  <2>2. \A m : m \in M <=>
           \E p \in Pairs : \E x \in Joined(Matching(p)) : m = Tie(p, x)
    BY TiesAre
  <2>3. \A p : Tied(p, d) <=> \E x \in Joined(Matching(p)) : d = TiedRow(p, x)
    BY DEF Tied
  <2> HIDE DEF F, M
  <2>4. (\E m \in M : d = F(m)) <=> \E p \in Pairs : Tied(p, d)
    BY <2>1, <2>2, <2>3
  <2> QED
    BY <2>4, Zenon DEF F
<1>3. ASSUME NEW p \in Pairs, NEW d
      PROVE  /\ d \in {SourceRow(S, p, None, b, HasBook(p), FALSE) :
                          b \in CurrSide(p) \ CurrOf(M)} <=> Newly(p, d)
             /\ d \in {SourceRow(S, p, a, None, TRUE, FALSE) :
                          a \in PrevSide(p) \ PrevOf(M)} <=> Left(p, d)
  <2> DEFINE exits == Matching(p).exits
             news == Matching(p).news
             A == PrevSide(p) \ PrevOf(M)
             B == CurrSide(p) \ CurrOf(M)
             Fn(b) == SourceRow(S, p, None, b, HasBook(p), FALSE)
             Fe(a) == SourceRow(S, p, a, None, TRUE, FALSE)
  <2>1. A = {PrevId(p, g) : g \in exits} /\ B = {CurrId(p, g) : g \in news}
    BY RestIs
  <2>2. /\ \A g \in news : Fn(CurrId(p, g)) = NewRow(p, g)
        /\ \A g \in exits : Fe(PrevId(p, g)) = LeftRow(p, g)
    BY RowsAgree, Zenon DEF NewRow, LeftRow
  <2>3. /\ Newly(p, d) <=> \E g \in news : d = NewRow(p, g)
        /\ Left(p, d) <=> \E g \in exits : d = LeftRow(p, g)
    BY Zenon DEF Newly, Left
  <2> HIDE DEF exits, news, A, B, Fn, Fe
  <2>4. /\ d \in {Fn(b) : b \in B} <=> Newly(p, d)
        /\ d \in {Fe(a) : a \in A} <=> Left(p, d)
    BY <2>1, <2>2, <2>3
  <2> QED
    BY <2>4, Zenon DEF A, B, Fn, Fe
<1> DEFINE First == {SourceRow(S, m.pair, m.prev, m.curr, TRUE, m.reconciled) : m \in M}
           NewOf(p) == {SourceRow(S, p, None, b, HasBook(p), FALSE) :
                           b \in CurrSide(p) \ CurrOf(M)}
           LeftOf(p) == {SourceRow(S, p, a, None, TRUE, FALSE) :
                            a \in PrevSide(p) \ PrevOf(M)}
<1>4. BulkDeltas(S, M) = First \cup (UNION {NewOf(p) : p \in Pairs})
                               \cup (UNION {LeftOf(p) : p \in Pairs})
  BY Zenon DEF BulkDeltas
<1>5. \A d : d \in First <=> \E p \in Pairs : Tied(p, d)
  <2> SUFFICES ASSUME NEW d PROVE d \in First <=> \E p \in Pairs : Tied(p, d)
    OBVIOUS
  <2> DEFINE F(m) == SourceRow(S, m.pair, m.prev, m.curr, TRUE, m.reconciled)
  <2>1. (\E m \in M : d = F(m)) <=> \E p \in Pairs : Tied(p, d)
    BY <1>2, Zenon
  <2>2. First = {F(m) : m \in M}
    BY Zenon
  <2> HIDE DEF F, First, M
  <2> QED
    BY <2>1, <2>2
<1>6. \A p \in Pairs : \A d : (d \in NewOf(p) <=> Newly(p, d))
                              /\ (d \in LeftOf(p) <=> Left(p, d))
  BY <1>3, Zenon
<1> HIDE DEF First, NewOf, LeftOf
<1>7. \A d : d \in BulkDeltas(S, M) <=> \E p \in Pairs : d \in OracleRows(p)
  <2> HIDE DEF M
  <2> QED
    BY <1>1, <1>4, <1>5, <1>6
<1> QED
  BY <1>7 DEF OracleDeltas

(* The weights of a book are within the range of an integer.               *)
LEMMA WeightsAre ==
    ASSUME BooksType, ~Signed, NEW c \in Ciks, NEW q \in Quarters
    PROVE  /\ IsFiniteSet(DOMAIN Weights(Book(c, q)))
           /\ Weights(Book(c, q)) \in [DOMAIN Weights(Book(c, q)) -> 0 .. MaxInt]
<1> DEFINE book == Book(c, q)
           known == {r \in book : r.value # None}
           D == {HoldingKey(r) : r \in known}
           rows(k) == {r \in known : HoldingKey(r) = k}
           u == Weights(book)
<1>1. u = [k \in D |-> SumOf([r \in rows(k) |-> r.value])]
  BY Zenon DEF Weights
<1>2. Proper(book) /\ Unsigned(book) /\ book \in Offers[c][q] \cup {{}}
  BY BookIs, BookUnsigned
<1>3. known \subseteq book /\ IsFiniteSet(known)
  BY <1>2, FS_Subset DEF Proper
<1>4. IsFiniteSet(D)
  <2> DEFINE f == [r \in known |-> HoldingKey(r)]
             T == {f[r] : r \in known}
  <2>1. f = [r \in known |-> f[r]] /\ T = D
    OBVIOUS
  <2> HIDE DEF f, D, known
  <2>2. IsFiniteSet(T)
    BY <1>3, <2>1, ImageIs
  <2> QED
    BY <2>1, <2>2
<1>5. ASSUME NEW k \in D PROVE u[k] \in Nat
  <2> DEFINE R == rows(k)
             v == [r \in R |-> r.value]
  <2>1. R \subseteq known /\ IsFiniteSet(R)
    BY <1>3, FS_Subset
  <2>2. \A r \in R : r.value \in Nat
    <3>1. \A r \in R : r \in book /\ r.value # None
      OBVIOUS
    <3> HIDE DEF R, book
    <3> QED
      BY <1>2, <3>1 DEF Unsigned
  <2>3. Weighs(v, R) /\ \A r \in R : v[r] >= 0
    <3> HIDE DEF R
    <3>1. \A r \in R : v[r] \in Nat
      BY <2>2
    <3> QED
      BY <2>1, <3>1 DEF Weighs
  <2>4. SumOf(v) = Part(v, R) /\ Part(v, R) \in Nat
    <3> HIDE DEF v, R
    <3>1. R \in SUBSET R
      OBVIOUS
    <3> QED
      BY <2>3, <3>1, SumIsPart, PartNat
  <2>5. u[k] = SumOf(v)
    <3> HIDE DEF u, D, known
    <3> QED
      BY <1>1
  <2> QED
    BY <2>4, <2>5
<1>6. ASSUME NEW k \in D PROVE u[k] <= MaxInt
  <2>1. book # {}
    <3>1. known # {}
      OBVIOUS
    <3> QED
      BY <1>3, <3>1
  <2>2. book \in Offers[c][q]
    BY <1>2, <2>1
  <2>3. k \in DOMAIN u
    <3> HIDE DEF u, D, known
    <3> QED
      BY <1>1
  <2> QED
    BY <2>2, <2>3, WorthAssumption
<1>7. u \in [D -> 0 .. MaxInt] /\ DOMAIN u = D
  <2> HIDE DEF D, u, known
  <2>1. \A k \in D : u[k] \in 0 .. MaxInt
    BY <1>5, <1>6, Sized
  <2> QED
    BY <1>1, <2>1
<1> QED
  BY <1>4, <1>7

(* The first rows of any descending order add up to the largest sum of as  *)
(* many weights: an element outside a largest subset that exceeds one      *)
(* inside could be exchanged for it.                                       *)
LEMMA FirstRowsAre ==
    ASSUME NEW D, NEW w \in [D -> Nat], IsFiniteSet(D)
    PROVE  /\ FirstRows(w) \in SUBSET D
           /\ SumOf([k \in FirstRows(w) |-> w[k]]) = TopSum(w)
<1> DEFINE n == SmallerOf(TopN, Cardinality(D))
           F == kSubset(n, D)
           Ordered(T) == \A k \in T, h \in D \ T : w[h] <= w[k]
           p == [T \in F |-> Part(w, T)]
           sums == {p[T] : T \in F}
<1>1. /\ DOMAIN w = D /\ Weighs(w, D) /\ \A x \in D : w[x] \in Nat /\ w[x] >= 0
      /\ Cardinality(D) \in Nat /\ n \in Nat /\ n <= Cardinality(D)
  BY InstAggregatesAssumption, FS_CardinalityType DEF Weighs, SmallerOf
<1>2. F = {T \in SUBSET D : Cardinality(T) = n}
  BY DEF kSubset
<1> HIDE DEF n
<1>3. F # {} /\ IsFiniteSet(F)
  <2>1. F # {}
    BY <1>1, <1>2, SubsetOfSize
  <2>2. IsFiniteSet(SUBSET D) /\ F \subseteq SUBSET D
    BY <1>2, FS_SUBSET
  <2> HIDE DEF F
  <2> QED
    BY <2>1, <2>2, FS_Subset
<1>4. \A T \in SUBSET D : Part(w, T) \in Nat /\ IsFiniteSet(T)
  BY <1>1, PartNat, FS_Subset
<1>5. sums \in SUBSET Nat /\ IsFiniteSet(sums) /\ sums # {}
  <2>1. p = [T \in F |-> p[T]] /\ \A T \in F : p[T] \in Nat
    BY <1>2, <1>4
  <2> HIDE DEF p, F
  <2> QED
    BY <1>3, <2>1, ImageIs
<1>6. /\ Max(sums) \in sums /\ \A y \in sums : y <= Max(sums)
  <2> HIDE DEF sums
  <2> QED
    BY <1>5, Extremes
<1>7. \A T \in F : Part(w, T) \in sums
  <2>1. \A T \in F : p[T] = Part(w, T)
    OBVIOUS
  <2> HIDE DEF p, F
  <2> QED
    BY <2>1
<1>8. PICK T \in F : Part(w, T) = Max(sums)
  <2>1. \A T \in F : p[T] = Part(w, T)
    OBVIOUS
  <2>2. \E T \in F : p[T] = Max(sums)
    <3> HIDE DEF p, F
    <3> QED
      BY <1>6
  <2> HIDE DEF p, F, sums
  <2> QED
    BY <2>1, <2>2
<1>9. TopSum(w) = Max(sums)
  <2>1. {SumOf([k \in U |-> w[k]]) : U \in F} = sums
    BY DEF Part
  <2>2. TopSum(w) = Max({SumOf([k \in U |-> w[k]]) : U \in F})
    BY <1>1, Zenon DEF TopSum, n
  <2> QED
    BY <2>1, <2>2, Zenon
<1>10. Ordered(T)
  <2> SUFFICES ASSUME NEW k \in T, NEW h \in D \ T, ~(w[h] <= w[k]) PROVE FALSE
    OBVIOUS
  <2> DEFINE R == T \ {k}
             U == R \cup {h}
  <2>1. /\ T \in SUBSET D /\ Cardinality(T) = n /\ IsFiniteSet(T) /\ IsFiniteSet(R)
        /\ R \in SUBSET D /\ U \in SUBSET D
    BY <1>2, <1>4
  <2>2. Cardinality(R) = n - 1 /\ Cardinality(U) = Cardinality(R) + 1
    <3>1. k \in T /\ h \notin R
      OBVIOUS
    <3> HIDE DEF F
    <3> QED
      BY <2>1, <3>1, FS_RemoveElement, FS_AddElement
  <2>3. U \in F
    BY <1>1, <1>2, <2>1, <2>2
  <2>4. U \ {h} = R
    OBVIOUS
  <2>5. Part(w, U) = w[h] + Part(w, R) /\ Part(w, T) = w[k] + Part(w, R)
    <3>1. Part(w, U) = w[h] + Part(w, U \ {h}) /\ Part(w, T) = w[k] + Part(w, R)
      BY <1>1, <2>1, PartRemove
    <3> QED
      BY <2>4, <3>1, Zenon
  <2>6. Part(w, U) <= Part(w, T)
    <3> HIDE DEF U, F, sums
    <3> QED
      BY <1>6, <1>7, <1>8, <2>3
  <2>7. w[h] \in Nat /\ w[k] \in Nat /\ Part(w, R) \in Nat
    BY <1>1, <1>4, <2>1
  <2> HIDE DEF R, U
  <2> QED
    BY <2>5, <2>6, <2>7
<1>11. FirstRows(w) \in F /\ Ordered(FirstRows(w))
  <2>1. FirstRows(w) = CHOOSE U \in F : Ordered(U)
    BY <1>1, Zenon DEF FirstRows, n
  <2>2. \E U \in F : Ordered(U)
    BY <1>10
  <2> HIDE DEF F, Ordered
  <2> QED
    BY <2>1, <2>2
<1>12. ASSUME NEW U \in F, Ordered(U) PROVE Part(w, T) <= Part(w, U)
  <2>1. /\ T \in SUBSET D /\ U \in SUBSET D /\ Cardinality(T) = Cardinality(U)
        /\ \A a \in T \ U, b \in U \ T : w[a] <= w[b]
    BY <1>2, <1>12
  <2> HIDE DEF F
  <2> QED
    BY <1>1, <2>1, PartExchanged
<1>13. Part(w, FirstRows(w)) = Max(sums)
  <2> DEFINE U == FirstRows(w)
  <2>1. U \in F /\ Ordered(U)
    BY <1>11
  <2> HIDE DEF U, Ordered
  <2>2. Part(w, T) <= Part(w, U)
    BY <1>12, <2>1
  <2>3. Part(w, U) \in sums /\ Part(w, U) \in Nat /\ Part(w, T) \in Nat
    BY <1>2, <1>4, <1>7, <2>1
  <2>4. Part(w, U) <= Max(sums)
    <3> HIDE DEF sums
    <3> QED
      BY <1>6, <2>3
  <2>5. Part(w, U) = Max(sums)
    <3> HIDE DEF sums
    <3> QED
      BY <1>8, <2>2, <2>3, <2>4
  <2> QED
    BY <2>5 DEF U
<1>14. FirstRows(w) \in SUBSET D
  BY <1>2, <1>11
<1> QED
  BY <1>9, <1>13, <1>14, Zenon DEF Part

(* Nothing adds up to zero.                                                *)
LEMMA NothingAddsUp ==
    ASSUME NEW w \in [{} -> Int] PROVE SumOf(w) = 0
<1>1. Weighs(w, {})
  BY FS_EmptySet DEF Weighs
<1> QED
  BY <1>1, SumIsPart, PartType

(* The record that either path makes of the same figures.                  *)
Joint(c, q, size, total, nulls, top, squares, max) ==
    LET known == total > 0 /\ nulls = 0 IN
    [cik |-> c, quarter |-> q, positions |-> size,
     total |-> total, nulls |-> nulls, top |-> top,
     topShare |-> IF known THEN (top * 10000) \div total ELSE None,
     hhi |-> IF known THEN (squares * 10000) \div (total * total) ELSE None,
     maxShare |-> IF ~known THEN None
                  ELSE IF max = None THEN 0 ELSE (max * 10000) \div total]

Direct(c, q, size, total, nulls, top, squares, none, max) ==
    LET Share(x) == IF total > 0 /\ nulls = 0
                    THEN (x * 10000) \div total ELSE None
    IN [cik |-> c, quarter |-> q, positions |-> size,
        total |-> total, nulls |-> nulls, top |-> top, topShare |-> Share(top),
        hhi |-> IF Share(0) = None THEN None
                ELSE (squares * 10000) \div (total * total),
        maxShare |-> IF none THEN Share(0) ELSE Share(max)]

LEMMA RecordsAgree ==
    ASSUME NEW c, NEW q, NEW size, NEW total \in Int, NEW nulls, NEW top,
           NEW squares, NEW none \in BOOLEAN, NEW max, none \/ max \in Nat
    PROVE  Joint(c, q, size, total, nulls, top, squares, IF none THEN None ELSE max)
              = Direct(c, q, size, total, nulls, top, squares, none, max)
<1> DEFINE known == total > 0 /\ nulls = 0
           most == IF none THEN None ELSE max
           Share(x) == IF known THEN (x * 10000) \div total ELSE None
<1>1. None \notin Int
  BY SentinelAssumption
<1>2. known => Share(0) = 0
  OBVIOUS
<1>3. (IF known THEN (squares * 10000) \div (total * total) ELSE None)
         = (IF Share(0) = None THEN None ELSE (squares * 10000) \div (total * total))
  BY <1>1, <1>2
<1>4. (IF ~known THEN None ELSE IF most = None THEN 0 ELSE (most * 10000) \div total)
         = (IF none THEN Share(0) ELSE Share(max))
  BY <1>1, <1>2
<1> QED
  BY <1>3, <1>4 DEF Joint, Direct

(* The concentration of a filing, whatever it is joined with.              *)
LEMMA ConcentrationIs ==
    ASSUME BooksType, ~Signed, NEW c \in Ciks, NEW q \in Quarters
    PROVE  BulkConcentration(c, q) = OracleConcentration(c, q)
<1> DEFINE book == Book(c, q)
           w == Weights(book)
           sum == KnownSum([r \in book |-> r.value])
           missing == Cardinality({r \in book : r.value = None})
           size == Cardinality(book)
           rows == book # {}
           stats == DOMAIN w # {}
           none == DOMAIN w = {}
           first == SumOf([k \in FirstRows(w) |-> w[k]])
           largest == Max({w[k] : k \in DOMAIN w})
<1>1. IsFiniteSet(DOMAIN w) /\ w \in [DOMAIN w -> 0 .. MaxInt]
  BY WeightsAre
<1>2. w \in [DOMAIN w -> Nat]
  <2> HIDE DEF w
  <2> QED
    BY <1>1, Sized
<1>3. ASSUME book = {} PROVE sum = 0 /\ missing = 0 /\ size = 0
  <2> DEFINE v == [r \in book |-> r.value]
             nil == [x \in Disclosed(v) |-> v[x]]
  <2>1. Disclosed(v) = {} /\ {r \in book : r.value = None} = {}
    BY <1>3 DEF Disclosed
  <2>2. nil \in [{} -> Int]
    BY <2>1
  <2>3. sum = SumOf(nil)
    BY Zenon DEF KnownSum
  <2>4. SumOf(nil) = 0
    <3> HIDE DEF nil
    <3> QED
      BY <2>2, NothingAddsUp
  <2> QED
    BY <1>3, <2>1, <2>3, <2>4, FS_EmptySet
<1>4. /\ Coalesce(rows, sum) = sum /\ Coalesce(rows, missing) = missing
      /\ Coalesce(rows, size) = size
  <2> HIDE DEF sum, missing, size, book
  <2> QED
    BY <1>3 DEF Coalesce
<1>5. /\ Coalesce(stats, first) = TopSum(w)
      /\ Coalesce(stats, BulkSquareSum(w)) = SquareSum(w)
  <2> HIDE DEF w
  <2>1. /\ FirstRows(w) \in SUBSET DOMAIN w /\ first = TopSum(w)
        /\ BulkSquareSum(w) = SquareSum(w)
    BY <1>1, <1>2, FirstRowsAre, BulkSquareSumIs
  <2>2. ASSUME DOMAIN w = {} PROVE TopSum(w) = 0 /\ SquareSum(w) = 0
    <3> DEFINE t == [k \in FirstRows(w) |-> w[k]]
               s == [k \in DOMAIN w |-> w[k] * w[k]]
    <3>1. t \in [{} -> Int] /\ s \in [{} -> Int]
      BY <2>1, <2>2
    <3>2. first = SumOf(t) /\ SquareSum(w) = SumOf(s)
      BY Zenon DEF SquareSum
    <3> HIDE DEF t, s
    <3>3. SumOf(t) = 0 /\ SumOf(s) = 0
      BY <3>1, NothingAddsUp
    <3> HIDE DEF first
    <3> QED
      BY <2>1, <3>2, <3>3
  <2> HIDE DEF first
  <2> QED
    BY <2>1, <2>2 DEF Coalesce
<1>6. stats => largest \in Nat
  <2> DEFINE values == {w[k] : k \in DOMAIN w}
  <2>1. w = [k \in DOMAIN w |-> w[k]] /\ values \in SUBSET Nat /\ (stats => values # {})
    <3> HIDE DEF w
    <3> QED
      BY <1>2
  <2>2. IsFiniteSet(values)
    <3> HIDE DEF w
    <3> QED
      BY <1>1, <2>1, ImageIs
  <2> HIDE DEF values
  <2>3. stats => Max(values) \in Nat
    BY <2>1, <2>2, Extremes
  <2> QED
    BY <2>3 DEF values
<1>7. sum \in Int
  <2> DEFINE v == [r \in book |-> r.value]
  <2>1. IsFiniteSet(book) /\ v \in [book -> Int \cup {None}]
    BY BookIs DEF Proper, Row
  <2> HIDE DEF v
  <2>2. KnownSum(v) \in Int
    BY <2>1, DisclosedIs
  <2> QED
    BY <2>2 DEF v
<1>8. BulkConcentration(c, q) =
        Joint(c, q, Coalesce(rows, size), Coalesce(rows, sum), Coalesce(rows, missing),
              Coalesce(stats, first), Coalesce(stats, BulkSquareSum(w)),
              IF stats THEN largest ELSE None)
  BY DEF BulkConcentration, Joint
<1>9. OracleConcentration(c, q) =
        Direct(c, q, size, sum, missing, TopSum(w), SquareSum(w), none, largest)
  BY DEF OracleConcentration, Direct
<1>10. BulkConcentration(c, q) =
        Joint(c, q, size, sum, missing, TopSum(w), SquareSum(w),
              IF none THEN None ELSE largest)
  <2>1. (IF stats THEN largest ELSE None) = (IF none THEN None ELSE largest)
    <3> HIDE DEF w, largest
    <3> QED
      OBVIOUS
  <2> HIDE DEF size, sum, missing, rows, stats, none, first, w, largest
  <2> QED
    BY <1>4, <1>5, <1>8, <2>1, Zenon
<1> QED
  <2>1. none \in BOOLEAN /\ (none \/ largest \in Nat)
    <3> HIDE DEF w, largest
    <3> QED
      BY <1>6
  <2> HIDE DEF size, sum, missing, rows, stats, none, first, w, largest
  <2>2. Joint(c, q, size, sum, missing, TopSum(w), SquareSum(w),
              IF none THEN None ELSE largest)
          = Direct(c, q, size, sum, missing, TopSum(w), SquareSum(w), none, largest)
    BY <1>7, <2>1, RecordsAgree
  <2> QED
    BY <1>9, <1>10, <2>2, Zenon

(* So the concentrations are the same in either path.                      *)
LEMMA ConcentrationsAgree ==
    ASSUME BooksType, ~Signed PROVE BulkConcentrations = OracleConcentrations
<1>1. ASSUME NEW c \in Ciks, NEW q \in Filed(c)
      PROVE  BulkConcentration(c, q) = OracleConcentration(c, q)
  BY ConcentrationIs DEF Filed
<1> QED
  BY <1>1 DEF BulkConcentrations, OracleConcentrations

(* Values that are summed in groups of rows, and then over the groups, add *)
(* up to what the rows do.                                                 *)
LEMMA GroupsAddUp ==
    ASSUME NEW rows, Proper(rows)
    PROVE  SumOf([n \in {Spelling(r) : r \in rows} |->
                    KnownSum([r \in Spelled(rows, n) |-> r.value])])
              = KnownSum([r \in rows |-> r.value])
<1> DEFINE groups == {Spelling(r) : r \in rows}
           v == [r \in rows |-> r.value]
           K == Disclosed(v)
           known == [r \in K |-> v[r]]
           w == [n \in groups |-> KnownSum([r \in Spelled(rows, n) |-> r.value])]
           Of(N) == {r \in K : Spelling(r) \in N}
<1>1. IsFiniteSet(rows) /\ v \in [rows -> Int \cup {None}]
  BY DEF Proper, Row
<1>2. K \in SUBSET rows /\ KnownSum(v) = Part(v, K)
  <2> HIDE DEF v
  <2> QED
    BY <1>1, DisclosedIs
<1>3. Weighs(known, K) /\ \A r \in K : known[r] = r.value
  <2>1. IsFiniteSet(K)
    <3> HIDE DEF K
    <3> QED
      BY <1>1, <1>2, FS_Subset
  <2>2. \A r \in K : v[r] \in Int /\ v[r] = r.value
    BY <1>1, <1>2 DEF Disclosed
  <2> HIDE DEF K, v
  <2> QED
    BY <2>1, <2>2 DEF Weighs
<1>4. ASSUME NEW n \in groups
      PROVE  w[n] = Part(known, Of({n}))
  <2> DEFINE R == Spelled(rows, n)
             u == [r \in R |-> r.value]
             D == Disclosed(u)
  <2>1. R \subseteq rows /\ IsFiniteSet(R)
    BY <1>1, FS_Subset DEF Spelled
  <2>2. \A r \in R : u[r] = v[r] /\ v[r] \in Int \cup {None}
    BY <1>1, <2>1
  <2>3. u \in [R -> Int \cup {None}]
    <3> HIDE DEF R, v
    <3> QED
      BY <2>2
  <2>4. KnownSum(u) = Part(u, D)
    <3> HIDE DEF u, R
    <3> QED
      BY <2>1, <2>3, DisclosedIs
  <2>5. D = Of({n})
    BY <2>1, <2>2 DEF Disclosed, Spelled
  <2>6. \A r \in D : u[r] = known[r]
    BY <1>3, <2>5 DEF Disclosed
  <2>7. Part(u, D) = Part(known, D)
    <3> HIDE DEF u, D, known
    <3> QED
      BY <2>6, PartSame
  <2>8. w[n] = KnownSum(u)
    OBVIOUS
  <2> HIDE DEF w, u, D, known
  <2> QED
    BY <2>4, <2>5, <2>7, <2>8, Zenon
<1>5. IsFiniteSet(groups)
  <2> DEFINE f == [r \in rows |-> Spelling(r)]
             T == {f[r] : r \in rows}
  <2>1. f = [r \in rows |-> f[r]] /\ T = groups
    OBVIOUS
  <2>2. IsFiniteSet(T)
    <3> HIDE DEF f
    <3> QED
      BY <1>1, <2>1, ImageIs
  <2> HIDE DEF T
  <2> QED
    BY <2>1, <2>2
<1>6. Weighs(w, groups)
  <2>1. \A n \in groups : Part(known, Of({n})) \in Int
    <3>1. \A n : Of({n}) \in SUBSET K
      OBVIOUS
    <3> HIDE DEF known, K, Of
    <3> QED
      BY <1>3, <3>1, PartType
  <2>2. \A n \in groups : w[n] \in Int
    <3> HIDE DEF w, known, Of
    <3> QED
      BY <1>4, <2>1
  <2>3. w = [n \in groups |-> w[n]]
    OBVIOUS
  <2> HIDE DEF w
  <2> QED
    BY <1>5, <2>2, <2>3 DEF Weighs
<1> DEFINE Good == {N \in SUBSET groups : Part(w, N) = Part(known, Of(N))}
<1>7. {} \in Good
  <2>1. Of({}) = {}
    OBVIOUS
  <2> HIDE DEF w, known, Of
  <2> QED
    BY <1>3, <1>6, <2>1, PartType
<1>8. ASSUME NEW N \in SUBSET groups, NEW n \in N, N \ {n} \in Good
      PROVE  N \in Good
  <2>1. Part(w, N) = w[n] + Part(w, N \ {n})
    <3> HIDE DEF w
    <3> QED
      BY <1>6, PartRemove
  <2>2. /\ Of(N) \in SUBSET K /\ Of({n}) \in SUBSET Of(N)
        /\ Of(N) \ Of({n}) = Of(N \ {n})
    OBVIOUS
  <2>3. Part(known, Of(N)) = Part(known, Of({n})) + Part(known, Of(N \ {n}))
    <3> DEFINE T == Of(N)
               R == Of({n})
    <3>1. T \in SUBSET K /\ R \in SUBSET T /\ T \ R = Of(N \ {n})
      BY <2>2
    <3>2. Weighs(known, K)
      BY <1>3
    <3> HIDE DEF T, R, known, K
    <3>3. Part(known, T) = Part(known, R) + Part(known, T \ R)
      BY <3>1, <3>2, PartWithout
    <3> HIDE DEF Of
    <3> QED
      BY <3>1, <3>3, Zenon DEF T, R
  <2>4. w[n] = Part(known, Of({n})) /\ Part(w, N \ {n}) = Part(known, Of(N \ {n}))
    <3> HIDE DEF w, known, Of
    <3> QED
      BY <1>4, <1>8
  <2>5. Part(w, N) = Part(known, Of(N))
    <3> HIDE DEF w, known, Of
    <3> QED
      BY <2>1, <2>3, <2>4, Zenon
  <2> QED
    BY <2>5
<1>9. groups \in Good
  <2>1. Good \in SUBSET SUBSET groups /\ groups \in SUBSET groups
    OBVIOUS
  <2> HIDE DEF Good, groups
  <2>2. \A N \in SUBSET groups : \A n \in N : N \ {n} \in Good => N \in Good
    BY <1>8
  <2>3. \A N \in SUBSET groups : N \in Good
    BY <1>5, <1>7, <2>1, <2>2, SetInduction
  <2> QED
    BY <2>1, <2>3
<1>10. Of(groups) = K
  BY <1>2
<1>11. Part(known, K) = Part(v, K)
  <2>1. \A r \in K : known[r] = v[r]
    OBVIOUS
  <2> HIDE DEF known, v, K
  <2> QED
    BY <2>1, PartSame
<1>12. SumOf(w) = Part(w, groups)
  <2> HIDE DEF w
  <2> QED
    BY <1>6, SumIsPart
<1>13. Part(w, groups) = Part(known, Of(groups))
  BY <1>9
<1>14. SumOf(w) = KnownSum(v)
  <2> HIDE DEF w, v, known, K, Of
  <2> QED
    BY <1>2, <1>10, <1>11, <1>12, <1>13, Zenon
<1> QED
  BY <1>14, Zenon

(* The stages give an issuer's holder what the oracle accumulates.         *)
LEMMA HolderIs ==
    ASSUME BooksType, NEW c \in Ciks, NEW q \in Quarters, NEW i
    PROVE  StagedHolder(i, q, c) = OracleHolder(i, q, c)
<1> DEFINE rows == HeldOf(i, q, c)
           groups == {Spelling(r) : r \in rows}
           named == i[1] = "name"
           grouped == SumOf([n \in groups |->
                               KnownSum([r \in Spelled(rows, n) |-> r.value])])
           total == KnownSum([r \in rows |-> r.value])
           hidden == \E n \in groups : \E r \in Spelled(rows, n) : r.value = None
           missing == \E r \in rows : r.value = None
<1>1. Proper(rows)
  <2>1. Proper(Book(c, q)) /\ rows \subseteq Book(c, q)
    BY BookIs DEF HeldOf
  <2> HIDE DEF rows
  <2> QED
    BY <2>1, FS_Subset DEF Proper
<1>2. grouped = total
  <2> HIDE DEF rows
  <2> QED
    BY <1>1, GroupsAddUp
<1>3. {n[2] : n \in groups} = {SecurityOf(r) : r \in rows}
  <2>1. \A r : Spelling(r)[2] = SecurityOf(r)
    BY DEF Spelling
  <2> HIDE DEF rows
  <2> QED
    BY <2>1
<1>4. hidden <=> missing
  <2> HIDE DEF rows
  <2> QED
    BY DEF Spelled
<1>5. (IF named THEN hidden ELSE missing) = missing
  <2>1. hidden \in BOOLEAN /\ missing \in BOOLEAN
    OBVIOUS
  <2> HIDE DEF hidden, missing
  <2> QED
    BY <1>4, <2>1
<1>6. /\ (IF named THEN grouped ELSE total) = total
      /\ (IF named THEN Cardinality({n[2] : n \in groups})
          ELSE Cardinality({SecurityOf(r) : r \in rows}))
            = Cardinality({SecurityOf(r) : r \in rows})
  <2> HIDE DEF grouped, total
  <2> QED
    BY <1>2, <1>3, Zenon
<1>7. StagedHolder(i, q, c) =
        [issuer |-> i, quarter |-> q, cik |-> c, value |-> total,
         securities |-> Cardinality({SecurityOf(r) : r \in rows}),
         flags |-> HolderFlags(i, q, c, missing)]
  BY <1>5, <1>6, Zenon DEF StagedHolder
<1> QED
  BY <1>7, Zenon DEF OracleHolder

(* So the holders are the same in either path.                             *)
LEMMA HoldersAgree ==
    ASSUME BooksType PROVE StagedHolders = OracleHolders
<1>1. \A c \in Ciks, q \in Quarters : \A i : StagedHolder(i, q, c) = OracleHolder(i, q, c)
  BY HolderIs
<1> QED
  BY <1>1 DEF StagedHolders, OracleHolders

(* The bulk path derives what the oracle derives.                          *)
LEMMA ResultsAgree ==
    ASSUME BooksType, OneSuccessor PROVE BulkResult = OracleResult
<1> DEFINE S == StagedPositions
           M == BulkMatches(S)
<1>1. CASE ~BulkEligible(S)
  BY <1>1, Zenon DEF BulkResult
<1>2. CASE BulkEligible(S)
  <2>1. StagesHold(S) /\ ~Signed
    BY <1>2, EligibleHolds DEF BulkEligible
  <2>2. SidesAreUnique(M) /\ BulkDeltas(S, M) = OracleDeltas
    BY <2>1, UniqueIs, DeltasAgree
  <2>3. BulkConcentrations = OracleConcentrations /\ StagedHolders = OracleHolders
    BY <2>1, ConcentrationsAgree, HoldersAgree
  <2>4. BulkResult = Gated(BulkDeltas(S, M), BulkConcentrations, StagedHolders)
    BY <1>2, <2>2, Zenon DEF BulkResult
  <2> QED
    BY <2>2, <2>3, <2>4, Zenon DEF OracleResult
<1> QED
  BY <1>1, <1>2

(***************************************************************************)
(* What is derived depends on the books alone.                             *)
(***************************************************************************)
(* The changes depend on the books alone.                                  *)
LEMMA DeltasKeep == ASSUME books' = books PROVE OracleDeltas' = OracleDeltas
BY DEF Filed, Pairs, Bridgeable, Predecessor, OracleRows, OracleDeltas, Book

(* So do the concentration,                                                *)
LEMMA ConcentrationsKeep ==
    ASSUME books' = books PROVE OracleConcentrations' = OracleConcentrations
BY DEF Book, Filed, OracleConcentration, OracleConcentrations

(* the issuers' holders and the leaderboard,                               *)
LEMMA IssuersKeep ==
    ASSUME books' = books
    PROVE  /\ OracleHolders' = OracleHolders
           /\ \A d : IssuerAdds(d)' = IssuerAdds(d)
           /\ \A d : AddsExclusions(d)' = AddsExclusions(d)
<1>1. \A c, q : Book(c, q)' = Book(c, q) /\ Issuers(c, q)' = Issuers(c, q)
  BY DEF Book, Issuers
<1>2. OracleHolders' = OracleHolders
  <2>1. \A i, q, c, u : HolderFlags(i, q, c, u)' = HolderFlags(i, q, c, u)
    BY DEF HolderFlags
  <2>2. \A i, q, c : HeldOf(i, q, c)' = HeldOf(i, q, c)
    BY <1>1 DEF HeldOf
  <2>3. \A i, q, c : OracleHolder(i, q, c)' = OracleHolder(i, q, c)
    BY <2>1, <2>2 DEF OracleHolder
  <2> QED
    BY <1>1, <2>3 DEF OracleHolders
<1>3. \A d : IssuerAdds(d)' = IssuerAdds(d)
  BY DEF Book, Issuers, GrainIssuers, Credited, AddsRow, IssuerAdds
<1>4. \A d : AddsExclusions(d)' = AddsExclusions(d)
  BY DEF Book, GrainIssuers, Filed, AddsExclusions
<1> QED
  BY <1>2, <1>3, <1>4

(* the holders of the tickers,                                             *)
LEMMA TickersKeep == ASSUME books' = books PROVE TickerHolders' = TickerHolders
<1>1. ClosedQuarters' = ClosedQuarters
  BY DEF Filed, Watermark, ClosedQuarters
<1>2. \A q : PriorQuarter(q)' = PriorQuarter(q)
  BY <1>1 DEF PriorQuarter
<1>3. \A t, c, q : ClassRows(t, c, q)' = ClassRows(t, c, q)
  BY DEF ClassRows, Book
<1>4. \A c, q : FiledIn(c, q)' = FiledIn(c, q)
  BY DEF FiledIn
<1>5. ASSUME NEW t, NEW c, NEW q
      PROVE  HolderRow(t, c, q)' = HolderRow(t, c, q)
  BY <1>2, <1>3, <1>4, Zenon DEF HolderRow
<1>6. \A t, q : HoldersOf(t, q)' = HoldersOf(t, q)
  BY <1>2, <1>3, <1>5 DEF HoldersOf
<1>7. Tickers' = Tickers
  BY DEF Tickers, Book
<1> QED
  BY <1>1, <1>6, <1>7 DEF TickerHolders

(* and so all that is derived.                                             *)
LEMMA ResultKeeps == ASSUME books' = books PROVE OracleResult' = OracleResult
<1>1. Filers' = Filers /\ RegistryRefuses' = RegistryRefuses
  BY DEF Filers, Filed, RegistryRefuses
<1>2. ASSUME NEW d, NEW k, NEW h
      PROVE  Tables(d, k, h)' = Tables(d, k, h)
  <2>1. IssuerRows(h)' = IssuerRows(h)
    BY DEF IssuerRows, IssuerRank
  <2>2. BookDiscontinuity(d)' = BookDiscontinuity(d)
    BY DEF BookDiscontinuity
  <2>3. IssuerAdds(d)' = IssuerAdds(d) /\ AddsExclusions(d)' = AddsExclusions(d)
    BY IssuersKeep
  <2> QED
    BY <1>1, <2>1, <2>2, <2>3, TickersKeep DEF Tables
<1>3. ASSUME NEW d, NEW k, NEW h
      PROVE  Gated(d, k, h)' = Gated(d, k, h)
  BY <1>1, <1>2 DEF Gated
<1>4. /\ OracleDeltas' = OracleDeltas /\ OracleHolders' = OracleHolders
      /\ OracleConcentrations' = OracleConcentrations
  BY DeltasKeep, ConcentrationsKeep, IssuersKeep
<1> QED
  BY <1>3, <1>4 DEF OracleResult

(***************************************************************************)
(* The specification.                                                      *)
(***************************************************************************)
AggregateIInv == BooksType /\ (agg # None => agg = OracleResult)

(* Nothing is filed at first.                                              *)
LEMMA InitIInv == Init => AggregateIInv
BY DEF Init, AggregateIInv, BooksType

(* A load files one report.                                                *)
LEMMA LoadKeepsBooks ==
    ASSUME BooksType, NEW c \in Ciks, NEW q \in Quarters, Load(c, q)
    PROVE  BooksType'
<1>1. PICK b \in Offers[c][q] : books' = [books EXCEPT ![c][q] = b]
  BY DEF Load
<1>2. ASSUME NEW d \in Ciks
      PROVE  books'[d] = IF d = c THEN [books[c] EXCEPT ![q] = b] ELSE books[d]
  BY <1>1 DEF BooksType
<1>3. books' = [d \in Ciks |-> books'[d]]
  BY <1>1 DEF BooksType
<1>4. ASSUME NEW d \in Ciks
      PROVE  books'[d] = [r \in Quarters |-> books'[d][r]]
  BY <1>2, <1>4 DEF BooksType
<1>5. ASSUME NEW d \in Ciks, NEW r \in Quarters
      PROVE  books'[d][r] # None => books'[d][r] \in Offers[d][r]
  BY <1>2, <1>5 DEF BooksType
<1> QED
  BY <1>3, <1>4, <1>5 DEF BooksType

(* No step derives anything but what the oracle derives.                   *)
LEMMA NextIInv ==
    ASSUME OneSuccessor, AggregateIInv, [Next]_vars PROVE AggregateIInv'
<1>1. ASSUME NEW c \in Ciks, NEW q \in Quarters, Load(c, q)
      PROVE  AggregateIInv'
  <2>1. BooksType'
    BY <1>1, LoadKeepsBooks DEF AggregateIInv
  <2>2. agg' = None
    BY <1>1 DEF Load
  <2> QED
    BY <2>1, <2>2 DEF AggregateIInv
<1>2. ASSUME books' = books PROVE BooksType' /\ OracleResult' = OracleResult
  BY <1>2, ResultKeeps DEF AggregateIInv, BooksType
<1>3. CASE DeriveBulk
  <2>1. agg' = BulkResult /\ books' = books
    BY <1>3 DEF DeriveBulk
  <2>2. BulkResult = OracleResult
    BY ResultsAgree DEF AggregateIInv
  <2> QED
    BY <1>2, <2>1, <2>2 DEF AggregateIInv
<1>4. CASE DeriveOracle
  <2>1. agg' = OracleResult /\ books' = books
    BY <1>4 DEF DeriveOracle
  <2> QED
    BY <1>2, <2>1 DEF AggregateIInv
<1>5. CASE UNCHANGED vars
  <2>1. agg' = agg /\ books' = books
    BY <1>5 DEF vars
  <2> QED
    BY <1>2, <2>1 DEF AggregateIInv
<1> QED
  BY <1>1, <1>3, <1>4, <1>5 DEF Next

(* What is derived is always what the oracle derives from the books in the *)
(* store.                                                                  *)
THEOREM AggregateInvariant ==
    ASSUME OneSuccessor PROVE AggregateSpec => []AggregateIInv
<1>1. AggregateIInv /\ [Next]_vars => AggregateIInv'
  BY NextIInv
<1> QED
  BY <1>1, InitIInv, PTL DEF AggregateSpec

(* inst_agg: the two build paths "must emit identical rows".  Where no two *)
(* filers succeed one, what the bulk path derives is in every table what   *)
(* the oracle derives.                                                     *)
THEOREM PathsAlwaysAgree ==
    ASSUME OneSuccessor PROVE AggregateSpec => []PathsAgree
<1>1. AggregateIInv => PathsAgree
  BY DEF AggregateIInv, PathsAgree
<1> QED
  BY <1>1, AggregateInvariant, PTL

(* What a row says of its two positions.                                   *)
LEMMA RowSays ==
    ASSUME NEW p, NEW key, NEW prev, NEW curr, NEW reconciled, NEW prior,
           NEW d, d = QoqRow(p, key, prev, curr, reconciled, prior)
    PROVE  /\ d.cik = p.cik /\ d.curr = p.curr /\ d.key = key
           /\ prev # None => d.was = prev.value
           /\ curr # None => d.is = curr.value
           /\ prev = None => d.kind \in {"new", "no_prior"}
           /\ prev # None /\ curr = None => d.kind = "exit"
           /\ prev # None /\ curr # None =>
                 d.kind \in {"unclassified", "held", "add", "trim"}
<1> DEFINE was == IF prev # None THEN prev.value
                  ELSE IF prior THEN 0 ELSE None
           is == IF curr # None THEN curr.value ELSE 0
           sharesWas == IF prev # None THEN prev.shares ELSE None
           sharesIs == IF curr # None THEN curr.shares ELSE None
           both == prev # None /\ curr # None
           compatible == /\ both /\ prev.unit # None /\ prev.unit = curr.unit
                         /\ None \notin {sharesWas, sharesIs}
           moved == IF prev = None THEN (IF prior THEN sharesIs ELSE None)
                    ELSE IF curr = None THEN Minus(0, sharesWas)
                    ELSE IF compatible THEN sharesIs - sharesWas ELSE None
           kind == IF prev = None THEN (IF prior THEN "new" ELSE "no_prior")
                   ELSE IF curr = None THEN "exit"
                   ELSE IF moved = None THEN "unclassified"
                   ELSE IF moved = 0 THEN "held"
                   ELSE IF moved > 0 THEN "add" ELSE "trim"
           flags == Flags(reconciled, "identity_reconciled_by_cusip")
                    \cup Flags(Migrated(p), "filer_migrated")
                    \cup Flags(both /\ ~compatible, "shares_unit_mismatch")
                    \cup Flags(both /\ moved = None, "change_kind_undeterminable")
                    \cup Flags(\/ prev # None /\ was = None
                               \/ curr # None /\ is = None,
                               "value_undisclosed_one_side")
<1>1. d =
        [cik |-> p.cik, curr |-> p.curr, prev |-> p.prev, key |-> key,
         kind |-> kind, was |-> was, is |-> is, change |-> Minus(is, was),
         sharesWas |-> sharesWas, sharesIs |-> sharesIs, moved |-> moved,
         flags |-> flags]
  BY Zenon DEF QoqRow
<1>2. /\ prev = None => kind \in {"new", "no_prior"}
      /\ prev # None /\ curr = None => kind = "exit"
      /\ prev # None /\ curr # None =>
            kind \in {"unclassified", "held", "add", "trim"}
  <2> HIDE DEF moved
  <2> QED
    OBVIOUS
<1>3. (prev # None => was = prev.value) /\ (curr # None => is = curr.value)
  OBVIOUS
<1> HIDE DEF was, is, sharesWas, sharesIs, moved, kind, flags
<1>4. /\ d.cik = p.cik /\ d.curr = p.curr /\ d.key = key
      /\ d.was = was /\ d.is = is /\ d.kind = kind
  BY <1>1
<1> QED
  BY <1>2, <1>3, <1>4

(* One value for each, carried over to as many, adds up to the same.       *)
CarriedOver(S, T, f, w, v) ==
    /\ IsFiniteSet(S) /\ f = [x \in S |-> f[x]] /\ T = {f[x] : x \in S}
    /\ \A x, y \in S : f[x] = f[y] => x = y
    /\ w \in [S -> Int \cup {None}] /\ v = [y \in T |-> v[y]]
    /\ \A x \in S : v[f[x]] = w[x]

(* Then both are as many and their disclosed values add up to the same.    *)
LEMMA Carries ==
    ASSUME NEW S, NEW T, NEW f, NEW w, NEW v, CarriedOver(S, T, f, w, v)
    PROVE  Cardinality(T) = Cardinality(S) /\ KnownSum(v) = KnownSum(w)
<1> DEFINE D == Disclosed(w)
           E == Disclosed(v)
           w0 == [x \in D |-> w[x]]
           v0 == [y \in E |-> v[y]]
           h == [x \in D |-> f[x]]
<1>0. /\ IsFiniteSet(S) /\ f = [x \in S |-> f[x]] /\ T = {f[x] : x \in S}
      /\ \A x, y \in S : f[x] = f[y] => x = y
      /\ w \in [S -> Int \cup {None}] /\ v = [y \in T |-> v[y]]
      /\ \A x \in S : v[f[x]] = w[x]
  BY DEF CarriedOver
<1>1. IsFiniteSet(T) /\ Cardinality(T) = Cardinality(S)
  BY <1>0, ImageIs
<1>2. v \in [T -> Int \cup {None}]
  <2>1. \A y \in T : v[y] \in Int \cup {None}
    BY <1>0
  <2> QED
    BY <1>0, <2>1
<1>3. /\ D \in SUBSET S /\ KnownSum(w) = Part(w, D)
      /\ E \in SUBSET T /\ KnownSum(v) = Part(v, E)
  BY <1>0, <1>1, <1>2, DisclosedIs
<1>4. \A x \in S : x \in D <=> f[x] \in E
  BY <1>0 DEF Disclosed
<1>5. (\A x \in D : w[x] \in Int) /\ (\A y \in E : v[y] \in Int)
  BY <1>0, <1>2 DEF Disclosed
<1> HIDE DEF D, E
<1>6. Weighs(w0, D) /\ Weighs(v0, E)
  BY <1>0, <1>1, <1>3, <1>5, FS_Subset DEF Weighs
<1>7. E = {h[x] : x \in D} /\ h \in [D -> E]
      /\ (\A x, y \in D : h[x] = h[y] => x = y) /\ \A x \in D : w0[x] = v0[h[x]]
  <2>1. \A x \in D : x \in S /\ h[x] = f[x] /\ h[x] \in E
    BY <1>0, <1>3, <1>4
  <2>2. \A y \in E : \E x \in D : y = h[x]
    BY <1>0, <1>3, <1>4
  <2> QED
    BY <1>0, <1>3, <1>4, <2>1, <2>2
<1> HIDE DEF h
<1>8. Part(w0, D) = Part(v0, {h[x] : x \in D})
  <2> HIDE DEF w0, v0
  <2> QED
    BY <1>6, <1>7, PartMoved
<1>9. Part(w, D) = Part(w0, D) /\ Part(v, E) = Part(v0, E)
  <2>1. (\A x \in D : w[x] = w0[x]) /\ \A y \in E : v[y] = v0[y]
    OBVIOUS
  <2> HIDE DEF w0, v0
  <2> QED
    BY <2>1, PartSame
<1>10. Part(v0, {h[x] : x \in D}) = Part(v0, E)
  BY <1>7
<1> HIDE DEF w0, v0
<1> QED
  BY <1>1, <1>3, <1>8, <1>9, <1>10

(* A comparison is told by its rows, and its rows by their keys.           *)
LEMMA RowsOfPair ==
    ASSUME BooksType, NEW p \in Pairs, NEW d \in OracleRows(p)
    PROVE  /\ d.cik = p.cik /\ d.curr = p.curr
           /\ Tied(p, d) => d.kind \in {"unclassified", "held", "add", "trim"}
           /\ Newly(p, d) => d.kind \in {"new", "no_prior"}
           /\ Left(p, d) => d.kind = "exit"
<1>0. /\ Joined(Matching(p)) \subseteq (DOMAIN Prev(p)) \X (DOMAIN Curr(p))
      /\ Matching(p).exits \subseteq DOMAIN Prev(p)
      /\ Matching(p).news \subseteq DOMAIN Curr(p)
  BY MatchingIs DEF Matching
<1>1. ASSUME Tied(p, d)
      PROVE  /\ d.cik = p.cik /\ d.curr = p.curr
             /\ d.kind \in {"unclassified", "held", "add", "trim"}
  <2>1. PICK x \in Joined(Matching(p)) : d = TiedRow(p, x)
    BY <1>1 DEF Tied
  <2>2. Prev(p)[x[1]] # None /\ Curr(p)[x[2]] # None
    BY <1>0, SidesHold
  <2> DEFINE prev == Prev(p)[x[1]]
             curr == Curr(p)[x[2]]
             key == x[2]
             reconciled == x \in Matching(p).bridged
             prior == TRUE
  <2>3. d = QoqRow(p, key, prev, curr, reconciled, prior)
    BY <2>1, Zenon DEF TiedRow
  <2> HIDE DEF prev, curr, key, reconciled, prior
  <2>4. prev # None /\ curr # None
    BY <2>2 DEF prev, curr
  <2> QED
    BY <2>3, <2>4, RowSays
<1>2. ASSUME Newly(p, d)
      PROVE  d.cik = p.cik /\ d.curr = p.curr /\ d.kind \in {"new", "no_prior"}
  <2>1. PICK g \in Matching(p).news : d = NewRow(p, g)
    BY <1>2 DEF Newly
  <2> DEFINE prev == None
             curr == Curr(p)[g]
             key == g
             reconciled == FALSE
             prior == DOMAIN Prev(p) # {}
  <2>3. d = QoqRow(p, key, prev, curr, reconciled, prior)
    BY <2>1, Zenon DEF NewRow
  <2>4. prev = None
    OBVIOUS
  <2> HIDE DEF prev, curr, key, reconciled, prior
  <2> QED
    BY <2>3, <2>4, RowSays
<1>3. ASSUME Left(p, d)
      PROVE  d.cik = p.cik /\ d.curr = p.curr /\ d.kind = "exit"
  <2>1. PICK g \in Matching(p).exits : d = LeftRow(p, g)
    BY <1>3 DEF Left
  <2>2. Prev(p)[g] # None
    BY <1>0, SidesHold
  <2> DEFINE prev == Prev(p)[g]
             curr == None
             key == g
             reconciled == FALSE
             prior == TRUE
  <2>3. d = QoqRow(p, key, prev, curr, reconciled, prior)
    BY <2>1, Zenon DEF LeftRow
  <2>4. prev # None /\ curr = None
    BY <2>2
  <2> HIDE DEF prev, curr, key, reconciled, prior
  <2> QED
    BY <2>3, <2>4, RowSays
<1> QED
  BY <1>1, <1>2, <1>3, OracleRowsHave

(* The rows of a filer and a quarter are those of one comparison.          *)
LEMMA PairRows ==
    ASSUME BooksType, NEW p \in Pairs
    PROVE  {d \in OracleDeltas : d.cik = p.cik /\ d.curr = p.curr} = OracleRows(p)
<1>1. \A r \in Pairs : \A d \in OracleRows(r) : d.cik = r.cik /\ d.curr = r.curr
  BY RowsOfPair
<1>2. \A r \in Pairs : p.cik = r.cik /\ p.curr = r.curr => p = r
  BY PairsApart
<1> QED
  BY <1>1, <1>2 DEF OracleDeltas

(* Exits are no positions now.                                             *)
LEMMA ExitsApart ==
    ASSUME NEW p
    PROVE  Matching(p).exits \cap DOMAIN Curr(p) = {}
<1> SUFFICES ASSUME NEW g \in Matching(p).exits, g \in DOMAIN Curr(p) PROVE FALSE
  OBVIOUS
<1>1. Matching(p).exits = (DOMAIN Prev(p)) \ {x[1] : x \in Joined(Matching(p))}
  BY MatchingIs DEF Matching
<1>2. g \in Both(p)
  BY <1>1 DEF Both
<1>3. <<g, g>> \in Matching(p).matched
  BY <1>2, MatchingOf DEF SameOf
<1>4. <<g, g>> \in Joined(Matching(p)) /\ <<g, g>>[1] = g
  BY <1>3 DEF Joined
<1> QED
  BY <1>1, <1>4

(* The row of a position now and that of a position before.                *)
RowNow(p) ==
    [h \in DOMAIN Curr(p) |->
        IF h \in Matching(p).news THEN NewRow(p, h)
        ELSE TiedRow(p, CHOOSE x \in Joined(Matching(p)) : x[2] = h)]

RowBefore(p) ==
    [g \in DOMAIN Prev(p) |->
        IF g \in Matching(p).exits THEN LeftRow(p, g)
        ELSE TiedRow(p, CHOOSE x \in Joined(Matching(p)) : x[1] = g)]

(* The row of a match.                                                     *)
LEMMA TiedRowIs ==
    ASSUME BooksType, NEW p \in Pairs, NEW x \in Joined(Matching(p))
    PROVE  /\ x[1] \in DOMAIN Prev(p) /\ x[2] \in DOMAIN Curr(p)
           /\ x[1] \notin Matching(p).exits /\ x[2] \notin Matching(p).news
           /\ TiedRow(p, x) \in OracleRows(p) /\ Tied(p, TiedRow(p, x))
           /\ TiedRow(p, x).key = x[2]
           /\ TiedRow(p, x).was = Prev(p)[x[1]].value
           /\ TiedRow(p, x).is = Curr(p)[x[2]].value
           /\ TiedRow(p, x).kind \in {"unclassified", "held", "add", "trim"}
           /\ RowNow(p)[x[2]] = TiedRow(p, x) /\ RowBefore(p)[x[1]] = TiedRow(p, x)
<1> DEFINE J == Joined(Matching(p))
           d == TiedRow(p, x)
<1>1. /\ J \subseteq (DOMAIN Prev(p)) \X (DOMAIN Curr(p))
      /\ \A y, z \in J : y[1] = z[1] \/ y[2] = z[2] => y = z
      /\ Matching(p).exits = (DOMAIN Prev(p)) \ {y[1] : y \in J}
      /\ Matching(p).news = (DOMAIN Curr(p)) \ {y[2] : y \in J}
  BY MatchingIs DEF Matching
<1>2. /\ x[1] \in DOMAIN Prev(p) /\ x[2] \in DOMAIN Curr(p)
      /\ x[1] \notin Matching(p).exits /\ x[2] \notin Matching(p).news
  BY <1>1
<1>3. Tied(p, d)
  BY DEF Tied
<1>4. d \in OracleRows(p)
  BY <1>3, OracleRowsHave
<1>5. d.kind \in {"unclassified", "held", "add", "trim"}
  <2> HIDE DEF d
  <2> QED
    BY <1>3, <1>4, RowsOfPair
<1>6. d.key = x[2] /\ d.was = Prev(p)[x[1]].value /\ d.is = Curr(p)[x[2]].value
  <2> DEFINE prev == Prev(p)[x[1]]
             curr == Curr(p)[x[2]]
             key == x[2]
             reconciled == x \in Matching(p).bridged
             prior == TRUE
  <2>1. d = QoqRow(p, key, prev, curr, reconciled, prior)
    BY Zenon DEF TiedRow
  <2>2. prev # None /\ curr # None
    BY <1>2, SidesHold
  <2> HIDE DEF d, prev, curr, key, reconciled, prior
  <2>3. d.key = key /\ d.was = prev.value /\ d.is = curr.value
    BY <2>1, <2>2, RowSays
  <2> QED
    BY <2>3 DEF prev, curr, key
<1>7. (CHOOSE y \in J : y[2] = x[2]) = x /\ (CHOOSE y \in J : y[1] = x[1]) = x
  <2> HIDE DEF J
  <2>1. x \in J
    BY DEF J
  <2> QED
    BY <1>1, <2>1
<1>8. RowNow(p)[x[2]] = d /\ RowBefore(p)[x[1]] = d
  BY <1>2, <1>7, Zenon DEF RowNow, RowBefore
<1> QED
  BY <1>2, <1>3, <1>4, <1>5, <1>6, <1>8

(* The row of a new position.                                              *)
LEMMA NewRowIs ==
    ASSUME BooksType, NEW p \in Pairs, NEW g \in Matching(p).news
    PROVE  /\ g \in DOMAIN Curr(p)
           /\ NewRow(p, g) \in OracleRows(p)
           /\ NewRow(p, g).key = g /\ NewRow(p, g).is = Curr(p)[g].value
           /\ NewRow(p, g).kind \in {"new", "no_prior"}
           /\ RowNow(p)[g] = NewRow(p, g)
<1> DEFINE d == NewRow(p, g)
           prev == None
           curr == Curr(p)[g]
           reconciled == FALSE
           prior == DOMAIN Prev(p) # {}
<1>1. g \in DOMAIN Curr(p)
  BY MatchingIs DEF Matching
<1>2. d \in OracleRows(p)
  BY OracleRowsHave DEF Newly
<1>3. d = QoqRow(p, g, prev, curr, reconciled, prior)
  BY Zenon DEF NewRow
<1>4. prev = None /\ curr # None
  BY <1>1, SidesHold
<1>5. RowNow(p)[g] = d
  BY <1>1, Zenon DEF RowNow
<1>6. d.key = g /\ d.is = curr.value /\ d.kind \in {"new", "no_prior"}
  <2> HIDE DEF d, prev, curr, reconciled, prior
  <2> QED
    BY <1>3, <1>4, RowSays
<1> QED
  BY <1>1, <1>2, <1>5, <1>6

(* The row of an exit.                                                     *)
LEMMA LeftRowIs ==
    ASSUME BooksType, NEW p \in Pairs, NEW g \in Matching(p).exits
    PROVE  /\ g \in DOMAIN Prev(p)
           /\ LeftRow(p, g) \in OracleRows(p)
           /\ LeftRow(p, g).key = g /\ LeftRow(p, g).was = Prev(p)[g].value
           /\ LeftRow(p, g).kind = "exit"
           /\ RowBefore(p)[g] = LeftRow(p, g)
<1> DEFINE d == LeftRow(p, g)
           prev == Prev(p)[g]
           curr == None
           reconciled == FALSE
           prior == TRUE
<1>1. g \in DOMAIN Prev(p)
  BY MatchingIs DEF Matching
<1>2. d \in OracleRows(p)
  BY OracleRowsHave DEF Left
<1>3. d = QoqRow(p, g, prev, curr, reconciled, prior)
  BY Zenon DEF LeftRow
<1>4. prev # None /\ curr = None
  BY <1>1, SidesHold
<1>5. RowBefore(p)[g] = d
  BY <1>1, Zenon DEF RowBefore
<1>6. d.key = g /\ d.was = prev.value /\ d.kind = "exit"
  <2> HIDE DEF d, prev, curr, reconciled, prior
  <2> QED
    BY <1>3, <1>4, RowSays
<1> QED
  BY <1>1, <1>2, <1>5, <1>6

(* The rows are those of the positions now and of the exits.               *)
LEMMA NowIs ==
    ASSUME BooksType, NEW p \in Pairs
    PROVE  /\ \A h \in DOMAIN Curr(p) :
                 /\ RowNow(p)[h] \in OracleRows(p) /\ RowNow(p)[h].kind # "exit"
                 /\ RowNow(p)[h].key = h /\ RowNow(p)[h].is = Curr(p)[h].value
           /\ \A d \in OracleRows(p) : d.kind # "exit" =>
                 d.key \in DOMAIN Curr(p) /\ d = RowNow(p)[d.key]
           /\ \A d \in OracleRows(p) : d.kind = "exit" =>
                 d.key \notin DOMAIN Curr(p) /\ d = LeftRow(p, d.key)
<1>1. ASSUME NEW h \in DOMAIN Curr(p)
      PROVE  /\ RowNow(p)[h] \in OracleRows(p) /\ RowNow(p)[h].kind # "exit"
             /\ RowNow(p)[h].key = h /\ RowNow(p)[h].is = Curr(p)[h].value
  <2>1. CASE h \in Matching(p).news
    BY <2>1, NewRowIs
  <2>2. CASE h \notin Matching(p).news
    <3>1. PICK x \in Joined(Matching(p)) : x[2] = h
      BY <2>2, MatchingIs DEF Matching
    <3> QED
      BY <3>1, TiedRowIs
  <2> QED
    BY <2>1, <2>2
<1>2. ASSUME NEW d \in OracleRows(p)
      PROVE  /\ d.kind # "exit" =>
                   d.key \in DOMAIN Curr(p) /\ d = RowNow(p)[d.key]
             /\ d.kind = "exit" =>
                   d.key \notin DOMAIN Curr(p) /\ d = LeftRow(p, d.key)
  <2>1. CASE Tied(p, d)
    BY <2>1, TiedRowIs DEF Tied
  <2>2. CASE Newly(p, d)
    BY <2>2, NewRowIs DEF Newly
  <2>3. CASE Left(p, d)
    BY <2>3, LeftRowIs, ExitsApart DEF Left
  <2> QED
    BY <2>1, <2>2, <2>3, OracleRowsHave
<1> QED
  BY <1>1, <1>2

(* The rows that are not new are those of the positions before.            *)
LEMMA BeforeIs ==
    ASSUME BooksType, NEW p \in Pairs
    PROVE  /\ \A g \in DOMAIN Prev(p) :
                 /\ RowBefore(p)[g] \in OracleRows(p)
                 /\ RowBefore(p)[g].kind \notin {"new", "no_prior"}
                 /\ RowBefore(p)[g].was = Prev(p)[g].value
           /\ \A g, h \in DOMAIN Prev(p) :
                 RowBefore(p)[g] = RowBefore(p)[h] => g = h
           /\ \A d \in OracleRows(p) : d.kind \notin {"new", "no_prior"} =>
                 \E g \in DOMAIN Prev(p) : d = RowBefore(p)[g]
<1> DEFINE J == Joined(Matching(p))
           exits == Matching(p).exits
<1>0. /\ exits = (DOMAIN Prev(p)) \ {x[1] : x \in J}
      /\ \A y, z \in J : y[1] = z[1] \/ y[2] = z[2] => y = z
  BY MatchingIs DEF Matching
<1>1. ASSUME NEW g \in DOMAIN Prev(p)
      PROVE  /\ RowBefore(p)[g] \in OracleRows(p)
             /\ RowBefore(p)[g].kind \notin {"new", "no_prior"}
             /\ RowBefore(p)[g].was = Prev(p)[g].value
             /\ \/ /\ g \in exits /\ RowBefore(p)[g].kind = "exit"
                   /\ RowBefore(p)[g].key = g
                \/ /\ RowBefore(p)[g].kind # "exit"
                   /\ \E x \in J : x[1] = g /\ RowBefore(p)[g].key = x[2]
  <2>1. CASE g \in exits
    BY <2>1, LeftRowIs
  <2>2. CASE g \notin exits
    <3>1. PICK x \in J : x[1] = g
      BY <1>0, <2>2
    <3>2. /\ RowBefore(p)[g] = TiedRow(p, x) /\ TiedRow(p, x) \in OracleRows(p)
          /\ TiedRow(p, x).key = x[2] /\ TiedRow(p, x).was = Prev(p)[x[1]].value
          /\ TiedRow(p, x).kind \in {"unclassified", "held", "add", "trim"}
      BY <3>1, TiedRowIs
    <3> QED
      BY <3>1, <3>2
  <2> QED
    BY <2>1, <2>2
<1>2. ASSUME NEW g \in DOMAIN Prev(p), NEW h \in DOMAIN Prev(p),
             RowBefore(p)[g] = RowBefore(p)[h]
      PROVE  g = h
  <2> HIDE DEF J, exits
  <2> QED
    BY <1>0, <1>1, <1>2
<1>3. ASSUME NEW d \in OracleRows(p), d.kind \notin {"new", "no_prior"}
      PROVE  \E g \in DOMAIN Prev(p) : d = RowBefore(p)[g]
  <2>1. CASE Tied(p, d)
    BY <2>1, TiedRowIs DEF Tied
  <2>2. CASE Newly(p, d)
    BY <1>3, <2>2, NewRowIs DEF Newly
  <2>3. CASE Left(p, d)
    BY <2>3, LeftRowIs DEF Left
  <2> QED
    BY <2>1, <2>2, <2>3, OracleRowsHave
<1> QED
  BY <1>1, <1>2, <1>3

(* The values of finitely many positions are integers or undisclosed.      *)
LEMMA ValuesAre ==
    ASSUME NEW book, Proper(book), NEW pos, pos = Positions(book)
    PROVE  /\ IsFiniteSet(DOMAIN pos)
           /\ [g \in DOMAIN pos |-> pos[g].value] \in [DOMAIN pos -> Int \cup {None}]
<1>1. IsFiniteSet(DOMAIN pos) /\ \A g \in DOMAIN pos : pos[g] \in Position
  BY PositionsAre
<1>2. \A g \in DOMAIN pos : pos[g].value \in Int \cup {None}
  BY <1>1 DEF Position
<1> QED
  BY <1>1, <1>2

(* The rows of a comparison account for both of its books.                 *)
LEMMA NowBalances ==
    ASSUME BooksType, NEW p \in Pairs,
           NEW Now, Now = {d \in OracleRows(p) : d.kind # "exit"}
    PROVE  /\ {d.key : d \in Now} = DOMAIN Curr(p)
           /\ Cardinality(Now) = Cardinality(DOMAIN Curr(p))
           /\ KnownSum([d \in Now |-> d.is]) =
                 KnownSum([g \in DOMAIN Curr(p) |-> Curr(p)[g].value])
<1> DEFINE S == DOMAIN Curr(p)
           f == RowNow(p)
           w == [g \in S |-> Curr(p)[g].value]
           v == [d \in Now |-> d.is]
<1>1. IsFiniteSet(S) /\ w \in [S -> Int \cup {None}]
  BY PairBooks, ValuesAre DEF Curr
<1>2. f = [x \in S |-> f[x]]
  BY DEF RowNow
<1>3. /\ \A h \in S : f[h] \in Now /\ f[h].key = h /\ f[h].is = Curr(p)[h].value
      /\ \A d \in Now : d.key \in S /\ d = f[d.key]
  BY NowIs
<1> HIDE DEF f, S
<1>4. Now = {f[x] : x \in S} /\ {d.key : d \in Now} = S
  BY <1>3
<1>5. \A x, y \in S : f[x] = f[y] => x = y
  BY <1>3
<1>6. v = [d \in Now |-> v[d]] /\ \A x \in S : v[f[x]] = w[x]
  BY <1>3
<1> HIDE DEF v, w
<1>7. Cardinality(Now) = Cardinality(S) /\ KnownSum(v) = KnownSum(w)
  <2>1. CarriedOver(S, Now, f, w, v)
    BY <1>1, <1>2, <1>4, <1>5, <1>6 DEF CarriedOver
  <2> QED
    BY <2>1, Carries
<1> QED
  BY <1>4, <1>7, Zenon DEF v, w, S

(* So do those of the book before.                                         *)
LEMMA BeforeBalances ==
    ASSUME BooksType, NEW p \in Pairs,
           NEW Before, Before = {d \in OracleRows(p) : d.kind \notin {"new", "no_prior"}}
    PROVE  /\ Cardinality(Before) = Cardinality(DOMAIN Prev(p))
           /\ KnownSum([d \in Before |-> d.was]) =
                 KnownSum([g \in DOMAIN Prev(p) |-> Prev(p)[g].value])
<1> DEFINE S == DOMAIN Prev(p)
           f == RowBefore(p)
           w == [g \in S |-> Prev(p)[g].value]
           v == [d \in Before |-> d.was]
<1>1. IsFiniteSet(S) /\ w \in [S -> Int \cup {None}]
  BY PairBooks, ValuesAre DEF Prev
<1>2. f = [x \in S |-> f[x]]
  BY DEF RowBefore
<1>3. /\ \A h \in S : f[h] \in Before /\ f[h].was = Prev(p)[h].value
      /\ \A d \in Before : \E h \in S : d = f[h]
      /\ \A x, y \in S : f[x] = f[y] => x = y
  BY BeforeIs
<1> HIDE DEF f, S
<1>4. Before = {f[x] : x \in S}
  BY <1>3
<1>5. v = [d \in Before |-> v[d]] /\ \A x \in S : v[f[x]] = w[x]
  BY <1>3
<1> HIDE DEF v, w
<1>6. Cardinality(Before) = Cardinality(S) /\ KnownSum(v) = KnownSum(w)
  <2>1. CarriedOver(S, Before, f, w, v)
    BY <1>1, <1>2, <1>3, <1>4, <1>5 DEF CarriedOver
  <2> QED
    BY <2>1, Carries
<1> QED
  BY <1>6, Zenon DEF v, w, S

(* No two rows have the same filer, quarter and position.                  *)
LEMMA RowsApart ==
    ASSUME BooksType, NEW d \in OracleDeltas, NEW e \in OracleDeltas,
           d.cik = e.cik, d.curr = e.curr, d.key = e.key
    PROVE  d = e
<1>1. PICK p \in Pairs : d \in OracleRows(p)
  BY DEF OracleDeltas
<1>2. PICK r \in Pairs : e \in OracleRows(r)
  BY DEF OracleDeltas
<1>3. /\ d.cik = p.cik /\ d.curr = p.curr
      /\ e.cik = r.cik /\ e.curr = r.curr
  BY <1>1, <1>2, RowsOfPair
<1>4. p = r
  BY <1>3, PairsApart
<1> QED
  BY <1>1, <1>2, <1>4, NowIs

(* What a derivation that succeeds publishes as changes.                   *)
LEMMA BuiltIs ==
    ASSUME AggregateIInv, Built PROVE agg.deltas = OracleDeltas
<1>1. agg = Gated(OracleDeltas, OracleConcentrations, OracleHolders) /\ agg.outcome = "built"
  BY Zenon DEF AggregateIInv, Built, OracleResult
<1>2. ASSUME NEW o, o # "built" PROVE Nothing(o).outcome # "built"
  BY <1>2 DEF Nothing
<1>3. agg = Tables(OracleDeltas, OracleConcentrations, OracleHolders)
  BY <1>1, <1>2 DEF Gated
<1> QED
  BY <1>3 DEF Tables

(* The invariant makes the books balance.                                  *)
LEMMA BalanceIs == AggregateIInv => BooksBalance
<1> SUFFICES ASSUME AggregateIInv, Built PROVE BooksBalance
  BY DEF BooksBalance
<1>1. agg.deltas = OracleDeltas
  BY BuiltIs
<1>2. BooksType
  BY DEF AggregateIInv
<1>3. \A d, e \in agg.deltas :
         <<d.cik, d.curr, d.key>> = <<e.cik, e.curr, e.key>> => d = e
  BY <1>1, <1>2, RowsApart
<1>4. ASSUME NEW p \in Pairs
      PROVE  LET R == {d \in agg.deltas : d.cik = p.cik /\ d.curr = p.curr}
                 Here == Positions(Book(p.cik, p.curr))
                 There == IF Adjacent(p) THEN Positions(Book(p.from, p.prev))
                          ELSE Positions({})
                 Now == {d \in R : d.kind # "exit"}
                 Before == {d \in R : d.kind \notin {"new", "no_prior"}}
             IN /\ {d.key : d \in Now} = DOMAIN Here
                /\ Cardinality(Now) = Cardinality(DOMAIN Here)
                /\ Cardinality(Before) = Cardinality(DOMAIN There)
                /\ KnownSum([d \in Now |-> d.is]) =
                      KnownSum([g \in DOMAIN Here |-> Here[g].value])
                /\ KnownSum([d \in Before |-> d.was]) =
                      KnownSum([g \in DOMAIN There |-> There[g].value])
  <2> DEFINE R == {d \in agg.deltas : d.cik = p.cik /\ d.curr = p.curr}
             Here == Positions(Book(p.cik, p.curr))
             There == IF Adjacent(p) THEN Positions(Book(p.from, p.prev))
                      ELSE Positions({})
             Now == {d \in R : d.kind # "exit"}
             Before == {d \in R : d.kind \notin {"new", "no_prior"}}
  <2>1. R = OracleRows(p)
    BY <1>1, <1>2, PairRows
  <2>2. Here = Curr(p)
    BY Zenon DEF Curr, CurrBook
  <2>3. There = Prev(p)
    <3>1. CASE Adjacent(p)
      BY <3>1, Zenon DEF Prev, PrevBook
    <3>2. CASE ~Adjacent(p)
      BY <3>2, Zenon DEF Prev, PrevBook
    <3> QED
      BY <3>1, <3>2
  <2>4. /\ Now = {d \in OracleRows(p) : d.kind # "exit"}
        /\ Before = {d \in OracleRows(p) : d.kind \notin {"new", "no_prior"}}
    BY <2>1, Zenon
  <2> HIDE DEF R, Here, There, Now, Before
  <2>5. /\ {d.key : d \in Now} = DOMAIN Here
        /\ Cardinality(Now) = Cardinality(DOMAIN Here)
        /\ KnownSum([d \in Now |-> d.is]) =
              KnownSum([g \in DOMAIN Here |-> Here[g].value])
    BY <1>2, <2>2, <2>4, NowBalances
  <2>6. /\ Cardinality(Before) = Cardinality(DOMAIN There)
        /\ KnownSum([d \in Before |-> d.was]) =
              KnownSum([g \in DOMAIN There |-> There[g].value])
    BY <1>2, <2>3, <2>4, BeforeBalances
  <2> QED
    BY <2>5, <2>6, Zenon DEF R, Here, There, Now, Before
<1> QED
  BY <1>3, <1>4, Zenon DEF BooksBalance

(* The changes account for both books: each position of either stands in   *)
(* exactly one row, and the disclosed values add up to the books'.         *)
THEOREM BooksAlwaysBalance ==
    ASSUME OneSuccessor PROVE AggregateSpec => []BooksBalance
BY AggregateInvariant, BalanceIs, PTL

(***************************************************************************)
(* A book that reports every security once.                                *)
(***************************************************************************)
(* The sum of one number is that number, or undisclosed as it is.          *)
LEMMA SingleSum ==
    ASSUME NEW r, NEW w, w = [x \in {r} |-> w[x]], w[r] \in Int \cup {None}
    PROVE  WholeSum(w) = w[r]
<1>1. CASE w[r] = None
  <2>1. Disclosed(w) # DOMAIN w
    BY <1>1 DEF Disclosed
  <2> QED
    BY <1>1, <2>1 DEF WholeSum
<1>2. CASE w[r] # None
  <2>1. Disclosed(w) = DOMAIN w
    BY <1>2 DEF Disclosed
  <2>2. IsFiniteSet({r})
    BY FS_Singleton
  <2>3. Weighs(w, {r})
    BY <1>2, <2>2 DEF Weighs
  <2>4. SumOf(w) = Part(w, {r})
    BY <2>3, SumIsPart
  <2>5. Part(w, {r}) = w[r] + Part(w, {r} \ {r})
    <3> DEFINE T == {r}
    <3>1. T \in SUBSET T /\ r \in T /\ Weighs(w, T)
      BY <2>3
    <3> HIDE DEF T
    <3>2. Part(w, T) = w[r] + Part(w, T \ {r})
      BY <3>1, PartRemove
    <3> QED
      BY <3>2 DEF T
  <2>6. Part(w, {}) = 0 /\ {r} \ {r} = {}
    BY <2>3, PartType
  <2>7. SumOf(w) = w[r]
    <3> DEFINE n == w[r]
               m == Part(w, {})
    <3>1. Part(w, {r}) = n + m /\ n \in Int /\ m = 0
      BY <1>2, <2>5, <2>6
    <3> HIDE DEF n, m
    <3>2. Part(w, {r}) = n
      BY <3>1
    <3> QED
      BY <2>4, <3>2 DEF n
  <2> QED
    BY <2>1, <2>7 DEF WholeSum
<1> QED
  BY <1>1, <1>2

(* The position of one row is that row.                                    *)
LEMMA SingleIs ==
    ASSUME NEW r \in Row
    PROVE  /\ Finalize({r}).unit = r.unit /\ Finalize({r}).cusip = r.cusip
           /\ Finalize({r}).shares = IF r.unit = None THEN None ELSE r.shares
<1>0. /\ r.shares \in Int \cup {None} /\ r.cusip \in Nat \cup {None}
  <2>1. r.shares \in (-MaxInt .. MaxInt) \cup {None} /\ r.cusip \in Nat \cup {None}
    BY DEF Row
  <2> QED
    BY <2>1, Sized
<1>1. CleanUnit({r}) = r.unit
  <2>1. {x.unit : x \in {r}} = {r.unit} /\ Cardinality({r.unit}) = 1
    BY FS_Singleton
  <2> QED
    BY <2>1 DEF CleanUnit
<1>2. SingleCusip({r}) = r.cusip
  <2>1. {x.cusip : x \in {r}} = {r.cusip} /\ Cardinality({r.cusip}) = 1
    BY FS_Singleton
  <2>2. Cardinality({}) = 0
    BY FS_EmptySet
  <2>3. CASE r.cusip = None
    <3>1. {r.cusip} \ {None} = {}
      BY <2>3
    <3> QED
      BY <2>1, <2>2, <2>3, <3>1 DEF SingleCusip
  <2>4. CASE r.cusip # None
    <3>1. {r.cusip} \ {None} = {r.cusip}
      BY <2>4
    <3> QED
      BY <2>1, <3>1 DEF SingleCusip
  <2> QED
    BY <2>3, <2>4
<1>3. WholeSum([x \in {r} |-> x.shares]) = r.shares
  <2> DEFINE w == [x \in {r} |-> x.shares]
  <2>1. w = [x \in {r} |-> w[x]] /\ w[r] = r.shares
    OBVIOUS
  <2> HIDE DEF w
  <2>2. WholeSum(w) = w[r]
    BY <1>0, <2>1, SingleSum
  <2> QED
    BY <2>1, <2>2 DEF w
<1> QED
  BY <1>1, <1>2, <1>3, Zenon DEF Finalize

(* In such a book every grain is one row.                                  *)
LEMMA SimpleIs ==
    ASSUME NEW book, Proper(book), Simple(book)
    PROVE  /\ \A r \in book :
                 /\ r \in Row /\ PositionKey(r) # None
                 /\ Grain(r) \in DOMAIN Positions(book)
                 /\ Positions(book)[Grain(r)].unit = r.unit
                 /\ Positions(book)[Grain(r)].cusip = r.cusip
                 /\ Positions(book)[Grain(r)].shares =
                       IF r.unit = None THEN None ELSE r.shares
           /\ \A g \in DOMAIN Positions(book) : \E r \in book : g = Grain(r)
           /\ \A r, s \in book : Identity(Grain(r)) = Identity(Grain(s)) => r = s
           /\ \A r, s \in book : r.cusip = s.cusip /\ r.option = s.option => r = s
           /\ \A r, s \in book : r.sid # None /\ r.sid = s.sid => r = s
<1>0. Keyed(book) = book
      /\ (\A r, s \in book : r.cusip = s.cusip /\ r.option = s.option => r = s)
      /\ (\A r, s \in book : r.sid # None /\ r.sid = s.sid => r = s)
  BY DEF Simple
<1>1. \A r \in book : r \in Row /\ PositionKey(r) # None
  BY <1>0 DEF Keyed, Proper
<1>2. DOMAIN Positions(book) = {Grain(r) : r \in book}
  BY <1>0, PositionsAre
<1>3. ASSUME NEW r \in book, NEW s \in book, Identity(Grain(r)) = Identity(Grain(s))
      PROVE  r = s
  <2>1. PositionKey(r) = PositionKey(s) /\ r.option = s.option
    BY <1>3 DEF Identity, Grain
  <2>2. (r.sid # None /\ r.sid = s.sid) \/ r.cusip = s.cusip
    BY <1>1, <2>1 DEF PositionKey
  <2> QED
    BY <1>0, <2>1, <2>2
<1>4. ASSUME NEW r \in book
      PROVE  /\ Positions(book)[Grain(r)].unit = r.unit
             /\ Positions(book)[Grain(r)].cusip = r.cusip
             /\ Positions(book)[Grain(r)].shares =
                   IF r.unit = None THEN None ELSE r.shares
  <2>1. RowsOf(book, Grain(r)) = {r}
    <3>1. \A s \in book : Grain(s) = Grain(r) => s = r
      BY <1>3
    <3> QED
      BY <1>0, <3>1 DEF RowsOf
  <2>2. Positions(book)[Grain(r)] = Finalize({r})
    BY <1>2, <2>1, PositionsAre
  <2> QED
    BY <1>1, <2>2, SingleIs
<1> QED
  BY <1>0, <1>1, <1>2, <1>3, <1>4

(***************************************************************************)
(* The same lines in both books.                                           *)
(***************************************************************************)
Quiet(p) ==
    /\ Adjacent(p) /\ Simple(CurrBook(p)) /\ Simple(PrevBook(p))
    /\ Lines(CurrBook(p)) = Lines(PrevBook(p))
    /\ \A r \in CurrBook(p), s \in PrevBook(p) :
          r.sid # None /\ s.sid # None => (r.cusip = s.cusip <=> r.sid = s.sid)

Twins(s, r) == s.cusip = r.cusip /\ s.option = r.option /\ s.shares = r.shares

(* What two grains say of the rows they are of.                            *)
LEMMA KeysSay ==
    ASSUME NEW r, PositionKey(r) # None
    PROVE  /\ Grain(r)[2] = r.option
           /\ Resolved(Grain(r)) <=> r.sid # None
           /\ r.sid = None => r.cusip # None
           /\ \A s : PositionKey(s) # None =>
                 (Identity(Grain(r)) = Identity(Grain(s)) <=>
                    /\ r.option = s.option
                    /\ \/ r.sid # None /\ r.sid = s.sid
                       \/ r.sid = None /\ s.sid = None /\ r.cusip = s.cusip)
<1>1. ASSUME NEW s, PositionKey(s) # None
      PROVE  /\ s.sid # None => PositionKey(s) = <<"sid", s.sid>>
             /\ s.sid = None => PositionKey(s) = <<"cusip", s.cusip>>
             /\ s.sid = None => s.cusip # None
  BY <1>1 DEF PositionKey
<1>2. \A s : Identity(Grain(s)) = <<PositionKey(s), s.option>>
             /\ Grain(s)[1] = PositionKey(s) /\ Grain(s)[2] = s.option
  BY DEF Identity, Grain
<1>3. Resolved(Grain(r)) <=> r.sid # None
  <2>1. Resolved(Grain(r)) <=> PositionKey(r)[1] = "sid"
    BY <1>2 DEF Resolved
  <2>2. CASE r.sid = None
    BY <1>1, <2>1, <2>2
  <2>3. CASE r.sid # None
    BY <1>1, <2>1, <2>3
  <2> QED
    BY <2>2, <2>3
<1>4. ASSUME NEW s, PositionKey(s) # None
      PROVE  PositionKey(r) = PositionKey(s) <=>
                \/ r.sid # None /\ r.sid = s.sid
                \/ r.sid = None /\ s.sid = None /\ r.cusip = s.cusip
  <2>1. CASE r.sid = None
    BY <1>1, <1>4, <2>1
  <2>2. CASE r.sid # None
    BY <1>1, <1>4, <2>2
  <2> QED
    BY <2>1, <2>2
<1>5. \A s : Identity(Grain(r)) = Identity(Grain(s)) <=>
               PositionKey(r) = PositionKey(s) /\ r.option = s.option
  <2> SUFFICES ASSUME NEW s
               PROVE  Identity(Grain(r)) = Identity(Grain(s)) <=>
                         PositionKey(r) = PositionKey(s) /\ r.option = s.option
    OBVIOUS
  <2> DEFINE a == PositionKey(r)
             b == PositionKey(s)
             c == r.option
             d == s.option
  <2>1. Identity(Grain(r)) = <<a, c>> /\ Identity(Grain(s)) = <<b, d>>
    BY <1>2
  <2> HIDE DEF a, b, c, d
  <2>2. <<a, c>> = <<b, d>> <=> a = b /\ c = d
    OBVIOUS
  <2> QED
    BY <2>1, <2>2 DEF a, b, c, d
<1>6. Grain(r)[2] = r.option /\ (r.sid = None => r.cusip # None)
  BY <1>1, <1>2
<1>7. ASSUME NEW s, PositionKey(s) # None
      PROVE  Identity(Grain(r)) = Identity(Grain(s)) <=>
                /\ r.option = s.option
                /\ \/ r.sid # None /\ r.sid = s.sid
                   \/ r.sid = None /\ s.sid = None /\ r.cusip = s.cusip
  BY <1>4, <1>5, <1>7
<1> QED
  BY <1>3, <1>6, <1>7

(* Every line of either book is in the other.                              *)
LEMMA TwinsAre ==
    ASSUME BooksType, NEW p \in Pairs, Quiet(p)
    PROVE  /\ \A r \in CurrBook(p) : \E s \in PrevBook(p) : Twins(s, r)
           /\ \A s \in PrevBook(p) : \E r \in CurrBook(p) : Twins(s, r)
<1>1. CurrBook(p) \subseteq Row /\ PrevBook(p) \subseteq Row
  BY PairBooks DEF Proper
<1>2. ASSUME NEW r \in Row
      PROVE  /\ Unresolved(r).cusip = r.cusip /\ Unresolved(r).option = r.option
             /\ Unresolved(r).shares = r.shares
  BY DEF Unresolved, Row
<1>3. ASSUME NEW r \in Row, NEW s \in Row, Unresolved(r) = Unresolved(s)
      PROVE  Twins(s, r)
  BY <1>2, <1>3 DEF Twins
<1>4. {Unresolved(r) : r \in CurrBook(p)} = {Unresolved(r) : r \in PrevBook(p)}
  BY DEF Quiet, Lines
<1>5. \A r \in CurrBook(p) : \E s \in PrevBook(p) : Unresolved(r) = Unresolved(s)
  BY <1>4
<1>6. \A s \in PrevBook(p) : \E r \in CurrBook(p) : Unresolved(r) = Unresolved(s)
  BY <1>4
<1> QED
  BY <1>1, <1>3, <1>5, <1>6

(* Every line is matched with the same line before, whatever it resolved   *)
(* to then and now and whatever its unit was.                              *)
LEMMA TwinsJoin ==
    ASSUME BooksType, NEW p \in Pairs, Quiet(p),
           NEW s \in PrevBook(p), NEW r \in CurrBook(p), Twins(s, r)
    PROVE  <<Grain(s), Grain(r)>> \in Joined(Matching(p))
<1> DEFINE was == PrevBook(p)
           now == CurrBook(p)
           g == Grain(s)
           h == Grain(r)
           P == DOMAIN Prev(p)
           C == DOMAIN Curr(p)
           Ident(x) == Identity(Grain(x))
<1>1. /\ \A x \in was : PositionKey(x) # None /\ Grain(x) \in P
                        /\ Prev(p)[Grain(x)].cusip = x.cusip
      /\ \A y \in P : \E x \in was : y = Grain(x)
      /\ \A x, y \in was : Ident(x) = Ident(y) => x = y
      /\ \A x, y \in was : x.cusip = y.cusip /\ x.option = y.option => x = y
  <2>1. Proper(was) /\ Simple(was)
    BY PairBooks DEF Quiet
  <2> HIDE DEF was
  <2>2. P = DOMAIN Positions(was) /\ Prev(p) = Positions(was)
    BY DEF Prev, was
  <2> QED
    BY <2>1, <2>2, SimpleIs
<1>2. /\ \A x \in now : PositionKey(x) # None /\ Grain(x) \in C
                        /\ Curr(p)[Grain(x)].cusip = x.cusip
      /\ \A y \in C : \E x \in now : y = Grain(x)
      /\ \A x, y \in now : Ident(x) = Ident(y) => x = y
      /\ \A x, y \in now : x.cusip = y.cusip /\ x.option = y.option => x = y
  <2>1. Proper(now) /\ Simple(now)
    BY PairBooks DEF Quiet
  <2> HIDE DEF now
  <2>2. C = DOMAIN Positions(now) /\ Curr(p) = Positions(now)
    BY DEF Curr, now
  <2> QED
    BY <2>1, <2>2, SimpleIs
<1>3. /\ s \in was /\ r \in now /\ s.cusip = r.cusip /\ s.option = r.option
      /\ \A x \in now, y \in was :
            x.sid # None /\ y.sid # None => (x.cusip = y.cusip <=> x.sid = y.sid)
  BY DEF Twins, Quiet
<1>4. /\ Matching(p).matched = SameOf(p) \cup TurnedOf(p)
      /\ Matching(p).bridged = MatchCusip(Prev(p), Curr(p), OverBefore(p), OverNow(p))
      /\ Both(p) = P \cap C /\ LeftBefore(p) = P \ Both(p)
      /\ LeftNow(p) = C \ Both(p)
  BY MatchingOf DEF Both, LeftBefore, LeftNow
<1>5. g \in P /\ h \in C
  BY <1>1, <1>2, <1>3
<1>6. \A x, y : Grain(x) = Grain(y) => Ident(x) = Ident(y)
  OBVIOUS
<1> HIDE DEF was, now, P, C
<1>7. CASE Ident(s) = Ident(r)
  <2>1. CASE g = h
    <3>1. <<g, h>> \in SameOf(p)
      BY <1>4, <1>5, <2>1 DEF SameOf
    <3> QED
      BY <1>4, <3>1 DEF Joined
  <2>2. CASE g # h
    <3>1. g \notin C
      BY <1>2, <1>3, <1>6, <1>7, <2>2
    <3>2. h \notin P
      BY <1>1, <1>3, <1>6, <1>7, <2>2
    <3>3. g \in LeftBefore(p) /\ h \in LeftNow(p)
      BY <1>4, <1>5, <3>1, <3>2
    <3>4. \A y \in LeftBefore(p) : Identity(y) = Identity(g) => y = g
      BY <1>1, <1>3, <1>4
    <3>5. \A y \in LeftNow(p) : Identity(y) = Identity(h) => y = h
      BY <1>2, <1>3, <1>4
    <3>6. <<g, h>> \in TurnedOf(p)
      <4>1. Identity(g) = Identity(h)
        BY <1>7
      <4> HIDE DEF g, h
      <4>2. <<g, h>> \in LeftBefore(p) \X LeftNow(p) /\ <<g, h>>[1] = g /\ <<g, h>>[2] = h
        BY <3>3
      <4> QED
        BY <3>4, <3>5, <4>1, <4>2 DEF TurnedOf, Alone
    <3> QED
      BY <1>4, <3>6 DEF Joined
  <2> QED
    BY <2>1, <2>2
<1>8. CASE Ident(s) # Ident(r)
  <2>1. ASSUME NEW x \in was, NEW y \in now
        PROVE  Ident(x) = Ident(y) <=>
                  /\ x.option = y.option
                  /\ \/ x.sid # None /\ x.sid = y.sid
                     \/ x.sid = None /\ y.sid = None /\ x.cusip = y.cusip
    <3>1. PositionKey(x) # None /\ PositionKey(y) # None
      BY <1>1, <1>2
    <3> QED
      BY <3>1, KeysSay
  <2>2. /\ Resolved(g) <=> s.sid # None
        /\ Resolved(h) <=> r.sid # None
        /\ g[2] = s.option /\ h[2] = r.option
        /\ s.sid = None => s.cusip # None
        /\ r.sid = None => r.cusip # None
    <3>1. PositionKey(s) # None /\ PositionKey(r) # None
      BY <1>1, <1>2, <1>3
    <3> QED
      BY <3>1, KeysSay
  <2>3. (s.sid = None /\ r.sid # None) \/ (s.sid # None /\ r.sid = None)
    BY <1>3, <1>8, <2>1
  <2>4. \A x \in was : Ident(x) # Ident(r)
    <3> SUFFICES ASSUME NEW x \in was, Ident(x) = Ident(r) PROVE FALSE
      OBVIOUS
    <3>1. x.option = r.option
          /\ ((x.sid # None /\ x.sid = r.sid)
              \/ (x.sid = None /\ r.sid = None /\ x.cusip = r.cusip))
      BY <1>3, <2>1
    <3>2. x.cusip = r.cusip
      BY <1>3, <3>1
    <3>3. x = s
      BY <1>1, <1>3, <3>1, <3>2
    <3> QED
      BY <1>8, <3>3
  <2>5. \A y \in now : Ident(y) # Ident(s)
    <3> SUFFICES ASSUME NEW y \in now, Ident(s) = Ident(y) PROVE FALSE
      OBVIOUS
    <3>1. s.option = y.option
          /\ ((s.sid # None /\ s.sid = y.sid)
              \/ (s.sid = None /\ y.sid = None /\ s.cusip = y.cusip))
      BY <1>3, <2>1
    <3>2. y.cusip = s.cusip
      BY <1>3, <3>1
    <3>3. y = r
      BY <1>2, <1>3, <3>1, <3>2
    <3> QED
      BY <1>8, <3>3
  <2>6. g \notin C /\ h \notin P
    BY <1>1, <1>2, <1>6, <2>4, <2>5
  <2>7. g \in LeftBefore(p) /\ h \in LeftNow(p)
    BY <1>4, <1>5, <2>6
  <2>8. /\ \A m \in TurnedOf(p) : m[1] \in LeftBefore(p) /\ m[2] \in LeftNow(p)
                                  /\ Identity(m[1]) = Identity(m[2])
    BY DEF TurnedOf
  <2>9. g \in OverBefore(p) /\ h \in OverNow(p)
    <3>1. ASSUME NEW m \in TurnedOf(p), m[1] = g PROVE FALSE
      <4>1. PICK y \in now : m[2] = Grain(y)
        BY <1>2, <1>4, <2>8
      <4> QED
        BY <2>5, <2>8, <3>1, <4>1
    <3>2. ASSUME NEW m \in TurnedOf(p), m[2] = h PROVE FALSE
      <4>1. PICK y \in was : m[1] = Grain(y)
        BY <1>1, <1>4, <2>8
      <4> QED
        BY <2>4, <2>8, <3>2, <4>1
    <3> HIDE DEF g, h
    <3> QED
      BY <2>7, <3>1, <3>2 DEF OverBefore, OverNow
  <2>10. /\ \A y \in OverBefore(p) : y \in P
         /\ \A y \in OverNow(p) : y \in C
    BY <1>4 DEF OverBefore, OverNow
  <2>11. /\ Prev(p)[g].cusip = s.cusip /\ Curr(p)[h].cusip = r.cusip
         /\ \A x \in was : Prev(p)[Grain(x)].cusip = x.cusip /\ Grain(x)[2] = x.option
         /\ \A x \in now : Curr(p)[Grain(x)].cusip = x.cusip /\ Grain(x)[2] = x.option
    BY <1>1, <1>2, <1>3, KeysSay
  <2>12. \A y \in OverBefore(p) :
            <<Prev(p)[y].cusip, y[2]>> = <<Prev(p)[g].cusip, g[2]>> => y = g
    BY <1>1, <1>3, <2>2, <2>10, <2>11
  <2>13. \A y \in OverNow(p) :
            <<Curr(p)[y].cusip, y[2]>> = <<Curr(p)[h].cusip, h[2]>> => y = h
    BY <1>2, <1>3, <2>2, <2>10, <2>11
  <2>14. /\ Prev(p)[g].cusip # None /\ Prev(p)[g].cusip = Curr(p)[h].cusip
         /\ g[2] = h[2] /\ Resolved(g) # Resolved(h)
    BY <1>3, <2>2, <2>3, <2>11
  <2>15. <<g, h>> \in MatchCusip(Prev(p), Curr(p), OverBefore(p), OverNow(p))
    <3> DEFINE W == OverBefore(p)
               N == OverNow(p)
               prev == Prev(p)
               curr == Curr(p)
    <3>1. /\ g \in W /\ h \in N
          /\ prev[g].cusip # None /\ prev[g].cusip = curr[h].cusip
          /\ g[2] = h[2] /\ Resolved(g) # Resolved(h)
          /\ \A y \in W : <<prev[y].cusip, y[2]>> = <<prev[g].cusip, g[2]>> => y = g
          /\ \A y \in N : <<curr[y].cusip, y[2]>> = <<curr[h].cusip, h[2]>> => y = h
      BY <2>9, <2>12, <2>13, <2>14
    <3> HIDE DEF W, N, prev, curr, g, h
    <3>2. <<g, h>> \in W \X N /\ <<g, h>>[1] = g /\ <<g, h>>[2] = h
      BY <3>1
    <3>3. <<g, h>> \in SharesCusip(prev, curr, W, N)
      BY <3>1, <3>2 DEF SharesCusip
    <3>4. <<g, h>> \in MatchCusip(prev, curr, W, N)
      BY <3>1, <3>2, <3>3 DEF MatchCusip, Alone
    <3> QED
      BY <3>4, Zenon DEF W, N, prev, curr
  <2> QED
    BY <1>4, <2>15 DEF Joined
<1> QED
  BY <1>7, <1>8

(* Every match of quiet books is of one line with itself, and nothing is   *)
(* left over.                                                              *)
LEMMA QuietMatches ==
    ASSUME BooksType, NEW p \in Pairs, Quiet(p)
    PROVE  /\ Matching(p).exits = {} /\ Matching(p).news = {}
           /\ \A x \in Joined(Matching(p)) :
                 \E s \in PrevBook(p) : \E r \in CurrBook(p) :
                    Twins(s, r) /\ x[1] = Grain(s) /\ x[2] = Grain(r)
<1> DEFINE J == Joined(Matching(p))
           P == DOMAIN Prev(p)
           C == DOMAIN Curr(p)
           was == PrevBook(p)
           now == CurrBook(p)
<1>1. /\ J \subseteq P \X C
      /\ \A y, z \in J : y[1] = z[1] \/ y[2] = z[2] => y = z
      /\ Matching(p).exits = P \ {y[1] : y \in J}
      /\ Matching(p).news = C \ {y[2] : y \in J}
  BY MatchingIs DEF Matching
<1>2. Proper(was) /\ Simple(was) /\ Proper(now) /\ Simple(now)
  BY PairBooks DEF Quiet
<1>3. \A g \in P : \E s \in was : g = Grain(s)
  BY <1>2, SimpleIs DEF Prev
<1>4. \A g \in C : \E r \in now : g = Grain(r)
  BY <1>2, SimpleIs DEF Curr
<1>5. /\ \A r \in now : \E s \in was : Twins(s, r)
      /\ \A s \in was : \E r \in now : Twins(s, r)
  BY TwinsAre
<1>6. \A s \in was, r \in now : Twins(s, r) => <<Grain(s), Grain(r)>> \in J
  BY TwinsJoin
<1> HIDE DEF J, P, C, was, now
<1>7. ASSUME NEW g \in P
      PROVE  \E s \in was : \E r \in now :
                Twins(s, r) /\ g = Grain(s) /\ <<g, Grain(r)>> \in J
  BY <1>3, <1>5, <1>6
<1>8. ASSUME NEW h \in C
      PROVE  \E s \in was : \E r \in now :
                Twins(s, r) /\ h = Grain(r) /\ <<Grain(s), h>> \in J
  BY <1>4, <1>5, <1>6
<1>9. Matching(p).exits = {}
  <2> SUFFICES ASSUME NEW g \in P, g \notin {y[1] : y \in J} PROVE FALSE
    BY <1>1
  <2>1. PICK s \in was : \E r \in now :
                Twins(s, r) /\ g = Grain(s) /\ <<g, Grain(r)>> \in J
    BY <1>7
  <2>2. PICK r \in now : <<g, Grain(r)>> \in J
    BY <2>1
  <2>3. <<g, Grain(r)>>[1] = g
    OBVIOUS
  <2> QED
    BY <2>2, <2>3
<1>10. Matching(p).news = {}
  <2> SUFFICES ASSUME NEW h \in C, h \notin {y[2] : y \in J} PROVE FALSE
    BY <1>1
  <2>1. PICK s \in was : \E r \in now :
                Twins(s, r) /\ h = Grain(r) /\ <<Grain(s), h>> \in J
    BY <1>8
  <2>2. <<Grain(s), h>> \in J
    BY <2>1
  <2>3. <<Grain(s), h>>[2] = h
    OBVIOUS
  <2> QED
    BY <2>2, <2>3
<1>11. ASSUME NEW x \in J
       PROVE  \E s \in was : \E r \in now :
                 Twins(s, r) /\ x[1] = Grain(s) /\ x[2] = Grain(r)
  <2>1. x[1] \in P
    BY <1>1
  <2>2. PICK s \in was : \E r \in now :
                Twins(s, r) /\ x[1] = Grain(s) /\ <<x[1], Grain(r)>> \in J
    BY <1>7, <2>1
  <2>3. PICK r \in now :
                Twins(s, r) /\ x[1] = Grain(s) /\ <<x[1], Grain(r)>> \in J
    BY <2>2
  <2>4. <<x[1], Grain(r)>>[1] = x[1] /\ <<x[1], Grain(r)>>[2] = Grain(r)
    OBVIOUS
  <2>5. x = <<x[1], Grain(r)>>
    BY <1>1, <2>3, <2>4
  <2> QED
    BY <2>3, <2>4, <2>5
<1> QED
  BY <1>9, <1>10, <1>11 DEF J, was, now

(* A row of equal shares is held, or of an unknown or another unit.        *)
LEMMA EqualShares ==
    ASSUME NEW p, NEW key, NEW prev, NEW curr, NEW reconciled, NEW prior,
           prev # None, curr # None,
           prev.shares \in Int \cup {None}, curr.shares \in Int \cup {None},
           prev.shares # None /\ curr.shares # None => prev.shares = curr.shares
    PROVE  QoqRow(p, key, prev, curr, reconciled, prior).kind
              \in {"held", "unclassified"}
<1> DEFINE compatible == /\ prev # None /\ curr # None
                         /\ prev.unit # None /\ prev.unit = curr.unit
                         /\ None \notin {prev.shares, curr.shares}
           moved == IF compatible THEN curr.shares - prev.shares ELSE None
<1>1. moved = 0 \/ moved = None
  <2> DEFINE a == prev.shares
             b == curr.shares
  <2>1. None \notin {a, b} => a \in Int /\ b = a
    OBVIOUS
  <2>2. a \in Int => a - a = 0
    <3> HIDE DEF a
    <3> QED
      OBVIOUS
  <2> QED
    BY <2>1, <2>2
<1>2. QoqRow(p, key, prev, curr, reconciled, prior).kind =
         IF moved = None THEN "unclassified" ELSE IF moved = 0 THEN "held"
         ELSE IF moved > 0 THEN "add" ELSE "trim"
  BY DEF QoqRow
<1> HIDE DEF moved
<1> QED
  BY <1>1, <1>2

(* So no row of quiet books is a trade.                                    *)
LEMMA QuietRows ==
    ASSUME BooksType, NEW p \in Pairs, Quiet(p), NEW d \in OracleRows(p)
    PROVE  d.kind \in {"held", "unclassified"}
<1>1. PICK x \in Joined(Matching(p)) : d = TiedRow(p, x)
  BY QuietMatches, OracleRowsHave DEF Tied, Newly, Left
<1>2. PICK s \in PrevBook(p) : \E r \in CurrBook(p) :
                    Twins(s, r) /\ x[1] = Grain(s) /\ x[2] = Grain(r)
  BY QuietMatches
<1>3. PICK r \in CurrBook(p) : Twins(s, r) /\ x[1] = Grain(s) /\ x[2] = Grain(r)
  BY <1>2
<1> DEFINE prev == Prev(p)[x[1]]
           curr == Curr(p)[x[2]]
           key == x[2]
           reconciled == x \in Matching(p).bridged
           prior == TRUE
<1>4. /\ prev.shares = IF s.unit = None THEN None ELSE s.shares
      /\ curr.shares = IF r.unit = None THEN None ELSE r.shares
      /\ s \in Row /\ r \in Row
  <2>1. /\ Proper(PrevBook(p)) /\ Simple(PrevBook(p))
        /\ Proper(CurrBook(p)) /\ Simple(CurrBook(p))
    BY PairBooks DEF Quiet
  <2> QED
    BY <1>2, <1>3, <2>1, SimpleIs DEF Prev, Curr
<1>5. prev # None /\ curr # None
  <2>1. x[1] \in DOMAIN Prev(p) /\ x[2] \in DOMAIN Curr(p)
    BY <1>1, TiedRowIs
  <2> QED
    BY <2>1, SidesHold
<1>6. s.shares \in Int \cup {None} /\ r.shares = s.shares
  <2>1. s.shares \in (-MaxInt .. MaxInt) \cup {None}
    BY <1>4 DEF Row
  <2> QED
    BY <1>3, <2>1, Sized DEF Twins
<1>7. d = QoqRow(p, key, prev, curr, reconciled, prior)
  BY <1>1, Zenon DEF TiedRow
<1> HIDE DEF prev, curr, key, reconciled, prior
<1> QED
  BY <1>4, <1>5, <1>6, <1>7, EqualShares

(* The invariant makes quiet books held.                                   *)
LEMMA QuietIs == AggregateIInv => QuietBooksAreHeld
<1> SUFFICES ASSUME AggregateIInv, Built, NEW p \in Pairs,
                    NEW now, now = Book(p.cik, p.curr),
                    NEW was, was = Book(p.from, p.prev),
                    Adjacent(p), Simple(now), Simple(was), Lines(now) = Lines(was),
                    \A r \in now, s \in was :
                       {r.sid, s.sid} # {None} /\ None \notin {r.sid, s.sid} =>
                          (r.cusip = s.cusip <=> r.sid = s.sid),
                    NEW d \in agg.deltas, d.cik = p.cik, d.curr = p.curr
             PROVE  d.kind \in {"held", "unclassified"}
  BY DEF QuietBooksAreHeld
<1>1. now = CurrBook(p) /\ was = PrevBook(p)
  BY DEF CurrBook, PrevBook
<1>2. \A r \in now, s \in was :
         r.sid # None /\ s.sid # None => (r.cusip = s.cusip <=> r.sid = s.sid)
  OBVIOUS
<1>3. Quiet(p)
  BY <1>1, <1>2 DEF Quiet
<1>4. agg.deltas = OracleDeltas /\ BooksType
  BY BuiltIs DEF AggregateIInv
<1>5. d \in OracleRows(p)
  BY <1>4, PairRows
<1> QED
  BY <1>3, <1>4, <1>5, QuietRows

(* A registry that learns or loses a security, and a change of the         *)
(* reported unit, are no trades.                                           *)
THEOREM QuietBooksAreAlwaysHeld ==
    ASSUME OneSuccessor PROVE AggregateSpec => []QuietBooksAreHeld
BY AggregateInvariant, QuietIs, PTL

(***************************************************************************)
(* A class that a book holds in one line.                                  *)
(***************************************************************************)
(* Rows of one security or of one CUSIP.                                   *)
Kin(x, r) ==
    \/ r.sid # None /\ x.sid = r.sid
    \/ r.cusip # None /\ x.cusip = r.cusip

(* The only one of its kin in a book.                                      *)
Sole(book, r) ==
    /\ r \in book /\ PositionKey(r) # None
    /\ \A x \in book : Kin(x, r) => x = r

(* A position that has the identity or the CUSIP of a row is of a row of   *)
(* its kin.                                                                *)
LEMMA KinSay ==
    ASSUME NEW book, Proper(book), NEW r, PositionKey(r) # None,
           NEW g \in DOMAIN Positions(book),
           \/ Identity(g) = Identity(Grain(r))
           \/ r.cusip # None /\ Positions(book)[g].cusip = r.cusip
    PROVE  \E x \in book : PositionKey(x) # None /\ Kin(x, r) /\ g = Grain(x)
<1>1. PICK y \in Keyed(book) : g = Grain(y)
  BY PositionsAre
<1>2. y \in book /\ PositionKey(y) # None
  BY DEF Keyed
<1>3. CASE Identity(g) = Identity(Grain(r))
  <2>1. \/ y.sid # None /\ y.sid = r.sid
        \/ y.sid = None /\ r.sid = None /\ y.cusip = r.cusip
    BY <1>1, <1>2, <1>3, KeysSay
  <2>2. y.sid = None => y.cusip # None
    BY <1>2, KeysSay
  <2> QED
    BY <1>1, <1>2, <2>1, <2>2 DEF Kin
<1>4. CASE r.cusip # None /\ Positions(book)[g].cusip = r.cusip
  <2> DEFINE rows == RowsOf(book, g)
             cusips == {x.cusip : x \in rows} \ {None}
  <2>1. Positions(book)[g].cusip = SingleCusip(rows)
    <3>1. Positions(book)[g] = Finalize(rows)
      BY PositionsAre
    <3>2. Finalize(rows).cusip = SingleCusip(rows)
      <4> HIDE DEF rows
      <4> QED
        BY DEF Finalize
    <3> QED
      BY <3>1, <3>2
  <2>2. SingleCusip(rows) = IF Cardinality(cusips) = 1 THEN CHOOSE c \in cusips : TRUE
                            ELSE None
    BY Zenon DEF SingleCusip
  <2>3. Cardinality(cusips) = 1 => cusips # {}
    BY FS_EmptySet
  <2> HIDE DEF cusips
  <2>4. r.cusip \in cusips
    <3>1. Cardinality(cusips) = 1 /\ r.cusip = CHOOSE c \in cusips : TRUE
      BY <1>4, <2>1, <2>2
    <3> QED
      BY <2>3, <3>1
  <2>5. PICK x \in rows : x.cusip = r.cusip
    BY <2>4 DEF cusips
  <2>6. x \in book /\ PositionKey(x) # None /\ Grain(x) = g
    BY <2>5 DEF RowsOf, Keyed
  <2> QED
    BY <1>4, <2>5, <2>6 DEF Kin
<1> QED
  BY <1>3, <1>4

(* The position of a row without kin is that row.                          *)
LEMMA SoleIs ==
    ASSUME NEW book, Proper(book), NEW r, Sole(book, r)
    PROVE  /\ r \in Row /\ Grain(r) \in DOMAIN Positions(book)
           /\ Positions(book)[Grain(r)].unit = r.unit
           /\ Positions(book)[Grain(r)].cusip = r.cusip
           /\ Positions(book)[Grain(r)].shares =
                 IF r.unit = None THEN None ELSE r.shares
<1>1. r \in Row /\ r \in Keyed(book) /\ PositionKey(r) # None
  BY DEF Sole, Keyed, Proper
<1>2. Grain(r) \in DOMAIN Positions(book)
  BY <1>1, PositionsAre
<1>3. RowsOf(book, Grain(r)) = {r}
  <2>1. ASSUME NEW x \in Keyed(book), Grain(x) = Grain(r) PROVE x = r
    <3>1. x \in book /\ PositionKey(x) # None
      BY DEF Keyed
    <3>2. \/ x.sid # None /\ x.sid = r.sid
          \/ x.sid = None /\ r.sid = None /\ x.cusip = r.cusip
      BY <1>1, <2>1, <3>1, KeysSay
    <3>3. r.sid = None => r.cusip # None
      BY <1>1, KeysSay
    <3>4. Kin(x, r)
      BY <3>2, <3>3 DEF Kin
    <3> QED
      BY <3>1, <3>4 DEF Sole
  <2> QED
    BY <1>1, <2>1 DEF RowsOf
<1>4. Positions(book)[Grain(r)] = Finalize({r})
  BY <1>2, <1>3, PositionsAre
<1> QED
  BY <1>1, <1>2, <1>4, SingleIs

(* A line before and a line now that resemble each other and nothing else. *)
Couple(p, s, r) ==
    /\ Sole(PrevBook(p), s) /\ Sole(CurrBook(p), r) /\ s.option = r.option
    /\ \A x \in PrevBook(p) : Kin(x, r) => x = s
    /\ \A x \in CurrBook(p) : Kin(x, s) => x = r
    /\ \/ s.sid # None /\ s.sid = r.sid
       \/ s.cusip # None /\ s.cusip = r.cusip /\ None \in {s.sid, r.sid}

(* Two lines that nothing else resembles are matched, by the first stage   *)
(* that can see them.                                                      *)
LEMMA CouplesJoin ==
    ASSUME BooksType, NEW p \in Pairs, NEW s, NEW r, Couple(p, s, r)
    PROVE  <<Grain(s), Grain(r)>> \in Joined(Matching(p))
<1> DEFINE was == PrevBook(p)
           now == CurrBook(p)
           g == Grain(s)
           h == Grain(r)
           P == DOMAIN Prev(p)
           C == DOMAIN Curr(p)
<1>0. /\ Sole(was, s) /\ Sole(now, r) /\ s.option = r.option
      /\ \A x \in was : Kin(x, r) => x = s
      /\ \A x \in now : Kin(x, s) => x = r
      /\ \/ s.sid # None /\ s.sid = r.sid
         \/ s.cusip # None /\ s.cusip = r.cusip /\ None \in {s.sid, r.sid}
  BY DEF Couple
<1>1. /\ Proper(was) /\ Proper(now)
      /\ Prev(p) = Positions(was) /\ Curr(p) = Positions(now)
  BY PairBooks DEF Prev, Curr
<1>2. /\ PositionKey(s) # None /\ PositionKey(r) # None
      /\ g \in P /\ h \in C
      /\ Prev(p)[g].cusip = s.cusip /\ Curr(p)[h].cusip = r.cusip
  <2>1. PositionKey(s) # None /\ PositionKey(r) # None
    BY <1>0 DEF Sole
  <2> HIDE DEF was, now
  <2> QED
    BY <1>0, <1>1, <2>1, SoleIs
<1> HIDE DEF was, now
<1>3. ASSUME NEW y \in P
      PROVE  /\ Identity(y) = Identity(g) => y = g
             /\ s.cusip # None /\ Prev(p)[y].cusip = s.cusip => y = g
             /\ Identity(y) = Identity(h) => y = g
  <2>1. ASSUME \/ Identity(y) = Identity(Grain(s))
               \/ s.cusip # None /\ Positions(was)[y].cusip = s.cusip
        PROVE  y = g
    <3>1. PICK x \in was : PositionKey(x) # None /\ Kin(x, s) /\ y = Grain(x)
      BY <1>1, <1>2, <2>1, KinSay
    <3> QED
      BY <1>0, <3>1 DEF Sole
  <2>2. ASSUME Identity(y) = Identity(Grain(r)) PROVE y = g
    <3>1. PICK x \in was : PositionKey(x) # None /\ Kin(x, r) /\ y = Grain(x)
      BY <1>1, <1>2, <2>2, KinSay
    <3> QED
      BY <1>0, <3>1
  <2> QED
    BY <1>1, <2>1, <2>2
<1>4. ASSUME NEW y \in C
      PROVE  /\ Identity(y) = Identity(h) => y = h
             /\ r.cusip # None /\ Curr(p)[y].cusip = r.cusip => y = h
             /\ Identity(y) = Identity(g) => y = h
  <2>1. ASSUME \/ Identity(y) = Identity(Grain(r))
               \/ r.cusip # None /\ Positions(now)[y].cusip = r.cusip
        PROVE  y = h
    <3>1. PICK x \in now : PositionKey(x) # None /\ Kin(x, r) /\ y = Grain(x)
      BY <1>1, <1>2, <2>1, KinSay
    <3> QED
      BY <1>0, <3>1 DEF Sole
  <2>2. ASSUME Identity(y) = Identity(Grain(s)) PROVE y = h
    <3>1. PICK x \in now : PositionKey(x) # None /\ Kin(x, s) /\ y = Grain(x)
      BY <1>1, <1>2, <2>2, KinSay
    <3> QED
      BY <1>0, <3>1
  <2> QED
    BY <1>1, <2>1, <2>2
<1>5. /\ Matching(p).matched = SameOf(p) \cup TurnedOf(p)
      /\ Matching(p).bridged = MatchCusip(Prev(p), Curr(p), OverBefore(p), OverNow(p))
      /\ Both(p) = P \cap C /\ LeftBefore(p) = P \ Both(p)
      /\ LeftNow(p) = C \ Both(p)
  BY MatchingOf DEF Both, LeftBefore, LeftNow
<1>6. CASE g = h
  <2>1. <<g, h>> \in SameOf(p)
    BY <1>2, <1>5, <1>6 DEF SameOf
  <2> QED
    BY <1>5, <2>1 DEF Joined
<1>7. CASE g # h
  <2>1. g \in LeftBefore(p) /\ h \in LeftNow(p)
    BY <1>2, <1>3, <1>4, <1>5, <1>7
  <2>2. CASE Identity(g) = Identity(h)
    <3>1. /\ \A y \in LeftBefore(p) : Identity(y) = Identity(g) => y = g
          /\ \A y \in LeftNow(p) : Identity(y) = Identity(h) => y = h
      BY <1>3, <1>4, <1>5
    <3> HIDE DEF g, h
    <3>2. <<g, h>> \in LeftBefore(p) \X LeftNow(p) /\ <<g, h>>[1] = g /\ <<g, h>>[2] = h
      BY <2>1
    <3>3. <<g, h>> \in TurnedOf(p)
      BY <2>2, <3>1, <3>2 DEF TurnedOf, Alone
    <3>4. <<g, h>> \in Matching(p).matched
      BY <1>5, <3>3
    <3> QED
      BY <3>4, Zenon DEF Joined, g, h
  <2>3. CASE Identity(g) # Identity(h)
    <3>1. /\ Resolved(g) <=> s.sid # None
          /\ Resolved(h) <=> r.sid # None
          /\ g[2] = s.option /\ h[2] = r.option
          /\ Identity(g) = Identity(h) <=>
                /\ s.option = r.option
                /\ \/ s.sid # None /\ s.sid = r.sid
                   \/ s.sid = None /\ r.sid = None /\ s.cusip = r.cusip
      BY <1>2, KeysSay
    <3>2. /\ s.cusip # None /\ s.cusip = r.cusip /\ Resolved(g) # Resolved(h)
          /\ g[2] = h[2]
      BY <1>0, <2>3, <3>1
    <3>3. ASSUME NEW m \in TurnedOf(p) PROVE m[1] # g /\ m[2] # h
      <4>1. m[1] \in P /\ m[2] \in C /\ Identity(m[1]) = Identity(m[2])
        BY <1>5 DEF TurnedOf
      <4> QED
        BY <1>3, <1>4, <2>3, <4>1
    <3>4. g \in OverBefore(p) /\ h \in OverNow(p)
      <4> HIDE DEF g, h
      <4> QED
        BY <2>1, <3>3 DEF OverBefore, OverNow
    <3>5. /\ \A y \in OverBefore(p) : y \in P
          /\ \A y \in OverNow(p) : y \in C
      BY <1>5 DEF OverBefore, OverNow
    <3> DEFINE W == OverBefore(p)
               N == OverNow(p)
               prev == Prev(p)
               curr == Curr(p)
    <3>6. /\ g \in W /\ h \in N
          /\ prev[g].cusip # None /\ prev[g].cusip = curr[h].cusip
          /\ g[2] = h[2] /\ Resolved(g) # Resolved(h)
          /\ \A y \in W : <<prev[y].cusip, y[2]>> = <<prev[g].cusip, g[2]>> => y = g
          /\ \A y \in N : <<curr[y].cusip, y[2]>> = <<curr[h].cusip, h[2]>> => y = h
      BY <1>2, <1>3, <1>4, <3>2, <3>4, <3>5
    <3> HIDE DEF W, N, prev, curr, g, h
    <3>7. <<g, h>> \in W \X N /\ <<g, h>>[1] = g /\ <<g, h>>[2] = h
      BY <3>6
    <3>8. <<g, h>> \in SharesCusip(prev, curr, W, N)
      BY <3>6, <3>7 DEF SharesCusip
    <3>9. <<g, h>> \in MatchCusip(prev, curr, W, N)
      BY <3>6, <3>7, <3>8 DEF MatchCusip, Alone
    <3>10. <<g, h>> \in Matching(p).bridged
      BY <1>5, <3>9, Zenon DEF W, N, prev, curr
    <3> QED
      BY <3>10, Zenon DEF Joined, g, h
  <2> QED
    BY <2>2, <2>3
<1> QED
  BY <1>6, <1>7

(* A match is of one identity or of one CUSIP.                             *)
LEMMA MatchesSay ==
    ASSUME NEW p, NEW m \in Joined(Matching(p))
    PROVE  \/ Identity(m[1]) = Identity(m[2])
           \/ /\ Prev(p)[m[1]].cusip # None
              /\ Prev(p)[m[1]].cusip = Curr(p)[m[2]].cusip
<1>1. /\ Matching(p).matched = SameOf(p) \cup TurnedOf(p)
      /\ Matching(p).bridged = MatchCusip(Prev(p), Curr(p), OverBefore(p), OverNow(p))
  BY MatchingOf
<1>2. CASE m \in SameOf(p)
  BY <1>2 DEF SameOf
<1>3. CASE m \in TurnedOf(p)
  BY <1>3 DEF TurnedOf
<1>4. CASE m \in MatchCusip(Prev(p), Curr(p), OverBefore(p), OverNow(p))
  <2>1. m \in SharesCusip(Prev(p), Curr(p), OverBefore(p), OverNow(p))
    BY <1>4 DEF MatchCusip
  <2> QED
    BY <2>1 DEF SharesCusip
<1> QED
  BY <1>1, <1>2, <1>3, <1>4 DEF Joined

(* A line without kin before is a new position.                            *)
LEMMA NewcomersAreNew ==
    ASSUME BooksType, NEW p \in Pairs, NEW r, Sole(CurrBook(p), r),
           \A x \in PrevBook(p) : ~Kin(x, r)
    PROVE  Grain(r) \in Matching(p).news
<1>1. /\ Proper(PrevBook(p)) /\ Proper(CurrBook(p)) /\ PositionKey(r) # None
      /\ Prev(p) = Positions(PrevBook(p)) /\ Curr(p) = Positions(CurrBook(p))
  BY PairBooks DEF Prev, Curr, Sole
<1>2. Grain(r) \in DOMAIN Curr(p) /\ Curr(p)[Grain(r)].cusip = r.cusip
  BY <1>1, SoleIs
<1>3. ASSUME NEW m \in Joined(Matching(p)), m[2] = Grain(r) PROVE FALSE
  <2>1. m[1] \in DOMAIN Prev(p)
    BY MatchingIs DEF Matching
  <2>2. \/ Identity(m[1]) = Identity(Grain(r))
        \/ r.cusip # None /\ Positions(PrevBook(p))[m[1]].cusip = r.cusip
    BY <1>1, <1>2, <1>3, MatchesSay
  <2>3. \E x \in PrevBook(p) : PositionKey(x) # None /\ Kin(x, r) /\ m[1] = Grain(x)
    BY <1>1, <2>1, <2>2, KinSay
  <2> QED
    BY <2>3
<1>4. Matching(p).news = (DOMAIN Curr(p)) \ {m[2] : m \in Joined(Matching(p))}
  BY MatchingIs DEF Matching
<1> QED
  BY <1>2, <1>3, <1>4

(* One without kin now is an exit.                                         *)
LEMMA LeaversExit ==
    ASSUME BooksType, NEW p \in Pairs, NEW s, Sole(PrevBook(p), s),
           \A x \in CurrBook(p) : ~Kin(x, s)
    PROVE  Grain(s) \in Matching(p).exits
<1>1. /\ Proper(PrevBook(p)) /\ Proper(CurrBook(p)) /\ PositionKey(s) # None
      /\ Prev(p) = Positions(PrevBook(p)) /\ Curr(p) = Positions(CurrBook(p))
  BY PairBooks DEF Prev, Curr, Sole
<1>2. Grain(s) \in DOMAIN Prev(p) /\ Prev(p)[Grain(s)].cusip = s.cusip
  BY <1>1, SoleIs
<1>3. ASSUME NEW m \in Joined(Matching(p)), m[1] = Grain(s) PROVE FALSE
  <2>1. m[2] \in DOMAIN Curr(p)
    BY MatchingIs DEF Matching
  <2>2. \/ Identity(m[2]) = Identity(Grain(s))
        \/ s.cusip # None /\ Positions(CurrBook(p))[m[2]].cusip = s.cusip
    BY <1>1, <1>2, <1>3, MatchesSay
  <2>3. \E x \in CurrBook(p) : PositionKey(x) # None /\ Kin(x, s) /\ m[2] = Grain(x)
    BY <1>1, <2>1, <2>2, KinSay
  <2> QED
    BY <2>3
<1>4. Matching(p).exits = (DOMAIN Prev(p)) \ {m[1] : m \in Joined(Matching(p))}
  BY MatchingIs DEF Matching
<1> QED
  BY <1>2, <1>3, <1>4

(* The kind of a change of shares.                                         *)
Sort(moved) ==
    IF moved = None THEN "unclassified" ELSE IF moved = 0 THEN "held"
    ELSE IF moved > 0 THEN "add" ELSE "trim"

(* The kind and the change a row tells, from its two positions.            *)
LEMMA RowTells ==
    ASSUME NEW p, NEW key, NEW prev, NEW curr, NEW reconciled, NEW prior,
           NEW d, d = QoqRow(p, key, prev, curr, reconciled, prior)
    PROVE  /\ prev = None /\ curr # None =>
                 /\ d.kind = IF prior THEN "new" ELSE "no_prior"
                 /\ d.moved = IF prior THEN curr.shares ELSE None
           /\ prev # None /\ curr = None =>
                 d.kind = "exit" /\ d.moved = Minus(0, prev.shares)
           /\ prev # None /\ curr # None =>
                 /\ d.moved = IF /\ prev.unit # None /\ prev.unit = curr.unit
                                 /\ None \notin {prev.shares, curr.shares}
                              THEN curr.shares - prev.shares ELSE None
                 /\ d.kind = Sort(d.moved)
<1> DEFINE was == IF prev # None THEN prev.value
                  ELSE IF prior THEN 0 ELSE None
           is == IF curr # None THEN curr.value ELSE 0
           sharesWas == IF prev # None THEN prev.shares ELSE None
           sharesIs == IF curr # None THEN curr.shares ELSE None
           both == prev # None /\ curr # None
           compatible == /\ both /\ prev.unit # None /\ prev.unit = curr.unit
                         /\ None \notin {sharesWas, sharesIs}
           moved == IF prev = None THEN (IF prior THEN sharesIs ELSE None)
                    ELSE IF curr = None THEN Minus(0, sharesWas)
                    ELSE IF compatible THEN sharesIs - sharesWas ELSE None
           kind == IF prev = None THEN (IF prior THEN "new" ELSE "no_prior")
                   ELSE IF curr = None THEN "exit"
                   ELSE IF moved = None THEN "unclassified"
                   ELSE IF moved = 0 THEN "held"
                   ELSE IF moved > 0 THEN "add" ELSE "trim"
           flags == Flags(reconciled, "identity_reconciled_by_cusip")
                    \cup Flags(Migrated(p), "filer_migrated")
                    \cup Flags(both /\ ~compatible, "shares_unit_mismatch")
                    \cup Flags(both /\ moved = None, "change_kind_undeterminable")
                    \cup Flags(\/ prev # None /\ was = None
                               \/ curr # None /\ is = None,
                               "value_undisclosed_one_side")
<1>1. d =
        [cik |-> p.cik, curr |-> p.curr, prev |-> p.prev, key |-> key,
         kind |-> kind, was |-> was, is |-> is, change |-> Minus(is, was),
         sharesWas |-> sharesWas, sharesIs |-> sharesIs, moved |-> moved,
         flags |-> flags]
  BY Zenon DEF QoqRow
<1>2. d.kind = kind /\ d.moved = moved
  <2> HIDE DEF was, is, sharesWas, sharesIs, moved, kind, flags
  <2> QED
    BY <1>1
<1>3. CASE prev = None /\ curr # None
  BY <1>2, <1>3
<1>4. CASE prev # None /\ curr = None
  BY <1>2, <1>4
<1>5. CASE prev # None /\ curr # None
  <2>1. kind = Sort(moved)
    <3> HIDE DEF moved
    <3> QED
      BY <1>5 DEF Sort
  <2>2. moved = IF /\ prev.unit # None /\ prev.unit = curr.unit
                   /\ None \notin {prev.shares, curr.shares}
                THEN curr.shares - prev.shares ELSE None
    BY <1>5
  <2> HIDE DEF moved, kind
  <2> QED
    BY <1>2, <1>5, <2>1, <2>2
<1> QED
  BY <1>3, <1>4, <1>5

(* The lines of a holder, now and in the quarter before.                   *)
ClassNow(h) == ClassRows(h.ticker, h.cik, h.quarter)
ClassBefore(h) == ClassRows(h.ticker, h.cik, PriorQuarter(h.quarter))

(* What its row says of them.                                              *)
HolderSays(h, c, now) ==
    /\ ClassBefore(h) = {} /\ FiledIn(c, PriorQuarter(now)) =>
          h.kind = "new" /\ h.moved = ClassShares(ClassNow(h))
    /\ ClassBefore(h) # {} /\ ClassNow(h) = {} /\ FiledIn(c, now) =>
          h.kind = "exit" /\ h.moved = Minus(0, ClassShares(ClassBefore(h)))
    /\ ClassBefore(h) # {} /\ ClassNow(h) # {} =>
          /\ h.moved = IF /\ {UnitKey(r) : r \in ClassNow(h)}
                                = {UnitKey(r) : r \in ClassBefore(h)}
                          /\ None \notin {ClassShares(ClassNow(h)),
                                          ClassShares(ClassBefore(h))}
                       THEN ClassShares(ClassNow(h)) - ClassShares(ClassBefore(h))
                       ELSE None
          /\ h.kind = Sort(h.moved)

(* What a holder's row says of the class's lines.                          *)
LEMMA HolderTells ==
    ASSUME NEW t, NEW c, NEW now, NEW h, h = HolderRow(t, c, now)
    PROVE  h.ticker = t /\ h.cik = c /\ h.quarter = now /\ HolderSays(h, c, now)
<1> DEFINE cur == ClassRows(t, c, now)
           prv == ClassRows(t, c, PriorQuarter(now))
           sharesIs == ClassShares(cur)
           sharesWas == ClassShares(prv)
           unitsOk == /\ {UnitKey(r) : r \in cur} = {UnitKey(r) : r \in prv}
                      /\ None \notin {sharesIs, sharesWas}
           moved == IF prv = {} THEN (IF FiledIn(c, PriorQuarter(now))
                                      THEN sharesIs ELSE None)
                    ELSE IF cur = {} THEN (IF FiledIn(c, now)
                                           THEN Minus(0, sharesWas) ELSE None)
                    ELSE IF unitsOk THEN sharesIs - sharesWas ELSE None
           kind == IF prv = {} THEN (IF FiledIn(c, PriorQuarter(now))
                                     THEN "new" ELSE "no_prior")
                   ELSE IF cur = {} THEN (IF FiledIn(c, now)
                                          THEN "exit" ELSE "unclassified")
                   ELSE IF moved = None THEN "unclassified"
                   ELSE IF moved = 0 THEN "held"
                   ELSE IF moved > 0 THEN "add" ELSE "trim"
           value == IF cur = {} THEN None ELSE WholeSum([r \in cur |-> r.value])
           holds == cur # {}
           filed == FiledIn(c, now)
<1>1. h = [ticker |-> t, quarter |-> now, cik |-> c, kind |-> kind,
           value |-> value, sharesIs |-> sharesIs, sharesWas |-> sharesWas,
           moved |-> moved, holds |-> holds, filed |-> filed]
  BY Zenon DEF HolderRow
<1>2. /\ h.ticker = t /\ h.cik = c /\ h.quarter = now
      /\ h.kind = kind /\ h.moved = moved
  <2> HIDE DEF kind, value, sharesIs, sharesWas, moved, holds, filed
  <2> QED
    BY <1>1
<1>3. ClassNow(h) = cur /\ ClassBefore(h) = prv
  BY <1>2, Zenon DEF ClassNow, ClassBefore
<1>4. prv = {} /\ FiledIn(c, PriorQuarter(now)) => kind = "new" /\ moved = sharesIs
  BY Zenon
<1>5. prv # {} /\ cur = {} /\ FiledIn(c, now) => kind = "exit" /\ moved = Minus(0, sharesWas)
  BY Zenon
<1>6. prv # {} /\ cur # {} =>
         /\ kind = Sort(moved)
         /\ moved = IF unitsOk THEN sharesIs - sharesWas ELSE None
  <2>1. ASSUME prv # {}, cur # {}
        PROVE  moved = IF unitsOk THEN sharesIs - sharesWas ELSE None
    BY <2>1, Zenon
  <2>2. ASSUME prv # {}, cur # {} PROVE kind = Sort(moved)
    <3> HIDE DEF moved, prv, cur
    <3> QED
      BY <2>2, Zenon DEF Sort
  <2> QED
    BY <2>1, <2>2
<1> HIDE DEF cur, prv, moved, kind
<1> QED
  BY <1>2, <1>3, <1>4, <1>5, <1>6, Zenon DEF unitsOk, sharesIs, sharesWas, HolderSays

(* The shares of one line.                                                 *)
LEMMA ClassSharesIs ==
    ASSUME NEW r \in Row
    PROVE  ClassShares({r}) = r.shares /\ r.shares \in Int \cup {None}
<1>1. r.shares \in Int \cup {None}
  <2>1. r.shares \in (-MaxInt .. MaxInt) \cup {None}
    BY DEF Row
  <2> QED
    BY <2>1, Sized
<1>2. {UnitKey(x) : x \in {r}} = {UnitKey(r)} /\ Cardinality({UnitKey(r)}) = 1
      /\ {r} # {}
  BY FS_Singleton
<1> DEFINE w == [x \in {r} |-> x.shares]
<1>3. ClassShares({r}) = WholeSum(w)
  BY <1>2, Zenon DEF ClassShares
<1>4. w = [x \in {r} |-> w[x]] /\ w[r] = r.shares
  OBVIOUS
<1> HIDE DEF w
<1>5. WholeSum(w) = w[r]
  BY <1>1, <1>4, SingleSum
<1> QED
  BY <1>1, <1>3, <1>4, <1>5

(* A holder that is shown is one of the newest closed quarter with a line  *)
(* of the class.                                                           *)
LEMMA ShownIs ==
    ASSUME AggregateIInv, Built, NEW t \in agg.tickers, NEW k \in t[2]
    PROVE  /\ ClosedQuarters # {}
           /\ \E ticker : \E c \in Ciks :
                 /\ k[2] = HolderRow(ticker, c, Max(ClosedQuarters))
                 /\ \/ ClassRows(ticker, c, Max(ClosedQuarters)) # {}
                    \/ ClassRows(ticker, c, PriorQuarter(Max(ClosedQuarters))) # {}
<1>1. agg = Gated(OracleDeltas, OracleConcentrations, OracleHolders) /\ agg.outcome = "built"
  BY Zenon DEF AggregateIInv, Built, OracleResult
<1>2. ASSUME NEW o, o # "built" PROVE Nothing(o).outcome # "built"
  BY <1>2 DEF Nothing
<1>3. agg = Tables(OracleDeltas, OracleConcentrations, OracleHolders)
  BY <1>1, <1>2 DEF Gated
<1>4. agg.tickers = TickerHolders
  BY <1>3 DEF Tables
<1> DEFINE now == Max(ClosedQuarters)
           Of(x) == <<HolderTotals(x, HoldersOf(x, now)), KeptHolders(HoldersOf(x, now))>>
<1>5. ClosedQuarters # {} /\ \E x \in Tickers : t = Of(x)
  <2> DEFINE Listed == {x \in Tickers : HoldersOf(x, now) # {}}
  <2>1. TickerHolders = IF ClosedQuarters = {} THEN {} ELSE {Of(x) : x \in Listed}
    BY Zenon DEF TickerHolders
  <2>2. Listed \subseteq Tickers
    OBVIOUS
  <2> HIDE DEF Of, Listed
  <2> QED
    BY <1>4, <2>1, <2>2
<1>6. PICK x \in Tickers : t = Of(x)
  BY <1>5
<1>7. t[2] = KeptHolders(HoldersOf(x, now))
  BY <1>6
<1> DEFINE H == HoldersOf(x, now)
<1>8. k[2] \in H
  <2>1. k \in KeptHolders(H)
    BY <1>7
  <2> HIDE DEF H
  <2>2. \E h \in H : k = <<HolderRank(H, h), h>>
    BY <2>1, Zenon DEF KeptHolders
  <2> QED
    BY <2>2
<1> HIDE DEF now
<1>9. \E c \in Ciks : /\ k[2] = HolderRow(x, c, now)
                      /\ \/ ClassRows(x, c, now) # {}
                         \/ ClassRows(x, c, PriorQuarter(now)) # {}
  BY <1>8, Zenon DEF HoldersOf
<1> QED
  BY <1>5, <1>9, Zenon DEF now

(* Two filings in adjacent quarters are compared.                          *)
LEMMA ConsecutivePair ==
    ASSUME NEW c \in Ciks, NEW q \in Filed(c), q - 1 \in Filed(c)
    PROVE  Pair(c, c, q - 1, q) \in Pairs
<1>1. q \in Nat /\ q - 1 \in Nat /\ q - 1 < q /\ \A n \in Nat : n < q => n <= q - 1
  BY FiledIs
<1>2. q - 1 \in Earlier(c, q)
  BY <1>1 DEF Earlier
<1>3. Max(Earlier(c, q)) = q - 1
  <2>1. Max(Earlier(c, q)) \in Nat /\ Max(Earlier(c, q)) < q
        /\ q - 1 <= Max(Earlier(c, q))
    BY <1>1, <1>2, EarlierIs, FiledIs
  <2> QED
    BY <1>1, <2>1
<1> DEFINE Of(b) == {Pair(b, b, Max({n \in Filed(b) : n < x}), x) :
                       x \in {x \in Filed(b) : \E n \in Filed(b) : n < x}}
           Own == {Of(b) : b \in Ciks}
<1>4. Pair(c, c, q - 1, q) \in Of(c)
  <2>1. Max({n \in Filed(c) : n < q}) = q - 1
    BY <1>3 DEF Earlier
  <2>2. q \in {x \in Filed(c) : \E n \in Filed(c) : n < x}
    BY <1>1
  <2> QED
    BY <2>1, <2>2
<1>5. UNION Own \subseteq Pairs
  BY Zenon DEF Pairs
<1> HIDE DEF Of
<1> QED
  BY <1>4, <1>5

(* A set of at most one element that has one.                              *)
LEMMA AtMostOne ==
    ASSUME NEW S, IsFiniteSet(S), Cardinality(S) <= 1, NEW r \in S
    PROVE  S = {r}
<1>1. Cardinality(S) = 1
  BY FS_CardinalityType, FS_EmptySet
<1> QED
  BY <1>1, FS_Singleton

(* The newest closed quarter and the one before it are quarters.           *)
LEMMA ClosedIs ==
    ASSUME ClosedQuarters # {}
    PROVE  /\ Max(ClosedQuarters) \in Quarters /\ Max(ClosedQuarters) \in Nat
           /\ PriorQuarter(Max(ClosedQuarters)) # None =>
                 /\ PriorQuarter(Max(ClosedQuarters)) = Max(ClosedQuarters) - 1
                 /\ Max(ClosedQuarters) - 1 \in Quarters
<1>1. ClosedQuarters \in SUBSET Quarters
  BY FiledIs DEF ClosedQuarters
<1>2. ClosedQuarters \in SUBSET Nat /\ IsFiniteSet(ClosedQuarters)
  BY <1>1, FS_Subset, InstAggregatesAssumption
<1>3. Max(ClosedQuarters) \in ClosedQuarters
  BY <1>2, Extremes
<1> QED
  BY <1>1, <1>2, <1>3 DEF PriorQuarter

(* The lines of a class in the two books of a comparison.                  *)
OneLine(p, cur, prv) ==
    /\ p \in Pairs /\ DOMAIN Prev(p) # {}
    /\ cur \subseteq CurrBook(p) /\ prv \subseteq PrevBook(p)
    /\ \A r \in cur \cup prv :
          /\ PositionKey(r) # None /\ r.option = "LONG"
          /\ r.unit = None => r.shares = None
          /\ \A x \in CurrBook(p) : Kin(x, r) => x \in cur
          /\ \A x \in PrevBook(p) : Kin(x, r) => x \in prv
    /\ \A r, s \in cur \cup prv :
          \/ r.sid = s.sid /\ r.sid # None
          \/ r.cusip = s.cusip /\ r.cusip # None /\ None \in {r.sid, s.sid}

(* A class line in both books gives one row, with their difference.        *)
LEMMA KeptLine ==
    ASSUME BooksType, NEW p, NEW r, NEW s, OneLine(p, {r}, {s})
    PROVE  \E d \in OracleRows(p) :
              /\ d.key = Grain(r)
              /\ d.moved = IF /\ UnitKey(r) = UnitKey(s)
                              /\ None \notin {r.shares, s.shares}
                           THEN r.shares - s.shares ELSE None
              /\ d.kind = Sort(d.moved)
<1>1. /\ p \in Pairs /\ r \in CurrBook(p) /\ s \in PrevBook(p)
      /\ PositionKey(r) # None /\ PositionKey(s) # None
      /\ r.option = "LONG" /\ s.option = "LONG"
      /\ r.unit = None => r.shares = None
      /\ s.unit = None => s.shares = None
      /\ \A x \in CurrBook(p) : Kin(x, r) \/ Kin(x, s) => x = r
      /\ \A x \in PrevBook(p) : Kin(x, r) \/ Kin(x, s) => x = s
      /\ \/ s.sid = r.sid /\ s.sid # None
         \/ s.cusip = r.cusip /\ s.cusip # None /\ None \in {s.sid, r.sid}
  BY DEF OneLine
<1>2. Sole(CurrBook(p), r) /\ Sole(PrevBook(p), s) /\ Couple(p, s, r)
  BY <1>1 DEF Sole, Couple
<1>3. <<Grain(s), Grain(r)>> \in Joined(Matching(p))
  BY <1>1, <1>2, CouplesJoin
<1>4. /\ s \in Row /\ r \in Row
      /\ Prev(p)[Grain(s)].unit = s.unit /\ Curr(p)[Grain(r)].unit = r.unit
      /\ Prev(p)[Grain(s)].shares = s.shares /\ Curr(p)[Grain(r)].shares = r.shares
      /\ Grain(s) \in DOMAIN Prev(p) /\ Grain(r) \in DOMAIN Curr(p)
  <2>1. Proper(PrevBook(p)) /\ Proper(CurrBook(p))
    BY <1>1, PairBooks
  <2> QED
    BY <1>1, <1>2, <2>1, SoleIs DEF Prev, Curr
<1> DEFINE x == <<Grain(s), Grain(r)>>
           d == TiedRow(p, x)
           prev == Prev(p)[Grain(s)]
           curr == Curr(p)[Grain(r)]
           key == Grain(r)
           reconciled == x \in Matching(p).bridged
           prior == TRUE
<1>5. d = QoqRow(p, key, prev, curr, reconciled, prior)
  <2>1. x[1] = Grain(s) /\ x[2] = Grain(r)
    OBVIOUS
  <2> QED
    BY <2>1, Zenon DEF TiedRow
<1>6. prev # None /\ curr # None
  BY <1>1, <1>4, SidesHold
<1>7. d \in OracleRows(p) /\ d.key = Grain(r)
  <2>1. x \in Joined(Matching(p)) /\ x[2] = Grain(r)
    BY <1>3
  <2> HIDE DEF x
  <2> QED
    BY <1>1, <2>1, TiedRowIs
<1>8. (UnitKey(r) = UnitKey(s) /\ None \notin {r.shares, s.shares})
         <=> (s.unit # None /\ s.unit = r.unit /\ None \notin {s.shares, r.shares})
  <2>1. r.unit \in {"SH", "PRN", None} /\ s.unit \in {"SH", "PRN", None}
    BY <1>4 DEF Row
  <2> QED
    BY <1>1, <2>1, SentinelAssumption DEF UnitKey
<1>9. prev.unit = s.unit /\ curr.unit = r.unit
      /\ prev.shares = s.shares /\ curr.shares = r.shares
  BY <1>4
<1> HIDE DEF d, prev, curr, key, reconciled, prior
<1>10. /\ d.moved = IF /\ prev.unit # None /\ prev.unit = curr.unit
                       /\ None \notin {prev.shares, curr.shares}
                    THEN curr.shares - prev.shares ELSE None
       /\ d.kind = Sort(d.moved)
  BY <1>5, <1>6, RowTells
<1> QED
  BY <1>7, <1>8, <1>9, <1>10

(* One that is in the later book alone gives a new position.               *)
LEMMA NewLine ==
    ASSUME BooksType, NEW p, NEW r, OneLine(p, {r}, {})
    PROVE  \E d \in OracleRows(p) :
              d.key = Grain(r) /\ d.kind = "new" /\ d.moved = r.shares
<1>1. /\ p \in Pairs /\ r \in CurrBook(p) /\ PositionKey(r) # None
      /\ r.unit = None => r.shares = None
      /\ \A x \in CurrBook(p) : Kin(x, r) => x = r
      /\ \A x \in PrevBook(p) : ~Kin(x, r)
      /\ DOMAIN Prev(p) # {}
  BY DEF OneLine
<1>2. Sole(CurrBook(p), r)
  BY <1>1 DEF Sole
<1>3. Grain(r) \in Matching(p).news
  BY <1>1, <1>2, NewcomersAreNew
<1>4. Curr(p)[Grain(r)].shares = r.shares /\ Grain(r) \in DOMAIN Curr(p)
  <2>1. Proper(CurrBook(p))
    BY <1>1, PairBooks
  <2> QED
    BY <1>1, <1>2, <2>1, SoleIs DEF Curr
<1> DEFINE g == Grain(r)
           d == NewRow(p, g)
           prev == None
           curr == Curr(p)[g]
           reconciled == FALSE
           prior == DOMAIN Prev(p) # {}
<1>5. d = QoqRow(p, g, prev, curr, reconciled, prior)
  BY Zenon DEF NewRow
<1>6. prev = None /\ curr # None
  BY <1>1, <1>4, SidesHold
<1>7. d \in OracleRows(p) /\ d.key = Grain(r)
  BY <1>1, <1>3, NewRowIs
<1>8. curr.shares = r.shares
  BY <1>4
<1> HIDE DEF d, g, prev, curr, reconciled, prior
<1>9. /\ d.kind = IF prior THEN "new" ELSE "no_prior"
      /\ d.moved = IF prior THEN curr.shares ELSE None
  BY <1>5, <1>6, RowTells
<1> QED
  BY <1>1, <1>7, <1>8, <1>9 DEF prior

(* One that is in the earlier book alone gives an exit.                    *)
LEMMA LeftLine ==
    ASSUME BooksType, NEW p, NEW s, OneLine(p, {}, {s})
    PROVE  \E d \in OracleRows(p) :
              d.key = Grain(s) /\ d.kind = "exit" /\ d.moved = Minus(0, s.shares)
<1>1. /\ p \in Pairs /\ s \in PrevBook(p) /\ PositionKey(s) # None
      /\ s.unit = None => s.shares = None
      /\ \A x \in PrevBook(p) : Kin(x, s) => x = s
      /\ \A x \in CurrBook(p) : ~Kin(x, s)
  BY DEF OneLine
<1>2. Sole(PrevBook(p), s)
  BY <1>1 DEF Sole
<1>3. Grain(s) \in Matching(p).exits
  BY <1>1, <1>2, LeaversExit
<1>4. Prev(p)[Grain(s)].shares = s.shares /\ Grain(s) \in DOMAIN Prev(p)
  <2>1. Proper(PrevBook(p))
    BY <1>1, PairBooks
  <2> QED
    BY <1>1, <1>2, <2>1, SoleIs DEF Prev
<1> DEFINE g == Grain(s)
           d == LeftRow(p, g)
           prev == Prev(p)[g]
           curr == None
           reconciled == FALSE
           prior == TRUE
<1>5. d = QoqRow(p, g, prev, curr, reconciled, prior)
  BY Zenon DEF LeftRow
<1>6. prev # None /\ curr = None
  BY <1>1, <1>4, SidesHold
<1>7. d \in OracleRows(p) /\ d.key = Grain(s)
  BY <1>1, <1>3, LeftRowIs
<1>8. prev.shares = s.shares
  BY <1>4
<1> HIDE DEF d, g, prev, curr, reconciled, prior
<1>9. d.kind = "exit" /\ d.moved = Minus(0, prev.shares)
  BY <1>5, <1>6, RowTells
<1> QED
  BY <1>7, <1>8, <1>9

(* A holder is told as the changes tell it.                                *)
Told(h) ==
    LET before == PriorQuarter(h.quarter)
        cur == ClassRows(h.ticker, h.cik, h.quarter)
        prv == ClassRows(h.ticker, h.cik, before)
        book == Book(h.cik, h.quarter)
                \cup (IF before = None THEN {} ELSE Book(h.cik, before))
    IN /\ FiledIn(h.cik, h.quarter) /\ FiledIn(h.cik, before)
       /\ Keyed(Book(h.cik, before)) # {}
       /\ OneClassLine(cur \cup prv, cur, prv, book)
       => \E d \in agg.deltas :
             /\ d.cik = h.cik /\ d.curr = h.quarter
             /\ d.key \in {Grain(r) : r \in cur \cup prv}
             /\ d.kind = h.kind /\ d.moved = h.moved

(* The invariant makes the holders of a ticker and the changes agree.      *)
LEMMA SurfacesAre == AggregateIInv => SurfacesAgree
<1> SUFFICES ASSUME AggregateIInv, Built, NEW t \in agg.tickers, NEW k \in t[2]
             PROVE  Told(k[2])
  BY Zenon DEF SurfacesAgree, Told
<1> DEFINE h == k[2]
           before == PriorQuarter(h.quarter)
           cur == ClassRows(h.ticker, h.cik, h.quarter)
           prv == ClassRows(h.ticker, h.cik, before)
           book == Book(h.cik, h.quarter)
                   \cup (IF before = None THEN {} ELSE Book(h.cik, before))
<1> SUFFICES ASSUME FiledIn(h.cik, h.quarter), FiledIn(h.cik, before),
                    Keyed(Book(h.cik, before)) # {},
                    OneClassLine(cur \cup prv, cur, prv, book)
             PROVE  \E d \in agg.deltas :
                       /\ d.cik = h.cik /\ d.curr = h.quarter
                       /\ d.key \in {Grain(r) : r \in cur \cup prv}
                       /\ d.kind = h.kind /\ d.moved = h.moved
  BY Zenon DEF Told
<1>0. /\ h = k[2] /\ before = PriorQuarter(h.quarter)
      /\ cur = ClassRows(h.ticker, h.cik, h.quarter)
      /\ prv = ClassRows(h.ticker, h.cik, before)
      /\ book = Book(h.cik, h.quarter)
                   \cup (IF before = None THEN {} ELSE Book(h.cik, before))
  OBVIOUS
<1> HIDE DEF h, before, cur, prv, book
<1>1. agg.deltas = OracleDeltas /\ BooksType
  BY BuiltIs DEF AggregateIInv
<1> DEFINE now == Max(ClosedQuarters)
<1>2. ClosedQuarters # {}
  BY ShownIs
<1>3. PICK ticker : \E c \in Ciks :
             /\ h = HolderRow(ticker, c, now)
             /\ \/ ClassRows(ticker, c, now) # {}
                \/ ClassRows(ticker, c, PriorQuarter(now)) # {}
  BY <1>0, ShownIs
<1>4. PICK c \in Ciks :
             /\ h = HolderRow(ticker, c, now)
             /\ \/ ClassRows(ticker, c, now) # {}
                \/ ClassRows(ticker, c, PriorQuarter(now)) # {}
  BY <1>3
<1>5. /\ now \in Quarters /\ now \in Nat
      /\ PriorQuarter(now) # None => PriorQuarter(now) = now - 1 /\ now - 1 \in Quarters
  BY <1>2, ClosedIs
<1> HIDE DEF now
<1>6. h.ticker = ticker /\ h.cik = c /\ h.quarter = now
  BY <1>4, HolderTells
<1>7. /\ before = now - 1 /\ now \in Filed(c) /\ now - 1 \in Filed(c)
      /\ before # None /\ FiledIn(c, PriorQuarter(now)) /\ FiledIn(c, now)
      /\ cur = ClassNow(h) /\ prv = ClassBefore(h)
      /\ cur # {} \/ prv # {}
  <2>1. before = PriorQuarter(now) /\ FiledIn(c, before) /\ FiledIn(c, now)
    BY <1>0, <1>6
  <2>2. before # None /\ before = now - 1
    BY <1>5, <2>1 DEF FiledIn
  <2>3. cur = ClassNow(h) /\ prv = ClassBefore(h)
    BY <1>0, Zenon DEF ClassNow, ClassBefore
  <2>4. cur # {} \/ prv # {}
    BY <1>0, <1>4, <1>6, <2>1
  <2> QED
    BY <1>5, <2>1, <2>2, <2>3, <2>4 DEF FiledIn, Filed
<1>21. /\ prv = {} => h.kind = "new" /\ h.moved = ClassShares(cur)
       /\ prv # {} /\ cur = {} => h.kind = "exit" /\ h.moved = Minus(0, ClassShares(prv))
       /\ prv # {} /\ cur # {} =>
             /\ h.moved = IF /\ {UnitKey(r) : r \in cur} = {UnitKey(r) : r \in prv}
                             /\ None \notin {ClassShares(cur), ClassShares(prv)}
                          THEN ClassShares(cur) - ClassShares(prv) ELSE None
             /\ h.kind = Sort(h.moved)
  <2>1. HolderSays(h, c, now)
    BY <1>4, HolderTells
  <2>2. /\ FiledIn(c, PriorQuarter(now)) /\ FiledIn(c, now)
        /\ cur = ClassNow(h) /\ prv = ClassBefore(h)
    BY <1>7
  <2> QED
    BY <2>1, <2>2, Zenon DEF HolderSays
<1> DEFINE p == Pair(c, c, now - 1, now)
<1>8. p \in Pairs
  BY <1>7, ConsecutivePair
<1>9. p.cik = c /\ p.from = c /\ p.prev = now - 1 /\ p.curr = now
  BY DEF Pair
<1> HIDE DEF p
<1>10. CurrBook(p) = Book(c, now) /\ PrevBook(p) = Book(c, before)
  <2>1. Adjacent(p)
    BY <1>5, <1>9 DEF Adjacent
  <2> QED
    BY <1>7, <1>9, <2>1 DEF CurrBook, PrevBook
<1>11. Proper(CurrBook(p)) /\ Proper(PrevBook(p))
  BY <1>1, <1>8, PairBooks
<1>12. /\ cur = {r \in CurrBook(p) : r.ticker = ticker /\ r.option = "LONG"}
       /\ prv = {r \in PrevBook(p) : r.ticker = ticker /\ r.option = "LONG"}
       /\ book = CurrBook(p) \cup PrevBook(p)
  <2>1. now # None
    BY <1>5, SentinelAssumption
  <2> QED
    BY <1>0, <1>6, <1>7, <1>10, <2>1 DEF ClassRows
<1>13. DOMAIN Prev(p) # {}
  <2>1. DOMAIN Prev(p) = {Grain(r) : r \in Keyed(PrevBook(p))}
    BY <1>11, PositionsAre DEF Prev
  <2> QED
    BY <1>6, <1>10, <2>1
<1> DEFINE rows == cur \cup prv
<1>14. /\ Keyed(rows) = rows
       /\ Cardinality(cur) <= 1 /\ Cardinality(prv) <= 1
       /\ \A r \in rows : r.unit = None => r.shares = None
       /\ \A r, s \in rows :
             \/ r.sid = s.sid /\ r.sid # None
             \/ r.cusip = s.cusip /\ r.cusip # None /\ None \in {r.sid, s.sid}
       /\ \A r \in book \ rows :
             /\ r.cusip # None => r.cusip \notin {x.cusip : x \in rows}
             /\ r.sid # None => r.sid \notin {x.sid : x \in rows}
  BY DEF OneClassLine
<1>15. OneLine(p, cur, prv)
  <2>1. ASSUME NEW r \in rows
        PROVE  /\ PositionKey(r) # None /\ r.option = "LONG"
               /\ r.unit = None => r.shares = None
               /\ \A x \in CurrBook(p) : Kin(x, r) => x \in cur
               /\ \A x \in PrevBook(p) : Kin(x, r) => x \in prv
    <3>1. PositionKey(r) # None
      BY <1>14 DEF Keyed
    <3>2. r.option = "LONG" /\ (r.unit = None => r.shares = None)
      BY <1>12, <1>14
    <3>3. ASSUME NEW x \in book, Kin(x, r) PROVE x \in rows
      BY <1>14, <3>3 DEF Kin
    <3>4. \A x \in rows : /\ x \in CurrBook(p) => x \in cur
                          /\ x \in PrevBook(p) => x \in prv
      BY <1>12
    <3> QED
      BY <1>12, <3>1, <3>2, <3>3, <3>4
  <2> QED
    BY <1>8, <1>12, <1>13, <1>14, <2>1 DEF OneLine
<1>16. /\ \A r \in cur : cur = {r} /\ r \in Row
       /\ \A r \in prv : prv = {r} /\ r \in Row
  <2>1. IsFiniteSet(cur) /\ IsFiniteSet(prv) /\ cur \subseteq Row /\ prv \subseteq Row
    BY <1>11, <1>12, FS_Subset DEF Proper
  <2> QED
    BY <1>14, <2>1, AtMostOne
<1>17. \A d \in OracleRows(p) :
          d \in agg.deltas /\ d.cik = h.cik /\ d.curr = h.quarter
  <2>1. \A d \in OracleRows(p) : d \in OracleDeltas /\ d.cik = p.cik /\ d.curr = p.curr
    BY <1>1, <1>8, PairRows
  <2> QED
    BY <1>1, <1>6, <1>9, <2>1
<1> SUFFICES \E d \in OracleRows(p) :
                /\ \E r \in rows : d.key = Grain(r)
                /\ d.kind = h.kind /\ d.moved = h.moved
  BY <1>17
<1>18. CASE prv = {}
  <2>1. PICK r \in cur : TRUE
    BY <1>7, <1>18
  <2>2. cur = {r} /\ r \in Row
    BY <1>16
  <2>3. h.kind = "new" /\ h.moved = r.shares
    <3>1. h.kind = "new" /\ h.moved = ClassShares(cur)
      BY <1>21, <1>18
    <3> QED
      BY <2>2, <3>1, ClassSharesIs
  <2>4. OneLine(p, {r}, {})
    BY <1>15, <1>18, <2>2
  <2>5. \E d \in OracleRows(p) :
           d.key = Grain(r) /\ d.kind = "new" /\ d.moved = r.shares
    BY <1>1, <2>4, NewLine
  <2> QED
    BY <2>1, <2>3, <2>5
<1>19. CASE prv # {} /\ cur = {}
  <2>1. PICK s \in prv : TRUE
    BY <1>19
  <2>2. prv = {s} /\ s \in Row
    BY <1>16
  <2>3. h.kind = "exit" /\ h.moved = Minus(0, s.shares)
    <3>1. h.kind = "exit" /\ h.moved = Minus(0, ClassShares(prv))
      BY <1>21, <1>19
    <3> QED
      BY <2>2, <3>1, ClassSharesIs
  <2>4. OneLine(p, {}, {s})
    BY <1>15, <1>19, <2>2
  <2>5. \E d \in OracleRows(p) :
           d.key = Grain(s) /\ d.kind = "exit" /\ d.moved = Minus(0, s.shares)
    BY <1>1, <2>4, LeftLine
  <2> QED
    BY <2>1, <2>3, <2>5
<1>20. CASE prv # {} /\ cur # {}
  <2>1. PICK s \in prv, r \in cur : TRUE
    BY <1>20
  <2>2. prv = {s} /\ s \in Row /\ cur = {r} /\ r \in Row
    BY <1>16
  <2>3. /\ h.moved = IF /\ UnitKey(r) = UnitKey(s)
                        /\ None \notin {r.shares, s.shares}
                     THEN r.shares - s.shares ELSE None
        /\ h.kind = Sort(h.moved)
    <3>1. /\ h.moved = IF /\ {UnitKey(x) : x \in cur} = {UnitKey(x) : x \in prv}
                          /\ None \notin {ClassShares(cur), ClassShares(prv)}
                       THEN ClassShares(cur) - ClassShares(prv) ELSE None
          /\ h.kind = Sort(h.moved)
      BY <1>21, <1>20
    <3>2. ClassShares(cur) = r.shares /\ ClassShares(prv) = s.shares
      BY <2>2, ClassSharesIs
    <3>3. {UnitKey(x) : x \in cur} = {UnitKey(x) : x \in prv} <=> UnitKey(r) = UnitKey(s)
      <4>1. {UnitKey(x) : x \in cur} = {UnitKey(r)} /\ {UnitKey(x) : x \in prv} = {UnitKey(s)}
        BY <2>2
      <4> QED
        BY <4>1
    <3> QED
      BY <3>1, <3>2, <3>3
  <2>4. OneLine(p, {r}, {s})
    BY <1>15, <2>2
  <2>5. \E d \in OracleRows(p) :
              /\ d.key = Grain(r)
              /\ d.moved = IF /\ UnitKey(r) = UnitKey(s)
                              /\ None \notin {r.shares, s.shares}
                           THEN r.shares - s.shares ELSE None
              /\ d.kind = Sort(d.moved)
    BY <1>1, <2>4, KeptLine
  <2> QED
    BY <2>1, <2>3, <2>5
<1> QED
  BY <1>18, <1>19, <1>20

(* A ticker's holder whose class is one line in either book is listed with *)
(* the kind and the change that the quarter-over-quarter rows give that    *)
(* line.                                                                   *)
THEOREM SurfacesAlwaysAgree ==
    ASSUME OneSuccessor PROVE AggregateSpec => []SurfacesAgree
BY AggregateInvariant, SurfacesAre, PTL

=============================================================================
