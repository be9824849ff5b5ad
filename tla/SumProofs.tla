----------------------------- MODULE SumProofs -----------------------------
(***************************************************************************)
(* What sums are, whatever is added up: Total, the sum of a loop over the  *)
(* rows of a Map, and SumFunctionOnSet, the sum over a set of rows.        *)
(*                                                                         *)
(* Both are defined by recursion, and the library's induction theorems     *)
(* cannot be used for them here.  The proofs look instead for the least    *)
(* counterexample: the first prefix, or a set of the fewest elements, of   *)
(* which a fact would not hold.                                            *)
(***************************************************************************)
EXTENDS Amounts, FiniteSetTheorems, WellFoundedInduction, TLAPS

----------------------------------------------------------------------------
(***************************************************************************)
(* What Total adds up to.  Each fact is proved on prefix sums: a prefix    *)
(* sum that broke it would have a first place where it does, and the sum   *)
(* up to there follows from the one before.                                *)
(***************************************************************************)

\* A nonempty set of numbers has a least one.
LEMMA Least ==
  ASSUME NEW T \in SUBSET Nat, T # {}
  PROVE  \E x \in T : \A y \in T : x <= y
<1> DEFINE R == OpToRel(<, Nat)
<1>1. IsWellFoundedOn(R, Nat)
  BY NatLessThanWellFounded
<1>2. ASSUME NEW x \in Nat, NEW y \in Nat, y < x PROVE <<y, x>> \in R
  BY <1>2 DEF OpToRel
<1> HIDE DEF R
<1>3. PICK x \in T : \A y \in T : <<y, x>> \notin R
  BY <1>1, WFMin
<1>4. ASSUME NEW y \in T PROVE x <= y
  <2>1. x \in Nat /\ y \in Nat
    OBVIOUS
  <2>2. ~ (y < x)
    BY <1>2, <1>3, <2>1
  <2>3. QED
    BY <2>1, <2>2
<1>5. QED
  BY <1>4

\* t is the function of prefix sums of f.
IsPrefixSum(t, f, N) ==
  t = [k \in 0..N |-> IF k = 0 THEN 0 ELSE t[k - 1] + f[k]]

\* Prefix sums are integers.
LEMMA PrefixSumType ==
  ASSUME NEW N \in Nat, NEW f \in [1..N -> Int], NEW t, IsPrefixSum(t, f, N)
  PROVE  t \in [0..N -> Int]
<1> DEFINE Bad == {k \in 0..N : t[k] \notin Int}
<1>1. SUFFICES ASSUME Bad # {} PROVE FALSE
  BY DEF IsPrefixSum
<1>2. Bad \in SUBSET Nat
  OBVIOUS
<1>3. PICK k \in Bad : \A y \in Bad : k <= y
  BY <1>1, <1>2, Least
<1>4. t[k] = IF k = 0 THEN 0 ELSE t[k - 1] + f[k]
  BY DEF IsPrefixSum
<1>5. CASE k = 0
  BY <1>4, <1>5
<1>6. CASE k # 0
  <2>1. k - 1 \in 0..N /\ k \in 1..N /\ ~ (k <= k - 1)
    BY <1>6
  <2>2. t[k - 1] \in Int
    BY <1>3, <2>1
  <2>3. f[k] \in Int
    BY <2>1
  <2>4. QED
    BY <1>4, <1>6, <2>2, <2>3
<1>7. QED
  BY <1>5, <1>6

\* Every function has prefix sums.
LEMMA PrefixSumExists ==
  ASSUME NEW N \in Nat, NEW f \in [1..N -> Int]
  PROVE  \E t : IsPrefixSum(t, f, N)
<1> DEFINE Bad == {k \in 0..N : ~ \E t : IsPrefixSum(t, f, k)}
<1>1. SUFFICES ASSUME Bad # {} PROVE FALSE
  <2>1. N \in 0..N
    OBVIOUS
  <2>2. QED
    BY <2>1
<1>2. Bad \in SUBSET Nat
  OBVIOUS
<1> HIDE DEF Bad
<1>3. PICK k \in Bad : \A y \in Bad : k <= y
  BY <1>1, <1>2, Least
<1>4. k \in 0..N /\ ~ \E t : IsPrefixSum(t, f, k)
  BY DEF Bad
<1>5. k # 0
  <2> DEFINE z == [n \in 0..0 |-> 0]
  <2>1. IsPrefixSum(z, f, 0)
    BY DEF IsPrefixSum
  <2>2. QED
    BY <1>4, <2>1
<1>6. k - 1 \in 0..N /\ ~ (k <= k - 1)
  BY <1>4, <1>5
<1>7. PICK t : IsPrefixSum(t, f, k - 1)
  BY <1>3, <1>6 DEF Bad
<1> DEFINE u == [n \in 0..k |-> IF n = k THEN t[k - 1] + f[k] ELSE t[n]]
<1>8. ASSUME NEW n \in 0..k PROVE u[n] = IF n = 0 THEN 0 ELSE u[n - 1] + f[n]
  <2>1. CASE n = k
    BY <1>4, <1>5, <2>1
  <2>2. CASE n # k
    <3>1. n \in 0..(k - 1)
      BY <1>4, <2>2
    <3>2. t[n] = IF n = 0 THEN 0 ELSE t[n - 1] + f[n]
      BY <1>7, <3>1 DEF IsPrefixSum
    <3>3. n # 0 => n - 1 \in 0..k /\ n - 1 # k
      BY <1>4, <3>1
    <3>4. QED
      BY <2>2, <3>2, <3>3
  <2>3. QED
    BY <2>1, <2>2
<1>9. IsPrefixSum(u, f, k)
  <2>1. u = [n \in 0..k |-> u[n]]
    OBVIOUS
  <2> HIDE DEF u
  <2>2. QED
    BY <1>8, <2>1 DEF IsPrefixSum
<1>10. QED
  BY <1>4, <1>9

\* Total is the last prefix sum.
LEMMA TotalIsPrefixSum ==
  ASSUME NEW N \in Nat, NEW f \in [1..N -> Int]
  PROVE  \E t \in [0..N -> Int] : IsPrefixSum(t, f, N) /\ Total(f, N) = t[N]
<1> DEFINE r == CHOOSE t : IsPrefixSum(t, f, N)
<1>1. IsPrefixSum(r, f, N)
  BY PrefixSumExists
<1>2. r \in [0..N -> Int]
  BY <1>1, PrefixSumType
<1>3. Total(f, N) = r[N]
  BY DEF Total, IsPrefixSum
<1>4. QED
  BY <1>1, <1>2, <1>3

----------------------------------------------------------------------------
(* What the total of a function is. *)

LEMMA TotalType ==
  ASSUME NEW N \in Nat, NEW f \in [1..N -> Int]
  PROVE  Total(f, N) \in Int
BY TotalIsPrefixSum

\* The total of a pointwise sum is the sum of the totals.
LEMMA TotalOfSum ==
  ASSUME NEW N \in Nat,
         NEW f \in [1..N -> Int], NEW g \in [1..N -> Int], NEW h \in [1..N -> Int],
         \A k \in 1..N : h[k] = f[k] + g[k]
  PROVE  Total(h, N) = Total(f, N) + Total(g, N)
<1>1. PICK tf \in [0..N -> Int] : IsPrefixSum(tf, f, N) /\ Total(f, N) = tf[N]
  BY TotalIsPrefixSum
<1>2. PICK tg \in [0..N -> Int] : IsPrefixSum(tg, g, N) /\ Total(g, N) = tg[N]
  BY TotalIsPrefixSum
<1>3. PICK th \in [0..N -> Int] : IsPrefixSum(th, h, N) /\ Total(h, N) = th[N]
  BY TotalIsPrefixSum
<1> DEFINE Bad == {k \in 0..N : th[k] # tf[k] + tg[k]}
<1>4. SUFFICES ASSUME Bad # {} PROVE FALSE
  <2>1. N \in 0..N
    OBVIOUS
  <2>2. Bad = {} => th[N] = tf[N] + tg[N]
    BY <2>1
  <2> HIDE DEF Bad
  <2>3. QED
    BY <1>1, <1>2, <1>3, <2>2
<1>5. Bad \in SUBSET Nat
  OBVIOUS
<1>6. PICK k \in Bad : \A y \in Bad : k <= y
  BY <1>4, <1>5, Least
<1>7. /\ tf[k] = IF k = 0 THEN 0 ELSE tf[k - 1] + f[k]
      /\ tg[k] = IF k = 0 THEN 0 ELSE tg[k - 1] + g[k]
      /\ th[k] = IF k = 0 THEN 0 ELSE th[k - 1] + h[k]
  BY <1>1, <1>2, <1>3 DEF IsPrefixSum
<1>8. CASE k = 0
  BY <1>7, <1>8
<1>9. CASE k # 0
  <2>1. k - 1 \in 0..N /\ k \in 1..N /\ ~ (k <= k - 1)
    BY <1>9
  <2>2. th[k - 1] = tf[k - 1] + tg[k - 1]
    BY <1>6, <2>1
  <2>3. QED
    BY <1>7, <1>9, <2>1, <2>2
<1>10. QED
  BY <1>8, <1>9

\* The total of zeros is zero.
LEMMA TotalOfZeros ==
  ASSUME NEW N \in Nat, NEW f \in [1..N -> Int], \A k \in 1..N : f[k] = 0
  PROVE  Total(f, N) = 0
<1>1. Total(f, N) = Total(f, N) + Total(f, N)
  BY TotalOfSum
<1>2. QED
  BY <1>1, TotalType

\* The total of numbers that are not negative is not negative.
LEMMA TotalNonNegative ==
  ASSUME NEW N \in Nat, NEW f \in [1..N -> Int], \A k \in 1..N : f[k] >= 0
  PROVE  Total(f, N) >= 0
<1>1. PICK t \in [0..N -> Int] : IsPrefixSum(t, f, N) /\ Total(f, N) = t[N]
  BY TotalIsPrefixSum
<1> DEFINE Bad == {k \in 0..N : t[k] < 0}
<1>2. SUFFICES ASSUME Bad # {} PROVE FALSE
  BY <1>1
<1>3. Bad \in SUBSET Nat
  OBVIOUS
<1>4. PICK k \in Bad : \A y \in Bad : k <= y
  BY <1>2, <1>3, Least
<1>5. t[k] = IF k = 0 THEN 0 ELSE t[k - 1] + f[k]
  BY <1>1 DEF IsPrefixSum
<1>6. CASE k = 0
  BY <1>5, <1>6
<1>7. CASE k # 0
  <2>1. k - 1 \in 0..N /\ k \in 1..N /\ ~ (k <= k - 1)
    BY <1>7
  <2>2. t[k - 1] >= 0
    BY <1>4, <2>1
  <2>3. QED
    BY <1>5, <1>7, <2>1, <2>2
<1>8. QED
  BY <1>6, <1>7

\* The total of a function that is 0 but in one place is its value there.
LEMMA TotalOfOne ==
  ASSUME NEW N \in Nat, NEW j \in 1..N, NEW f \in [1..N -> Int],
         \A k \in 1..N : k # j => f[k] = 0
  PROVE  Total(f, N) = f[j]
<1>1. PICK t \in [0..N -> Int] : IsPrefixSum(t, f, N) /\ Total(f, N) = t[N]
  BY TotalIsPrefixSum
<1> DEFINE Bad == {k \in 0..N : t[k] # IF k < j THEN 0 ELSE f[j]}
<1>2. SUFFICES ASSUME Bad # {} PROVE FALSE
  BY <1>1
<1>3. Bad \in SUBSET Nat
  OBVIOUS
<1>4. PICK k \in Bad : \A y \in Bad : k <= y
  BY <1>2, <1>3, Least
<1>5. t[k] = IF k = 0 THEN 0 ELSE t[k - 1] + f[k]
  BY <1>1 DEF IsPrefixSum
<1>6. CASE k = 0
  BY <1>5, <1>6
<1>7. CASE k # 0
  <2>1. k - 1 \in 0..N /\ k \in 1..N /\ ~ (k <= k - 1)
    BY <1>7
  <2>2. t[k - 1] = IF k - 1 < j THEN 0 ELSE f[j]
    BY <1>4, <2>1
  <2>3. k # j => f[k] = 0
    BY <2>1
  <2>4. QED
    BY <1>5, <1>7, <2>1, <2>2, <2>3
<1>8. QED
  BY <1>6, <1>7

\* Changing a function in one place changes its total by as much.
LEMMA TotalOfChange ==
  ASSUME NEW N \in Nat, NEW j \in 1..N,
         NEW f \in [1..N -> Int], NEW g \in [1..N -> Int],
         \A k \in 1..N : k # j => g[k] = f[k]
  PROVE  Total(g, N) = Total(f, N) + g[j] - f[j]
<1> DEFINE d == [k \in 1..N |-> g[k] - f[k]]
<1>1. d \in [1..N -> Int] /\ \A k \in 1..N : d[k] = g[k] - f[k]
  OBVIOUS
<1> HIDE DEF d
<1>2. \A k \in 1..N : g[k] = f[k] + d[k]
  BY <1>1
<1>3. Total(g, N) = Total(f, N) + Total(d, N)
  BY <1>1, <1>2, TotalOfSum
<1>4. \A k \in 1..N : k # j => d[k] = 0
  BY <1>1
<1>5. Total(d, N) = d[j]
  BY <1>1, <1>4, TotalOfOne
<1>6. QED
  BY <1>1, <1>3, <1>5, TotalType

\* A total of numbers that are not negative is at least each of them.
LEMMA TotalAtLeastOne ==
  ASSUME NEW N \in Nat, NEW j \in 1..N, NEW f \in [1..N -> Int],
         \A k \in 1..N : f[k] >= 0
  PROVE  Total(f, N) >= f[j]
<1> DEFINE g == [f EXCEPT ![j] = 0]
<1>1. /\ g \in [1..N -> Int]
      /\ g[j] = 0
      /\ \A k \in 1..N : k # j => g[k] = f[k]
      /\ \A k \in 1..N : g[k] >= 0
  OBVIOUS
<1> HIDE DEF g
<1>2. Total(g, N) = Total(f, N) + g[j] - f[j]
  BY <1>1, TotalOfChange
<1>3. Total(g, N) >= 0
  BY <1>1, TotalNonNegative
<1>4. QED
  BY <1>1, <1>2, <1>3, TotalType

\* Larger numbers have a larger total.
LEMMA TotalMonotonic ==
  ASSUME NEW N \in Nat, NEW f \in [1..N -> Int], NEW g \in [1..N -> Int],
         \A k \in 1..N : f[k] <= g[k]
  PROVE  Total(f, N) <= Total(g, N)
<1> DEFINE d == [k \in 1..N |-> g[k] - f[k]]
<1>1. /\ d \in [1..N -> Int]
      /\ \A k \in 1..N : d[k] = g[k] - f[k]
  OBVIOUS
<1> HIDE DEF d
<1>2. ASSUME NEW k \in 1..N
      PROVE  d[k] >= 0 /\ g[k] = f[k] + d[k]
  <2>1. f[k] \in Int /\ g[k] \in Int /\ f[k] <= g[k] /\ d[k] = g[k] - f[k]
    BY <1>1
  <2>2. QED
    BY <2>1
<1>3. Total(g, N) = Total(f, N) + Total(d, N)
  BY <1>1, <1>2, TotalOfSum
<1>4. Total(d, N) >= 0
  BY <1>1, <1>2, TotalNonNegative
<1>5. Total(f, N) \in Int /\ Total(d, N) \in Int
  BY <1>1, TotalType
<1>6. QED
  BY <1>3, <1>4, <1>5

----------------------------------------------------------------------------
(***************************************************************************)
(* What a sum over a set is.  It takes its elements out one by one, in an  *)
(* order that CHOOSE determines; that any other order gives the same sum   *)
(* has to be proved.                                                       *)
(***************************************************************************)

\* What holds of no elements, and of a set when it holds of the set less any of its
\* elements, holds of every finite set.
LEMMA FiniteSetInduction ==
  ASSUME NEW S, IsFiniteSet(S), NEW P, {} \in P,
         \A T \in SUBSET S : T # {} /\ (\A x \in T : T \ {x} \in P) => T \in P
  PROVE  S \in P
<1> DEFINE Bad == {n \in Nat : \E T \in SUBSET S : T \notin P /\ Cardinality(T) = n}
<1>1. ASSUME NEW T \in SUBSET S PROVE IsFiniteSet(T) /\ Cardinality(T) \in Nat
  BY FS_Subset, FS_CardinalityType
<1>2. SUFFICES ASSUME S \notin P PROVE FALSE
  OBVIOUS
<1>3. Cardinality(S) \in Bad
  BY <1>1, <1>2
<1>4. Bad \in SUBSET Nat
  OBVIOUS
<1>5. PICK n \in Bad : \A m \in Bad : n <= m
  <2> HIDE DEF Bad
  <2>1. QED
    BY <1>3, <1>4, Least
<1>6. PICK T \in SUBSET S : T \notin P /\ Cardinality(T) = n
  OBVIOUS
<1>7. PICK x \in T : T \ {x} \notin P
  BY <1>6
<1>8. Cardinality(T \ {x}) = n - 1 /\ n - 1 \in Nat
  <2>1. IsFiniteSet(T)
    BY <1>1
  <2>2. Cardinality(T \ {x}) = Cardinality(T) - 1
    BY <2>1, FS_RemoveElement
  <2>3. Cardinality(T) \in Nat /\ Cardinality(T \ {x}) \in Nat
    BY <1>1
  <2>4. QED
    BY <1>6, <2>2, <2>3
<1>9. T \ {x} \in SUBSET S
  OBVIOUS
<1>10. n - 1 \in Bad
  BY <1>7, <1>8, <1>9
<1>11. QED
  BY <1>5, <1>8, <1>10

\* The element a sum takes out first.
Pick(s) == CHOOSE x \in s : TRUE

\* t gives the sum over each subset of S of f.
IsFold(t, f, S) ==
  t = [s \in SUBSET S |-> IF s = {} THEN 0 ELSE f[Pick(s)] + t[s \ {Pick(s)}]]

LEMMA PickedElement ==
  ASSUME NEW s, s # {}
  PROVE  Pick(s) \in s
BY DEF Pick

LEMMA SumIsChosenFold ==
  ASSUME NEW f, NEW S
  PROVE  SumFunctionOnSet(f, S) = (CHOOSE t : IsFold(t, f, S))[S]
BY DEF SumFunctionOnSet, FoldFunctionOnSet, MapThenFoldSet, IsFold, Pick

\* The sums over the subsets of no more than n elements.
IsFoldUpTo(t, f, S, n) ==
  t = [s \in {s \in SUBSET S : Cardinality(s) <= n} |->
         IF s = {} THEN 0 ELSE f[Pick(s)] + t[s \ {Pick(s)}]]

LEMMA FoldExists ==
  ASSUME NEW f, NEW S, IsFiniteSet(S)
  PROVE  \E t : IsFold(t, f, S)
<1> DEFINE N == Cardinality(S)
<1> DEFINE Bad == {n \in Nat : ~ \E t : IsFoldUpTo(t, f, S, n)}
<1>1. ASSUME NEW s \in SUBSET S
      PROVE  /\ IsFiniteSet(s) /\ Cardinality(s) \in Nat /\ N \in Nat
             /\ Cardinality(s) <= N
             /\ s # {} => Cardinality(s \ {Pick(s)}) = Cardinality(s) - 1
             /\ Cardinality(s) = 0 <=> s = {}
  <2>1. IsFiniteSet(s)
    BY FS_Subset
  <2>2. Cardinality(s) \in Nat /\ N \in Nat /\ Cardinality(s) <= N
    BY <2>1, FS_Subset, FS_CardinalityType
  <2>3. s # {} => Cardinality(s \ {Pick(s)}) = Cardinality(s) - 1
    BY <2>1, FS_RemoveElement, PickedElement
  <2>4. QED
    BY <2>1, <2>2, <2>3, FS_EmptySet
<1>2. Bad = {}
  <2> SUFFICES ASSUME Bad # {} PROVE FALSE
    OBVIOUS
  <2>1. Bad \in SUBSET Nat
    OBVIOUS
  <2> HIDE DEF Bad
  <2>2. PICK n \in Bad : \A m \in Bad : n <= m
    BY <2>1, Least
  <2>3. n \in Nat /\ ~ \E t : IsFoldUpTo(t, f, S, n)
    BY DEF Bad
  <2> DEFINE Dom(m) == {s \in SUBSET S : Cardinality(s) <= m}
  <2>4. CASE n = 0
    <3> DEFINE z == [s \in Dom(0) |-> 0]
    <3>1. ASSUME NEW s \in Dom(0) PROVE s = {}
      <4>1. Cardinality(s) \in Nat /\ Cardinality(s) <= 0 /\ (Cardinality(s) = 0 <=> s = {})
        BY <1>1
      <4>2. QED
        BY <4>1
    <3>2. z = [s \in Dom(0) |-> IF s = {} THEN 0 ELSE f[Pick(s)] + z[s \ {Pick(s)}]]
      BY <3>1
    <3>3. IsFoldUpTo(z, f, S, 0)
      BY <3>2 DEF IsFoldUpTo
    <3>4. QED
      BY <2>3, <2>4, <3>3
  <2>5. CASE n # 0
    <3>1. n - 1 \in Nat /\ ~ (n <= n - 1)
      BY <2>3, <2>5
    <3>2. PICK t : IsFoldUpTo(t, f, S, n - 1)
      BY <2>2, <3>1 DEF Bad
    <3> DEFINE sum(u, s) == IF s = {} THEN 0 ELSE f[Pick(s)] + u[s \ {Pick(s)}]
    <3> DEFINE u == [s \in Dom(n) |-> IF Cardinality(s) = n THEN sum(t, s) ELSE t[s]]
    <3>3. ASSUME NEW s \in Dom(n) PROVE u[s] = sum(u, s)
      <4>1. /\ Cardinality(s) \in Nat /\ Cardinality(s) <= n
            /\ s # {} => /\ s \ {Pick(s)} \in Dom(n)
                         /\ Cardinality(s \ {Pick(s)}) = Cardinality(s) - 1
                         /\ Cardinality(s \ {Pick(s)}) # n
        <5>1. Cardinality(s) \in Nat /\ Cardinality(s) <= n
          BY <1>1
        <5>2. s # {} => Cardinality(s \ {Pick(s)}) = Cardinality(s) - 1
          BY <1>1
        <5>3. s \ {Pick(s)} \in SUBSET S
          OBVIOUS
        <5>4. QED
          BY <2>3, <5>1, <5>2, <5>3
      <4>2. sum(u, s) = sum(t, s)
        BY <4>1
      <4>3. CASE Cardinality(s) = n
        BY <4>2, <4>3
      <4>4. CASE Cardinality(s) # n
        <5>1. s \in Dom(n - 1)
          BY <2>3, <4>1, <4>4
        <5>2. t[s] = sum(t, s)
          BY <3>2, <5>1 DEF IsFoldUpTo
        <5>3. QED
          BY <4>2, <4>4, <5>2
      <4>5. QED
        BY <4>3, <4>4
    <3>4. u = [s \in Dom(n) |-> u[s]]
      OBVIOUS
    <3>5. IsFoldUpTo(u, f, S, n)
      <4> HIDE DEF u
      <4>1. QED
        BY <3>3, <3>4 DEF IsFoldUpTo
    <3>6. QED
      BY <2>3, <3>5
  <2>6. QED
    BY <2>4, <2>5
<1>3. N \in Nat /\ SUBSET S = {s \in SUBSET S : Cardinality(s) <= N}
  BY <1>1
<1> HIDE DEF N
<1>4. PICK t : IsFoldUpTo(t, f, S, N)
  BY <1>2, <1>3
<1>5. IsFold(t, f, S)
  BY <1>3, <1>4 DEF IsFold, IsFoldUpTo
<1>6. QED
  BY <1>5

\* The sum of some elements depends on nothing but their values.
LEMMA FoldsAgree ==
  ASSUME NEW T, IsFiniteSet(T), NEW S, NEW R, T \subseteq S, T \subseteq R,
         NEW f, NEW g, \A x \in T : f[x] = g[x],
         NEW t, NEW u, IsFold(t, f, S), IsFold(u, g, R)
  PROVE  t[T] = u[T]
<1> DEFINE P == {s \in SUBSET T : t[s] = u[s]}
<1>1. ASSUME NEW s \in SUBSET T
      PROVE  /\ t[s] = IF s = {} THEN 0 ELSE f[Pick(s)] + t[s \ {Pick(s)}]
             /\ u[s] = IF s = {} THEN 0 ELSE g[Pick(s)] + u[s \ {Pick(s)}]
  <2>1. s \in SUBSET S /\ s \in SUBSET R
    OBVIOUS
  <2>2. QED
    BY <2>1 DEF IsFold
<1>2. {} \in P
  BY <1>1
<1>3. ASSUME NEW s \in SUBSET T, s # {}, \A x \in s : s \ {x} \in P
      PROVE  s \in P
  <2>1. Pick(s) \in s
    BY <1>3, PickedElement
  <2>2. t[s \ {Pick(s)}] = u[s \ {Pick(s)}] /\ f[Pick(s)] = g[Pick(s)]
    BY <1>3, <2>1
  <2>3. QED
    BY <1>1, <1>3, <2>2
<1>4. T \in P
  <2> HIDE DEF P
  <2>1. QED
    BY <1>2, <1>3, FiniteSetInduction
<1>5. QED
  BY <1>4

LEMMA SumIsFold ==
  ASSUME NEW T, IsFiniteSet(T), NEW S, T \subseteq S,
         NEW f, NEW t, IsFold(t, f, S)
  PROVE  SumFunctionOnSet(f, T) = t[T]
<1> DEFINE r == CHOOSE r : IsFold(r, f, T)
<1>1. IsFold(r, f, T)
  BY FoldExists
<1>2. SumFunctionOnSet(f, T) = r[T]
  BY SumIsChosenFold
<1> HIDE DEF r
<1>3. QED
  BY <1>1, <1>2, FoldsAgree

\* The sum over two sets of the same elements and values.
LEMMA SumDependsOnValues ==
  ASSUME NEW S, IsFiniteSet(S), NEW f, NEW g, \A x \in S : f[x] = g[x]
  PROVE  SumFunctionOnSet(f, S) = SumFunctionOnSet(g, S)
<1>1. PICK t : IsFold(t, f, S)
  BY FoldExists
<1>2. PICK u : IsFold(u, g, S)
  BY FoldExists
<1>3. t[S] = u[S]
  BY <1>1, <1>2, FoldsAgree
<1>4. QED
  BY <1>1, <1>2, <1>3, SumIsFold

LEMMA SumOfNone ==
  ASSUME NEW f
  PROVE  SumFunctionOnSet(f, {}) = 0
<1>1. IsFiniteSet({})
  BY FS_EmptySet
<1>2. PICK t : IsFold(t, f, {})
  BY <1>1, FoldExists
<1>3. t[{}] = 0
  BY <1>2 DEF IsFold
<1>4. QED
  BY <1>1, <1>2, <1>3, SumIsFold

LEMMA SumTakesPicked ==
  ASSUME NEW S, IsFiniteSet(S), S # {}, NEW f
  PROVE  SumFunctionOnSet(f, S) = f[Pick(S)] + SumFunctionOnSet(f, S \ {Pick(S)})
<1>1. PICK t : IsFold(t, f, S)
  BY FoldExists
<1>2. t[S] = f[Pick(S)] + t[S \ {Pick(S)}]
  BY <1>1 DEF IsFold
<1>3. IsFiniteSet(S \ {Pick(S)}) /\ S \ {Pick(S)} \subseteq S
  BY FS_RemoveElement
<1>4. SumFunctionOnSet(f, S) = t[S] /\ SumFunctionOnSet(f, S \ {Pick(S)}) = t[S \ {Pick(S)}]
  BY <1>1, <1>3, SumIsFold
<1>5. QED
  BY <1>2, <1>4

LEMMA SumType ==
  ASSUME NEW S, IsFiniteSet(S), NEW f, \A x \in S : f[x] \in Int
  PROVE  SumFunctionOnSet(f, S) \in Int
<1> DEFINE P == {s \in SUBSET S : SumFunctionOnSet(f, s) \in Int}
<1>1. {} \in P
  BY SumOfNone
<1>2. ASSUME NEW s \in SUBSET S, s # {}, \A x \in s : s \ {x} \in P
      PROVE  s \in P
  <2>1. IsFiniteSet(s)
    BY FS_Subset
  <2>2. Pick(s) \in s
    BY <1>2, PickedElement
  <2>3. SumFunctionOnSet(f, s) = f[Pick(s)] + SumFunctionOnSet(f, s \ {Pick(s)})
    BY <1>2, <2>1, SumTakesPicked
  <2>4. f[Pick(s)] \in Int /\ SumFunctionOnSet(f, s \ {Pick(s)}) \in Int
    BY <1>2, <2>2
  <2>5. QED
    BY <2>3, <2>4
<1>3. S \in P
  <2> HIDE DEF P
  <2>1. QED
    BY <1>1, <1>2, FiniteSetInduction
<1>4. QED
  BY <1>3

\* Any element may be taken out first.
LEMMA SumTakesAny ==
  ASSUME NEW S, IsFiniteSet(S), NEW f, \A y \in S : f[y] \in Int, NEW x \in S
  PROVE  SumFunctionOnSet(f, S) = f[x] + SumFunctionOnSet(f, S \ {x})
<1> DEFINE sum(s) == SumFunctionOnSet(f, s)
<1> DEFINE P == {s \in SUBSET S : \A y \in s : sum(s) = f[y] + sum(s \ {y})}
<1>1. {} \in P
  OBVIOUS
<1>2. ASSUME NEW s \in SUBSET S, s # {}, \A y \in s : s \ {y} \in P
      PROVE  s \in P
  <2> SUFFICES ASSUME NEW y \in s PROVE sum(s) = f[y] + sum(s \ {y})
    OBVIOUS
  <2> DEFINE c == Pick(s)
  <2>1. IsFiniteSet(s)
    BY FS_Subset
  <2>2. c \in s
    BY PickedElement
  <2>3. sum(s) = f[c] + sum(s \ {c})
    BY <2>1, SumTakesPicked
  <2> HIDE DEF c
  <2>4. CASE y = c
    BY <2>3, <2>4
  <2>5. CASE y # c
    <3>1. sum(s \ {c}) = f[y] + sum((s \ {c}) \ {y})
      BY <1>2, <2>2, <2>5
    <3>2. sum(s \ {y}) = f[c] + sum((s \ {y}) \ {c})
      BY <1>2, <2>2, <2>5
    <3>3. (s \ {c}) \ {y} = (s \ {y}) \ {c}
      OBVIOUS
    <3>4. sum((s \ {c}) \ {y}) \in Int
      <4>1. (s \ {c}) \ {y} \in SUBSET S
        OBVIOUS
      <4>2. QED
        BY <4>1, FS_Subset, SumType
    <3>5. f[c] \in Int /\ f[y] \in Int
      BY <2>2
    <3> DEFINE rest == sum((s \ {c}) \ {y})
    <3>6. sum(s) = f[c] + (f[y] + rest) /\ sum(s \ {y}) = f[c] + rest
      BY <2>3, <3>1, <3>2, <3>3
    <3> HIDE DEF rest, sum
    <3>7. \A a, b, r \in Int : a + (b + r) = b + (a + r)
      OBVIOUS
    <3>8. rest \in Int
      BY <3>4 DEF rest
    <3>9. f[c] + (f[y] + rest) = f[y] + (f[c] + rest)
      BY <3>5, <3>7, <3>8
    <3>10. QED
      BY <3>6, <3>9
  <2>6. QED
    BY <2>4, <2>5
<1>3. S \in P
  <2> HIDE DEF P
  <2>1. QED
    BY <1>1, <1>2, FiniteSetInduction
<1>4. QED
  BY <1>3

\* Elements that are left out add nothing: the sum over those that satisfy a condition
\* is the sum over all of them with zero for the others.
LEMMA SumOfSome ==
  ASSUME NEW S, IsFiniteSet(S), NEW C, C \subseteq S, NEW f, \A x \in C : f[x] \in Int
  PROVE  SumFunctionOnSet([x \in S |-> IF x \in C THEN f[x] ELSE 0], S)
           = SumFunctionOnSet(f, C)
<1> DEFINE g == [x \in S |-> IF x \in C THEN f[x] ELSE 0]
<1>0. \A x \in S : g[x] = IF x \in C THEN f[x] ELSE 0
  OBVIOUS
<1> HIDE DEF g
<1> DEFINE P == {s \in SUBSET S : SumFunctionOnSet(g, s) = SumFunctionOnSet(f, s \cap C)}
<1>1. {} \in P
  <2>1. {} \cap C = {}
    OBVIOUS
  <2>2. QED
    BY <2>1, SumOfNone
<1>2. ASSUME NEW s \in SUBSET S, s # {}, \A x \in s : s \ {x} \in P
      PROVE  s \in P
  <2>1. PICK x \in s : TRUE
    BY <1>2
  <2>2. IsFiniteSet(s) /\ IsFiniteSet(s \cap C)
    <3>1. s \cap C \in SUBSET S
      OBVIOUS
    <3>2. QED
      BY <3>1, FS_Subset
  <2>3. SumFunctionOnSet(g, s) = g[x] + SumFunctionOnSet(g, s \ {x})
    <3>1. \A y \in s : g[y] \in Int
      BY <1>0
    <3>2. QED
      BY <2>2, <3>1, SumTakesAny
  <2>4. SumFunctionOnSet(g, s \ {x}) = SumFunctionOnSet(f, (s \ {x}) \cap C)
    BY <1>2
  <2>5. CASE x \in C
    <3>1. (s \ {x}) \cap C = (s \cap C) \ {x} /\ x \in s \cap C
      BY <2>5
    <3>2. SumFunctionOnSet(f, s \cap C) = f[x] + SumFunctionOnSet(f, (s \cap C) \ {x})
      BY <2>2, <3>1, SumTakesAny
    <3>3. QED
      BY <1>0, <2>3, <2>4, <2>5, <3>1, <3>2
  <2>6. CASE x \notin C
    <3>1. (s \ {x}) \cap C = s \cap C
      BY <2>6
    <3>2. SumFunctionOnSet(f, s \cap C) \in Int
      BY <2>2, SumType
    <3>3. SumFunctionOnSet(g, s) = 0 + SumFunctionOnSet(f, s \cap C)
      BY <1>0, <2>3, <2>4, <2>6, <3>1
    <3>4. SumFunctionOnSet(g, s) = SumFunctionOnSet(f, s \cap C)
      BY <3>2, <3>3
    <3>5. QED
      BY <3>4
  <2>7. QED
    BY <2>5, <2>6
<1>3. S \in P
  <2> HIDE DEF P
  <2>1. QED
    BY <1>1, <1>2, FiniteSetInduction
<1>4. S \cap C = C
  OBVIOUS
<1>5. QED
  BY <1>3, <1>4 DEF g

\* The sum over rows of a table is the total of the table with zero for the others.
LEMMA SumIsTotal ==
  ASSUME NEW N \in Nat, NEW f \in [1..N -> Int]
  PROVE  SumFunctionOnSet(f, 1..N) = Total(f, N)
<1>1. PICK t \in [0..N -> Int] : IsPrefixSum(t, f, N) /\ Total(f, N) = t[N]
  BY TotalIsPrefixSum
<1> DEFINE Off == {n \in 0..N : SumFunctionOnSet(f, 1..n) # t[n]}
<1>2. SUFFICES ASSUME Off # {} PROVE FALSE
  <2>1. N \in 0..N
    OBVIOUS
  <2>2. QED
    BY <1>1, <2>1
<1>3. Off \in SUBSET Nat
  OBVIOUS
<1>4. PICK n \in Off : \A m \in Off : n <= m
  <2> HIDE DEF Off
  <2>1. QED
    BY <1>2, <1>3, Least
<1>5. t[n] = IF n = 0 THEN 0 ELSE t[n - 1] + f[n]
  BY <1>1 DEF IsPrefixSum
<1>6. CASE n = 0
  <2>1. 1..n = {}
    BY <1>6
  <2>2. QED
    BY <1>5, <1>6, <2>1, SumOfNone
<1>7. CASE n # 0
  <2>1. n - 1 \in 0..N /\ n \in 1..n /\ n \in 1..N /\ ~ (n <= n - 1) /\ n \in Int
    BY <1>7
  <2>2. SumFunctionOnSet(f, 1..(n - 1)) = t[n - 1]
    BY <1>4, <2>1
  <2>3. (1..n) \ {n} = 1..(n - 1)
    BY <2>1
  <2>4. IsFiniteSet(1..n)
    BY <2>1, FS_Interval
  <2>5. \A x \in 1..n : f[x] \in Int
    BY <2>1
  <2>6. SumFunctionOnSet(f, 1..n) = f[n] + SumFunctionOnSet(f, (1..n) \ {n})
    BY <2>1, <2>4, <2>5, SumTakesAny
  <2>7. f[n] \in Int /\ t[n - 1] \in Int
    BY <1>1, <2>1
  <2>8. SumFunctionOnSet(f, 1..n) = f[n] + t[n - 1]
    BY <2>2, <2>3, <2>6
  <2>9. f[n] + t[n - 1] = t[n - 1] + f[n]
    BY <2>7
  <2>10. QED
    BY <1>5, <1>7, <2>8, <2>9
<1>8. QED
  BY <1>6, <1>7

\* A sum changes by as much as one of its values does.
LEMMA SumOfChange ==
  ASSUME NEW S, IsFiniteSet(S), NEW j \in S, NEW f, NEW g,
         \A x \in S : f[x] \in Int /\ g[x] \in Int,
         \A x \in S : x # j => g[x] = f[x]
  PROVE  SumFunctionOnSet(g, S) = SumFunctionOnSet(f, S) + g[j] - f[j]
<1>1. /\ SumFunctionOnSet(g, S) = g[j] + SumFunctionOnSet(g, S \ {j})
      /\ SumFunctionOnSet(f, S) = f[j] + SumFunctionOnSet(f, S \ {j})
  BY SumTakesAny
<1>2. IsFiniteSet(S \ {j})
  BY FS_RemoveElement
<1>3. SumFunctionOnSet(g, S \ {j}) = SumFunctionOnSet(f, S \ {j})
  BY <1>2, SumDependsOnValues
<1>4. SumFunctionOnSet(f, S \ {j}) \in Int
  BY <1>2, SumType
<1>5. QED
  BY <1>1, <1>3, <1>4

\* Rows that are split into groups add up to the sums of the groups.
LEMMA SumOfGroups ==
  ASSUME NEW S, IsFiniteSet(S), NEW K, IsFiniteSet(K), NEW f, \A x \in S : f[x] \in Int,
         NEW key, \A x \in S : key[x] \in K
  PROVE  SumFunctionOnSet([k \in K |-> SumFunctionOnSet(f, {x \in S : key[x] = k})], K)
           = SumFunctionOnSet(f, S)
<1> DEFINE G(s) == [k \in K |-> SumFunctionOnSet(f, {x \in s : key[x] = k})]
<1> DEFINE P == {s \in SUBSET S : SumFunctionOnSet(G(s), K) = SumFunctionOnSet(f, s)}
<1>1. ASSUME NEW s \in SUBSET S, NEW k
      PROVE  /\ IsFiniteSet({x \in s : key[x] = k})
             /\ SumFunctionOnSet(f, {x \in s : key[x] = k}) \in Int
  <2>1. {x \in s : key[x] = k} \in SUBSET S
    OBVIOUS
  <2>2. QED
    BY <2>1, FS_Subset, SumType
<1>2. {} \in P
  <2>1. \A k \in K : G({})[k] = 0
    <3>1. \A k : {x \in {} : key[x] = k} = {}
      OBVIOUS
    <3>2. QED
      BY <3>1, SumOfNone
  <2>2. SumFunctionOnSet(f, {}) = 0
    BY SumOfNone
  <2> DEFINE zero == [k \in K |-> IF k \in {} THEN f[k] ELSE 0]
  <2>3. \A k \in K : G({})[k] = zero[k]
    BY <2>1
  <2>4. SumFunctionOnSet(zero, K) = SumFunctionOnSet(f, {})
    BY SumOfSome
  <2> HIDE DEF G, zero
  <2>5. SumFunctionOnSet(G({}), K) = SumFunctionOnSet(zero, K)
    BY <2>3, SumDependsOnValues
  <2>6. SumFunctionOnSet(G({}), K) = SumFunctionOnSet(f, {})
    BY <2>4, <2>5
  <2>7. QED
    BY <2>6
<1>3. ASSUME NEW s \in SUBSET S, s # {}, \A x \in s : s \ {x} \in P
      PROVE  s \in P
  <2>1. PICK x \in s : TRUE
    BY <1>3
  <2> DEFINE old == G(s \ {x})
  <2> DEFINE new == G(s)
  <2> DEFINE j == key[x]
  <2>2. j \in K
    OBVIOUS
  <2>3. IsFiniteSet(s) /\ s \ {x} \in SUBSET S
    BY FS_Subset
  <2>4. ASSUME NEW k \in K PROVE old[k] \in Int /\ new[k] \in Int
    <3>1. /\ SumFunctionOnSet(f, {y \in s \ {x} : key[y] = k}) \in Int
          /\ SumFunctionOnSet(f, {y \in s : key[y] = k}) \in Int
      BY <1>1, <2>3
    <3>2. QED
      BY <3>1
  <2>5. ASSUME NEW k \in K, k # j PROVE new[k] = old[k]
    <3>1. {y \in s : key[y] = k} = {y \in s \ {x} : key[y] = k}
      BY <2>5
    <3>2. QED
      BY <3>1
  <2>6. new[j] = f[x] + old[j]
    <3>1. {y \in s : key[y] = j} \ {x} = {y \in s \ {x} : key[y] = j}
      OBVIOUS
    <3>2. x \in {y \in s : key[y] = j} /\ \A y \in {y \in s : key[y] = j} : f[y] \in Int
      OBVIOUS
    <3>3. SumFunctionOnSet(f, {y \in s : key[y] = j})
            = f[x] + SumFunctionOnSet(f, {y \in s : key[y] = j} \ {x})
      BY <1>1, <3>2, SumTakesAny
    <3>4. QED
      BY <2>2, <3>1, <3>3
  <2>7. SumFunctionOnSet(old, K) = SumFunctionOnSet(f, s \ {x})
    BY <1>3
  <2>8. SumFunctionOnSet(f, s) = f[x] + SumFunctionOnSet(f, s \ {x})
    BY <2>3, SumTakesAny
  <2> HIDE DEF old, new, j
  <2>9. SumFunctionOnSet(new, K) = SumFunctionOnSet(old, K) + new[j] - old[j]
    BY <2>2, <2>4, <2>5, SumOfChange
  <2>10. f[x] \in Int /\ old[j] \in Int /\ SumFunctionOnSet(old, K) \in Int
    BY <2>2, <2>4, SumType
  <2>11. SumFunctionOnSet(new, K) = SumFunctionOnSet(f, s)
    BY <2>6, <2>7, <2>8, <2>9, <2>10
  <2>12. QED
    BY <2>11 DEF new
<1>4. S \in P
  <2> HIDE DEF P
  <2>1. QED
    BY <1>2, <1>3, FiniteSetInduction
<1>5. QED
  BY <1>4

\* The rows of a table that satisfy a condition add up to the total of the table with
\* zero for the others.
LEMMA SumOfRows ==
  ASSUME NEW N \in Nat, NEW C, C \subseteq 1..N, NEW f, \A k \in C : f[k] \in Int
  PROVE  SumFunctionOnSet(f, C) = Total([k \in 1..N |-> IF k \in C THEN f[k] ELSE 0], N)
<1> DEFINE S == 1..N
<1> DEFINE g == [k \in S |-> IF k \in C THEN f[k] ELSE 0]
<1>1. g \in [1..N -> Int]
  OBVIOUS
<1>2. IsFiniteSet(S) /\ C \subseteq S
  BY FS_Interval
<1>3. SumFunctionOnSet(g, S) = SumFunctionOnSet(f, C)
  <2> HIDE DEF S
  <2>1. QED
    BY <1>2, SumOfSome
<1> HIDE DEF g
<1>4. SumFunctionOnSet(g, 1..N) = Total(g, N)
  BY <1>1, SumIsTotal
<1>5. QED
  BY <1>3, <1>4 DEF g

\* What finitely many rows are grouped by is a finite set.
LEMMA FiniteImage ==
  ASSUME NEW S, IsFiniteSet(S), NEW K, NEW key \in [S -> K],
         \A k \in K : \E x \in S : key[x] = k
  PROVE  IsFiniteSet(K)
<1>1. key \in Surjection(S, K)
  BY DEF Surjection
<1>2. QED
  BY <1>1, FS_Surjection

=============================================================================
