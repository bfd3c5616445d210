------------------------------ MODULE FoldFacts ------------------------------
(***************************************************************************)
(* What MapThenFoldSet computes, for any operator: its equations, and an   *)
(* induction over what is folded.  The operators are constants of this     *)
(* module, so that a proof about a fold of the model instantiates it with  *)
(* that fold's operators; c is the context in which they are used.         *)
(***************************************************************************)
EXTENDS Integers, Folds, FiniteSetTheorems, WellFoundedInduction, TLAPS

CONSTANTS op(_, _, _), map(_, _), choose(_)

Fold(c, base, S) ==
    MapThenFoldSet(LAMBDA x, y : op(c, x, y), base, LAMBDA x : map(c, x),
                   LAMBDA s : choose(s), S)

\* choose picks an element of every set that is folded on the way.
Picks(S) == \A s \in SUBSET S : s # {} => choose(s) \in s

\* The function that MapThenFoldSet iterates is one of those that solve this.
Iterate(c, base, S, f) ==
    [s \in SUBSET S |->
        IF s = {} THEN base ELSE op(c, map(c, choose(s)), f[s \ {choose(s)}])]
Solves(c, base, S, f) == f = Iterate(c, base, S, f)

SolvesUpTo(n, c, base, S, f) ==
    /\ DOMAIN f = SUBSET S
    /\ \A s \in SUBSET S : Cardinality(s) <= n => f[s] = Iterate(c, base, S, f)[s]
-----------------------------------------------------------------------------
\* What MapThenFoldSet returns, with its recursive function spelled out.
LEMMA FoldIsChosen ==
  ASSUME NEW c, NEW base, NEW S
  PROVE  Fold(c, base, S) = (CHOOSE f : Solves(c, base, S, f))[S]
BY DEF Fold, MapThenFoldSet, Solves, Iterate

\* Of the subsets of a finite set that have a property one has no smaller one.
LEMMA SmallestSubset ==
  ASSUME NEW S, IsFiniteSet(S), NEW T, T \subseteq SUBSET S, T # {}
  PROVE  \E s \in T : \A t \in T : t \subseteq s => t = s
<1>1. FiniteSubsetsOf(S) = SUBSET S
  BY FS_FiniteSubsetsOfFinite
<1>2. \E s \in T : \A t \in T : ~(<<t, s>> \in StrictSubsetOrdering(S))
  BY <1>1, FS_StrictSubsetOrderingWellFounded, WFMin
<1> QED
  BY <1>2 DEF StrictSubsetOrdering

\* A set of naturals that is not empty has a least element.
LEMMA LeastNatural ==
  ASSUME NEW T \in SUBSET Nat, T # {}
  PROVE  \E n \in T : \A m \in T : n <= m
<1>1. PICK b \in T : TRUE
  OBVIOUS
<1> DEFINE B == 1..b
           U == {1..n : n \in {k \in T : k <= b}}
<1>2. IsFiniteSet(B)
  BY FS_Interval
<1>3. U \subseteq SUBSET B /\ U # {}
  BY <1>1
<1>4. \E s \in U : \A t \in U : t \subseteq s => t = s
  <2> HIDE DEF B, U
  <2> QED
    BY <1>2, <1>3, SmallestSubset
<1>5. PICK s \in U : \A t \in U : t \subseteq s => t = s
  BY <1>4
<1>6. PICK n \in T : n <= b /\ s = 1..n
  OBVIOUS
<1>7. \A m \in T : n <= m
  <2> SUFFICES ASSUME NEW m \in T, m < n PROVE FALSE
    OBVIOUS
  <2>1. n \in 1..n /\ n \notin 1..m /\ 1..m \subseteq 1..n
    OBVIOUS
  <2>2. 1..m \in U
    BY <1>6
  <2> QED
    BY <1>5, <1>6, <2>1, <2>2
<1> QED
  BY <1>7

\* A set of naturals with a bound has a greatest element, if it has any.
LEMMA GreatestNatural ==
  ASSUME NEW n \in Nat, NEW S \in SUBSET (1..n), S # {}
  PROVE  \E k \in S : \A m \in S : m <= k
<1> DEFINE T == {k \in Nat : \A m \in S : m <= k}
<1>1. n \in T /\ T \in SUBSET Nat
  OBVIOUS
<1>2. PICK k \in T : \A m \in T : k <= m
  <2> HIDE DEF T
  <2> QED
    BY <1>1, LeastNatural
<1>3. k \in S
  <2> SUFFICES ASSUME k \notin S PROVE FALSE
    OBVIOUS
  <2>1. \A m \in S : m \in Nat /\ m # 0 /\ m <= k /\ m # k
    BY <1>2
  <2>2. k # 0
    <3>1. PICK m \in S : TRUE
      OBVIOUS
    <3>2. m \in Nat /\ m # 0 /\ m <= k
      BY <2>1
    <3> QED
      BY <3>2
  <2>3. k - 1 \in T
    BY <1>2, <2>1, <2>2
  <2> QED
    BY <1>2, <2>3
<1> QED
  BY <1>2, <1>3

\* Up to any size of the sets there is a function that folds them.
LEMMA FoldUpTo ==
  ASSUME NEW c, NEW base, NEW S, IsFiniteSet(S), Picks(S), NEW n \in Nat
  PROVE  \E f : SolvesUpTo(n, c, base, S, f)
<1> DEFINE Good(f, k) == SolvesUpTo(k, c, base, S, f)
           T == {k \in Nat : ~ \E f : Good(f, k)}
<1> USE DEF SolvesUpTo
<1>0. ASSUME NEW s \in SUBSET S
      PROVE  /\ IsFiniteSet(s) /\ Cardinality(s) \in Nat
             /\ Cardinality(s) = 0 => s = {}
             /\ s # {} => Cardinality(s \ {choose(s)}) = Cardinality(s) - 1
  <2>1. IsFiniteSet(s) /\ Cardinality(s) \in Nat
    BY FS_Subset, FS_CardinalityType
  <2>2. Cardinality(s) = 0 => s = {}
    BY <2>1, FS_EmptySet
  <2>3. s # {} => Cardinality(s \ {choose(s)}) = Cardinality(s) - 1
    BY <2>1, FS_RemoveElement DEF Picks
  <2> QED
    BY <2>1, <2>2, <2>3
<1>1. \E f : Good(f, 0)
  <2> DEFINE f == [s \in SUBSET S |-> base]
  <2>1. ASSUME NEW s \in SUBSET S, Cardinality(s) <= 0 PROVE s = {}
    <3>1. Cardinality(s) \in Nat /\ (Cardinality(s) = 0 => s = {})
      BY <1>0
    <3> QED
      BY <2>1, <3>1
  <2>2. Good(f, 0)
    BY <2>1 DEF Iterate
  <2> QED
    BY <2>2
<1>2. ASSUME NEW k \in Nat, NEW f, Good(f, k)
      PROVE  Good(Iterate(c, base, S, f), k + 1)
  <2> DEFINE g == Iterate(c, base, S, f)
  <2>1. DOMAIN g = SUBSET S
    BY DEF Iterate
  <2>2. ASSUME NEW s \in SUBSET S, Cardinality(s) <= k + 1
        PROVE  g[s] = Iterate(c, base, S, g)[s]
    <3>1. CASE s = {}
      BY <3>1 DEF Iterate
    <3>2. CASE s # {}
      <4> DEFINE r == s \ {choose(s)}
      <4>1. r \in SUBSET S /\ Cardinality(r) <= k
        BY <1>0, <2>2, <3>2
      <4>2. g[r] = f[r]
        BY <4>1, <1>2
      <4> QED
        BY <3>2, <4>1, <4>2 DEF Iterate
    <3> QED
      BY <3>1, <3>2
  <2> QED
    BY <2>1, <2>2
<1>3. T = {}
  <2> SUFFICES ASSUME T # {} PROVE FALSE
    OBVIOUS
  <2>1. T \in SUBSET Nat
    OBVIOUS
  <2>2. PICK k \in T : \A m \in T : k <= m
    <3> HIDE DEF T
    <3> QED
      BY <2>1, LeastNatural
  <2>3. k # 0
    BY <1>1
  <2>4. k \in Nat /\ k - 1 \in Nat /\ k - 1 \notin T
    <3> HIDE DEF T
    <3> QED
      BY <2>1, <2>2, <2>3
  <2>5. PICK f : Good(f, k - 1)
    BY <2>4
  <2>6. (k - 1) + 1 = k
    BY ONLY <2>4
  <2> HIDE DEF Good
  <2>7. Good(Iterate(c, base, S, f), (k - 1) + 1)
    BY <1>2, <2>4, <2>5
  <2>8. Good(Iterate(c, base, S, f), k)
    BY ONLY <2>6, <2>7
  <2> QED
    BY ONLY <2>2, <2>4, <2>8
<1> QED
  BY <1>3

\* Two functions that fold subsets agree on the sets both fold.
LEMMA FoldsAgree ==
  ASSUME NEW c, NEW base, NEW S, IsFiniteSet(S), Picks(S), NEW R \in SUBSET S,
         NEW f, Solves(c, base, S, f), NEW g, Solves(c, base, R, g)
  PROVE  \A s \in SUBSET R : f[s] = g[s]
<1> DEFINE T == {s \in SUBSET R : f[s] # g[s]}
<1>1. T = {}
  <2> SUFFICES ASSUME T # {} PROVE FALSE
    OBVIOUS
  <2>1. T \subseteq SUBSET S
    OBVIOUS
  <2>2. PICK s \in T : \A t \in T : t \subseteq s => t = s
    <3> HIDE DEF T
    <3> QED
      BY <2>1, SmallestSubset
  <2>3. s \in SUBSET R /\ s \in SUBSET S
    BY <2>1
  <2>4. s # {}
    BY <2>3 DEF Solves, Iterate
  <2>5. choose(s) \in s
    BY <2>3, <2>4 DEF Picks
  <2>6. s \ {choose(s)} \in SUBSET R /\ s \ {choose(s)} \notin T
    BY <2>2, <2>3, <2>5
  <2>7. f[s \ {choose(s)}] = g[s \ {choose(s)}]
    BY <2>6
  <2>8. f[s] = g[s]
    BY <2>3, <2>4, <2>7 DEF Solves, Iterate
  <2> QED
    BY <2>8
<1> QED
  BY <1>1

\* The definition of MapThenFoldSet as a recursion has a solution.
LEMMA FoldIsSolved ==
  ASSUME NEW c, NEW base, NEW S, IsFiniteSet(S), Picks(S)
  PROVE  Solves(c, base, S, CHOOSE f : Solves(c, base, S, f))
<1>1. PICK f : SolvesUpTo(Cardinality(S), c, base, S, f)
  BY FoldUpTo, FS_CardinalityType
<1> DEFINE g == Iterate(c, base, S, f)
<1>2. \A s \in SUBSET S : Cardinality(s) <= Cardinality(S)
  BY FS_Subset
<1>3. \A s \in SUBSET S : g[s] = f[s]
  BY <1>1, <1>2 DEF SolvesUpTo
<1>4. \A s \in SUBSET S : s \ {choose(s)} \in SUBSET S
  OBVIOUS
<1>5. Solves(c, base, S, g)
  BY <1>3, <1>4 DEF Solves, Iterate
<1> QED
  BY <1>5

\* Nothing to fold: the base.
LEMMA FoldEmpty ==
  ASSUME NEW c, NEW base
  PROVE  Fold(c, base, {}) = base
<1>1. Picks({})
  BY DEF Picks
<1>2. Solves(c, base, {}, CHOOSE f : Solves(c, base, {}, f))
  BY <1>1, FoldIsSolved, FS_EmptySet
<1> DEFINE f == CHOOSE f : Solves(c, base, {}, f)
<1>3. f[{}] = base
  <2> HIDE DEF f
  <2>1. f = Iterate(c, base, {}, f)
    BY <1>2 DEF f, Solves
  <2> QED
    BY <2>1 DEF Iterate
<1> QED
  BY <1>3, FoldIsChosen

\* Anything else: the element chosen, and the fold of the others.
LEMMA FoldUnfold ==
  ASSUME NEW c, NEW base, NEW S, IsFiniteSet(S), Picks(S), S # {}
  PROVE  Fold(c, base, S) = op(c, map(c, choose(S)), Fold(c, base, S \ {choose(S)}))
<1> DEFINE R == S \ {choose(S)}
           f == CHOOSE f : Solves(c, base, S, f)
           g == CHOOSE g : Solves(c, base, R, g)
<1>1. IsFiniteSet(R) /\ R \in SUBSET S
  BY FS_Subset
<1>2. Picks(R)
  BY <1>1 DEF Picks
<1>3. Solves(c, base, S, f) /\ Solves(c, base, R, g)
  BY <1>1, <1>2, FoldIsSolved
<1>4. Fold(c, base, S) = f[S] /\ Fold(c, base, R) = g[R]
  BY FoldIsChosen
<1> HIDE DEF f, g
<1>5. f[R] = g[R]
  BY <1>1, <1>3, FoldsAgree
<1>6. f[S] = op(c, map(c, choose(S)), f[R])
  BY <1>3 DEF Solves, Iterate
<1> QED
  BY <1>4, <1>5, <1>6

\* The numbers up to n are folded in their order.
LEMMA FoldUpward ==
  ASSUME NEW c, NEW base, NEW n \in Nat,
         \A s \in SUBSET (1..n) : s # {} => choose(s) \in s /\ \A k \in s : k <= choose(s)
  PROVE  /\ Fold(c, base, 1..0) = base
         /\ \A m \in 1..n : Fold(c, base, 1..m) = op(c, map(c, m), Fold(c, base, 1..(m - 1)))
<1>1. 1..0 = {}
  OBVIOUS
<1>2. ASSUME NEW m \in 1..n
      PROVE  Fold(c, base, 1..m) = op(c, map(c, m), Fold(c, base, 1..(m - 1)))
  <2>1. /\ 1..m \in SUBSET (1..n) /\ m \in 1..m
        /\ (1..m) \ {m} = 1..(m - 1) /\ \A k \in 1..m : m <= k => k = m
    OBVIOUS
  <2>2. choose(1..m) = m
    BY <2>1
  <2>3. IsFiniteSet(1..m) /\ Picks(1..m)
    BY <2>1, FS_Interval DEF Picks
  <2>4. Fold(c, base, 1..m) = op(c, map(c, choose(1..m)), Fold(c, base, (1..m) \ {choose(1..m)}))
    BY <2>1, <2>3, FoldUnfold
  <2> QED
    BY <2>1, <2>2, <2>4
<1> QED
  BY <1>1, <1>2, FoldEmpty
-----------------------------------------------------------------------------
(* Sums: folds that add *)
Sum(c, S) == Fold(c, 0, S)

Summable(c, S) == IsFiniteSet(S) /\ \A x \in S : map(c, x) \in Int

\* The operation is addition, and any order of the elements will do.
Adding ==
    /\ \A c, x, y : op(c, x, y) = x + y
    /\ \A S : S # {} => choose(S) \in S

\* Nothing adds up to nothing.
LEMMA SumEmpty ==
  ASSUME NEW c
  PROVE  Sum(c, {}) = 0
BY FoldEmpty DEF Sum

\* A sum is some element and the sum of the others.
LEMMA SumUnfold ==
  ASSUME Adding, NEW c, NEW S, IsFiniteSet(S), S # {}
  PROVE  choose(S) \in S /\ Sum(c, S) = map(c, choose(S)) + Sum(c, S \ {choose(S)})
<1>1. Picks(S)
  BY DEF Adding, Picks
<1>2. Sum(c, S) = op(c, map(c, choose(S)), Sum(c, S \ {choose(S)}))
  BY <1>1, FoldUnfold DEF Sum
<1> QED
  BY <1>2 DEF Adding

\* A part of what can be summed can be summed.
LEMMA Summables ==
  ASSUME NEW c, NEW S, Summable(c, S), NEW R \in SUBSET S
  PROVE  Summable(c, R)
BY FS_Subset DEF Summable

\* Integers add up to an integer.
LEMMA SumInt ==
  ASSUME Adding, NEW c, NEW S, Summable(c, S)
  PROVE  Sum(c, S) \in Int
<1> DEFINE T == {s \in SUBSET S : Sum(c, s) \notin Int}
<1>1. T = {}
  <2> SUFFICES ASSUME T # {} PROVE FALSE
    OBVIOUS
  <2>1. T \subseteq SUBSET S /\ IsFiniteSet(S)
    BY DEF Summable
  <2>2. PICK s \in T : \A t \in T : t \subseteq s => t = s
    <3> HIDE DEF T
    <3> QED
      BY <2>1, SmallestSubset
  <2>3. s # {}
    <3>1. Sum(c, s) \notin Int
      OBVIOUS
    <3>2. Sum(c, {}) = 0
      BY SumEmpty
    <3> HIDE DEF T
    <3> QED
      BY <3>1, <3>2
  <2>4. Summable(c, s)
    BY Summables
  <2>5. choose(s) \in s /\ Sum(c, s) = map(c, choose(s)) + Sum(c, s \ {choose(s)})
    BY <2>3, <2>4, SumUnfold DEF Summable
  <2>6. Sum(c, s \ {choose(s)}) \in Int
    BY <2>2, <2>5
  <2> QED
    BY <2>4, <2>5, <2>6 DEF Summable
<1> QED
  BY <1>1

\* A sum is the sum of the others, and any one of them.
LEMMA SumRemove ==
  ASSUME Adding, NEW c, NEW S, Summable(c, S), NEW x \in S
  PROVE  Sum(c, S) = map(c, x) + Sum(c, S \ {x})
<1> DEFINE Good(s) == \A y \in s : Sum(c, s) = map(c, y) + Sum(c, s \ {y})
           T == {s \in SUBSET S : ~Good(s)}
<1>1. T = {}
  <2> SUFFICES ASSUME T # {} PROVE FALSE
    OBVIOUS
  <2>1. T \subseteq SUBSET S /\ IsFiniteSet(S)
    BY DEF Summable
  <2>2. PICK s \in T : \A t \in T : t \subseteq s => t = s
    <3> HIDE DEF T
    <3> QED
      BY <2>1, SmallestSubset
  <2>3. PICK y \in s : Sum(c, s) # map(c, y) + Sum(c, s \ {y})
    BY <2>1
  <2> DEFINE z == choose(s)
  <2>4. z \in s /\ Sum(c, s) = map(c, z) + Sum(c, s \ {z})
    BY Summables, SumUnfold DEF Summable
  <2>5. z # y
    BY <2>3, <2>4
  <2> HIDE DEF z
  <2>6. Good(s \ {y}) /\ Good(s \ {z})
    BY <2>2, <2>4
  <2>7. /\ Sum(c, s \ {y}) = map(c, z) + Sum(c, (s \ {y}) \ {z})
        /\ Sum(c, s \ {z}) = map(c, y) + Sum(c, (s \ {z}) \ {y})
    BY <2>4, <2>5, <2>6
  <2>8. (s \ {y}) \ {z} = (s \ {z}) \ {y}
    OBVIOUS
  <2>9. Summable(c, (s \ {z}) \ {y})
    BY Summables
  <2>10. Sum(c, (s \ {z}) \ {y}) \in Int /\ map(c, y) \in Int /\ map(c, z) \in Int
    BY <2>4, <2>9, SumInt DEF Summable
  <2>11. Sum(c, s) = map(c, z) + (map(c, y) + Sum(c, (s \ {z}) \ {y}))
    BY <2>4, <2>7
  <2>12. map(c, y) + Sum(c, s \ {y}) = map(c, y) + (map(c, z) + Sum(c, (s \ {z}) \ {y}))
    BY <2>7, <2>8
  <2> HIDE DEF T
  <2> QED
    BY <2>3, <2>10, <2>11, <2>12
<1> QED
  BY <1>1

\* One more element adds what it adds.
LEMMA SumAdd ==
  ASSUME Adding, NEW c, NEW S, NEW x, x \notin S, Summable(c, S \cup {x})
  PROVE  Sum(c, S \cup {x}) = Sum(c, S) + map(c, x)
<1>1. (S \cup {x}) \ {x} = S
  OBVIOUS
<1>2. Summable(c, S)
  BY Summables
<1> QED
  BY <1>1, <1>2, SumRemove, SumInt DEF Summable

\* The sum over one element.
LEMMA SumOne ==
  ASSUME Adding, NEW c, NEW x, map(c, x) \in Int
  PROVE  Sum(c, {x}) = map(c, x)
<1>1. Summable(c, {x})
  BY FS_Singleton DEF Summable
<1>2. Sum(c, {x}) = map(c, x) + Sum(c, {x} \ {x})
  BY <1>1, SumRemove
<1>3. {x} \ {x} = {}
  OBVIOUS
<1> QED
  BY <1>2, <1>3, SumEmpty

\* A sum is that of any part and that of the rest.
LEMMA SumSplit ==
  ASSUME Adding, NEW c, NEW S, Summable(c, S), NEW R \in SUBSET S
  PROVE  Sum(c, S) = Sum(c, R) + Sum(c, S \ R)
<1> DEFINE Good(r) == Sum(c, S) = Sum(c, r) + Sum(c, S \ r)
           T == {r \in SUBSET S : ~Good(r)}
<1>1. T = {}
  <2> SUFFICES ASSUME T # {} PROVE FALSE
    OBVIOUS
  <2>1. T \subseteq SUBSET S /\ IsFiniteSet(S)
    BY DEF Summable
  <2>2. PICK r \in T : \A t \in T : t \subseteq r => t = r
    <3> HIDE DEF T
    <3> QED
      BY <2>1, SmallestSubset
  <2>3. CASE r = {}
    <3>1. S \ {} = S
      OBVIOUS
    <3> QED
      BY <2>3, <3>1, SumEmpty, SumInt
  <2>4. CASE r # {}
    <3>1. PICK x \in r : TRUE
      BY <2>4
    <3>2. Good(r \ {x})
      BY <2>2
    <3>3. /\ S \ (r \ {x}) = (S \ r) \cup {x} /\ x \notin S \ r
          /\ Summable(c, r) /\ Summable(c, S \ r) /\ Summable(c, (S \ r) \cup {x})
          /\ Summable(c, r \ {x})
      BY Summables
    <3>4. Sum(c, r) = map(c, x) + Sum(c, r \ {x})
      BY <3>3, SumRemove
    <3>5. Sum(c, (S \ r) \cup {x}) = Sum(c, S \ r) + map(c, x)
      BY <3>3, SumAdd
    <3>6. /\ Sum(c, r \ {x}) \in Int /\ Sum(c, S \ r) \in Int
          /\ Sum(c, S) \in Int /\ map(c, x) \in Int
      BY <3>3, SumInt DEF Summable
    <3>7. Sum(c, S) = Sum(c, r \ {x}) + (Sum(c, S \ r) + map(c, x))
      BY <3>2, <3>3, <3>5
    <3>8. Sum(c, S) = Sum(c, r) + Sum(c, S \ r)
      BY <3>4, <3>6, <3>7
    <3> QED
      BY <3>8
  <2> QED
    BY <2>3, <2>4
<1> QED
  BY <1>1

\* The sum over two sets without a common element.
LEMMA SumUnion ==
  ASSUME Adding, NEW c, NEW R, NEW S, R \cap S = {}, Summable(c, R \cup S)
  PROVE  Sum(c, R \cup S) = Sum(c, R) + Sum(c, S)
<1>1. (R \cup S) \ R = S
  OBVIOUS
<1> QED
  BY <1>1, SumSplit

\* Contexts in which every element adds the same.
LEMMA SumSame ==
  ASSUME Adding, NEW c, NEW d, NEW S, IsFiniteSet(S), \A x \in S : map(c, x) = map(d, x)
  PROVE  Sum(c, S) = Sum(d, S)
<1> DEFINE T == {s \in SUBSET S : Sum(c, s) # Sum(d, s)}
<1>1. T = {}
  <2> SUFFICES ASSUME T # {} PROVE FALSE
    OBVIOUS
  <2>1. T \subseteq SUBSET S
    OBVIOUS
  <2>2. PICK s \in T : \A t \in T : t \subseteq s => t = s
    <3> HIDE DEF T
    <3> QED
      BY <2>1, SmallestSubset
  <2>3. s # {} /\ IsFiniteSet(s)
    <3>1. s # {}
      BY SumEmpty
    <3> QED
      BY <3>1, FS_Subset
  <2>4. /\ choose(s) \in s
        /\ Sum(c, s) = map(c, choose(s)) + Sum(c, s \ {choose(s)})
        /\ Sum(d, s) = map(d, choose(s)) + Sum(d, s \ {choose(s)})
    BY <2>3, SumUnfold
  <2>5. Sum(c, s \ {choose(s)}) = Sum(d, s \ {choose(s)})
    BY <2>2, <2>4
  <2>6. map(c, choose(s)) = map(d, choose(s))
    BY <2>4
  <2> QED
    BY <2>4, <2>5, <2>6
<1> QED
  BY <1>1

\* Contexts in which one element adds something else.
LEMMA SumChange ==
  ASSUME Adding, NEW c, NEW d, NEW S, Summable(c, S), Summable(d, S), NEW x \in S,
         \A y \in S \ {x} : map(c, y) = map(d, y)
  PROVE  Sum(d, S) = Sum(c, S) + map(d, x) - map(c, x)
<1>1. /\ Sum(c, S) = map(c, x) + Sum(c, S \ {x})
      /\ Sum(d, S) = map(d, x) + Sum(d, S \ {x})
  BY SumRemove
<1>2. Summable(c, S \ {x})
  BY Summables
<1>3. Sum(c, S \ {x}) = Sum(d, S \ {x})
  BY <1>2, SumSame DEF Summable
<1>4. Sum(c, S \ {x}) \in Int /\ map(c, x) \in Int /\ map(d, x) \in Int
  BY <1>2, SumInt DEF Summable
<1> QED
  BY <1>1, <1>3, <1>4

\* Naturals add up to a natural.
LEMMA SumNat ==
  ASSUME Adding, NEW c, NEW S, IsFiniteSet(S), \A x \in S : map(c, x) \in Nat
  PROVE  Sum(c, S) \in Nat
<1> DEFINE T == {s \in SUBSET S : Sum(c, s) \notin Nat}
<1>1. T = {}
  <2> SUFFICES ASSUME T # {} PROVE FALSE
    OBVIOUS
  <2>1. T \subseteq SUBSET S
    OBVIOUS
  <2>2. PICK s \in T : \A t \in T : t \subseteq s => t = s
    <3> HIDE DEF T
    <3> QED
      BY <2>1, SmallestSubset
  <2>3. s # {} /\ IsFiniteSet(s)
    <3>1. s # {}
      BY SumEmpty
    <3> QED
      BY <3>1, FS_Subset
  <2>4. choose(s) \in s /\ Sum(c, s) = map(c, choose(s)) + Sum(c, s \ {choose(s)})
    BY <2>3, SumUnfold
  <2>5. Sum(c, s \ {choose(s)}) \in Nat
    BY <2>2, <2>4
  <2> QED
    BY <2>4, <2>5
<1> QED
  BY <1>1

\* Zeros add up to zero.
LEMMA SumZero ==
  ASSUME Adding, NEW c, NEW S, IsFiniteSet(S), \A x \in S : map(c, x) = 0
  PROVE  Sum(c, S) = 0
<1> DEFINE T == {s \in SUBSET S : Sum(c, s) # 0}
<1>1. T = {}
  <2> SUFFICES ASSUME T # {} PROVE FALSE
    OBVIOUS
  <2>1. T \subseteq SUBSET S
    OBVIOUS
  <2>2. PICK s \in T : \A t \in T : t \subseteq s => t = s
    <3> HIDE DEF T
    <3> QED
      BY <2>1, SmallestSubset
  <2>3. s # {} /\ IsFiniteSet(s)
    <3>1. s # {}
      BY SumEmpty
    <3> QED
      BY <3>1, FS_Subset
  <2>4. choose(s) \in s /\ Sum(c, s) = map(c, choose(s)) + Sum(c, s \ {choose(s)})
    BY <2>3, SumUnfold
  <2>5. Sum(c, s \ {choose(s)}) = 0
    BY <2>2, <2>4
  <2> QED
    BY <2>4, <2>5
<1> QED
  BY <1>1

\* A part of naturals adds up to no more than all of them.
LEMMA SumPart ==
  ASSUME Adding, NEW c, NEW S, IsFiniteSet(S), \A x \in S : map(c, x) \in Nat, NEW R \in SUBSET S
  PROVE  Sum(c, R) <= Sum(c, S)
<1>1. Summable(c, S) /\ IsFiniteSet(R) /\ IsFiniteSet(S \ R)
  BY FS_Subset DEF Summable
<1>2. Sum(c, R) \in Nat /\ Sum(c, S \ R) \in Nat
  BY <1>1, SumNat
<1> QED
  BY <1>1, <1>2, SumSplit

\* What adds up two values adds up two sums.
LEMMA SumPlus ==
  ASSUME Adding, NEW c, NEW d, NEW e, NEW S, Summable(d, S), Summable(e, S),
         \A x \in S : map(c, x) = map(d, x) + map(e, x)
  PROVE  Sum(c, S) = Sum(d, S) + Sum(e, S)
<1> DEFINE T == {s \in SUBSET S : Sum(c, s) # Sum(d, s) + Sum(e, s)}
<1>1. T = {}
  <2> SUFFICES ASSUME T # {} PROVE FALSE
    OBVIOUS
  <2>1. T \subseteq SUBSET S /\ IsFiniteSet(S)
    BY DEF Summable
  <2>2. PICK s \in T : \A t \in T : t \subseteq s => t = s
    <3> HIDE DEF T
    <3> QED
      BY <2>1, SmallestSubset
  <2>3. s # {} /\ Summable(d, s) /\ Summable(e, s) /\ IsFiniteSet(s)
    <3>1. s # {}
      BY SumEmpty
    <3> QED
      BY <3>1, <2>1, Summables, FS_Subset
  <2>4. /\ choose(s) \in s
        /\ Sum(c, s) = map(c, choose(s)) + Sum(c, s \ {choose(s)})
        /\ Sum(d, s) = map(d, choose(s)) + Sum(d, s \ {choose(s)})
        /\ Sum(e, s) = map(e, choose(s)) + Sum(e, s \ {choose(s)})
    BY <2>3, SumUnfold
  <2>5. Sum(c, s \ {choose(s)}) = Sum(d, s \ {choose(s)}) + Sum(e, s \ {choose(s)})
    BY <2>2, <2>4
  <2>6. Summable(d, s \ {choose(s)}) /\ Summable(e, s \ {choose(s)})
    BY <2>3, Summables
  <2>7. /\ Sum(d, s \ {choose(s)}) \in Int /\ Sum(e, s \ {choose(s)}) \in Int
        /\ map(d, choose(s)) \in Int /\ map(e, choose(s)) \in Int
    BY <2>3, <2>4, <2>6, SumInt DEF Summable
  <2>8. map(c, choose(s)) = map(d, choose(s)) + map(e, choose(s))
    BY <2>4
  <2>9. Sum(c, s) = Sum(d, s) + Sum(e, s)
    <3> HIDE DEF T
    <3> QED
      BY <2>4, <2>5, <2>7, <2>8
  <2> QED
    BY <2>9
<1> QED
  BY <1>1
=============================================================================
