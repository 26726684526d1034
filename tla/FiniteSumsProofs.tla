-------------------------- MODULE FiniteSumsProofs --------------------------
(***************************************************************************)
(* What SumOver computes, for all finite sets.                             *)
(*                                                                         *)
(* The folds of the community modules are recursive functions, and the     *)
(* induction theorems of the library have a predicate as their parameter.  *)
(* Here induction is about a set instead: a set of natural numbers, or of  *)
(* subsets of a finite set, that is closed under the step has them all.    *)
(***************************************************************************)
EXTENDS FiniteSums, FiniteSetTheorems, WellFoundedInduction, TLAPS

-----------------------------------------------------------------------------
(***************************************************************************)
(* Induction                                                               *)
(***************************************************************************)

\* A set with 0, and with the successors of its elements, has every number:
\* otherwise there is a least number that it does not have.
LEMMA NatSetInduction ==
  ASSUME NEW T, 0 \in T, \A n \in Nat : n \in T => n + 1 \in T
  PROVE  Nat \subseteq T
<1> SUFFICES ASSUME Nat \ T # {} PROVE FALSE
  OBVIOUS
<1>1. PICK n \in Nat \ T : \A m \in Nat \ T : ~ (<<m, n>> \in OpToRel(<, Nat))
  <2>1. Nat \ T \subseteq Nat
    OBVIOUS
  <2> QED BY <2>1, NatLessThanWellFounded, WFMin, Zenon
<1>2. \A m \in Nat \ T : ~ (m < n)
  BY <1>1 DEF OpToRel
<1>3. n # 0 /\ n - 1 \in Nat /\ n - 1 < n
  OBVIOUS
<1>4. n - 1 \in T
  BY <1>2, <1>3
<1>5. (n - 1) + 1 \in T
  BY <1>3, <1>4
<1> QED BY <1>5

\* A set with the empty set, and closed under the addition of an element, has
\* every finite set.
LEMMA SubsetInduction ==
  ASSUME NEW S, IsFiniteSet(S), NEW T, {} \in T,
         \A s \in SUBSET S : \A x \in S \ s : s \in T => s \cup {x} \in T
  PROVE  S \in T
<1> DEFINE N == {n \in Nat : \A s \in SUBSET S : Cardinality(s) = n => s \in T}
<1>1. 0 \in N
  <2>1. \A s \in SUBSET S : IsFiniteSet(s)
    BY FS_Subset
  <2>2. \A s \in SUBSET S : Cardinality(s) = 0 => s = {}
    BY <2>1, FS_EmptySet
  <2> QED BY <2>2
<1>2. ASSUME NEW n \in Nat, n \in N PROVE n + 1 \in N
  <2> SUFFICES ASSUME NEW s \in SUBSET S, Cardinality(s) = n + 1 PROVE s \in T
    OBVIOUS
  <2>1. IsFiniteSet(s)
    BY FS_Subset
  <2>2. s # {}
    <3>1. Cardinality({}) = 0
      BY FS_EmptySet
    <3>2. n + 1 # 0
      OBVIOUS
    <3> QED BY <3>1, <3>2
  <2>3. PICK x \in s : TRUE
    BY <2>2
  <2>4. Cardinality(s \ {x}) = n
    <3>1. Cardinality(s \ {x}) = Cardinality(s) - 1
      BY <2>1, FS_RemoveElement
    <3> QED BY <3>1
  <2>5. s \ {x} \in T
    BY <1>2, <2>4
  <2>6. (s \ {x}) \cup {x} \in T
    BY <2>5
  <2>7. (s \ {x}) \cup {x} = s
    OBVIOUS
  <2> QED BY <2>6, <2>7
<1> HIDE DEF N
<1>3. Nat \subseteq N
  BY <1>1, <1>2, NatSetInduction
<1>4. Cardinality(S) \in N
  BY <1>3, FS_CardinalityType
<1> QED BY <1>4 DEF N

\* The values of a function at the elements of a finite set are finitely many.
LEMMA ImageIsFinite ==
  ASSUME NEW S, IsFiniteSet(S), NEW g
  PROVE  IsFiniteSet({g[x] : x \in S})
<1> DEFINE Im(s) == {g[x] : x \in s}
           T == {s \in SUBSET S : IsFiniteSet(Im(s))}
<1>1. {} \in T
  <2>1. Im({}) = {}
    OBVIOUS
  <2> HIDE DEF Im
  <2> QED BY <2>1, FS_EmptySet
<1>2. ASSUME NEW s \in SUBSET S, NEW x \in S \ s, s \in T PROVE s \cup {x} \in T
  <2>1. Im(s \cup {x}) = Im(s) \cup {g[x]}
    OBVIOUS
  <2> HIDE DEF Im
  <2>2. IsFiniteSet(Im(s) \cup {g[x]})
    BY <1>2, FS_AddElement
  <2> QED BY <2>1, <2>2
<1>3. S \in T
  <2> HIDE DEF T
  <2> QED BY <1>1, <1>2, SubsetInduction
<1> QED BY <1>3

-----------------------------------------------------------------------------
(***************************************************************************)
(* The recursive function behind a sum                                     *)
(***************************************************************************)
Pick(s) == CHOOSE x \in s : TRUE

IsSum(f, S, g) ==
  g = [s \in SUBSET S |-> IF s = {} THEN 0 ELSE f[Pick(s)] + g[s \ {Pick(s)}]]

\* An element is picked of every set that has one.
LEMMA PickIsElement == ASSUME NEW s, s # {} PROVE Pick(s) \in s
BY DEF Pick

\* A sum is the value of a function with the recursive definition, if any.
LEMMA SumIsChosen ==
  ASSUME NEW f, NEW S
  PROVE  SumOver(f, S) = (CHOOSE g : IsSum(f, S, g))[S]
BY DEF SumOver, MapThenSumSet, MapThenFoldSet, IsSum, Pick

\* There is one: it is defined for the sets of up to n elements, for all n.
LEMMA SumExists ==
  ASSUME NEW f, NEW S, IsFiniteSet(S), \A x \in S : f[x] \in Int
  PROVE  \E g \in [SUBSET S -> Int] : IsSum(f, S, g)
<1> DEFINE Upto(n) == {s \in SUBSET S : Cardinality(s) <= n}
           Rec(g, s) == IF s = {} THEN 0 ELSE f[Pick(s)] + g[s \ {Pick(s)}]
           N == {n \in Nat : \E g \in [Upto(n) -> Int] : \A s \in Upto(n) : g[s] = Rec(g, s)}
<1>0. \A s \in SUBSET S : IsFiniteSet(s) /\ Cardinality(s) \in Nat
  BY FS_Subset, FS_CardinalityType
<1>1. 0 \in N
  <2>1. \A s \in Upto(0) : s = {}
    BY <1>0, FS_EmptySet
  <2> DEFINE g == [s \in Upto(0) |-> 0]
  <2>2. g \in [Upto(0) -> Int] /\ \A s \in Upto(0) : g[s] = Rec(g, s)
    BY <2>1
  <2> QED BY <2>2
<1>2. ASSUME NEW n \in Nat, n \in N PROVE n + 1 \in N
  <2>1. PICK g \in [Upto(n) -> Int] : \A s \in Upto(n) : g[s] = Rec(g, s)
    BY <1>2
  <2> DEFINE h == [s \in Upto(n + 1) |-> Rec(g, s)]
  <2>2. \A s \in Upto(n + 1) : s # {} =>
           s \ {Pick(s)} \in Upto(n) /\ Pick(s) \in S
    <3> SUFFICES ASSUME NEW s \in Upto(n + 1), s # {}
                 PROVE  s \ {Pick(s)} \in Upto(n) /\ Pick(s) \in S
      OBVIOUS
    <3>1. Pick(s) \in s /\ s \in SUBSET S
      BY PickIsElement
    <3>2. Cardinality(s \ {Pick(s)}) = Cardinality(s) - 1
      BY <1>0, <3>1, FS_RemoveElement
    <3> QED BY <1>0, <3>1, <3>2
  <2>3. h \in [Upto(n + 1) -> Int]
    <3>1. \A s \in Upto(n + 1) : Rec(g, s) \in Int
      <4> HIDE DEF Upto
      <4> QED BY <2>2
    <3> HIDE DEF Rec, Upto
    <3> QED BY <3>1
  <2>4. \A s \in Upto(n) : s \in Upto(n + 1)
    BY <1>0
  <2>5. \A s \in Upto(n) : h[s] = g[s]
    <3> HIDE DEF Upto, Rec
    <3> QED BY <2>1, <2>4
  <2>6. \A s \in Upto(n + 1) : h[s] = Rec(h, s)
    <3> SUFFICES ASSUME NEW s \in Upto(n + 1) PROVE h[s] = Rec(h, s)
      OBVIOUS
    <3>1. h[s] = Rec(g, s)
      <4> HIDE DEF Upto, Rec
      <4> QED OBVIOUS
    <3>2. s # {} => h[s \ {Pick(s)}] = g[s \ {Pick(s)}]
      <4> HIDE DEF h, Upto
      <4> QED BY <2>2, <2>5
    <3> HIDE DEF h, Upto
    <3> QED BY <3>1, <3>2
  <2> HIDE DEF h, Upto, Rec
  <2> QED BY <2>3, <2>6
<1>3. Nat \subseteq N
  <2> HIDE DEF N
  <2> QED BY <1>1, <1>2, NatSetInduction
<1>4. Cardinality(S) \in N
  <2> HIDE DEF N
  <2> QED BY <1>3, FS_CardinalityType
<1>5. Upto(Cardinality(S)) = SUBSET S
  BY <1>0, FS_Subset
<1>6. PICK g \in [SUBSET S -> Int] : \A s \in SUBSET S : g[s] = Rec(g, s)
  <2> HIDE DEF Upto, Rec
  <2> QED BY <1>4, <1>5
<1>7. g = [s \in SUBSET S |-> Rec(g, s)]
  <2> HIDE DEF Rec
  <2> QED BY <1>6
<1> QED BY <1>6, <1>7 DEF IsSum

\* There is only one, even for functions with other values outside of S.
LEMMA SumIsUnique ==
  ASSUME NEW f, NEW e, NEW S, IsFiniteSet(S), NEW R \in SUBSET S, \A x \in R : f[x] = e[x],
         NEW g, IsSum(f, S, g), NEW h, IsSum(e, R, h)
  PROVE  g[R] = h[R]
<1> DEFINE N == {n \in Nat : \A s \in SUBSET R : Cardinality(s) = n => g[s] = h[s]}
<1>0. \A s \in SUBSET R : IsFiniteSet(s) /\ Cardinality(s) \in Nat
  BY FS_Subset, FS_CardinalityType
<1>1. \A s \in SUBSET R :
         /\ g[s] = IF s = {} THEN 0 ELSE f[Pick(s)] + g[s \ {Pick(s)}]
         /\ h[s] = IF s = {} THEN 0 ELSE e[Pick(s)] + h[s \ {Pick(s)}]
  BY DEF IsSum
<1>2. 0 \in N
  <2>1. \A s \in SUBSET R : Cardinality(s) = 0 => s = {}
    BY <1>0, FS_EmptySet
  <2> QED BY <1>1, <2>1
<1>3. ASSUME NEW n \in Nat, n \in N PROVE n + 1 \in N
  <2> SUFFICES ASSUME NEW s \in SUBSET R, Cardinality(s) = n + 1 PROVE g[s] = h[s]
    OBVIOUS
  <2>1. s # {}
    BY FS_EmptySet
  <2>2. Pick(s) \in s
    BY <2>1, PickIsElement
  <2>3. Cardinality(s \ {Pick(s)}) = n /\ s \ {Pick(s)} \in SUBSET R
    BY <1>0, <2>2, FS_RemoveElement
  <2>4. g[s \ {Pick(s)}] = h[s \ {Pick(s)}]
    BY <1>3, <2>3
  <2> QED BY <1>1, <2>1, <2>2, <2>4
<1>4. Nat \subseteq N
  <2> HIDE DEF N
  <2> QED BY <1>2, <1>3, NatSetInduction
<1> QED BY <1>0, <1>4


\* The function behind the sum over a set gives the sum of every part of it.
LEMMA SumOfPart ==
  ASSUME NEW f, NEW S, IsFiniteSet(S), \A x \in S : f[x] \in Int,
         NEW g, IsSum(f, S, g), NEW R \in SUBSET S
  PROVE  g[R] = SumOver(f, R)
<1>1. IsFiniteSet(R) /\ \A x \in R : f[x] \in Int
  BY FS_Subset
<1>2. \E h : IsSum(f, R, h)
  BY <1>1, SumExists
<1> DEFINE h == CHOOSE g_1 : IsSum(f, R, g_1)
<1>3. IsSum(f, R, h)
  BY <1>2
<1>4. SumOver(f, R) = h[R]
  BY SumIsChosen
<1> HIDE DEF h
<1>5. g[R] = h[R]
  BY <1>3, SumIsUnique
<1> QED BY <1>4, <1>5

-----------------------------------------------------------------------------
(***************************************************************************)
(* Sums                                                                    *)
(***************************************************************************)

\* The sum over no elements.
LEMMA SumEmpty == ASSUME NEW f PROVE SumOver(f, {}) = 0
<1>1. IsFiniteSet({})
  BY FS_EmptySet
<1>2. PICK g \in [SUBSET {} -> Int] : IsSum(f, {}, g)
  BY <1>1, SumExists
<1>3. g[{}] = SumOver(f, {})
  BY <1>1, <1>2, SumOfPart
<1> QED BY <1>2, <1>3 DEF IsSum

\* The sum of integers is an integer.
LEMMA SumInt ==
  ASSUME NEW f, NEW S, IsFiniteSet(S), \A x \in S : f[x] \in Int
  PROVE  SumOver(f, S) \in Int
<1>1. PICK g \in [SUBSET S -> Int] : IsSum(f, S, g)
  BY SumExists
<1>2. g[S] = SumOver(f, S)
  BY <1>1, SumOfPart
<1> QED BY <1>1, <1>2

\* A sum depends on nothing but the values at the elements of the set.
LEMMA SumSame ==
  ASSUME NEW f, NEW e, NEW S, IsFiniteSet(S), \A x \in S : f[x] \in Int, \A x \in S : f[x] = e[x]
  PROVE  SumOver(f, S) = SumOver(e, S)
<1>1. PICK g \in [SUBSET S -> Int] : IsSum(f, S, g)
  BY SumExists
<1>2. PICK h \in [SUBSET S -> Int] : IsSum(e, S, h)
  BY SumExists
<1>3. g[S] = SumOver(f, S)
  BY <1>1, SumOfPart
<1>4. h[S] = SumOver(e, S)
  BY <1>2, SumOfPart
<1>5. g[S] = h[S]
  BY <1>1, <1>2, SumIsUnique
<1> QED BY <1>3, <1>4, <1>5

\* The picked element is split off.
LEMMA SumPicks ==
  ASSUME NEW f, NEW S, IsFiniteSet(S), \A x \in S : f[x] \in Int, S # {}
  PROVE  SumOver(f, S) = f[Pick(S)] + SumOver(f, S \ {Pick(S)})
<1>1. PICK g \in [SUBSET S -> Int] : IsSum(f, S, g)
  BY SumExists
<1>2. g[S] = f[Pick(S)] + g[S \ {Pick(S)}]
  BY <1>1 DEF IsSum
<1>3. g[S] = SumOver(f, S)
  BY <1>1, SumOfPart
<1>4. S \ {Pick(S)} \in SUBSET S
  OBVIOUS
<1>5. g[S \ {Pick(S)}] = SumOver(f, S \ {Pick(S)})
  BY <1>1, <1>4, SumOfPart
<1> QED BY <1>2, <1>3, <1>5

\* So is any other one: the order of the additions does not matter.
LEMMA SumRemove ==
  ASSUME NEW f, NEW S, IsFiniteSet(S), \A x \in S : f[x] \in Int, NEW y \in S
  PROVE  SumOver(f, S) = f[y] + SumOver(f, S \ {y})
<1> DEFINE Any(s) == \A x \in s : SumOver(f, s) = f[x] + SumOver(f, s \ {x})
           N == {n \in Nat : \A s \in SUBSET S : Cardinality(s) = n => Any(s)}
<1>0. \A s \in SUBSET S : IsFiniteSet(s) /\ Cardinality(s) \in Nat
  BY FS_Subset, FS_CardinalityType
<1>1. 0 \in N
  <2>1. \A s \in SUBSET S : Cardinality(s) = 0 => s = {}
    BY <1>0, FS_EmptySet
  <2> QED BY <2>1
<1>2. ASSUME NEW n \in Nat, n \in N PROVE n + 1 \in N
  <2> SUFFICES ASSUME NEW s \in SUBSET S, Cardinality(s) = n + 1, NEW x \in s
               PROVE  SumOver(f, s) = f[x] + SumOver(f, s \ {x})
    OBVIOUS
  <2> DEFINE p == Pick(s)
  <2>1. p \in s
    BY PickIsElement
  <2>2. SumOver(f, s) = f[p] + SumOver(f, s \ {p})
    <3>1. IsFiniteSet(s) /\ (\A z \in s : f[z] \in Int) /\ s # {}
      BY <1>0
    <3> QED BY <3>1, SumPicks
  <2>3. CASE x = p
    BY <2>2, <2>3
  <2>4. CASE x # p
    <3> HIDE DEF p
    <3>1. \A z \in s : Any(s \ {z})
      <4> SUFFICES ASSUME NEW z \in s PROVE Any(s \ {z})
        OBVIOUS
      <4>1. Cardinality(s \ {z}) = Cardinality(s) - 1
        BY <1>0, FS_RemoveElement
      <4>2. Cardinality(s \ {z}) = n /\ s \ {z} \in SUBSET S
        BY <4>1
      <4> HIDE DEF Any
      <4> QED BY <1>2, <4>2
    <3>2. SumOver(f, s \ {p}) = f[x] + SumOver(f, (s \ {p}) \ {x})
      BY <2>1, <2>4, <3>1
    <3>3. SumOver(f, s \ {x}) = f[p] + SumOver(f, (s \ {x}) \ {p})
      BY <2>1, <2>4, <3>1
    <3> DEFINE rest == (s \ {x}) \ {p}
    <3>4. (s \ {p}) \ {x} = rest
      OBVIOUS
    <3>5. SumOver(f, rest) \in Int
      <4>1. rest \in SUBSET S
        OBVIOUS
      <4>2. IsFiniteSet(rest) /\ \A z \in rest : f[z] \in Int
        BY <1>0, <4>1
      <4> HIDE DEF rest
      <4> QED BY <4>2, SumInt
    <3>6. f[p] \in Int /\ f[x] \in Int
      BY <2>1
    <3>7. SumOver(f, s \ {x}) = f[p] + SumOver(f, rest)
      BY <3>3
    <3>8. SumOver(f, s \ {p}) = f[x] + SumOver(f, rest)
      BY <3>2, <3>4
    <3> HIDE DEF rest
    <3>9. SumOver(f, s) = f[p] + (f[x] + SumOver(f, rest))
      BY <2>2, <3>8 DEF p
    <3>10. \A a, b, c \in Int : a + (b + c) = b + (a + c)
      OBVIOUS
    <3> QED BY <3>5, <3>6, <3>7, <3>9, <3>10
  <2> QED BY <2>3, <2>4
<1>3. Nat \subseteq N
  <2> HIDE DEF N
  <2> QED BY <1>1, <1>2, NatSetInduction
<1>4. Any(S)
  <2> HIDE DEF Any
  <2> QED BY <1>0, <1>3
<1> QED BY <1>4

\* An element is added.
LEMMA SumAdd ==
  ASSUME NEW f, NEW S, IsFiniteSet(S), NEW y, y \notin S, \A x \in S \cup {y} : f[x] \in Int
  PROVE  SumOver(f, S \cup {y}) = f[y] + SumOver(f, S)
<1>1. IsFiniteSet(S \cup {y})
  BY FS_AddElement
<1>2. SumOver(f, S \cup {y}) = f[y] + SumOver(f, (S \cup {y}) \ {y})
  BY <1>1, SumRemove
<1>3. (S \cup {y}) \ {y} = S
  OBVIOUS
<1> QED BY <1>2, <1>3


\* The sum over two disjoint sets.
LEMMA SumSplit ==
  ASSUME NEW f, NEW R, IsFiniteSet(R), NEW S, IsFiniteSet(S), R \cap S = {},
         \A x \in R \cup S : f[x] \in Int
  PROVE  SumOver(f, R \cup S) = SumOver(f, R) + SumOver(f, S)
<1> DEFINE T == {s \in SUBSET S : SumOver(f, R \cup s) = SumOver(f, R) + SumOver(f, s)}
<1>0. SumOver(f, R) \in Int
  BY SumInt
<1>1. {} \in T
  <2>1. SumOver(f, {}) = 0
    BY SumEmpty
  <2>2. R \cup {} = R
    OBVIOUS
  <2> QED BY <1>0, <2>1, <2>2
<1>2. ASSUME NEW s \in SUBSET S, NEW x \in S \ s, s \in T PROVE s \cup {x} \in T
  <2>1. IsFiniteSet(s)
    BY FS_Subset
  <2>2. IsFiniteSet(R \cup s)
    BY <2>1, FS_Union
  <2>3. SumOver(f, s) \in Int
    BY <2>1, SumInt
  <2>4. SumOver(f, s \cup {x}) = f[x] + SumOver(f, s)
    <3>1. \A y \in s \cup {x} : f[y] \in Int
      OBVIOUS
    <3> QED BY <2>1, <3>1, SumAdd
  <2>5. SumOver(f, (R \cup s) \cup {x}) = f[x] + SumOver(f, R \cup s)
    <3>1. x \notin R \cup s /\ \A y \in (R \cup s) \cup {x} : f[y] \in Int
      OBVIOUS
    <3> QED BY <2>2, <3>1, SumAdd
  <2>6. (R \cup s) \cup {x} = R \cup (s \cup {x})
    OBVIOUS
  <2>7. SumOver(f, R \cup s) = SumOver(f, R) + SumOver(f, s)
    BY <1>2
  <2>8. f[x] \in Int
    OBVIOUS
  <2>9. SumOver(f, R \cup (s \cup {x})) = f[x] + (SumOver(f, R) + SumOver(f, s))
    BY <2>5, <2>6, <2>7
  <2>10. \A a, b, c \in Int : a + (b + c) = b + (a + c)
    OBVIOUS
  <2>11. SumOver(f, R \cup (s \cup {x})) = SumOver(f, R) + SumOver(f, s \cup {x})
    BY <1>0, <2>3, <2>4, <2>8, <2>9, <2>10
  <2> QED BY <2>11
<1> HIDE DEF T
<1>3. S \in T
  BY <1>1, <1>2, SubsetInduction
<1> QED BY <1>3 DEF T

\* The sum of the differences is the difference of the sums.
LEMMA SumDifference ==
  ASSUME NEW f, NEW e, NEW d, NEW S, IsFiniteSet(S), \A x \in S : f[x] \in Int /\ e[x] \in Int,
         \A x \in S : d[x] = f[x] - e[x]
  PROVE  SumOver(d, S) = SumOver(f, S) - SumOver(e, S)
<1> DEFINE T == {s \in SUBSET S : SumOver(d, s) = SumOver(f, s) - SumOver(e, s)}
<1>1. {} \in T
  <2>1. SumOver(f, {}) = 0 /\ SumOver(e, {}) = 0 /\ SumOver(d, {}) = 0
    BY SumEmpty
  <2> QED BY <2>1
<1>2. ASSUME NEW s \in SUBSET S, NEW x \in S \ s, s \in T PROVE s \cup {x} \in T
  <2>1. IsFiniteSet(s)
    BY FS_Subset
  <2>2. /\ \A y \in s : f[y] \in Int
        /\ \A y \in s : e[y] \in Int
    OBVIOUS
  <2>3. SumOver(f, s) \in Int /\ SumOver(e, s) \in Int
    BY <2>1, <2>2, SumInt
  <2>4. /\ \A y \in s \cup {x} : f[y] \in Int
        /\ \A y \in s \cup {x} : e[y] \in Int
        /\ \A y \in s \cup {x} : d[y] \in Int
    OBVIOUS
  <2>5. SumOver(f, s \cup {x}) = f[x] + SumOver(f, s)
    BY <2>1, <2>4, SumAdd
  <2>6. SumOver(e, s \cup {x}) = e[x] + SumOver(e, s)
    BY <2>1, <2>4, SumAdd
  <2>7. SumOver(d, s \cup {x}) = d[x] + SumOver(d, s)
    BY <2>1, <2>4, SumAdd
  <2>8. SumOver(d, s) = SumOver(f, s) - SumOver(e, s) /\ d[x] = f[x] - e[x]
    BY <1>2
  <2>9. f[x] \in Int /\ e[x] \in Int
    OBVIOUS
  <2>10. \A a, b, c, g \in Int : (a - b) + (c - g) = (a + c) - (b + g)
    OBVIOUS
  <2>11. SumOver(d, s \cup {x}) = (f[x] - e[x]) + (SumOver(f, s) - SumOver(e, s))
    BY <2>7, <2>8
  <2>12. SumOver(d, s \cup {x}) = SumOver(f, s \cup {x}) - SumOver(e, s \cup {x})
    BY <2>3, <2>5, <2>6, <2>9, <2>10, <2>11
  <2> QED BY <2>12
<1> HIDE DEF T
<1>3. S \in T
  BY <1>1, <1>2, SubsetInduction
<1> QED BY <1>3 DEF T

\* A sum of natural numbers is one.
LEMMA SumNat ==
  ASSUME NEW f, NEW S, IsFiniteSet(S), \A x \in S : f[x] \in Nat
  PROVE  SumOver(f, S) \in Nat
<1> DEFINE T == {s \in SUBSET S : SumOver(f, s) \in Nat}
<1>1. {} \in T
  BY SumEmpty
<1>2. ASSUME NEW s \in SUBSET S, NEW x \in S \ s, s \in T PROVE s \cup {x} \in T
  <2>1. IsFiniteSet(s)
    BY FS_Subset
  <2>2. \A y \in s \cup {x} : f[y] \in Int
    OBVIOUS
  <2>3. SumOver(f, s \cup {x}) = f[x] + SumOver(f, s)
    BY <2>1, <2>2, SumAdd
  <2> QED BY <1>2, <2>3
<1> HIDE DEF T
<1>3. S \in T
  BY <1>1, <1>2, SubsetInduction
<1> QED BY <1>3 DEF T

\* A smaller set has a smaller sum of natural numbers.
LEMMA SumGrows ==
  ASSUME NEW f, NEW S, IsFiniteSet(S), \A x \in S : f[x] \in Nat, NEW R \in SUBSET S
  PROVE  SumOver(f, R) <= SumOver(f, S)
<1>1. IsFiniteSet(R) /\ IsFiniteSet(S \ R)
  BY FS_Subset
<1>2. R \cap (S \ R) = {} /\ R \cup (S \ R) = S
  OBVIOUS
<1>3. SumOver(f, R \cup (S \ R)) = SumOver(f, R) + SumOver(f, S \ R)
  <2>1. \A x \in R \cup (S \ R) : f[x] \in Int
    OBVIOUS
  <2> QED BY <1>1, <1>2, <2>1, SumSplit
<1>4. SumOver(f, R) \in Nat /\ SumOver(f, S \ R) \in Nat
  <2>1. (\A x \in R : f[x] \in Nat) /\ \A x \in S \ R : f[x] \in Nat
    OBVIOUS
  <2> QED BY <1>1, <2>1, SumNat
<1>5. SumOver(f, S) = SumOver(f, R) + SumOver(f, S \ R)
  BY <1>2, <1>3
<1>6. \A a, b \in Nat : a <= a + b
  OBVIOUS
<1> QED BY <1>4, <1>5, <1>6

\* Smaller values have a smaller sum.
LEMMA SumLeq ==
  ASSUME NEW f, NEW e, NEW S, IsFiniteSet(S), \A x \in S : f[x] \in Int /\ e[x] \in Int,
         \A x \in S : f[x] <= e[x]
  PROVE  SumOver(f, S) <= SumOver(e, S)
<1> DEFINE d == [x \in S |-> e[x] - f[x]]
<1>1. \A x \in S : d[x] = e[x] - f[x] /\ d[x] \in Nat
  OBVIOUS
<1> HIDE DEF d
<1>2. SumOver(d, S) = SumOver(e, S) - SumOver(f, S)
  BY <1>1, SumDifference
<1>3. SumOver(d, S) \in Nat
  BY <1>1, SumNat
<1>4. SumOver(e, S) \in Int /\ SumOver(f, S) \in Int
  <2>1. (\A x \in S : e[x] \in Int) /\ \A x \in S : f[x] \in Int
    OBVIOUS
  <2> QED BY <2>1, SumInt
<1> QED BY <1>2, <1>3, <1>4


\* The sum of a value that is always the same.
LEMMA SumConstant ==
  ASSUME NEW f, NEW S, IsFiniteSet(S), NEW c \in Int, \A x \in S : f[x] = c
  PROVE  SumOver(f, S) = Cardinality(S) * c
<1> DEFINE T == {s \in SUBSET S : SumOver(f, s) = Cardinality(s) * c}
<1>1. {} \in T
  <2>1. SumOver(f, {}) = 0 /\ Cardinality({}) = 0
    BY SumEmpty, FS_EmptySet
  <2> QED BY <2>1
<1>2. ASSUME NEW s \in SUBSET S, NEW x \in S \ s, s \in T PROVE s \cup {x} \in T
  <2>1. IsFiniteSet(s)
    BY FS_Subset
  <2>2. \A y \in s \cup {x} : f[y] \in Int
    OBVIOUS
  <2>3. SumOver(f, s \cup {x}) = f[x] + SumOver(f, s)
    BY <2>1, <2>2, SumAdd
  <2>4. Cardinality(s \cup {x}) = Cardinality(s) + 1 /\ Cardinality(s) \in Nat
    BY <2>1, FS_AddElement, FS_CardinalityType
  <2>5. \A n \in Nat : c + n * c = (n + 1) * c
    OBVIOUS
  <2>6. SumOver(f, s \cup {x}) = c + Cardinality(s) * c
    BY <1>2, <2>3
  <2>7. SumOver(f, s \cup {x}) = Cardinality(s \cup {x}) * c
    BY <2>4, <2>5, <2>6
  <2> QED BY <2>7
<1> HIDE DEF T
<1>3. S \in T
  BY <1>1, <1>2, SubsetInduction
<1> QED BY <1>3 DEF T

\* The sum over the image of a set, under a function that keeps its elements
\* apart, is a sum over the set.
LEMMA SumImage ==
  ASSUME NEW f, NEW e, NEW S, IsFiniteSet(S), NEW g, \A x, y \in S : g[x] = g[y] => x = y,
         \A x \in S : e[x] \in Int, \A x \in S : f[g[x]] = e[x]
  PROVE  SumOver(f, {g[x] : x \in S}) = SumOver(e, S)
<1> DEFINE Im(s) == {g[x] : x \in s}
           T == {s \in SUBSET S : SumOver(f, Im(s)) = SumOver(e, s)}
<1>1. {} \in T
  <2>1. SumOver(f, {}) = 0 /\ SumOver(e, {}) = 0
    BY SumEmpty
  <2>2. Im({}) = {}
    OBVIOUS
  <2> HIDE DEF Im
  <2> QED BY <2>1, <2>2
<1>2. ASSUME NEW s \in SUBSET S, NEW x \in S \ s, s \in T PROVE s \cup {x} \in T
  <2>1. IsFiniteSet(s)
    BY FS_Subset
  <2>2. IsFiniteSet(Im(s))
    BY <2>1, ImageIsFinite
  <2>3. Im(s \cup {x}) = Im(s) \cup {g[x]} /\ g[x] \notin Im(s)
    OBVIOUS
  <2>4. \A y \in Im(s) \cup {g[x]} : f[y] \in Int
    OBVIOUS
  <2>5. \A y \in s \cup {x} : e[y] \in Int
    OBVIOUS
  <2>6. SumOver(e, s \cup {x}) = e[x] + SumOver(e, s)
    BY <2>1, <2>5, SumAdd
  <2>7. f[g[x]] = e[x]
    OBVIOUS
  <2> HIDE DEF Im
  <2>8. SumOver(f, Im(s) \cup {g[x]}) = f[g[x]] + SumOver(f, Im(s))
    BY <2>2, <2>3, <2>4, SumAdd
  <2>9. SumOver(f, Im(s)) = SumOver(e, s)
    BY <1>2
  <2>10. SumOver(f, Im(s \cup {x})) = SumOver(e, s \cup {x})
    BY <2>3, <2>6, <2>7, <2>8, <2>9
  <2> QED BY <2>10
<1>3. S \in T
  <2> HIDE DEF T
  <2> QED BY <1>1, <1>2, SubsetInduction
<1> QED BY <1>3

\* Values of a function are replaced, or added to it: its sum moves by the
\* differences with the values before, 0 where there was none.
LEMMA SumUpdate ==
  ASSUME NEW f, NEW S, IsFiniteSet(S), \A x \in S : f[x] \in Int,
         NEW K, IsFiniteSet(K), NEW e, \A x \in K : e[x] \in Int,
         NEW g, \A x \in K : g[x] = e[x], \A x \in S \ K : g[x] = f[x],
         NEW d, \A x \in K : d[x] = e[x] - IF x \in S THEN f[x] ELSE 0
  PROVE  SumOver(g, S \cup K) = SumOver(f, S) + SumOver(d, K)
<1> DEFINE p == [x \in K |-> IF x \in S THEN f[x] ELSE 0]
           Old == S \ K
           Both == S \cap K
           New == K \ S
<1>0. /\ IsFiniteSet(Old) /\ IsFiniteSet(Both) /\ IsFiniteSet(New)
      /\ S \cup K = Old \cup K /\ Old \cap K = {}
      /\ S = Old \cup Both /\ Old \cap Both = {}
      /\ K = Both \cup New /\ Both \cap New = {}
      /\ Both \subseteq S /\ Old \subseteq S
  <2>1. Old \in SUBSET S /\ Both \in SUBSET S /\ New \in SUBSET K
    OBVIOUS
  <2>2. IsFiniteSet(Old) /\ IsFiniteSet(Both) /\ IsFiniteSet(New)
    <3> HIDE DEF Old, Both, New
    <3> QED BY <2>1, FS_Subset
  <2> QED BY <2>2
<1>1. /\ \A x \in K : p[x] \in Int
      /\ \A x \in Both : p[x] = f[x]
      /\ \A x \in New : p[x] = 0
      /\ \A x \in K : d[x] = e[x] - p[x]
      /\ \A x \in Old : g[x] = f[x] /\ f[x] \in Int
      /\ \A x \in Both : f[x] \in Int
      /\ \A x \in Old \cup K : g[x] \in Int
  OBVIOUS
<1> HIDE DEF p, Old, Both, New
<1>2. SumOver(g, Old \cup K) = SumOver(g, Old) + SumOver(g, K)
  BY <1>0, <1>1, SumSplit
<1>3. SumOver(g, Old) = SumOver(f, Old)
  BY <1>0, <1>1, SumSame
<1>4. SumOver(g, K) = SumOver(e, K)
  BY SumSame
<1>5. SumOver(f, Old \cup Both) = SumOver(f, Old) + SumOver(f, Both)
  <2>1. \A x \in Old \cup Both : f[x] \in Int
    BY <1>1
  <2> QED BY <1>0, <2>1, SumSplit
<1>6. SumOver(p, Both \cup New) = SumOver(p, Both) + SumOver(p, New)
  <2>1. \A x \in Both \cup New : p[x] \in Int
    BY <1>0, <1>1
  <2> QED BY <1>0, <2>1, SumSplit
<1>7. SumOver(p, Both) = SumOver(f, Both)
  <2>1. (\A x \in Both : p[x] \in Int) /\ \A x \in Both : p[x] = f[x]
    BY <1>0, <1>1
  <2> QED BY <1>0, <2>1, SumSame
<1>8. SumOver(p, New) = 0
  <2>1. SumOver(p, New) = Cardinality(New) * 0
    BY <1>0, <1>1, SumConstant
  <2>2. Cardinality(New) \in Nat
    BY <1>0, FS_CardinalityType
  <2> QED BY <2>1, <2>2
<1>9. SumOver(d, K) = SumOver(e, K) - SumOver(p, K)
  BY <1>1, SumDifference
<1>10. SumOver(f, Old) \in Int /\ SumOver(f, Both) \in Int /\ SumOver(e, K) \in Int
  BY <1>0, <1>1, SumInt
<1>11. SumOver(p, K) = SumOver(f, Both)
  BY <1>0, <1>6, <1>7, <1>8, <1>10
<1>12. SumOver(g, S \cup K) = SumOver(f, Old) + SumOver(e, K)
  BY <1>0, <1>2, <1>3, <1>4
<1>13. SumOver(f, S) = SumOver(f, Old) + SumOver(f, Both)
  BY <1>0, <1>5
<1>14. SumOver(d, K) = SumOver(e, K) - SumOver(f, Both)
  BY <1>9, <1>11
<1>15. \A a, b, c \in Int : a + b = (a + c) + (b - c)
  OBVIOUS
<1> QED BY <1>10, <1>12, <1>13, <1>14, <1>15
=============================================================================
