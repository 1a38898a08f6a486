------------------------------- MODULE Basics -------------------------------
(***************************************************************************)
(* Induction over numbers and finite sets, and from it what the community  *)
(* modules' sums over functions compute: that the order does not matter,   *)
(* and how a sum follows the numbers in it.  Then facts about queues, and  *)
(* where a sequence of messages leads somebody who takes them one after    *)
(* the other.                                                              *)
(***************************************************************************)
EXTENDS Integers, Functions, Folds, FiniteSetsExt, WellFoundedInduction, NaturalsInduction,
        FiniteSetTheorems, SequenceTheorems, TLAPS

-----------------------------------------------------------------------------
(* Induction *)

\* A set of numbers has a least element.
LEMMA LeastNat ==
  ASSUME NEW T \in SUBSET Nat, NEW k \in T
  PROVE  \E n \in T : \A m \in T : n <= m
<1>1. PICK n \in T : \A m \in T : ~(<<m, n>> \in OpToRel(<, Nat))
  BY NatLessThanWellFounded, WFMin
<1>2. \A m \in T : ~(m < n)
  BY <1>1 DEF OpToRel
<1> QED
  BY <1>2

\* What holds of 0, and of n + 1 whenever it holds of n, holds of every number:
\* S is the set of those it holds of.
LEMMA Induct ==
  ASSUME NEW S, 0 \in S, \A n \in Nat : n \in S => n + 1 \in S
  PROVE  Nat \subseteq S
<1> SUFFICES ASSUME NEW k \in Nat, k \notin S PROVE FALSE
  OBVIOUS
<1>1. PICK n \in Nat \ S : \A m \in Nat \ S : n <= m
  BY LeastNat
<1>2. n # 0 /\ n - 1 \in Nat /\ n - 1 \in S
  BY <1>1
<1> QED
  BY <1>1, <1>2

\* What holds of the empty set, and of a set whenever it holds of it less any one
\* element, holds of every finite set: G is the set of those it holds of.
LEMMA InductFinite ==
  ASSUME NEW S, IsFiniteSet(S), NEW G, {} \in G,
         \A s \in SUBSET S : s # {} /\ (\A x \in s : s \ {x} \in G) => s \in G
  PROVE  \A s \in SUBSET S : s \in G
<1> DEFINE N == {n \in Nat : \A s \in SUBSET S : Cardinality(s) = n => s \in G}
<1>1. \A s \in SUBSET S : IsFiniteSet(s) /\ Cardinality(s) \in Nat
  BY FS_Subset, FS_CardinalityType
<1>2. 0 \in N
  <2>1. \A s \in SUBSET S : Cardinality(s) = 0 => s = {}
    BY <1>1, FS_EmptySet
  <2> QED BY <2>1
<1>3. ASSUME NEW n \in Nat, n \in N PROVE n + 1 \in N
  <2> SUFFICES ASSUME NEW s \in SUBSET S, Cardinality(s) = n + 1 PROVE s \in G
    OBVIOUS
  <2>1. s # {}
    <3>1. Cardinality({}) = 0
      BY FS_EmptySet
    <3> QED BY <3>1
  <2>2. ASSUME NEW x \in s PROVE s \ {x} \in G
    <3>1. Cardinality(s \ {x}) = n
      BY <1>1, FS_RemoveElement
    <3> QED BY <1>3, <3>1
  <2> QED BY <2>1, <2>2
<1> HIDE DEF N
<1>4. Nat \subseteq N
  BY <1>2, <1>3, Induct
<1>5. \A n \in Nat : n \in N
  BY <1>4
<1> QED
  BY <1>1, <1>5 DEF N

-----------------------------------------------------------------------------
(* Sums *)

\* The fold behind the sum: at a set it takes a chosen element, and goes on.
FoldStep(f, g, s) ==
  IF s = {} THEN 0 ELSE LET x == CHOOSE y \in s : TRUE IN f[x] + g[s \ {x}]
IsFold(f, S, g) == g = [s \in SUBSET S |-> FoldStep(f, g, s)]

LEMMA FoldExists ==
  ASSUME NEW S, IsFiniteSet(S), NEW f PROVE \E g : IsFold(f, S, g)
<1> DEFINE UpTo(g, n) == /\ g = [s \in SUBSET S |-> g[s]]
                         /\ \A s \in SUBSET S : Cardinality(s) <= n => g[s] = FoldStep(f, g, s)
           N == {n \in Nat : \E g : UpTo(g, n)}
<1>1. \A s \in SUBSET S : IsFiniteSet(s) /\ Cardinality(s) \in Nat
  BY FS_Subset, FS_CardinalityType
<1>2. 0 \in N
  <2> DEFINE g == [s \in SUBSET S |-> 0]
  <2>1. \A s \in SUBSET S : Cardinality(s) <= 0 => s = {}
    <3>1. \A s \in SUBSET S : Cardinality(s) = 0 => s = {}
      BY <1>1, FS_EmptySet
    <3> QED BY <1>1, <3>1
  <2>2. UpTo(g, 0)
    BY <2>1 DEF FoldStep
  <2> HIDE DEF UpTo
  <2> QED BY <2>2
<1>3. ASSUME NEW n \in Nat, n \in N PROVE n + 1 \in N
  <2>1. PICK g : UpTo(g, n)
    BY <1>3
  <2> DEFINE h == [s \in SUBSET S |-> IF Cardinality(s) = n + 1 THEN FoldStep(f, g, s) ELSE g[s]]
  <2>2. ASSUME NEW s \in SUBSET S, Cardinality(s) <= n + 1
        PROVE  FoldStep(f, h, s) = FoldStep(f, g, s)
    <3>1. CASE s = {}
      BY <3>1 DEF FoldStep
    <3>2. CASE s # {}
      <4> DEFINE x == CHOOSE y \in s : TRUE
      <4>1. x \in s
        BY <3>2
      <4> HIDE DEF x
      <4>2. Cardinality(s \ {x}) # n + 1 /\ s \ {x} \in SUBSET S
        BY <1>1, <2>2, <4>1, FS_RemoveElement
      <4>3. h[s \ {x}] = g[s \ {x}]
        BY <4>2
      <4> QED BY <3>2, <4>3 DEF FoldStep, x
    <3> QED BY <3>1, <3>2
  <2>3. ASSUME NEW s \in SUBSET S, Cardinality(s) <= n + 1 PROVE h[s] = FoldStep(f, h, s)
    <3>1. CASE Cardinality(s) = n + 1
      BY <2>2, <2>3, <3>1
    <3>2. CASE Cardinality(s) # n + 1
      <4>1. Cardinality(s) <= n
        BY <1>1, <2>3, <3>2
      <4>2. h[s] = g[s] /\ g[s] = FoldStep(f, g, s)
        BY <2>1, <3>2, <4>1
      <4> HIDE DEF h
      <4> QED BY <2>2, <2>3, <4>2
    <3> QED BY <3>1, <3>2
  <2>4. h = [s \in SUBSET S |-> h[s]]
    OBVIOUS
  <2> HIDE DEF h
  <2>5. UpTo(h, n + 1)
    BY <2>3, <2>4
  <2> HIDE DEF UpTo
  <2> QED BY <2>5
<1> HIDE DEF N
<1>4. Cardinality(S) \in N
  <2>1. Cardinality(S) \in Nat
    BY <1>1
  <2> QED BY <1>2, <1>3, <2>1, Induct
<1>5. PICK g : UpTo(g, Cardinality(S))
  BY <1>4 DEF N
<1>6. \A s \in SUBSET S : Cardinality(s) <= Cardinality(S)
  BY FS_Subset
<1>7. g = [s \in SUBSET S |-> FoldStep(f, g, s)]
  BY <1>5, <1>6
<1> QED
  BY <1>7 DEF IsFold

LEMMA SumIsFold ==
  ASSUME NEW S, IsFiniteSet(S), NEW f
  PROVE  \E g : IsFold(f, S, g) /\ SumFunctionOnSet(f, S) = g[S]
<1> DEFINE g == CHOOSE h : h = [s \in SUBSET S |->
                  IF s = {} THEN 0 ELSE LET x == CHOOSE y \in s : TRUE IN f[x] + h[s \ {x}]]
<1>1. PICK h : IsFold(f, S, h)
  BY FoldExists
<1> HIDE DEF g
<1>2. g = [s \in SUBSET S |->
                  IF s = {} THEN 0 ELSE LET x == CHOOSE y \in s : TRUE IN f[x] + g[s \ {x}]]
  <2>1. h = [s \in SUBSET S |->
                  IF s = {} THEN 0 ELSE LET x == CHOOSE y \in s : TRUE IN f[x] + h[s \ {x}]]
    BY <1>1 DEF IsFold, FoldStep
  <2> QED BY <2>1 DEF g
<1>3. SumFunctionOnSet(f, S) = g[S]
  BY DEF g, SumFunctionOnSet, FoldFunctionOnSet, MapThenFoldSet
<1>4. IsFold(f, S, g)
  BY <1>2 DEF IsFold, FoldStep
<1> QED
  BY <1>3, <1>4

\* What two folds of the same numbers give.
LEMMA FoldSame ==
  ASSUME NEW S, IsFiniteSet(S), NEW T, T \subseteq S, NEW f, NEW g, NEW a, NEW b,
         IsFold(f, S, a), IsFold(g, T, b), \A x \in T : f[x] = g[x]
  PROVE  b[T] = a[T]
<1> DEFINE G == {s \in SUBSET T : b[s] = a[s]}
<1>1. \A s \in SUBSET T : b[s] = FoldStep(g, b, s) /\ a[s] = FoldStep(f, a, s)
  BY DEF IsFold
<1>2. {} \in G
  BY <1>1 DEF FoldStep
<1>3. ASSUME NEW s \in SUBSET T, s # {}, \A x \in s : s \ {x} \in G PROVE s \in G
  <2> DEFINE x == CHOOSE z \in s : TRUE
  <2>1. x \in s
    BY <1>3
  <2>2. b[s] = g[x] + b[s \ {x}] /\ a[s] = f[x] + a[s \ {x}]
    BY <1>1, <1>3 DEF FoldStep
  <2> HIDE DEF x
  <2>3. b[s \ {x}] = a[s \ {x}] /\ g[x] = f[x]
    BY <1>3, <2>1
  <2> QED BY <2>2, <2>3
<1>4. IsFiniteSet(T)
  BY FS_Subset
<1> HIDE DEF G
<1>5. T \in G
  BY <1>2, <1>3, <1>4, InductFinite
<1> QED
  BY <1>5 DEF G

\* A fold of integers may take any element first.
LEMMA FoldTakes ==
  ASSUME NEW S, IsFiniteSet(S), NEW f, \A x \in S : f[x] \in Int, NEW g, IsFold(f, S, g)
  PROVE  g[S] \in Int /\ \A x \in S : g[S] = f[x] + g[S \ {x}]
<1> DEFINE G == {s \in SUBSET S : g[s] \in Int}
           H == {s \in SUBSET S : \A x \in s : g[s] = f[x] + g[s \ {x}]}
<1>1. \A s \in SUBSET S : g[s] = FoldStep(f, g, s)
  BY DEF IsFold
<1>2. ASSUME NEW s \in SUBSET S, s # {}
      PROVE  \E y \in s : g[s] = f[y] + g[s \ {y}]
  <2> DEFINE y == CHOOSE z \in s : TRUE
  <2>1. y \in s
    BY <1>2
  <2>2. g[s] = f[y] + g[s \ {y}]
    BY <1>1, <1>2 DEF FoldStep
  <2> HIDE DEF y
  <2> QED BY <2>1, <2>2
<1>3. \A s \in SUBSET S : s \in G
  <2>1. {} \in G
    BY <1>1 DEF FoldStep
  <2>2. ASSUME NEW s \in SUBSET S, s # {}, \A x \in s : s \ {x} \in G PROVE s \in G
    <3>1. PICK y \in s : g[s] = f[y] + g[s \ {y}]
      BY <1>2, <2>2
    <3>2. f[y] \in Int /\ g[s \ {y}] \in Int
      BY <2>2
    <3> QED BY <3>1, <3>2
  <2> HIDE DEF G
  <2> QED BY <2>1, <2>2, InductFinite
<1>4. \A s \in SUBSET S : g[s] \in Int
  BY <1>3
<1>5. \A s \in SUBSET S : s \in H
  <2>1. {} \in H
    OBVIOUS
  <2>2. ASSUME NEW s \in SUBSET S, s # {}, \A x \in s : s \ {x} \in H PROVE s \in H
    <3>1. PICK y \in s : g[s] = f[y] + g[s \ {y}]
      BY <1>2, <2>2
    <3>2. ASSUME NEW x \in s, x # y PROVE g[s] = f[x] + g[s \ {x}]
      <4>1. x \in s \ {y} /\ y \in s \ {x} /\ (s \ {y}) \ {x} = (s \ {x}) \ {y}
        BY <3>2
      <4>2. g[s \ {y}] = f[x] + g[(s \ {x}) \ {y}]
        BY <2>2, <4>1
      <4>3. g[s \ {x}] = f[y] + g[(s \ {x}) \ {y}]
        BY <2>2, <4>1
      <4>4. /\ f[x] \in Int /\ f[y] \in Int /\ g[(s \ {x}) \ {y}] \in Int
            /\ g[s \ {x}] \in Int /\ g[s \ {y}] \in Int
        BY <1>4
      <4> QED BY <3>1, <4>2, <4>3, <4>4
    <3> QED BY <3>1, <3>2
  <2> HIDE DEF H
  <2> QED BY <2>1, <2>2, InductFinite
<1> QED
  BY <1>4, <1>5

\* The sum over nothing, and over a set with the element x.
LEMMA SumNone == ASSUME NEW f PROVE SumFunctionOnSet(f, {}) = 0
<1>1. PICK g : IsFold(f, {}, g) /\ SumFunctionOnSet(f, {}) = g[{}]
  BY SumIsFold, FS_EmptySet
<1> QED
  BY <1>1 DEF IsFold, FoldStep

LEMMA SumTakes ==
  ASSUME NEW S, IsFiniteSet(S), NEW f, \A x \in S : f[x] \in Int
  PROVE  /\ SumFunctionOnSet(f, S) \in Int
         /\ \A x \in S : SumFunctionOnSet(f, S) = f[x] + SumFunctionOnSet(f, S \ {x})
<1>1. PICK g : IsFold(f, S, g) /\ SumFunctionOnSet(f, S) = g[S]
  BY SumIsFold
<1>2. g[S] \in Int /\ \A x \in S : g[S] = f[x] + g[S \ {x}]
  BY <1>1, FoldTakes
<1>3. ASSUME NEW x \in S PROVE SumFunctionOnSet(f, S \ {x}) = g[S \ {x}]
  <2>1. IsFiniteSet(S \ {x})
    BY FS_Subset
  <2>2. PICK h : IsFold(f, S \ {x}, h) /\ SumFunctionOnSet(f, S \ {x}) = h[S \ {x}]
    BY <2>1, SumIsFold
  <2> QED BY <1>1, <2>2, FoldSame
<1> QED
  BY <1>1, <1>2, <1>3

\* The sum depends on nothing else but what is summed.
LEMMA SumSame ==
  ASSUME NEW S, IsFiniteSet(S), NEW f, NEW g, \A x \in S : f[x] = g[x]
  PROVE  SumFunctionOnSet(f, S) = SumFunctionOnSet(g, S)
<1>1. PICK a : IsFold(f, S, a) /\ SumFunctionOnSet(f, S) = a[S]
  BY SumIsFold
<1>2. PICK b : IsFold(g, S, b) /\ SumFunctionOnSet(g, S) = b[S]
  BY SumIsFold
<1> QED
  BY <1>1, <1>2, FoldSame

\* Sums of sums, of multiples, of nothing but zeros, and of natural numbers.
LEMMA SumPlus ==
  ASSUME NEW S, IsFiniteSet(S), NEW f, NEW g, NEW h,
         \A x \in S : f[x] \in Int /\ g[x] \in Int /\ h[x] = f[x] + g[x]
  PROVE  SumFunctionOnSet(h, S) = SumFunctionOnSet(f, S) + SumFunctionOnSet(g, S)
<1> DEFINE G == {s \in SUBSET S : SumFunctionOnSet(h, s) =
                                    SumFunctionOnSet(f, s) + SumFunctionOnSet(g, s)}
<1>1. {} \in G
  BY SumNone
<1>2. ASSUME NEW s \in SUBSET S, s # {}, \A x \in s : s \ {x} \in G PROVE s \in G
  <2>1. PICK x \in s : TRUE
    BY <1>2
  <2>2. IsFiniteSet(s) /\ IsFiniteSet(s \ {x}) /\ s \ {x} \in SUBSET S
    BY FS_Subset
  <2>3. /\ SumFunctionOnSet(f, s) = f[x] + SumFunctionOnSet(f, s \ {x})
        /\ SumFunctionOnSet(g, s) = g[x] + SumFunctionOnSet(g, s \ {x})
        /\ SumFunctionOnSet(h, s) = h[x] + SumFunctionOnSet(h, s \ {x})
    BY <2>2, SumTakes
  <2>4. /\ SumFunctionOnSet(f, s \ {x}) \in Int
        /\ SumFunctionOnSet(g, s \ {x}) \in Int
    BY <2>2, SumTakes
  <2>5. SumFunctionOnSet(h, s \ {x}) =
          SumFunctionOnSet(f, s \ {x}) + SumFunctionOnSet(g, s \ {x})
    BY <1>2
  <2> QED BY <2>3, <2>4, <2>5
<1> HIDE DEF G
<1>3. \A s \in SUBSET S : s \in G
  BY <1>1, <1>2, InductFinite
<1> QED
  BY <1>3 DEF G

LEMMA SumTimes ==
  ASSUME NEW S, IsFiniteSet(S), NEW k \in Int, NEW f, NEW h,
         \A x \in S : f[x] \in Int /\ h[x] = k * f[x]
  PROVE  SumFunctionOnSet(h, S) = k * SumFunctionOnSet(f, S)
<1> DEFINE G == {s \in SUBSET S : SumFunctionOnSet(h, s) = k * SumFunctionOnSet(f, s)}
<1>1. {} \in G
  BY SumNone
<1>2. ASSUME NEW s \in SUBSET S, s # {}, \A x \in s : s \ {x} \in G PROVE s \in G
  <2>1. PICK x \in s : TRUE
    BY <1>2
  <2>2. IsFiniteSet(s) /\ IsFiniteSet(s \ {x}) /\ s \ {x} \in SUBSET S
    BY FS_Subset
  <2>3. /\ SumFunctionOnSet(f, s) = f[x] + SumFunctionOnSet(f, s \ {x})
        /\ SumFunctionOnSet(h, s) = h[x] + SumFunctionOnSet(h, s \ {x})
    BY <2>2, SumTakes
  <2>4. SumFunctionOnSet(f, s \ {x}) \in Int /\ f[x] \in Int
    BY <2>2, SumTakes
  <2>5. SumFunctionOnSet(h, s \ {x}) = k * SumFunctionOnSet(f, s \ {x})
    BY <1>2
  <2>6. \A a, b \in Int : k * a + k * b = k * (a + b)
    OBVIOUS
  <2> QED BY <2>3, <2>4, <2>5, <2>6
<1> HIDE DEF G
<1>3. \A s \in SUBSET S : s \in G
  BY <1>1, <1>2, InductFinite
<1> QED
  BY <1>3 DEF G

LEMMA SumZero ==
  ASSUME NEW S, IsFiniteSet(S), NEW f, \A x \in S : f[x] = 0
  PROVE  SumFunctionOnSet(f, S) = 0
<1>1. SumFunctionOnSet(f, S) \in Int
  BY SumTakes
<1>2. SumFunctionOnSet(f, S) = 0 * SumFunctionOnSet(f, S)
  BY SumTimes
<1> QED
  BY <1>1, <1>2

LEMMA SumNat ==
  ASSUME NEW S, IsFiniteSet(S), NEW f, \A x \in S : f[x] \in Nat
  PROVE  /\ SumFunctionOnSet(f, S) \in Nat
         /\ \A x \in S : f[x] <= SumFunctionOnSet(f, S)
         /\ SumFunctionOnSet(f, S) = 0 => \A x \in S : f[x] = 0
<1> DEFINE G == {s \in SUBSET S : SumFunctionOnSet(f, s) \in Nat}
<1>1. {} \in G
  BY SumNone
<1>2. ASSUME NEW s \in SUBSET S, NEW x \in s
      PROVE  SumFunctionOnSet(f, s) = f[x] + SumFunctionOnSet(f, s \ {x})
  <2>1. IsFiniteSet(s)
    BY FS_Subset
  <2> QED BY <2>1, SumTakes
<1>3. ASSUME NEW s \in SUBSET S, s # {}, \A x \in s : s \ {x} \in G PROVE s \in G
  <2>1. PICK x \in s : TRUE
    BY <1>3
  <2>2. SumFunctionOnSet(f, s \ {x}) \in Nat /\ f[x] \in Nat
    BY <1>3
  <2> QED BY <1>2, <2>2
<1> HIDE DEF G
<1>4. \A s \in SUBSET S : s \in G
  BY <1>1, <1>3, InductFinite
<1>5. \A s \in SUBSET S : SumFunctionOnSet(f, s) \in Nat
  BY <1>4 DEF G
<1>6. ASSUME NEW x \in S PROVE f[x] <= SumFunctionOnSet(f, S)
  <2>1. SumFunctionOnSet(f, S \ {x}) \in Nat /\ f[x] \in Nat
    BY <1>5
  <2>2. SumFunctionOnSet(f, S) = f[x] + SumFunctionOnSet(f, S \ {x})
    BY <1>2
  <2> QED BY <2>1, <2>2
<1> QED
  BY <1>5, <1>6

\* Ones are counted.
LEMMA SumOnes ==
  ASSUME NEW S, IsFiniteSet(S), NEW f, \A x \in S : f[x] = 1
  PROVE  SumFunctionOnSet(f, S) = Cardinality(S)
<1> DEFINE G == {s \in SUBSET S : SumFunctionOnSet(f, s) = Cardinality(s)}
<1>1. {} \in G
  BY SumNone, FS_EmptySet
<1>2. ASSUME NEW s \in SUBSET S, s # {}, \A x \in s : s \ {x} \in G PROVE s \in G
  <2>1. PICK x \in s : TRUE
    BY <1>2
  <2>2. IsFiniteSet(s)
    BY FS_Subset
  <2>3. SumFunctionOnSet(f, s \ {x}) = Cardinality(s \ {x})
    BY <1>2, <2>1
  <2>4. SumFunctionOnSet(f, s) = f[x] + SumFunctionOnSet(f, s \ {x})
    BY <2>1, <2>2, SumTakes
  <2>5. /\ Cardinality(s \ {x}) = Cardinality(s) - 1 /\ Cardinality(s) \in Nat
    BY <2>1, <2>2, FS_RemoveElement, FS_CardinalityType
  <2>6. f[x] = 1
    BY <2>1
  <2> QED BY <2>3, <2>4, <2>5, <2>6
<1>3. \A s \in SUBSET S : s \in G
  <2> HIDE DEF G
  <2> QED BY <1>1, <1>2, InductFinite
<1> QED
  BY <1>3

\* One number more or less.
LEMMA SumPut ==
  ASSUME NEW S, IsFiniteSet(S), NEW f, NEW g, NEW p \in S,
         \A x \in S : f[x] \in Int /\ g[x] \in Int /\ (x # p => g[x] = f[x])
  PROVE  SumFunctionOnSet(g, S) + f[p] = SumFunctionOnSet(f, S) + g[p]
<1>1. IsFiniteSet(S \ {p})
  BY FS_Subset
<1>2. SumFunctionOnSet(f, S \ {p}) = SumFunctionOnSet(g, S \ {p})
  BY <1>1, SumSame
<1>3. SumFunctionOnSet(f, S \ {p}) \in Int
  BY <1>1, SumTakes
<1>4. /\ SumFunctionOnSet(f, S) = f[p] + SumFunctionOnSet(f, S \ {p})
      /\ SumFunctionOnSet(g, S) = g[p] + SumFunctionOnSet(g, S \ {p})
  BY SumTakes
<1> QED
  BY <1>2, <1>3, <1>4

-----------------------------------------------------------------------------
(* Recursion over numbers *)

\* F[k] takes members of S to members of S, and f goes from a one step at a time.
StepsIn(F, n, S) == \A k \in 1..n : \A x \in S : F[k][x] \in S
IsSteps(f, F, n, S, a) ==
  f \in [0..n -> S] /\ f[0] = a /\ \A k \in 1..n : f[k] = F[k][f[k - 1]]

\* What is defined step by step exists.
LEMMA StepsExist ==
  ASSUME NEW S, NEW a \in S, NEW n \in Nat, NEW F, StepsIn(F, n, S)
  PROVE  \E f : IsSteps(f, F, n, S, a)
<1> DEFINE UpTo(g, m) == g \in [0..n -> S] /\ g[0] = a /\ \A k \in 1..m : g[k] = F[k][g[k - 1]]
           N == {m \in Nat : m <= n => \E g : UpTo(g, m)}
<1>1. 0 \in N
  <2>1. UpTo([k \in 0..n |-> a], 0)
    OBVIOUS
  <2> HIDE DEF UpTo
  <2> QED BY <2>1
<1>2. ASSUME NEW m \in Nat, m \in N PROVE m + 1 \in N
  <2> SUFFICES ASSUME m + 1 <= n PROVE \E g : UpTo(g, m + 1)
    OBVIOUS
  <2>1. PICK g : UpTo(g, m)
    BY <1>2
  <2> DEFINE h == [k \in 0..n |-> IF k = m + 1 THEN F[k][g[m]] ELSE g[k]]
  <2>2. g[m] \in S /\ m + 1 \in 1..n
    BY <2>1
  <2>0. F[m + 1][g[m]] \in S
    BY <2>2 DEF StepsIn
  <2>3. h \in [0..n -> S] /\ h[0] = a
    BY <2>0, <2>1, <2>2
  <2>4. ASSUME NEW k \in 1..(m + 1) PROVE h[k] = F[k][h[k - 1]]
    <3>1. k \in 0..n /\ k - 1 \in 0..n /\ k - 1 # m + 1
      BY <2>2
    <3>2. h[k - 1] = g[k - 1]
      BY <3>1
    <3>3. CASE k = m + 1
      BY <3>1, <3>2, <3>3
    <3>4. CASE k # m + 1
      <4>1. k \in 1..m
        BY <3>4
      <4>2. h[k] = g[k]
        BY <3>1, <3>4
      <4> HIDE DEF h
      <4> QED BY <2>1, <3>2, <4>1, <4>2
    <3> QED BY <3>3, <3>4
  <2> HIDE DEF h
  <2> QED BY <2>3, <2>4
<1> HIDE DEF N
<1>3. n \in N
  BY <1>1, <1>2, Induct
<1> QED
  BY <1>3 DEF N, IsSteps

\* The greatest of finitely many numbers is one of them.
LEMMA GreatestIs ==
  ASSUME NEW T, IsFiniteSet(T), T \subseteq Int, T # {}
  PROVE  Max(T) \in T /\ \A x \in T : x <= Max(T)
<1> DEFINE Has(s) == s # {} => \E m \in s : \A x \in s : x <= m
           G == {s \in SUBSET T : Has(s)}
<1>1. {} \in G
  OBVIOUS
<1>2. ASSUME NEW s \in SUBSET T, s # {}, \A x \in s : s \ {x} \in G PROVE s \in G
  <2>1. PICK x \in s : TRUE
    BY <1>2
  <2>2. Has(s \ {x})
    BY <1>2
  <2>3. x \in Int /\ s \subseteq Int
    BY <1>2
  <2>4. CASE s = {x}
    BY <2>3, <2>4
  <2>5. CASE s # {x}
    <3>1. PICK m \in s \ {x} : \A y \in s \ {x} : y <= m
      BY <2>1, <2>2, <2>5
    <3>2. m \in Int
      BY <2>3, <3>1
    <3>3. CASE x <= m
      <4>1. \A y \in s : y <= m
        BY <3>1, <3>3
      <4> QED BY <3>1, <4>1
    <3>4. CASE ~(x <= m)
      <4>1. \A y \in s : y <= x
        BY <2>3, <3>1, <3>2, <3>4
      <4> QED BY <2>1, <4>1
    <3> QED BY <3>3, <3>4
  <2> QED BY <2>4, <2>5
<1> HIDE DEF G
<1>3. T \in G
  BY <1>1, <1>2, InductFinite
<1>4. \E m \in T : \A x \in T : x <= m
  BY <1>3 DEF G
<1>5. \E m \in T : \A x \in T : m >= x
  BY <1>4
<1>6. Max(T) \in T /\ \A x \in T : Max(T) >= x
  BY <1>5 DEF Max
<1> QED
  BY <1>6

-----------------------------------------------------------------------------
(* Queues *)

LEMMA AppendIs ==
  ASSUME NEW S, NEW d \in Seq(S), NEW m \in S
  PROVE  /\ Append(d, m) \in Seq(S) /\ Append(d, m) # <<>>
         /\ Len(d) \in Nat /\ Len(Append(d, m)) = Len(d) + 1
         /\ \A i \in 1..Len(d) : Append(d, m)[i] = d[i]
         /\ Append(d, m)[Len(d) + 1] = m
OBVIOUS

LEMMA AppendRange ==
  ASSUME NEW S, NEW d \in Seq(S), NEW m \in S
  PROVE  /\ Range(Append(d, m)) = Range(d) \cup {m}
         /\ IsInjective(d) /\ m \notin Range(d) => IsInjective(Append(d, m))
<1> DEFINE e == Append(d, m)
<1>1. /\ Len(d) \in Nat /\ DOMAIN d = 1..Len(d) /\ DOMAIN e = 1..(Len(d) + 1)
      /\ \A i \in 1..Len(d) : e[i] = d[i]
      /\ e[Len(d) + 1] = m
  OBVIOUS
<1> HIDE DEF e
<1>2. Range(e) = Range(d) \cup {m}
  <2>1. Range(e) \subseteq Range(d) \cup {m}
    BY <1>1 DEF Range
  <2>2. Range(d) \cup {m} \subseteq Range(e)
    <3>1. Len(d) + 1 \in DOMAIN e /\ \A i \in DOMAIN d : i \in DOMAIN e
      BY <1>1
    <3> QED BY <1>1, <3>1 DEF Range
  <2> QED BY <2>1, <2>2
<1>3. ASSUME IsInjective(d), m \notin Range(d)
      PROVE  IsInjective(e)
  <2>1. \A i \in DOMAIN e : (i \in DOMAIN d /\ e[i] = d[i] /\ e[i] # m) \/ (i = Len(d) + 1 /\ e[i] = m)
    BY <1>1, <1>3 DEF Range
  <2> QED BY <1>1, <1>3, <2>1 DEF IsInjective
<1> QED
  BY <1>2, <1>3 DEF e

LEMMA EmptyIs ==
  ASSUME NEW S, NEW d \in Seq(S)
  PROVE  d = <<>> <=> Len(d) = 0
OBVIOUS

LEMMA TailIs ==
  ASSUME NEW S, NEW d \in Seq(S), d # <<>>
  PROVE  /\ Tail(d) \in Seq(S) /\ Head(d) \in S /\ Head(d) = d[1]
         /\ Len(d) \in Nat \ {0} /\ Len(Tail(d)) = Len(d) - 1 /\ Len(Tail(d)) \in Nat
         /\ Tail(d) # <<>> <=> Len(d) > 1
         /\ \A i \in 1..Len(Tail(d)) : Tail(d)[i] = d[i + 1] /\ i + 1 \in 1..Len(d)
<1>1. Tail(d) \in Seq(S) /\ Head(d) \in S /\ Head(d) = d[1]
  OBVIOUS
<1>2. Len(d) \in Nat \ {0} /\ Len(Tail(d)) = Len(d) - 1 /\ Len(Tail(d)) \in Nat
  OBVIOUS
<1>3. Tail(d) = <<>> <=> Len(Tail(d)) = 0
  <2> DEFINE e == Tail(d)
  <2>1. e \in Seq(S)
    BY <1>1
  <2> HIDE DEF e
  <2>2. e = <<>> <=> Len(e) = 0
    BY <2>1, EmptyIs
  <2> QED BY <2>2 DEF e
<1>4. \A i \in 1..Len(Tail(d)) : Tail(d)[i] = d[i + 1] /\ i + 1 \in 1..Len(d)
  OBVIOUS
<1> QED
  BY <1>1, <1>2, <1>3, <1>4

LEMMA TailAppend ==
  ASSUME NEW S, NEW d \in Seq(S), d # <<>>, NEW m \in S
  PROVE  Tail(Append(d, m)) = Append(Tail(d), m) /\ Append(d, m)[1] = d[1]
<1> DEFINE a == Tail(Append(d, m))
           b == Append(Tail(d), m)
<1>1. Len(d) \in Nat \ {0} /\ Append(d, m) \in Seq(S) /\ Len(Append(d, m)) = Len(d) + 1
  OBVIOUS
<1>2. a \in Seq(S) /\ Len(a) = Len(d) /\ \A i \in 1..Len(d) : a[i] = Append(d, m)[i + 1]
  BY <1>1
<1>3. b \in Seq(S) /\ Len(b) = Len(d)
  BY <1>1
<1>4. \A i \in 1..Len(d) : b[i] = Append(d, m)[i + 1]
  BY <1>1
<1> HIDE DEF a, b
<1>5. a = b
  BY <1>1, <1>2, <1>3, <1>4, SeqEqual
<1> QED
  BY <1>1, <1>5 DEF a, b

-----------------------------------------------------------------------------
(* Words *)

\* Taking the letters of d one after the other leads from a to b, where R holds
\* the triples <<from, letter, to>> of what a letter does.
Leads(R, d, a, b) ==
  \E h : /\ h[0] = a /\ h[Len(d)] = b
         /\ \A i \in 1..Len(d) : <<h[i - 1], d[i], h[i]>> \in R

LEMMA LeadsEmpty ==
  ASSUME NEW R, NEW a, NEW b
  PROVE  Leads(R, <<>>, a, b) <=> a = b
<1>1. ASSUME a = b PROVE Leads(R, <<>>, a, b)
  <2> DEFINE h == [i \in {0} |-> a]
  <2>1. h[0] = a /\ h[Len(<<>>)] = b /\ \A i \in 1..Len(<<>>) : <<h[i - 1], <<>>[i], h[i]>> \in R
    BY <1>1
  <2> HIDE DEF h
  <2> QED BY <2>1 DEF Leads
<1> QED
  BY <1>1 DEF Leads

LEMMA LeadsAppend ==
  ASSUME NEW R, NEW S, NEW d \in Seq(S), NEW m \in S, NEW a, NEW b, NEW c,
         Leads(R, d, a, b), <<b, m, c>> \in R
  PROVE  Leads(R, Append(d, m), a, c)
<1>1. PICK h : /\ h[0] = a /\ h[Len(d)] = b
               /\ \A i \in 1..Len(d) : <<h[i - 1], d[i], h[i]>> \in R
  BY DEF Leads
<1> DEFINE n == Len(d) + 1
           g == [i \in 0..n |-> IF i = n THEN c ELSE h[i]]
<1>2. Len(d) \in Nat /\ n \in Nat /\ Len(Append(d, m)) = n
  OBVIOUS
<1>3. g[0] = a /\ g[n] = c
  BY <1>1, <1>2
<1>4. ASSUME NEW i \in 1..n
      PROVE  <<g[i - 1], Append(d, m)[i], g[i]>> \in R
  <2>1. CASE i = n
    BY <1>1, <1>2, <2>1
  <2>2. CASE i # n
    <3>1. i \in 1..Len(d) /\ Append(d, m)[i] = d[i] /\ i \in 0..n /\ i - 1 \in 0..n /\ i - 1 # n
      BY <1>2, <2>2
    <3>2. g[i - 1] = h[i - 1] /\ g[i] = h[i]
      BY <2>2, <3>1
    <3> QED BY <1>1, <3>1, <3>2
  <2> QED BY <2>1, <2>2
<1> HIDE DEF g
<1> QED
  BY <1>2, <1>3, <1>4 DEF Leads

LEMMA LeadsTail ==
  ASSUME NEW R, NEW S, NEW d \in Seq(S), d # <<>>, NEW a, NEW b, Leads(R, d, a, b)
  PROVE  \E c : <<a, Head(d), c>> \in R /\ Leads(R, Tail(d), c, b)
<1>1. PICK h : /\ h[0] = a /\ h[Len(d)] = b
               /\ \A i \in 1..Len(d) : <<h[i - 1], d[i], h[i]>> \in R
  BY DEF Leads
<1> DEFINE n == Len(d) - 1
           g == [i \in 0..n |-> h[i + 1]]
<1>2. n \in Nat /\ Len(Tail(d)) = n /\ Len(d) = n + 1 /\ Head(d) = d[1]
  OBVIOUS
<1>3. g[0] = h[1] /\ g[n] = b
  BY <1>1, <1>2
<1>4. ASSUME NEW i \in 1..n PROVE <<g[i - 1], Tail(d)[i], g[i]>> \in R
  <2>1. Tail(d)[i] = d[i + 1] /\ i + 1 \in 1..Len(d) /\ i \in 0..n /\ i - 1 \in 0..n
    BY <1>2
  <2>2. g[i - 1] = h[i] /\ g[i] = h[i + 1]
    BY <2>1
  <2>3. <<h[(i + 1) - 1], d[i + 1], h[i + 1]>> \in R
    BY <1>1, <2>1
  <2> QED BY <2>1, <2>2, <2>3
<1>5. <<a, Head(d), h[1]>> \in R
  <2>1. <<h[1 - 1], d[1], h[1]>> \in R
    BY <1>1, <1>2
  <2> QED BY <1>1, <1>2, <2>1
<1> HIDE DEF g
<1> QED
  BY <1>2, <1>3, <1>4, <1>5 DEF Leads

\* Letters that change nothing lead nowhere, and only where they start.
LEMMA LeadsNowhere ==
  ASSUME NEW R, NEW S, NEW d \in Seq(S), NEW a, NEW b, Leads(R, d, a, b),
         \A i \in 1..Len(d) : \A v, w : <<v, d[i], w>> \in R => v = w
  PROVE  a = b
<1>1. PICK h : /\ h[0] = a /\ h[Len(d)] = b
               /\ \A i \in 1..Len(d) : <<h[i - 1], d[i], h[i]>> \in R
  BY DEF Leads
<1> DEFINE T == {n \in Nat : n <= Len(d) => h[n] = a}
<1>2. 0 \in T
  BY <1>1
<1>3. ASSUME NEW n \in Nat, n \in T PROVE n + 1 \in T
  <2> SUFFICES ASSUME n + 1 <= Len(d) PROVE h[n + 1] = a
    OBVIOUS
  <2>1. h[n] = a /\ n + 1 \in 1..Len(d)
    BY <1>3
  <2>2. <<h[(n + 1) - 1], d[n + 1], h[n + 1]>> \in R /\ (n + 1) - 1 = n
    BY <1>1, <2>1
  <2> QED BY <2>1, <2>2
<1>4. Nat \subseteq T
  <2> HIDE DEF T
  <2> QED BY <1>2, <1>3, Induct
<1>5. Len(d) \in T
  BY <1>4
<1> QED
  BY <1>1, <1>5

LEMMA LeadsStill ==
  ASSUME NEW R, NEW S, NEW d \in Seq(S), NEW a,
         \A i \in 1..Len(d) : <<a, d[i], a>> \in R
  PROVE  Leads(R, d, a, a)
<1> DEFINE h == [i \in 0..Len(d) |-> a]
<1>1. h[0] = a /\ h[Len(d)] = a
  OBVIOUS
<1>2. \A i \in 1..Len(d) : <<h[i - 1], d[i], h[i]>> \in R
  OBVIOUS
<1> HIDE DEF h
<1> QED
  BY <1>1, <1>2 DEF Leads

\* A word does not lead out of a set that no letter leads out of.
LEMMA LeadsInto ==
  ASSUME NEW R, NEW S, NEW d \in Seq(S), NEW a, NEW b, Leads(R, d, a, b), NEW G, a \in G,
         \A i \in 1..Len(d) : \A v, w : v \in G /\ <<v, d[i], w>> \in R => w \in G
  PROVE  b \in G
<1>1. PICK h : /\ h[0] = a /\ h[Len(d)] = b
               /\ \A i \in 1..Len(d) : <<h[i - 1], d[i], h[i]>> \in R
  BY DEF Leads
<1> DEFINE T == {n \in Nat : n <= Len(d) => h[n] \in G}
<1>2. 0 \in T
  BY <1>1
<1>3. ASSUME NEW n \in Nat, n \in T PROVE n + 1 \in T
  <2> SUFFICES ASSUME n + 1 <= Len(d) PROVE h[n + 1] \in G
    OBVIOUS
  <2>1. h[n] \in G /\ n + 1 \in 1..Len(d)
    BY <1>3
  <2>2. <<h[(n + 1) - 1], d[n + 1], h[n + 1]>> \in R /\ (n + 1) - 1 = n
    BY <1>1, <2>1
  <2> QED BY <2>1, <2>2
<1>4. Nat \subseteq T
  <2> HIDE DEF T
  <2> QED BY <1>2, <1>3, Induct
<1>5. Len(d) \in T
  BY <1>4
<1> QED
  BY <1>1, <1>5

AllOf(d, Q) == \A i \in 1..Len(d) : d[i] \in Q

\* Where only the letters of Q can be taken, and lead nowhere, no other is in
\* the word.
LEMMA LeadsStuck ==
  ASSUME NEW R, NEW S, NEW d \in Seq(S), NEW a, NEW b, Leads(R, d, a, b), NEW Q,
         \A i \in 1..Len(d) : \A w : <<a, d[i], w>> \in R => w = a /\ d[i] \in Q
  PROVE  a = b /\ AllOf(d, Q)
<1>1. PICK h : /\ h[0] = a /\ h[Len(d)] = b
               /\ \A i \in 1..Len(d) : <<h[i - 1], d[i], h[i]>> \in R
  BY DEF Leads
<1> DEFINE T == {n \in Nat : n <= Len(d) => h[n] = a /\ \A i \in 1..n : d[i] \in Q}
<1>2. 0 \in T
  BY <1>1
<1>3. ASSUME NEW n \in Nat, n \in T PROVE n + 1 \in T
  <2> SUFFICES ASSUME n + 1 <= Len(d)
               PROVE  h[n + 1] = a /\ \A i \in 1..n + 1 : d[i] \in Q
    OBVIOUS
  <2>1. h[n] = a /\ n + 1 \in 1..Len(d) /\ \A i \in 1..n : d[i] \in Q
    BY <1>3
  <2>2. <<h[(n + 1) - 1], d[n + 1], h[n + 1]>> \in R /\ (n + 1) - 1 = n
    BY <1>1, <2>1
  <2>3. h[n + 1] = a /\ d[n + 1] \in Q
    BY <2>1, <2>2
  <2>4. \A i \in 1..n + 1 : i \in 1..n \/ i = n + 1
    OBVIOUS
  <2> QED BY <2>1, <2>3, <2>4
<1>4. Nat \subseteq T
  <2> HIDE DEF T
  <2> QED BY <1>2, <1>3, Induct
<1>5. Len(d) \in T
  BY <1>4
<1> QED
  BY <1>1, <1>5 DEF AllOf

\* The letters of Q lead nowhere: then there is no other in the word if no
\* other can be taken where it starts.
LEMMA LeadsFirst ==
  ASSUME NEW R, NEW S, NEW d \in Seq(S), NEW a, NEW b, Leads(R, d, a, b), NEW Q,
         \A i \in 1..Len(d) : \A v, w : <<v, d[i], w>> \in R /\ d[i] \in Q => v = w,
         \A i \in 1..Len(d) : \A w : <<a, d[i], w>> \in R => d[i] \in Q
  PROVE  AllOf(d, Q)
<1> SUFFICES ASSUME ~AllOf(d, Q) PROVE FALSE
  OBVIOUS
<1>1. PICK h : /\ h[0] = a /\ h[Len(d)] = b
               /\ \A i \in 1..Len(d) : <<h[i - 1], d[i], h[i]>> \in R
  BY DEF Leads
<1> DEFINE T == {n \in Nat : n <= Len(d) => h[n] = a}
<1>2. 0 \in T
  BY <1>1
<1>3. ASSUME NEW n \in Nat, n \in T PROVE n + 1 \in T
  <2> SUFFICES ASSUME n + 1 <= Len(d) PROVE h[n + 1] = a
    OBVIOUS
  <2>1. h[n] = a /\ n + 1 \in 1..Len(d)
    BY <1>3
  <2>2. <<h[(n + 1) - 1], d[n + 1], h[n + 1]>> \in R /\ (n + 1) - 1 = n
    BY <1>1, <2>1
  <2> QED BY <2>1, <2>2
<1>4. Nat \subseteq T
  <2> HIDE DEF T
  <2> QED BY <1>2, <1>3, Induct
<1>5. PICK i \in 1..Len(d) : d[i] \notin Q
  BY DEF AllOf
<1>6. i - 1 \in T /\ i - 1 \in Nat /\ i - 1 <= Len(d)
  BY <1>4
<1>7. h[i - 1] = a
  BY <1>6
<1> QED
  BY <1>1, <1>5, <1>7
=============================================================================
