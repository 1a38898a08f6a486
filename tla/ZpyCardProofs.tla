------------------------- MODULE ZpyCardProofs ----------------------------
(*************************************************************************)
(* Proofs about cards, points and ranks, for tables of any size of three *)
(* players or more, any decks and any number of rounds: that the deal    *)
(* and the hands are even, that no card and no point is lost or counted  *)
(* twice, that friends' tallies count the cards that have been played,   *)
(* that the winner of a trick is who the table would say it is, and that *)
(* scoring leaves everybody a rank to play on and keeps the rank rules.  *)
(*************************************************************************)
EXTENDS ZpyPlayProofs, Basics

-----------------------------------------------------------------------------
(* The weight of a pile *)

\* Sizes, points and the copies of one card are all sums of the counts in a pile,
\* each with a weight.
Weights == [StdDeck -> Nat]
Weigh(w, pile) == SumFunctionOnSet([c \in StdDeck |-> w[c] * pile[c]], StdDeck)
Each == [c \in StdDeck |-> 1]
Values == [c \in StdDeck |-> PointValue(c)]
Only(d) == [c \in StdDeck |-> IF c = d THEN 1 ELSE 0]

LEMMA WeightsAre ==
  /\ Each \in Weights /\ Each \in Piles /\ Values \in Weights
  /\ \A d \in StdDeck : Only(d) \in Weights
  BY DEF Each, Values, Only, Weights, PointValue, Piles

LEMMA DeckFinite == IsFiniteSet(StdDeck)
  BY StdDeckAssumption

LEMMA UsersFinite == IsFiniteSet(Users)
  BY ZpyAssumption

LEMMA NotNull == NULL \notin Piles
  BY ZpyAssumption

LEMMA TimesNat == ASSUME NEW a \in Nat, NEW b \in Nat PROVE a * b \in Nat
  OBVIOUS

LEMMA WeighType == ASSUME NEW w \in Weights, NEW pile \in Piles PROVE Weigh(w, pile) \in Nat
<1> DEFINE f == [c \in StdDeck |-> w[c] * pile[c]]
<1>1. \A c \in StdDeck : f[c] \in Nat
  BY TimesNat DEF Weights, Piles
<1> HIDE DEF f
<1>2. SumFunctionOnSet(f, StdDeck) \in Nat
  BY <1>1, SumNat, DeckFinite
<1> QED
  BY <1>2 DEF f, Weigh

LEMMA WeighAdd ==
  ASSUME NEW w \in Weights, NEW a \in Piles, NEW b \in Piles
  PROVE  Weigh(w, AddPile(a, b)) = Weigh(w, a) + Weigh(w, b)
<1> DEFINE f == [c \in StdDeck |-> w[c] * a[c]]
           g == [c \in StdDeck |-> w[c] * b[c]]
           h == [c \in StdDeck |-> w[c] * AddPile(a, b)[c]]
<1>1. ASSUME NEW c \in StdDeck PROVE f[c] \in Int /\ g[c] \in Int /\ h[c] = f[c] + g[c]
  <2>1. w[c] \in Nat /\ a[c] \in Nat /\ b[c] \in Nat /\ AddPile(a, b)[c] = a[c] + b[c]
    BY DEF Weights, Piles, AddPile
  <2>2. \A x, y, z \in Nat : x * (y + z) = x * y + x * z
    OBVIOUS
  <2> QED BY <2>1, <2>2, TimesNat
<1> HIDE DEF f, g, h
<1>2. SumFunctionOnSet(h, StdDeck) = SumFunctionOnSet(f, StdDeck) + SumFunctionOnSet(g, StdDeck)
  BY <1>1, SumPlus, DeckFinite
<1> QED
  BY <1>2 DEF f, g, h, Weigh

LEMMA WeighTake ==
  ASSUME NEW w \in Weights, NEW a \in Piles, NEW b \in Piles, Contains(a, b)
  PROVE  Weigh(w, a) = Weigh(w, TakePile(a, b)) + Weigh(w, b)
<1> DEFINE t == TakePile(a, b)
<1>1. \A c \in StdDeck : t[c] = a[c] - b[c] /\ t[c] \in Nat /\ a[c] \in Nat /\ b[c] \in Nat
  BY DEF TakePile, Contains, Piles
<1>2. t \in Piles
  <2>1. t = [c \in StdDeck |-> t[c]]
    BY DEF TakePile
  <2> HIDE DEF t
  <2> QED BY <1>1, <2>1 DEF Piles
<1>3. AddPile(t, b) = a
  <2>1. \A c \in StdDeck : t[c] + b[c] = a[c]
    BY <1>1
  <2>2. a = [c \in StdDeck |-> a[c]]
    BY DEF Piles
  <2> HIDE DEF t
  <2> QED BY <2>1, <2>2 DEF AddPile
<1> HIDE DEF t
<1> QED
  BY <1>2, <1>3, WeighAdd DEF t

LEMMA WeighEmpty == ASSUME NEW w \in Weights PROVE Weigh(w, EmptyPile) = 0
<1> DEFINE f == [c \in StdDeck |-> w[c] * EmptyPile[c]]
<1>1. \A c \in StdDeck : f[c] = 0
  BY DEF Weights, EmptyPile
<1> HIDE DEF f
<1>2. SumFunctionOnSet(f, StdDeck) = 0
  BY <1>1, SumZero, DeckFinite
<1> QED
  BY <1>2 DEF f, Weigh

\* What Size, PilePoints and the counts are.
LEMMA SizeIs == ASSUME NEW pile \in Piles PROVE Size(pile) = Weigh(Each, pile)
<1> DEFINE f == [c \in StdDeck |-> Each[c] * pile[c]]
<1>1. \A c \in StdDeck : f[c] = pile[c]
  BY DEF Each, Piles
<1> HIDE DEF f
<1>2. SumFunctionOnSet(f, StdDeck) = SumFunctionOnSet(pile, StdDeck)
  BY <1>1, SumSame, DeckFinite
<1> QED
  BY <1>2 DEF f, Weigh, Size

LEMMA PointsAre == ASSUME NEW pile \in Piles PROVE PilePoints(pile) = Weigh(Values, pile)
<1> DEFINE f == [c \in StdDeck |-> Values[c] * pile[c]]
           g == [c \in StdDeck |-> pile[c] * PointValue(c)]
<1>1. \A c \in StdDeck : f[c] = g[c]
  BY DEF Values, Piles, PointValue
<1>2. DOMAIN g = StdDeck
  OBVIOUS
<1> HIDE DEF f, g
<1>3. SumFunctionOnSet(f, StdDeck) = SumFunctionOnSet(g, StdDeck)
  BY <1>1, SumSame, DeckFinite
<1> QED
  BY <1>2, <1>3 DEF f, g, Weigh, PilePoints, SumFunction

LEMMA CopiesAre ==
  ASSUME NEW pile \in Piles, NEW d \in StdDeck PROVE pile[d] = Weigh(Only(d), pile)
<1> DEFINE f == [c \in StdDeck |-> 0]
           g == [c \in StdDeck |-> Only(d)[c] * pile[c]]
<1>1. \A c \in StdDeck : f[c] = 0 /\ g[c] = IF c = d THEN pile[c] ELSE 0
  BY DEF Only, Piles
<1>2. \A c \in StdDeck : pile[c] \in Nat
  BY DEF Piles
<1> HIDE DEF f, g
<1>3. SumFunctionOnSet(f, StdDeck) = 0
  BY <1>1, SumZero, DeckFinite
<1>4. \A c \in StdDeck : f[c] \in Int /\ g[c] \in Int /\ (c # d => g[c] = f[c])
  BY <1>1, <1>2
<1>5. SumFunctionOnSet(g, StdDeck) + f[d] = SumFunctionOnSet(f, StdDeck) + g[d]
  BY <1>4, SumPut, DeckFinite
<1>6. SumFunctionOnSet(g, StdDeck) \in Int
  BY <1>4, SumTakes, DeckFinite
<1> QED
  BY <1>1, <1>2, <1>3, <1>5, <1>6 DEF g, Weigh

\* n of each card weigh n times as much as one of each.
LEMMA WeighDecks ==
  ASSUME NEW w \in Weights, NEW n \in Nat, NEW pile \in Piles, \A c \in StdDeck : pile[c] = n
  PROVE  Weigh(w, pile) = n * Weigh(w, Each)
<1> DEFINE f == [c \in StdDeck |-> w[c] * Each[c]]
           h == [c \in StdDeck |-> w[c] * pile[c]]
<1>1. \A c \in StdDeck : f[c] \in Int /\ h[c] = n * f[c]
  BY DEF Each, Weights
<1> HIDE DEF f, h
<1>2. SumFunctionOnSet(h, StdDeck) = n * SumFunctionOnSet(f, StdDeck)
  BY <1>1, SumTimes, DeckFinite
<1> QED
  BY <1>2 DEF f, h, Weigh

\* What somebody holds, if anything, and what they hold together.
Share(w, x) == IF x = NULL THEN 0 ELSE Weigh(w, x)
Held(w, piles) == SumFunctionOnSet([u \in Users |-> Share(w, piles[u])], Users)

LEMMA ShareType ==
  ASSUME NEW w \in Weights
  PROVE  /\ \A x \in Piles \cup {NULL} : Share(w, x) \in Nat
         /\ \A x \in Piles : Share(w, x) = Weigh(w, x)
         /\ Share(w, NULL) = 0
  BY WeighType, NotNull DEF Share

Holdings == [Users -> Piles \cup {NULL}]

LEMMA HeldType ==
  ASSUME NEW w \in Weights, NEW piles \in Holdings
  PROVE  /\ Held(w, piles) \in Nat
         /\ \A u \in Users : Share(w, piles[u]) <= Held(w, piles)
<1> DEFINE f == [u \in Users |-> Share(w, piles[u])]
<1>1. \A u \in Users : f[u] \in Nat
  BY ShareType DEF Holdings
<1>2. \A u \in Users : f[u] = Share(w, piles[u])
  OBVIOUS
<1> HIDE DEF f
<1>3. /\ SumFunctionOnSet(f, Users) \in Nat
      /\ \A u \in Users : f[u] <= SumFunctionOnSet(f, Users)
  BY <1>1, SumNat, UsersFinite
<1>4. Held(w, piles) = SumFunctionOnSet(f, Users)
  BY DEF f, Held
<1> QED
  BY <1>2, <1>3, <1>4

\* p has another pile than before, and nobody else has.
Swaps(p, piles, qs) ==
  /\ p \in Users /\ piles \in Holdings /\ qs \in Holdings
  /\ \A u \in Users : u # p => qs[u] = piles[u]

LEMMA SwapsIs ==
  ASSUME NEW piles \in Holdings, NEW p \in Users, NEW x \in Piles \cup {NULL}
  PROVE  /\ Swaps(p, piles, [piles EXCEPT ![p] = x])
         /\ [piles EXCEPT ![p] = x][p] = x
  BY DEF Swaps, Holdings

LEMMA HeldPut ==
  ASSUME NEW w \in Weights, NEW piles, NEW p, NEW qs, Swaps(p, piles, qs)
  PROVE  /\ Held(w, qs) + Share(w, piles[p]) = Held(w, piles) + Share(w, qs[p])
         /\ Held(w, qs) \in Nat /\ Held(w, piles) \in Nat
         /\ Share(w, piles[p]) \in Nat /\ Share(w, qs[p]) \in Nat
<1> DEFINE f == [u \in Users |-> Share(w, piles[u])]
           g == [u \in Users |-> Share(w, qs[u])]
<1>0. p \in Users /\ piles \in Holdings /\ qs \in Holdings
  BY DEF Swaps
<1>1. ASSUME NEW u \in Users PROVE f[u] \in Int /\ g[u] \in Int /\ (u # p => g[u] = f[u])
  <2>1. f[u] \in Int /\ g[u] \in Int
    BY <1>0, ShareType DEF Holdings
  <2>2. u # p => g[u] = f[u]
    BY DEF Swaps
  <2> QED BY <2>1, <2>2
<1>2. f[p] = Share(w, piles[p]) /\ g[p] = Share(w, qs[p])
  BY <1>0
<1>3. Held(w, piles) = SumFunctionOnSet(f, Users) /\ Held(w, qs) = SumFunctionOnSet(g, Users)
  BY DEF Held
<1> HIDE DEF f, g
<1>4. SumFunctionOnSet(g, Users) + f[p] = SumFunctionOnSet(f, Users) + g[p]
  BY <1>0, <1>1, SumPut, UsersFinite
<1>5. /\ Held(w, qs) \in Nat /\ Held(w, piles) \in Nat
      /\ Share(w, piles[p]) \in Nat /\ Share(w, qs[p]) \in Nat
  BY <1>0, HeldType, ShareType DEF Holdings
<1> QED
  BY <1>2, <1>3, <1>4, <1>5

\* The same for somebody who has a pile before and after.
LEMMA HeldChange ==
  ASSUME NEW w \in Weights, NEW piles, NEW p, NEW qs, Swaps(p, piles, qs),
         piles[p] \in Piles, qs[p] \in Piles
  PROVE  /\ Held(w, qs) + Weigh(w, piles[p]) = Held(w, piles) + Weigh(w, qs[p])
         /\ Held(w, qs) \in Nat /\ Held(w, piles) \in Nat
         /\ Weigh(w, piles[p]) \in Nat /\ Weigh(w, qs[p]) \in Nat
  BY HeldPut, ShareType

LEMMA HeldNothing ==
  ASSUME NEW w \in Weights, NEW piles, \A u \in Users : piles[u] = NULL \/ piles[u] = EmptyPile
  PROVE  Held(w, piles) = 0
<1> DEFINE f == [u \in Users |-> Share(w, piles[u])]
<1>1. \A u \in Users : f[u] = 0
  BY WeighEmpty DEF Share
<1> HIDE DEF f
<1>2. SumFunctionOnSet(f, Users) = 0
  BY <1>1, SumZero, UsersFinite
<1> QED
  BY <1>2 DEF f, Held

-----------------------------------------------------------------------------
(* Cards in a row *)

LEMMA PartsAre ==
  ASSUME NEW s \in Seq(StdDeck), NEW k \in 0..Len(s)
  PROVE  /\ SubSeq(s, 1, k) \in Seq(StdDeck) /\ Len(SubSeq(s, 1, k)) = k
         /\ \A i \in 1..k : SubSeq(s, 1, k)[i] = s[i]
         /\ SubSeq(s, k + 1, Len(s)) \in Seq(StdDeck)
         /\ Len(SubSeq(s, k + 1, Len(s))) = Len(s) - k
         /\ \A i \in 1..(Len(s) - k) : SubSeq(s, k + 1, Len(s))[i] = s[k + i]
<1>1. Len(s) \in Nat /\ k \in Nat /\ k <= Len(s)
  OBVIOUS
<1>2. /\ SubSeq(s, 1, k) \in Seq(StdDeck) /\ Len(SubSeq(s, 1, k)) = k
      /\ \A i \in 1..k : SubSeq(s, 1, k)[i] = s[i]
  BY <1>1
<1>3. /\ SubSeq(s, k + 1, Len(s)) \in Seq(StdDeck)
      /\ Len(SubSeq(s, k + 1, Len(s))) = Len(s) - k
      /\ \A i \in 1..(Len(s) - k) : SubSeq(s, k + 1, Len(s))[i] = s[k + i]
  BY <1>1
<1> QED
  BY <1>2, <1>3

LEMMA PileOfSeq == ASSUME NEW s \in Seq(StdDeck) PROVE PileOf(s) \in Piles
<1>1. Len(s) \in Nat /\ DOMAIN s = 1..Len(s)
  OBVIOUS
<1> DEFINE n == Len(s)
<1>2. n \in Nat /\ DOMAIN s = 1..n
  BY <1>1
<1> HIDE DEF n
<1>3. IsFiniteSet(1..n)
  BY <1>2, FS_Interval
<1> QED
  BY <1>2, <1>3, PileOfType

\* A row of cards is what is before a place in it, and what is behind.
LEMMA PileOfSplit ==
  ASSUME NEW s \in Seq(StdDeck), NEW k \in 0..Len(s)
  PROVE  PileOf(s) = AddPile(PileOf(SubSeq(s, 1, k)), PileOf(SubSeq(s, k + 1, Len(s))))
<1> DEFINE a == SubSeq(s, 1, k)
           b == SubSeq(s, k + 1, Len(s))
           n == Len(s)
<1>1. /\ n \in Nat /\ k \in Nat /\ k <= n
      /\ DOMAIN s = 1..n /\ DOMAIN a = 1..k /\ DOMAIN b = 1..(n - k)
      /\ \A i \in 1..k : a[i] = s[i]
      /\ \A i \in 1..(n - k) : b[i] = s[k + i]
  <2>1. /\ a \in Seq(StdDeck) /\ Len(a) = k /\ b \in Seq(StdDeck) /\ Len(b) = n - k
        /\ \A i \in 1..k : a[i] = s[i]
        /\ \A i \in 1..(n - k) : b[i] = s[k + i]
    BY PartsAre
  <2> HIDE DEF a, b
  <2>2. DOMAIN a = 1..Len(a) /\ DOMAIN b = 1..Len(b) /\ DOMAIN s = 1..Len(s) /\ Len(s) \in Nat
    BY <2>1
  <2> QED BY <2>1, <2>2
<1> HIDE DEF a, b, n
<1>2. ASSUME NEW c \in StdDeck
      PROVE  PileOf(s)[c] = PileOf(a)[c] + PileOf(b)[c]
  <2> DEFINE S == {i \in 1..n : s[i] = c}
             A == {i \in 1..k : a[i] = c}
             B == {i \in 1..(n - k) : b[i] = c}
             C == {i \in (k + 1)..n : s[i] = c}
             f == [i \in B |-> k + i]
  <2>1. IsFiniteSet(1..n) /\ IsFiniteSet(1..(n - k))
    BY <1>1, FS_Interval
  <2>2. IsFiniteSet(S) /\ IsFiniteSet(B)
    <3>1. S \subseteq 1..n /\ B \subseteq 1..(n - k)
      OBVIOUS
    <3> QED BY <2>1, <3>1, FS_Subset
  <2>3. S = A \cup C /\ A \cap C = {}
    BY <1>1
  <2>4. IsFiniteSet(A) /\ IsFiniteSet(C)
    <3>1. A \subseteq S /\ C \subseteq S
      BY <2>3
    <3> QED BY <2>2, <3>1, FS_Subset
  <2>5. Cardinality(B) = Cardinality(C)
    <3>1. f \in Bijection(B, C)
      <4>1. \A i \in B : k + i \in C
        BY <1>1
      <4>2. \A i, j \in B : k + i = k + j => i = j
        BY <1>1
      <4>3. \A i \in C : i - k \in B /\ k + (i - k) = i
        <5> SUFFICES ASSUME NEW i \in C PROVE i - k \in B /\ k + (i - k) = i
          OBVIOUS
        <5>1. i \in Int /\ i - k \in 1..(n - k) /\ k + (i - k) = i /\ s[i] = c
          BY <1>1
        <5>2. b[i - k] = s[k + (i - k)]
          BY <1>1, <5>1
        <5> QED BY <5>1, <5>2
      <4> HIDE DEF B, C
      <4>4. f \in [B -> C]
        BY <4>1
      <4>5. \A x, y \in B : f[x] = f[y] => x = y
        BY <4>2
      <4>6. \A y \in C : \E x \in B : f[x] = y
        BY <4>3
      <4> HIDE DEF f
      <4> QED BY <4>4, <4>5, <4>6 DEF Bijection, Injection, Surjection, IsInjective
    <3>2. ExistsBijection(B, C)
      BY <3>1 DEF ExistsBijection
    <3> HIDE DEF B, C, f
    <3> QED BY <2>2, <3>2, FS_Bijection
  <2>6. Cardinality(A \cap C) = 0
    <3>1. Cardinality({}) = 0
      BY FS_EmptySet
    <3> QED BY <2>3, <3>1
  <2>7. /\ Cardinality(A) \in Nat /\ Cardinality(C) \in Nat
        /\ Cardinality(A \cup C) = Cardinality(A) + Cardinality(C) - Cardinality(A \cap C)
    BY <2>4, FS_Union, FS_CardinalityType
  <2>8. /\ PileOf(s)[c] = Cardinality(S) /\ PileOf(a)[c] = Cardinality(A)
        /\ PileOf(b)[c] = Cardinality(B)
    BY <1>1 DEF PileOf
  <2> HIDE DEF S, A, B, C
  <2> QED BY <2>3, <2>5, <2>6, <2>7, <2>8
<1>3. PileOf(s) = [c \in StdDeck |-> PileOf(s)[c]]
  BY DEF PileOf
<1> QED
  BY <1>2, <1>3 DEF AddPile, a, b

LEMMA PileOfNone == PileOf(<<>>) = EmptyPile
<1>1. Cardinality({}) = 0
  BY FS_EmptySet
<1>2. \A c : {i \in DOMAIN <<>> : <<>>[i] = c} = {}
  OBVIOUS
<1> QED
  BY <1>1, <1>2 DEF PileOf, EmptyPile

LEMMA PileOfOne == ASSUME NEW d \in StdDeck PROVE PileOf(<<d>>) = Only(d)
<1>1. Cardinality({}) = 0 /\ Cardinality({1}) = 1
  BY FS_EmptySet, FS_Singleton
<1>2. \A c \in StdDeck : {i \in DOMAIN <<d>> : <<d>>[i] = c} = IF c = d THEN {1} ELSE {}
  OBVIOUS
<1> QED
  BY <1>1, <1>2 DEF PileOf, Only

LEMMA SizeOfOne == ASSUME NEW d \in StdDeck PROVE Weigh(Each, PileOf(<<d>>)) = 1
<1>1. Only(d) \in Piles /\ Only(d) \in Weights
  BY DEF Only, Piles, Weights
<1>2. Each[d] = Weigh(Only(d), Each)
  BY WeightsAre, CopiesAre
<1>3. Weigh(Only(d), Each) = Weigh(Each, Only(d))
  <2> DEFINE f == [c \in StdDeck |-> Only(d)[c] * Each[c]]
             g == [c \in StdDeck |-> Each[c] * Only(d)[c]]
  <2>1. \A c \in StdDeck : f[c] = g[c]
    BY DEF Only, Each
  <2> HIDE DEF f, g
  <2>2. SumFunctionOnSet(f, StdDeck) = SumFunctionOnSet(g, StdDeck)
    BY <2>1, SumSame, DeckFinite
  <2> QED BY <2>2 DEF f, g, Weigh
<1> QED
  BY <1>2, <1>3, PileOfOne DEF Each

\* As many cards as there are in the row.
LEMMA SizeOfRow == ASSUME NEW s \in Seq(StdDeck) PROVE Weigh(Each, PileOf(s)) = Len(s)
<1> DEFINE N == {n \in Nat : \A r \in Seq(StdDeck) : Len(r) = n => Weigh(Each, PileOf(r)) = n}
<1>1. 0 \in N
  <2> SUFFICES ASSUME NEW r \in Seq(StdDeck), Len(r) = 0 PROVE Weigh(Each, PileOf(r)) = 0
    OBVIOUS
  <2>1. r = <<>>
    OBVIOUS
  <2> QED BY <2>1, PileOfNone, WeighEmpty, WeightsAre
<1>2. ASSUME NEW n \in Nat, n \in N PROVE n + 1 \in N
  <2> SUFFICES ASSUME NEW r \in Seq(StdDeck), Len(r) = n + 1
               PROVE  Weigh(Each, PileOf(r)) = n + 1
    OBVIOUS
  <2> DEFINE a == SubSeq(r, 1, n)
             b == SubSeq(r, n + 1, Len(r))
  <2>1. n \in 0..Len(r)
    OBVIOUS
  <2>2. /\ a \in Seq(StdDeck) /\ Len(a) = n /\ b \in Seq(StdDeck) /\ Len(b) = 1
        /\ b[1] = r[n + 1] /\ r[n + 1] \in StdDeck
    <3>1. /\ a \in Seq(StdDeck) /\ Len(a) = n /\ b \in Seq(StdDeck)
          /\ Len(b) = Len(r) - n /\ \A i \in 1..(Len(r) - n) : b[i] = r[n + i]
      BY <2>1, PartsAre
    <3>2. r[n + 1] \in StdDeck
      OBVIOUS
    <3> HIDE DEF a, b
    <3> QED BY <3>1, <3>2
  <2>3. PileOf(r) = AddPile(PileOf(a), PileOf(b))
    BY <2>1, PileOfSplit
  <2> HIDE DEF a, b
  <2>4. b = <<r[n + 1]>>
    BY <2>2
  <2>5. Weigh(Each, PileOf(b)) = 1
    BY <2>2, <2>4, SizeOfOne
  <2>6. Weigh(Each, PileOf(a)) = n
    BY <1>2, <2>2
  <2>7. PileOf(a) \in Piles /\ PileOf(b) \in Piles
    BY <2>2, PileOfSeq
  <2> QED BY <2>3, <2>5, <2>6, <2>7, WeighAdd, WeightsAre
<1>3. Nat \subseteq N
  <2> HIDE DEF N
  <2> QED BY <1>1, <1>2, Induct
<1>4. Len(s) \in N
  BY <1>3
<1> QED
  BY <1>4

LEMMA SizeOfDeck == Weigh(Each, Each) = Cardinality(StdDeck)
<1> DEFINE f == [c \in StdDeck |-> Each[c] * Each[c]]
<1>1. \A c \in StdDeck : f[c] = 1
  BY DEF Each
<1> HIDE DEF f
<1>2. SumFunctionOnSet(f, StdDeck) = Cardinality(StdDeck)
  BY <1>1, SumOnes, DeckFinite
<1> QED
  BY <1>2 DEF f, Weigh

-----------------------------------------------------------------------------
(* No card is lost until the first is played *)

Total(w) == ndecks * Weigh(w, Each)

\* While cards are drawn.  (No game gets out of a round whose deck is smaller than its
\* kitty: it has nothing to draw, and is left in DRAW.)
Dealing ==
  \/ phase = "PREPARE"
  \/ phase = "DRAW" /\ deck # <<>>

\* The deck, what was drawn, and the kitty.
Dealt(w) ==
  /\ Dealing => /\ Weigh(w, PileOf(deck)) + Held(w, draws) + Weigh(w, kitty) = Total(w)
                /\ deck_sz = Len(deck)
  /\ phase = "KITTY" /\ draws[host] # NULL => Held(w, draws) = Total(w)
  /\ phase = "FRIEND" => Held(w, hands) + Weigh(w, kitty) = Total(w)
  /\ phase = "PREPARE" => deck = <<>>

LEMMA WholeDeck ==
  ASSUME NEW nd \in Nat, nd \in DOMAIN Shuffles, NEW d \in Shuffles[nd], NEW w \in Weights
  PROVE  /\ d \in Seq(StdDeck) /\ Weigh(w, PileOf(d)) = nd * Weigh(w, Each)
         /\ Len(d) = nd * Cardinality(StdDeck)
<1>1. d \in Seq(StdDeck) /\ \A c \in StdDeck : PileOf(d)[c] = nd
  BY ZpyAssumption
<1>2. PileOf(d) \in Piles
  BY <1>1, PileOfSeq
<1>3. \A v \in Weights : Weigh(v, PileOf(d)) = nd * Weigh(v, Each)
  BY <1>1, <1>2, WeighDecks
<1>4. Weigh(Each, PileOf(d)) = Len(d)
  BY <1>1, SizeOfRow
<1> QED
  BY <1>1, <1>3, <1>4, SizeOfDeck, WeightsAre

LEMMA DealtAnew ==
  ASSUME NEW w \in Weights, NEW n \in Nat \ {0}, NEW nd \in Nat, nd \in DOMAIN Shuffles,
         NEW d \in Shuffles[nd], NEW left, left = Len(d) - kitty_sz(n, nd),
         SubSeq(d, 1, left) # <<>>
  PROVE  /\ Len(SubSeq(d, 1, left)) = left /\ left \in Nat \ {0}
         /\ Weigh(w, PileOf(SubSeq(d, 1, left))) + Weigh(w, PileOf(SubSeq(d, left + 1, Len(d))))
              = nd * Weigh(w, Each)
<1>1. d \in Seq(StdDeck) /\ Weigh(w, PileOf(d)) = nd * Weigh(w, Each)
  BY WholeDeck
<1>2. kitty_sz(n, nd) \in Nat
  BY KittySize
<1>3. left \in Int /\ left <= Len(d) /\ Len(d) \in Nat
  BY <1>1, <1>2
<1>4. left > 0
  <2> SUFFICES ASSUME left <= 0 PROVE FALSE
    BY <1>3
  <2>1. SubSeq(d, 1, left) = <<>>
    BY <1>1, <1>3
  <2> QED BY <2>1
<1>5. left \in 0..Len(d) /\ left \in Nat \ {0}
  BY <1>3, <1>4
<1>6. PileOf(d) = AddPile(PileOf(SubSeq(d, 1, left)), PileOf(SubSeq(d, left + 1, Len(d))))
  BY <1>1, <1>5, PileOfSplit
<1>7. /\ PileOf(SubSeq(d, 1, left)) \in Piles /\ PileOf(SubSeq(d, left + 1, Len(d))) \in Piles
      /\ Len(SubSeq(d, 1, left)) = left
  BY <1>1, <1>5, PartsAre, PileOfSeq
<1> QED
  BY <1>1, <1>5, <1>6, <1>7, WeighAdd

LEMMA ResetDealt ==
  ASSUME NEW w \in Weights, NEW ps, Len(ps) \in Nat \ {0}, NEW ord, NEW nd \in Nat, NEW starting,
         NEW is_host, ResetRound(ps, ord, nd, starting, is_host), phase' = "DRAW", ndecks' = nd
  PROVE  Dealt(w)'
<1> SUFFICES ASSUME deck' # <<>>
             PROVE  /\ Weigh(w, PileOf(deck')) + Held(w, draws') + Weigh(w, kitty') =
                         nd * Weigh(w, Each)
                    /\ deck_sz' = Len(deck')
  BY DEF Dealt, Dealing, Total
<1>1. nd \in DOMAIN Shuffles
  BY DEF ResetRound
<1>2. PICK d \in Shuffles[nd] :
        LET left == Len(d) - kitty_sz(Len(ps), nd)
        IN  /\ deck' = SubSeq(d, 1, left) /\ deck_sz' = left
            /\ kitty' = PileOf(SubSeq(d, left + 1, Len(d)))
  BY DEF ResetRound
<1> DEFINE left == Len(d) - kitty_sz(Len(ps), nd)
<1>3. /\ deck' = SubSeq(d, 1, left) /\ deck_sz' = left
      /\ kitty' = PileOf(SubSeq(d, left + 1, Len(d)))
  BY <1>2
<1>4. left = Len(d) - kitty_sz(Len(ps), nd)
  OBVIOUS
<1> HIDE DEF left
<1>5. /\ Len(SubSeq(d, 1, left)) = left /\ left \in Nat \ {0}
      /\ Weigh(w, PileOf(SubSeq(d, 1, left))) + Weigh(w, PileOf(SubSeq(d, left + 1, Len(d))))
           = nd * Weigh(w, Each)
  BY <1>1, <1>3, <1>4, DealtAnew
<1>6. draws' = [u \in Users |-> IF u \in Range(ps) THEN EmptyPile ELSE NULL]
  BY DEF ResetRound
<1>7. Held(w, draws') = 0
  <2>1. \A u \in Users : draws'[u] = NULL \/ draws'[u] = EmptyPile
    BY <1>6
  <2> QED BY <2>1, HeldNothing
<1>8. /\ SubSeq(d, 1, left) \in Seq(StdDeck) /\ SubSeq(d, left + 1, Len(d)) \in Seq(StdDeck)
  <2>1. d \in Seq(StdDeck) /\ Len(d) \in Nat
    BY <1>1, WholeDeck
  <2>2. left \in 0..Len(d)
    <3>1. kitty_sz(Len(ps), nd) \in Nat
      BY KittySize
    <3> QED BY <1>4, <1>5, <2>1, <3>1
  <2> QED BY <2>1, <2>2, PartsAre
<1>9. Weigh(w, PileOf(deck')) \in Nat /\ Weigh(w, kitty') \in Nat
  BY <1>3, <1>8, PileOfSeq, WeighType
<1> QED
  BY <1>3, <1>5, <1>7, <1>9

LEMMA DealTypesAre ==
  ASSUME TypeInv
  PROVE  /\ deck \in Seq(StdDeck) /\ kitty \in Piles /\ ndecks \in Nat
         /\ draws \in Holdings /\ hands \in Holdings
         /\ \A u : (draws[u] # NULL /\ u \in Users => draws[u] \in Piles)
  BY DEF TypeInv, TypeOK, DealTypes, HandTypes, TableTypes, Holdings

\* One more card is drawn.
LEMMA DrawnIs ==
  ASSUME TypeInv, NEW p \in Users, DrawCard(p)
  PROVE  /\ draws[p] \in Piles /\ Len(deck) \in Nat \ {0} /\ deck[Len(deck)] \in StdDeck
         /\ Len(deck') = Len(deck) - 1 /\ deck' \in Seq(StdDeck)
         /\ PileOf(<<deck[Len(deck)]>>) \in Piles
         /\ draws' = [draws EXCEPT ![p] = AddPile(draws[p], PileOf(<<deck[Len(deck)]>>))]
         /\ PileOf(deck) = AddPile(PileOf(deck'), PileOf(<<deck[Len(deck)]>>))
<1> DEFINE n == Len(deck)
<1>1. /\ deck # <<>> /\ draws[p] # NULL /\ deck' = SubSeq(deck, 1, n - 1)
      /\ draws' = [draws EXCEPT ![p] = AddPile(draws[p], PileOf(<<deck[n]>>))]
  BY DEF DrawCard
<1>2. deck \in Seq(StdDeck) /\ draws[p] \in Piles
  BY <1>1, DealTypesAre DEF Holdings
<1>3. n \in Nat \ {0} /\ n - 1 \in 0..n /\ deck[n] \in StdDeck
  BY <1>1, <1>2
<1> DEFINE b == SubSeq(deck, (n - 1) + 1, n)
<1>4. /\ deck' \in Seq(StdDeck) /\ Len(deck') = n - 1
      /\ b \in Seq(StdDeck) /\ Len(b) = n - (n - 1) /\ \A i \in 1..(n - (n - 1)) : b[i] = deck[(n - 1) + i]
  BY <1>1, <1>2, <1>3, PartsAre
<1>5. PileOf(deck) = AddPile(PileOf(deck'), PileOf(b))
  BY <1>1, <1>2, <1>3, PileOfSplit
<1>6. b = <<deck[n]>>
  <2> HIDE DEF b
  <2> DEFINE d == deck[n]
  <2>1. Len(b) = 1 /\ b[1] = d /\ b \in Seq(StdDeck) /\ d \in StdDeck
    <3>1. n - (n - 1) = 1 /\ (n - 1) + 1 = n
      BY <1>3
    <3> QED BY <1>3, <1>4, <3>1
  <2> HIDE DEF n, d
  <2>2. b = <<d>>
    BY <2>1
  <2> QED BY <2>2 DEF d
<1>7. PileOf(b) \in Piles
  BY <1>4, PileOfSeq
<1> QED
  BY <1>1, <1>2, <1>3, <1>4, <1>5, <1>6, <1>7

LEMMA DrawCardDealt ==
  ASSUME TypeInv, NEW w \in Weights, Dealt(w), NEW p \in Users, DrawCard(p)
  PROVE  Dealt(w)'
<1> DEFINE one == PileOf(<<deck[Len(deck)]>>)
<1>1. /\ draws[p] \in Piles /\ Len(deck) \in Nat \ {0}
      /\ Len(deck') = Len(deck) - 1 /\ deck' \in Seq(StdDeck)
      /\ one \in Piles /\ draws' = [draws EXCEPT ![p] = AddPile(draws[p], one)]
      /\ PileOf(deck) = AddPile(PileOf(deck'), one)
  BY DrawnIs
<1> HIDE DEF one
<1>2. /\ phase = "DRAW" /\ deck # <<>> /\ deck_sz' = deck_sz - 1
      /\ phase' = (IF deck_sz' = 0 THEN "PREPARE" ELSE "DRAW")
      /\ kitty' = kitty /\ ndecks' = ndecks
  BY DEF DrawCard, lobbyVars
<1>3. /\ Weigh(w, PileOf(deck)) + Held(w, draws) + Weigh(w, kitty) = Total(w)
      /\ deck_sz = Len(deck)
  BY <1>2 DEF Dealt, Dealing
<1>4. /\ PileOf(deck') \in Piles /\ AddPile(draws[p], one) \in Piles /\ kitty \in Piles
      /\ draws \in Holdings
  BY <1>1, PileOfSeq, AddPileType, DealTypesAre
<1>5. Weigh(w, PileOf(deck)) = Weigh(w, PileOf(deck')) + Weigh(w, one)
  BY <1>1, <1>4, WeighAdd
<1>6. Swaps(p, draws, draws') /\ draws'[p] = AddPile(draws[p], one)
  BY <1>1, <1>4, SwapsIs, ZenonT(60)
<1>7. /\ Held(w, draws') + Weigh(w, draws[p]) = Held(w, draws) + Weigh(w, draws'[p])
      /\ Held(w, draws') \in Nat /\ Held(w, draws) \in Nat /\ Weigh(w, draws[p]) \in Nat
  <2>1. draws[p] \in Piles /\ draws'[p] \in Piles
    BY <1>1, <1>4, <1>6
  <2> QED BY <1>6, <2>1, HeldChange
<1>8. Weigh(w, draws'[p]) = Weigh(w, draws[p]) + Weigh(w, one)
  BY <1>1, <1>6, WeighAdd
<1>9. /\ Weigh(w, PileOf(deck')) \in Nat /\ Weigh(w, one) \in Nat /\ Weigh(w, kitty) \in Nat
  BY <1>1, <1>4, WeighType
<1>10. Weigh(w, PileOf(deck')) + Held(w, draws') + Weigh(w, kitty) = Total(w)
  <2>1. Held(w, draws') = Held(w, draws) + Weigh(w, one)
    BY <1>7, <1>8, <1>9
  <2> QED BY <1>3, <1>5, <1>7, <1>9, <2>1
<1>11. phase' = "PREPARE" => deck' = <<>>
  BY <1>1, <1>2, <1>3
<1>12. deck_sz' = Len(deck') /\ phase' \in {"DRAW", "PREPARE"} /\ Total(w)' = Total(w)
  BY <1>1, <1>2, <1>3 DEF Total
<1> QED
  BY <1>2, <1>10, <1>11, <1>12 DEF Dealt

\* The new host takes up the kitty.
LEMMA KittyTaken ==
  ASSUME NEW w \in Weights, NEW h, Swaps(h, draws, draws'), draws[h] \in Piles, kitty \in Piles,
         draws'[h] = AddPile(draws[h], kitty)
  PROVE  /\ Held(w, draws') = Held(w, draws) + Weigh(w, kitty)
         /\ Held(w, draws) \in Nat /\ Weigh(w, kitty) \in Nat
<1>1. draws'[h] \in Piles
  BY AddPileType
<1>2. /\ Held(w, draws') + Weigh(w, draws[h]) = Held(w, draws) + Weigh(w, draws'[h])
      /\ Held(w, draws') \in Nat /\ Held(w, draws) \in Nat /\ Weigh(w, draws[h]) \in Nat
  BY <1>1, HeldChange
<1>3. Weigh(w, draws'[h]) = Weigh(w, draws[h]) + Weigh(w, kitty)
  BY WeighAdd
<1>4. Weigh(w, kitty) \in Nat
  BY WeighType
<1> QED
  BY <1>2, <1>3, <1>4

LEMMA ReadyDealt ==
  ASSUME TypeInv, NEW w \in Weights, Dealt(w), NEW p \in Users, Ready(p)
  PROVE  Dealt(w)'
<1>1. phase = "PREPARE" /\ UNCHANGED <<deck, deck_sz, kitty, ndecks>>
  BY DEF Ready
<1>2. CASE UNCHANGED <<phase, draws>>
  BY <1>1, <1>2 DEF Dealt, Dealing, Total
<1>3. CASE InstallHost(DefaultHost)
  <2>0. DefaultHost \in Users /\ host' = DefaultHost
    <3>1. host' \in Users \cup {NULL}
      BY ReadyTypes DEF TypeOK, RoundTypes
    <3>2. host' = DefaultHost /\ DefaultHost # NULL
      BY <1>3 DEF InstallHost
    <3> QED BY <3>1, <3>2
  <2>1. PICK h \in Users : /\ phase' = "KITTY" /\ host' = h
                           /\ draws' = IF draws[h] = NULL THEN draws
                                       ELSE [draws EXCEPT ![h] = AddPile(draws[h], kitty)]
    BY <1>3, <2>0 DEF InstallHost
  <2> SUFFICES ASSUME draws'[h] # NULL PROVE Held(w, draws') = Total(w)
    BY <1>1, <2>1 DEF Dealt, Dealing, Total
  <2>2. draws[h] # NULL /\ draws' = [draws EXCEPT ![h] = AddPile(draws[h], kitty)]
    BY <2>1
  <2>3. /\ Held(w, draws') = Held(w, draws) + Weigh(w, kitty)
        /\ Held(w, draws) \in Nat /\ Weigh(w, kitty) \in Nat
    <3>1. draws[h] \in Piles /\ kitty \in Piles /\ draws \in Holdings /\ h \in Users
      BY <2>1, <2>2, DealTypesAre DEF Holdings
    <3>2. AddPile(draws[h], kitty) \in Piles
      BY <3>1, AddPileType
    <3>3. Swaps(h, draws, draws') /\ draws'[h] = AddPile(draws[h], kitty)
      BY <2>2, <3>1, <3>2, SwapsIs
    <3> QED BY <3>1, <3>3, KittyTaken
  <2>4. Weigh(w, PileOf(deck)) + Held(w, draws) + Weigh(w, kitty) = Total(w)
    BY <1>1 DEF Dealt, Dealing
  <2>5. Weigh(w, PileOf(deck)) = 0
    BY <1>1, PileOfNone, WeighEmpty DEF Dealt
  <2> QED BY <2>3, <2>4, <2>5
<1> QED
  BY <1>2, <1>3 DEF Ready

\* The host puts some cards aside, and what they had is now in the hands.
LEMMA ReplaceKittyKeeps ==
  ASSUME TypeInv, NEW w \in Weights, Dealt(w), NEW p \in Users,
         NEW k \in SubPiles(draws[p], Size(kitty)), ReplaceKitty(p, k)
  PROVE  Held(w, hands') + Weigh(w, kitty') = Total(w)'
<1>1. /\ phase = "KITTY" /\ p = host /\ draws[p] # NULL /\ ndecks' = ndecks
      /\ kitty' = k /\ Contains(draws[p], k) /\ hands' = [draws EXCEPT ![p] = TakePile(draws[p], k)]
  BY DEF ReplaceKitty, lobbyVars
<1>2. draws \in Holdings /\ draws[p] \in Piles
  BY <1>1, DealTypesAre DEF Holdings
<1>3. k \in Piles /\ TakePile(draws[p], k) \in Piles
  BY <1>1, <1>2, SubPileIs, ContainedType
<1>4. Swaps(p, draws, hands') /\ hands'[p] = TakePile(draws[p], k)
  BY <1>1, <1>2, <1>3, SwapsIs
<1>5. /\ Held(w, hands') + Weigh(w, draws[p]) = Held(w, draws) + Weigh(w, hands'[p])
      /\ Held(w, hands') \in Nat /\ Held(w, draws) \in Nat
      /\ Weigh(w, draws[p]) \in Nat /\ Weigh(w, hands'[p]) \in Nat
  BY <1>2, <1>3, <1>4, HeldChange
<1>6. Weigh(w, draws[p]) = Weigh(w, hands'[p]) + Weigh(w, k)
  BY <1>1, <1>2, <1>3, <1>4, WeighTake
<1>7. Held(w, draws) = Total(w)
  BY <1>1 DEF Dealt
<1>8. Weigh(w, k) \in Nat /\ Total(w)' = Total(w)
  BY <1>1, <1>3, WeighType DEF Total
<1>9. Held(w, hands') + Weigh(w, k) = Total(w)
  BY <1>5, <1>6, <1>7, <1>8
<1> QED
  BY <1>1, <1>8, <1>9

LEMMA PrepareDealt ==
  ASSUME TypeInv, TypeInv', NEW w \in Weights, Dealt(w), NEW p \in Users, Prepare(p)
  PROVE  Dealt(w)'
<1>1. CASE StartGame(p)
  <2>1. /\ ResetRound(players', order', ndecks', owner, FALSE) /\ phase' = "DRAW"
        /\ nplayers \in Nat \ {0} /\ players' \in Seatings
    <3>1. nplayers >= MinPlayers /\ players \in Seq(Users)
      BY <1>1 DEF StartGame, TypeInv, SeatsInv
    <3>2. nplayers \in Nat \ {0}
      BY <3>1, Numbers DEF nplayers
    <3> QED BY <1>1, <3>2 DEF StartGame
  <2>2. Len(players') \in Nat \ {0}
    BY <1>1, <2>1, StartGameSize DEF nplayers
  <2>3. ndecks' \in Nat
    BY DEF TypeInv, TypeOK, TableTypes
  <2> QED BY <2>1, <2>2, <2>3, ResetDealt
<1>2. CASE DrawCard(p)
  BY <1>2, DrawCardDealt
<1>3. CASE \E c \in StdDeck, n \in 1..ndecks : BidTrump(p, c, n)
  BY <1>3 DEF BidTrump, lobbyVars, Dealt, Dealing, Total
<1>4. CASE RequestRedeal(p)
  <2>1. /\ ResetRound(players, order, ndecks, p, FALSE) /\ phase' = "DRAW" /\ ndecks' = ndecks
        /\ phase = "PREPARE" /\ draws[p] # NULL
    BY <1>4 DEF RequestRedeal, lobbyVars
  <2>2. Len(players) \in Nat \ {0} /\ ndecks \in Nat
    <3>1. p \in Seated /\ players \in Seq(Users)
      BY <2>1 DEF TypeInv, SeatTypes, DealtSeats, SeatsInv
    <3> QED BY <3>1, EmptyTable DEF TypeInv, TypeOK, TableTypes
  <2> QED BY <2>1, <2>2, ResetDealt
<1>5. CASE Ready(p)
  BY <1>5, ReadyDealt
<1>6. CASE \E k \in SubPiles(draws[p], Size(kitty)) : ReplaceKitty(p, k)
  <2>1. PICK k \in SubPiles(draws[p], Size(kitty)) : ReplaceKitty(p, k)
    BY <1>6
  <2>2. Held(w, hands') + Weigh(w, kitty') = Total(w)'
    BY <2>1, ReplaceKittyKeeps
  <2>3. phase' \in {"FRIEND", "LEAD"}
    BY <2>1 DEF ReplaceKitty
  <2> QED BY <2>2, <2>3 DEF Dealt, Dealing
<1>7. CASE \E calls \in Calls : CallFriends(p, calls)
  BY <1>7 DEF CallFriends, Dealt, Dealing
<1> QED
  BY <1>1, <1>2, <1>3, <1>4, <1>5, <1>6, <1>7 DEF Prepare

LEMMA DealtNext ==
  ASSUME TypeInv, TypeInv', NEW w \in Weights, Dealt(w), [Next]_vars
  PROVE  Dealt(w)'
<1>1. CASE UNCHANGED vars
  BY <1>1 DEF vars, lobbyVars, dealVars, Dealt, Dealing, Total
<1>2. ASSUME NEW p \in Users, Configure(p) PROVE Dealt(w)'
  <2>1. Lobby /\ phase' = phase
    BY <1>2 DEF Configure, AddPlayer, RmPlayer, SetDecks, SetRuleMods, SetRank, roundVars
  <2> QED BY <2>1 DEF Lobby, Dealt, Dealing
<1>3. ASSUME NEW p \in Users, PlayTrick(p) PROVE Dealt(w)'
  <2>1. phase' \in Tricks \cup {"FINISH"}
    BY <1>3, PlaysDetect
  <2> QED BY <2>1 DEF Tricks, Dealt, Dealing
<1>4. ASSUME NEW p \in Users, Conclude(p) PROVE Dealt(w)'
  <2>1. CASE EndRound(p) \/ NextReady(p)
    BY <2>1 DEF EndRound, NextReady, Dealt, Dealing
  <2>2. CASE NextRound(p)
    <3>1. /\ ResetRound(players, order, ndecks, host, TRUE) /\ phase' = "DRAW" /\ ndecks' = ndecks
          /\ nplayers >= MinPlayers
      BY <2>2 DEF NextRound, lobbyVars
    <3>2. Len(players) \in Nat \ {0} /\ ndecks \in Nat
      BY <3>1, Numbers DEF TypeInv, SeatsInv, TypeOK, TableTypes, nplayers
    <3> QED BY <3>1, <3>2, ResetDealt
  <2> QED BY <1>4, <2>1, <2>2 DEF Conclude
<1> QED
  BY <1>1, <1>2, <1>3, <1>4, PrepareDealt DEF Next

DealtInv == \A w \in Weights : Dealt(w)

LEMMA DealtAlways == ASSUME "joins again" \notin Habits PROVE Spec => []DealtInv
<1>1. Init => DealtInv
  BY DEF Init, DealtInv, Dealt, Dealing
<1>2. TypeInv /\ TypeInv' /\ DealtInv /\ [Next]_vars => DealtInv'
  BY DealtNext DEF DealtInv
<1> QED
  BY <1>1, <1>2, TypeInvariant, PTL DEF Spec

-----------------------------------------------------------------------------
(* The deal *)

\* What is dealt goes round: the kitty takes what would be left over.
LEMMA KittyEven ==
  ASSUME NEW n \in Nat \ {0}, NEW nd \in Nat
  PROVE  \E a \in Int : nd * Cardinality(StdDeck) - kitty_sz(n, nd) = n * a
<1> DEFINE all   == nd * Cardinality(StdDeck)
           rest  == all % n
           first == IF rest = 0 THEN n ELSE rest
           low   == IF first > KittyHigh THEN first - n ELSE first
           more  == (KittyLow - low) \div n + 1
<1>1. all \in Nat
  BY StdDeckAssumption, FS_CardinalityType, TimesNat
<1>2. kitty_sz(n, nd) = IF low > KittyLow THEN low ELSE low + n * more
  BY DEF kitty_sz
<1> HIDE DEF all
<1>3. all = n * (all \div n) + rest /\ all \div n \in Int /\ rest \in 0..(n - 1)
  BY <1>1
<1> DEFINE q == all \div n
<1> HIDE DEF q
<1>4. all = n * q + rest /\ q \in Int /\ rest \in 0..(n - 1)
  BY <1>3 DEF q
<1> HIDE DEF rest
<1>5. \A x, y \in Int : n * (x - y) = n * x - n * y /\ n * 1 = n /\ n * 0 = 0
  OBVIOUS
<1>6. \E j \in Int : low = rest + n * j
  <2>1. first = rest + n * 0 \/ first = rest + n * 1
    BY <1>4, <1>5
  <2>2. PICK j \in {0, 1} : first = rest + n * j
    BY <2>1
  <2>3. first \in Int /\ n * j \in Int
    BY <1>4, <2>2
  <2> HIDE DEF first
  <2>4. CASE first > KittyHigh
    <3>1. low = rest + n * (j - 1) /\ j - 1 \in Int
      <4>1. n * (j - 1) = n * j - n * 1 /\ n * 1 = n
        BY <1>5, <2>2
      <4>2. low = first - n
        BY <2>4
      <4> HIDE DEF low
      <4> QED BY <1>4, <2>2, <2>3, <4>1, <4>2
    <3> QED BY <3>1
  <2>5. CASE ~(first > KittyHigh)
    <3>1. low = rest + n * j /\ j \in Int
      BY <2>2, <2>5
    <3> HIDE DEF low
    <3> QED BY <3>1
  <2> QED BY <2>4, <2>5
<1>7. PICK j \in Int : low = rest + n * j
  BY <1>6
<1> HIDE DEF low
<1>8. low \in Int
  BY <1>4, <1>7
<1>9. more \in Int
  BY <1>8, Numbers
<1> HIDE DEF more
<1>10. CASE low > KittyLow
  <2>1. all - kitty_sz(n, nd) = n * (q - j)
    BY <1>2, <1>4, <1>5, <1>7, <1>10
  <2> QED BY <1>4, <2>1 DEF all
<1>11. CASE ~(low > KittyLow)
  <2>1. kitty_sz(n, nd) = low + n * more
    BY <1>2, <1>11
  <2>2. n * (q - j) = n * q - n * j /\ n * ((q - j) - more) = n * (q - j) - n * more /\ q - j \in Int
    BY <1>4, <1>5, <1>7, <1>9
  <2>3. n * q \in Int /\ n * j \in Int /\ n * more \in Int
    BY <1>4, <1>7, <1>9
  <2>4. all - kitty_sz(n, nd) = n * ((q - j) - more)
    BY <1>4, <1>7, <2>1, <2>2, <2>3
  <2> QED BY <1>4, <1>7, <1>9, <2>4 DEF all
<1> QED
  BY <1>10, <1>11

\* No host leaves between two rounds.
HostStays == "host leaves" \notin Habits

\* The a-th lap is under way and began at s: the first m have one card more.
LapAt(s, m, e, a) ==
  /\ Len(deck) = nplayers * a - m
  /\ cur_idx = order[Turn(s, m)]
  /\ \A k \in 0..(nplayers - 1) :
       Weigh(Each, draws[Turn(s, k)]) = IF k < m THEN e + 1 ELSE e
  /\ host # NULL /\ HostStays => s = host
Laps == \E s \in Seated, m \in 0..(nplayers - 1), e \in Nat, a \in Nat : LapAt(s, m, e, a)

\* (A host who left between rounds may have left an index behind that is nobody's:
\* then nobody draws.)
LapsInv ==
  /\ phase = "DRAW" /\ deck # <<>> /\ current # NULL => Laps
  /\ phase = "PREPARE" => Laps

LEMMA SeatAround ==
  ASSUME NEW ps \in Seq(Users), ps # <<>>, NEW o \in Nat, NEW k \in Nat
  PROVE  ps[((o + k) % Len(ps)) + 1] \in Range(ps)
<1>1. Len(ps) \in Nat \ {0} /\ o + k \in Nat
  OBVIOUS
<1>2. (o + k) % Len(ps) \in 0..(Len(ps) - 1)
  BY <1>1
<1>3. ((o + k) % Len(ps)) + 1 \in DOMAIN ps
  BY <1>1, <1>2
<1> QED
  BY <1>3 DEF Range

LEMMA NatFactor ==
  ASSUME NEW x \in Nat \ {0}, NEW y \in Int, x * y > 0 PROVE y \in Nat
<1> SUFFICES ASSUME y < 0 PROVE FALSE
  OBVIOUS
<1>1. x * (0 - y) >= 0
  <2>1. 0 - y \in Nat /\ x \in Nat
    OBVIOUS
  <2> DEFINE z == 0 - y
  <2> HIDE DEF z
  <2>2. z \in Nat => x * z \in Nat
    BY <2>1, TimesNat
  <2> QED BY <2>1, <2>2 DEF z
<1>2. x * (0 - y) = 0 - x * y
  OBVIOUS
<1>3. x * y \in Int
  OBVIOUS
<1> QED
  BY <1>1, <1>2, <1>3

\* A new deck, without its kitty, goes round some number of times.
LEMMA ResetDeck ==
  ASSUME NEW n \in Nat \ {0}, NEW ps, n = Len(ps), NEW ord, NEW nd \in Nat, NEW starting,
         NEW is_host, ResetRound(ps, ord, nd, starting, is_host), deck' # <<>>
  PROVE  \E a \in Nat : Len(deck') = n * a
<1>1. nd \in DOMAIN Shuffles
  BY DEF ResetRound
<1>2. PICK d \in Shuffles[nd] :
        LET l == Len(d) - kitty_sz(Len(ps), nd)
        IN  deck' = SubSeq(d, 1, l) /\ deck_sz' = l
  BY DEF ResetRound
<1>3. PICK l : l = Len(d) - kitty_sz(n, nd) /\ deck' = SubSeq(d, 1, l)
  BY <1>2
<1>4. Len(deck') = l /\ l \in Nat \ {0}
  <2>1. Each \in Weights
    BY WeightsAre
  <2> QED BY <1>1, <1>3, <2>1, DealtAnew
<1>5. Len(d) = nd * Cardinality(StdDeck)
  BY <1>1, WholeDeck, WeightsAre
<1>6. PICK a \in Int : l = n * a
  BY <1>3, <1>5, KittyEven
<1>7. a \in Nat
  BY <1>4, <1>6, NatFactor
<1> QED
  BY <1>4, <1>6, <1>7

\* Who sits k seats on from the one with the index c.
LEMMA SeatsFrom ==
  ASSUME NEW ps \in Seq(Users), NEW n \in Nat \ {0}, n = Len(ps), NEW c \in 0..(n - 1)
  PROVE  /\ \A k \in 0..(n - 1) : ps[((c + k) % n) + 1] \in Range(ps)
         /\ ps[((c + 0) % n) + 1] = ps[c + 1]
         /\ ps[c + 1] \in Range(ps) /\ Range(ps) \subseteq Users
<1>1. ASSUME NEW k \in 0..(n - 1) PROVE ps[((c + k) % n) + 1] \in Range(ps)
  <2>1. ps # <<>> /\ c \in Nat /\ k \in Nat
    OBVIOUS
  <2> QED BY <2>1, SeatAround
<1>2. c + 0 = c /\ c % n = c
  OBVIOUS
<1>3. 0 \in 0..(n - 1)
  OBVIOUS
<1>4. Range(ps) \subseteq Users
  BY DEF Range
<1> QED
  BY <1>1, <1>2, <1>3, <1>4

LEMMA ResetLaps ==
  ASSUME TypeInv', NEW starting, NEW is_host, phase' = "DRAW",
         ResetRound(players', order', ndecks', starting, is_host),
         host' # NULL /\ HostStays => starting \in Seated' /\ host' = starting
  PROVE  LapsInv'
<1> SUFFICES ASSUME deck' # <<>>, current' # NULL PROVE Laps'
  BY DEF LapsInv
<1>0. PICK ps, ord, nd : ps = players' /\ ord = order' /\ nd = ndecks'
  OBVIOUS
<1>1. /\ ps \in Seq(Users) /\ ord \in [Users -> Nat \cup {NULL}] /\ nd \in Nat
      /\ \A i \in DOMAIN ps : ord[ps[i]] = i - 1
      /\ ResetRound(ps, ord, nd, starting, is_host)
  BY <1>0 DEF TypeInv, TypeOK, TableTypes, SeatsInv
<1>2. PICK n \in Nat : n = Len(ps)
  BY <1>1
<1>3. PICK c \in Nat \cup {NULL} : c = cur_idx'
  BY DEF TypeInv, TypeOK, RoundTypes
<1>4. c \in Nat /\ c < n /\ c = ord[starting]
  <2>1. cur_idx' # NULL /\ cur_idx' < Len(ps)
    BY <1>0 DEF current, nplayers
  <2>2. c = ord[starting]
    BY <1>1, <1>3 DEF ResetRound
  <2> QED BY <1>2, <1>3, <2>1, <2>2
<1>5. n \in Nat \ {0} /\ c \in 0..(n - 1) /\ DOMAIN ps = 1..n
  <2>1. n \in Nat /\ DOMAIN ps = 1..n
    BY <1>1, <1>2
  <2> QED BY <1>4, <2>1
<1>6. PICK s : s = ps[c + 1]
  OBVIOUS
<1>7. /\ \A k \in 0..(n - 1) : ps[((c + k) % n) + 1] \in Range(ps)
      /\ ps[((c + 0) % n) + 1] = s
      /\ s \in Range(ps) /\ Range(ps) \subseteq Users
  BY <1>1, <1>2, <1>5, <1>6, SeatsFrom
<1>8. ord[s] = c
  <2>1. c + 1 \in 1..n /\ (c + 1) - 1 = c
    BY <1>5
  <2> QED BY <1>1, <1>5, <1>6, <2>1
<1>9. PICK a \in Nat : Len(deck') = n * a
  BY <1>1, <1>2, <1>5, ResetDeck
<1>10. \A k : Turn(s, k)' = ps[((c + k) % n) + 1]
  BY <1>0, <1>2, <1>8 DEF Turn, nplayers
<1>11. ASSUME NEW k \in 0..(n - 1) PROVE Weigh(Each, draws'[Turn(s, k)']) = 0
  <2>1. Turn(s, k)' \in Range(ps) /\ Turn(s, k)' \in Users
    BY <1>7, <1>10
  <2>2. draws' = [u \in Users |-> IF u \in Range(ps) THEN EmptyPile ELSE NULL]
    BY <1>1 DEF ResetRound
  <2>3. draws'[Turn(s, k)'] = EmptyPile
    BY <2>1, <2>2
  <2> QED BY <2>3, WeighEmpty, WeightsAre
<1>12. c = order'[Turn(s, 0)']
  BY <1>0, <1>7, <1>8, <1>10
<1>13. host' # NULL /\ HostStays => s = host'
  <2> SUFFICES ASSUME host' # NULL, HostStays PROVE s = host'
    OBVIOUS
  <2>1. starting \in Range(ps) /\ host' = starting
    BY <1>0 DEF Seated
  <2>3. PICK i \in 1..n : starting = ps[i]
    BY <1>5, <2>1 DEF Range
  <2>4. ord[starting] = i - 1
    BY <1>1, <1>5, <2>3
  <2>5. c = i - 1 /\ c \in Int /\ i \in Int
    BY <1>4, <2>3, <2>4
  <2>6. i = c + 1
    BY <2>5
  <2> QED BY <1>6, <2>1, <2>3, <2>6
<1>14. LapAt(s, 0, 0, a)'
  <2>1. Len(deck') = n * a - 0
    <3>1. n * a \in Nat
      BY <1>5, TimesNat
    <3> DEFINE x == n * a
    <3> HIDE DEF x
    <3>2. x \in Nat => x - 0 = x
      OBVIOUS
    <3> QED BY <1>9, <3>1, <3>2 DEF x
  <2>2. \A k \in 0..(n - 1) : Weigh(Each, draws'[Turn(s, k)']) = IF k < 0 THEN 0 + 1 ELSE 0
    BY <1>11
  <2> QED BY <1>0, <1>2, <1>3, <1>12, <1>13, <2>1, <2>2 DEF LapAt, nplayers
<1>15. s \in Seated' /\ 0 \in 0..(nplayers' - 1)
  BY <1>0, <1>2, <1>5, <1>7 DEF Seated, nplayers
<1>16. (\E q \in Seated, m \in 0..(nplayers - 1), e \in Nat, b \in Nat : LapAt(q, m, e, b))'
  BY <1>14, <1>15
<1> QED
  BY <1>16 DEF Laps

\* The same after a step that leaves the table alone.
LapThen(s, m, e, a) ==
  /\ Len(deck') = nplayers * a - m
  /\ cur_idx' = order[Turn(s, m)]
  /\ \A k \in 0..(nplayers - 1) :
       Weigh(Each, draws'[Turn(s, k)]) = IF k < m THEN e + 1 ELSE e
  /\ host # NULL /\ HostStays => s = host

LEMMA LapsStay ==
  ASSUME UNCHANGED <<players, order, host>>, NEW s \in Seated, NEW m \in 0..(nplayers - 1),
         NEW e \in Nat, NEW a \in Nat, LapThen(s, m, e, a)
  PROVE  Laps'
<1>1. \A k : Turn(s, k)' = Turn(s, k)
  BY DEF Turn, nplayers
<1>2. nplayers' = nplayers /\ Seated' = Seated
  BY DEF nplayers, Seated
<1>3. LapAt(s, m, e, a)'
  BY <1>1, <1>2 DEF LapThen, LapAt
<1>4. (\E q \in Seated, i \in 0..(nplayers - 1), x \in Nat, b \in Nat : LapAt(q, i, x, b))'
  BY <1>2, <1>3
<1> QED
  BY <1>4 DEF Laps

\* The turn is with somebody at the table.
LEMMA TurnIsCurrent ==
  ASSUME TypeInv, phase # "INIT", NEW s \in Seated, NEW k \in 0..nplayers,
         cur_idx = order[Turn(s, k)]
  PROVE  current = Turn(s, k) /\ Turn(s, k) \in Seated /\ current # NULL
<1>1. Turn(s, k) \in Seated
  BY Ring
<1>2. /\ cur_idx \in 0..(nplayers - 1) /\ Turn(s, k) = players[cur_idx + 1]
      /\ Turn(s, k) \in Users
  BY <1>1, OrderOfSeated
<1>3. nplayers \in Nat
  BY Ring
<1>4. cur_idx # NULL /\ cur_idx < nplayers /\ Turn(s, k) # NULL
  <2>1. NULL \notin Users \cup Nat
    BY ZpyAssumption
  <2>2. cur_idx \in Nat /\ cur_idx < nplayers
    BY <1>2, <1>3
  <2> QED BY <1>2, <2>1, <2>2
<1> QED
  BY <1>1, <1>2, <1>4 DEF current

\* One card more for one of them.
LEMMA DrawnSizes ==
  ASSUME TypeInv, NEW p \in Users, DrawCard(p)
  PROVE  /\ Weigh(Each, draws'[p]) = Weigh(Each, draws[p]) + 1
         /\ \A u \in Users : u # p => draws'[u] = draws[u]
         /\ Len(deck') = Len(deck) - 1 /\ Len(deck) \in Nat \ {0}
<1> DEFINE one == PileOf(<<deck[Len(deck)]>>)
<1>1. /\ draws[p] \in Piles /\ Len(deck) \in Nat \ {0} /\ deck[Len(deck)] \in StdDeck
      /\ Len(deck') = Len(deck) - 1
      /\ one \in Piles /\ draws' = [draws EXCEPT ![p] = AddPile(draws[p], one)]
  BY DrawnIs
<1>2. Weigh(Each, one) = 1
  BY <1>1, SizeOfOne
<1> HIDE DEF one
<1>3. draws \in Holdings
  BY DealTypesAre
<1>4. draws'[p] = AddPile(draws[p], one) /\ \A u \in Users : u # p => draws'[u] = draws[u]
  BY <1>1, <1>3 DEF Holdings
<1>5. Weigh(Each, AddPile(draws[p], one)) = Weigh(Each, draws[p]) + Weigh(Each, one)
  BY <1>1, WeighAdd, WeightsAre
<1> QED
  BY <1>1, <1>2, <1>4, <1>5

LEMMA DrawCardLaps ==
  ASSUME TypeInv, LapsInv, NEW p \in Users, DrawCard(p)
  PROVE  LapsInv'
<1>1. /\ phase = "DRAW" /\ p = current /\ deck # <<>> /\ UNCHANGED <<players, order, host>>
      /\ cur_idx' = next_player_idx(cur_idx) /\ phase' \in {"DRAW", "PREPARE"}
  BY DEF DrawCard, lobbyVars
<1>2. current # NULL
  BY <1>1, ZpyAssumption
<1>3. PICK s \in Seated, m \in 0..(nplayers - 1), e \in Nat, a \in Nat : LapAt(s, m, e, a)
  BY <1>1, <1>2 DEF LapsInv, Laps
<1>4. nplayers \in Nat \ {0} /\ Turn(s, nplayers) = s /\ Turn(s, 0) = s
  BY <1>1, Ring
<1>5. /\ Len(deck) = nplayers * a - m /\ cur_idx = order[Turn(s, m)]
      /\ \A k \in 0..(nplayers - 1) :
           Weigh(Each, draws[Turn(s, k)]) = IF k < m THEN e + 1 ELSE e
      /\ host # NULL /\ HostStays => s = host
  BY <1>3 DEF LapAt
<1>6. p = Turn(s, m)
  <2>1. m \in 0..nplayers
    BY <1>4
  <2> QED BY <1>1, <1>5, <2>1, TurnIsCurrent
<1>7. /\ Weigh(Each, draws'[p]) = Weigh(Each, draws[p]) + 1
      /\ \A u \in Users : u # p => draws'[u] = draws[u]
      /\ Len(deck') = Len(deck) - 1 /\ Len(deck) \in Nat \ {0}
  BY DrawnSizes
<1>8. cur_idx' = order[Turn(s, m + 1)]
  BY <1>1, <1>5, RingNext
<1>9. ASSUME NEW k \in 0..(nplayers - 1)
      PROVE  Weigh(Each, draws'[Turn(s, k)]) = IF k <= m THEN e + 1 ELSE e
  <2>1. Turn(s, k) \in Users
    <3>1. k \in 0..nplayers
      BY <1>4
    <3> QED BY <1>1, <3>1, Ring, SeatedUsers
  <2>2. CASE k = m
    BY <1>5, <1>6, <1>7, <2>2
  <2>3. CASE k # m
    <3>1. Turn(s, k) # Turn(s, m)
      BY <1>1, <2>3, RingOnce
    <3>2. draws'[Turn(s, k)] = draws[Turn(s, k)]
      BY <1>6, <1>7, <2>1, <3>1
    <3> QED BY <1>5, <2>3, <3>2
  <2> QED BY <2>2, <2>3
<1> DEFINE n == nplayers
<1>10. n \in Nat \ {0} /\ m \in 0..(n - 1) /\ Len(deck') = n * a - m - 1 /\ n * a - m > 0
       /\ n * a \in Int
  BY <1>4, <1>5, <1>7
<1>11. CASE m + 1 < n
  <2>1. m + 1 \in 0..(n - 1)
    BY <1>10, <1>11
  <2>2. Len(deck') = n * a - (m + 1)
    BY <1>10
  <2>3. \A k \in 0..(n - 1) : Weigh(Each, draws'[Turn(s, k)]) = IF k < m + 1 THEN e + 1 ELSE e
    BY <1>9, <1>10
  <2>4. LapThen(s, m + 1, e, a)
    BY <1>5, <1>8, <2>2, <2>3 DEF LapThen
  <2>5. Laps'
    BY <1>1, <2>1, <2>4, LapsStay
  <2> QED BY <2>5 DEF LapsInv
<1>12. CASE m + 1 = n
  <2>1. a # 0
    BY <1>10, <1>12
  <2>2. a - 1 \in Nat /\ e + 1 \in Nat /\ 0 \in 0..(n - 1)
    BY <1>10, <2>1
  <2>3. Len(deck') = n * (a - 1) - 0
    <3>1. n * (a - 1) = n * a - n
      BY <1>10
    <3> QED BY <1>10, <1>12, <3>1
  <2>4. \A k \in 0..(n - 1) : Weigh(Each, draws'[Turn(s, k)]) = IF k < 0 THEN (e + 1) + 1 ELSE e + 1
    BY <1>9, <1>10, <1>12
  <2>5. LapThen(s, 0, e + 1, a - 1)
    BY <1>4, <1>5, <1>8, <1>12, <2>3, <2>4 DEF LapThen
  <2>6. Laps'
    BY <1>1, <2>2, <2>5, LapsStay
  <2> QED BY <2>6 DEF LapsInv
<1>13. m + 1 < n \/ m + 1 = n
  BY <1>10
<1> QED
  BY <1>11, <1>12, <1>13

LEMMA PrepareLaps ==
  ASSUME TypeInv, TypeInv', LapsInv, NEW p \in Users, Prepare(p)
  PROVE  LapsInv'
<1>1. CASE StartGame(p)
  <2>1. ResetRound(players', order', ndecks', owner, FALSE) /\ phase' = "DRAW"
    BY <1>1 DEF StartGame
  <2>2. host' = NULL
    BY <2>1 DEF ResetRound
  <2> QED BY <2>1, <2>2, ResetLaps
<1>2. CASE DrawCard(p)
  BY <1>2, DrawCardLaps
<1>3. CASE \E c \in StdDeck, n \in 1..ndecks : BidTrump(p, c, n)
  <2>1. /\ UNCHANGED <<phase, players, order, host, deck, draws, cur_idx>>
    BY <1>3 DEF BidTrump, lobbyVars
  <2> QED BY <2>1 DEF LapsInv, Laps, LapAt, Turn, Seated, nplayers, current
<1>4. CASE RequestRedeal(p)
  <2>1. /\ ResetRound(players, order, ndecks, p, FALSE) /\ phase' = "DRAW"
        /\ UNCHANGED <<players, order, ndecks>>
    BY <1>4 DEF RequestRedeal, lobbyVars
  <2>2. host' = NULL /\ ResetRound(players', order', ndecks', p, FALSE)
    BY <2>1 DEF ResetRound
  <2> QED BY <2>1, <2>2, ResetLaps
<1>5. CASE Ready(p)
  <2>1. phase = "PREPARE"
    BY <1>5 DEF Ready
  <2>2. CASE phase' = "PREPARE"
    <3>1. UNCHANGED <<phase, players, order, host, deck, draws, cur_idx>>
      BY <1>5, <2>1, <2>2 DEF Ready, InstallHost
    <3> QED BY <3>1 DEF LapsInv, Laps, LapAt, Turn, Seated, nplayers, current
  <2>3. CASE phase' # "PREPARE"
    <3>1. phase' = "KITTY"
      BY <1>5, <2>1, <2>3 DEF Ready, InstallHost
    <3> QED BY <3>1 DEF LapsInv
  <2> QED BY <2>2, <2>3
<1>6. CASE \E k \in SubPiles(draws[p], Size(kitty)) : ReplaceKitty(p, k)
  BY <1>6 DEF ReplaceKitty, LapsInv
<1>7. CASE \E calls \in Calls : CallFriends(p, calls)
  BY <1>7 DEF CallFriends, LapsInv
<1> QED
  BY <1>1, <1>2, <1>3, <1>4, <1>5, <1>6, <1>7 DEF Prepare

LEMMA LapsNext ==
  ASSUME TypeInv, TypeInv', HostStays => OwnerInv, LapsInv, [Next]_vars
  PROVE  LapsInv'
<1>1. CASE UNCHANGED vars
  BY <1>1 DEF vars, lobbyVars, dealVars, LapsInv, Laps, LapAt, Turn, Seated, nplayers, current
<1>2. ASSUME NEW p \in Users, Configure(p) PROVE LapsInv'
  <2>1. Lobby /\ phase' = phase
    BY <1>2 DEF Configure, AddPlayer, RmPlayer, SetDecks, SetRuleMods, SetRank, roundVars
  <2> QED BY <2>1 DEF Lobby, LapsInv
<1>3. ASSUME NEW p \in Users, PlayTrick(p) PROVE LapsInv'
  <2>1. phase' \in Tricks \cup {"FINISH"}
    BY <1>3, PlaysDetect
  <2> QED BY <2>1 DEF Tricks, LapsInv
<1>4. ASSUME NEW p \in Users, Conclude(p) PROVE LapsInv'
  <2>1. CASE EndRound(p) \/ NextReady(p)
    BY <2>1 DEF EndRound, NextReady, LapsInv
  <2>2. CASE NextRound(p)
    <3>1. /\ ResetRound(players, order, ndecks, host, TRUE) /\ phase' = "DRAW"
          /\ UNCHANGED <<players, order, ndecks>> /\ phase = "WAIT"
      BY <2>2 DEF NextRound, lobbyVars
    <3>2. host' = host /\ ResetRound(players', order', ndecks', host, TRUE)
      BY <3>1 DEF ResetRound
    <3>3. HostStays => host \in Seated'
      BY <3>1 DEF OwnerInv, Seated
    <3> QED BY <3>1, <3>2, <3>3, ResetLaps
  <2> QED BY <1>4, <2>1, <2>2 DEF Conclude
<1> QED
  BY <1>1, <1>2, <1>3, <1>4, PrepareLaps DEF Next

LEMMA LapsAlways == ASSUME "joins again" \notin Habits PROVE Spec => []LapsInv
<1>1. Init => LapsInv
  BY DEF Init, LapsInv
<1>2. TypeInv /\ TypeInv' /\ (HostStays => OwnerInv) /\ LapsInv /\ [Next]_vars => LapsInv'
  BY LapsNext
<1>3. CASE HostStays
  <2>1. Spec => []OwnerInv
    BY <1>3, OwnerAlways DEF HostStays
  <2>2. TypeInv /\ TypeInv' /\ OwnerInv /\ LapsInv /\ [Next]_vars => LapsInv'
    BY <1>2
  <2> QED BY <1>1, <2>1, <2>2, TypeInvariant, PTL DEF Spec
<1>4. CASE ~HostStays
  <2>1. TypeInv /\ TypeInv' /\ LapsInv /\ [Next]_vars => LapsInv'
    BY <1>2, <1>4
  <2> QED BY <1>1, <2>1, TypeInvariant, PTL DEF Spec
<1> QED
  BY <1>3, <1>4

\* When the deck is drawn, the lap is complete.
LEMMA LapsDone ==
  ASSUME TypeInv, LapsInv, Dealt(Each), phase = "PREPARE"
  PROVE  /\ \A p, q \in Seated : CardCount(draws[p]) = CardCount(draws[q])
         /\ host # NULL /\ HostStays => current = host
         /\ current # NULL
         /\ \E e \in Nat : \A u \in Seated : Weigh(Each, draws[u]) = e /\ draws[u] \in Piles
<1>1. PICK s \in Seated, m \in 0..(nplayers - 1), e \in Nat, a \in Nat : LapAt(s, m, e, a)
  BY DEF LapsInv, Laps
<1>2. PICK n \in Nat \ {0} : n = nplayers
  BY Ring
<1>3. Turn(s, 0) = s
  BY Ring
<1>4. deck = <<>> /\ Len(deck) = 0
  BY DEF Dealt
<1>5. n * a = m
  <2>1. 0 = n * a - m
    BY <1>1, <1>2, <1>4 DEF LapAt
  <2>2. n * a \in Nat /\ m \in 0..(n - 1)
    BY <1>2, TimesNat
  <2> QED BY <2>1, <2>2
<1>6. m = 0
  <2>1. m \in 0..(n - 1)
    BY <1>2
  <2>2. a # 0 => n * a >= n
    <3> SUFFICES ASSUME a # 0 PROVE n * a >= n
      OBVIOUS
    <3>1. a - 1 \in Nat
      OBVIOUS
    <3>2. n * (a - 1) \in Nat
      BY <3>1, TimesNat
    <3>3. n * (a - 1) = n * a - n /\ n * a \in Int
      OBVIOUS
    <3> QED BY <3>2, <3>3
  <2>3. a = 0 => n * a = 0
    OBVIOUS
  <2> QED BY <1>5, <2>1, <2>2, <2>3
<1>7. current = s /\ current # NULL
  <2>1. 0 \in 0..nplayers
    BY <1>2
  <2>2. cur_idx = order[Turn(s, 0)]
    BY <1>1, <1>6 DEF LapAt
  <2> QED BY <1>3, <2>1, <2>2, TurnIsCurrent
<1>8. ASSUME NEW u \in Seated PROVE Weigh(Each, draws[u]) = e /\ draws[u] \in Piles
  <2>1. PICK k \in 0..(nplayers - 1) : u = Turn(s, k)
    BY RingAll
  <2>2. ~(k < m)
    BY <1>2, <1>6
  <2>3. Weigh(Each, draws[u]) = e
    BY <1>1, <2>1, <2>2 DEF LapAt
  <2>4. draws[u] \in Piles
    BY SeatedUsers DEF TypeInv, SeatTypes, DealtSeats
  <2> QED BY <2>3, <2>4
<1>9. ASSUME NEW u \in Seated PROVE CardCount(draws[u]) = e
  BY <1>8, SizeIs, NotNull DEF CardCount
<1>10. host # NULL /\ HostStays => s = host
  BY <1>1 DEF LapAt
<1> QED
  BY <1>7, <1>8, <1>9, <1>10

\* The deal comes out even: when the deck is drawn, everybody at the table has as
\* many cards as everybody else, and it is the turn of the player who drew first,
\* which is the host if the round began with one.
THEOREM DealEvenAlways ==
  ASSUME "joins again" \notin Habits, HostStays PROVE Spec => []DealEven
<1>1. TypeInv /\ LapsInv /\ DealtInv => DealEven
  BY LapsDone, WeightsAre DEF DealEven, DealtInv
<1> QED
  BY <1>1, DealtAlways, LapsAlways, TypeInvariant, PTL

-----------------------------------------------------------------------------
(* From the hands to the table and back *)

\* q's play leaves the hand, and the friends it finds are found.
Puts(q, play) ==
  /\ plays[q] = NULL /\ play # NULL
  /\ play.cards \in Piles /\ Contains(hands[q], play.cards)
  /\ hands' = [hands EXCEPT ![q] = TakePile(hands[q], play.cards)]
  /\ plays' = [plays EXCEPT ![q] = play]
  /\ DetectFriends(q, play.cards) /\ winning' = Winner(q, play)
  /\ UNCHANGED <<points, leader>>
IsLead(q, play) ==
  phase \in {"LEAD", "FLY"} /\ phase' = "FOLLOW" /\ lead' = play /\ q = leader
IsFollow(q, play) ==
  /\ phase = "FOLLOW" /\ q = current /\ lead' = lead /\ Count(play) = Count(lead)
  /\ phase' = "FOLLOW" \/ (phase' = "FINISH" /\ rules.renege = "AUTOLOSE")
Waits == /\ phase \in {"LEAD", "FLY"} /\ phase' = "FLY"
         /\ UNCHANGED <<hands, plays, points, friendVars, winning, leader>>

LEMMA NoneBeforeLead ==
  ASSUME Regular, PlayInv, phase \in {"LEAD", "FLY"}
  PROVE  leader \in Seated /\ \A u \in Users : plays[u] = NULL
<1>1. /\ phase # "INIT" /\ leader \in Seated /\ nplayers \in Nat /\ nplayers >= 3
  BY SeatedAt DEF Tricks, Regular, PlayInv
<1>2. PICK n \in 0..nplayers : At(n)
  BY SeatedAt DEF Tricks, Regular, PlayInv
<1>3. n = 0 /\ PlayedFrom(leader, 0)
  BY <1>1, <1>2 DEF At
<1>4. 0..(0 - 1) = {}
  OBVIOUS
<1> QED
  BY <1>1, <1>3, <1>4 DEF PlayedFrom

LEMMA PutsLead ==
  ASSUME Regular, PlayInv, phase \in {"LEAD", "FLY"}, NEW q \in Seated, NEW play, play # NULL,
         IsPile(play.cards), q = leader, CommitLead(q, play), UNCHANGED <<points, leader>>
  PROVE  Puts(q, play) /\ IsLead(q, play)
<1>1. /\ Contains(hands[q], play.cards)
      /\ hands' = [hands EXCEPT ![q] = TakePile(hands[q], play.cards)]
      /\ plays' = [plays EXCEPT ![q] = play]
      /\ DetectFriends(q, play.cards) /\ winning' = Winner(q, play)
      /\ phase' = "FOLLOW" /\ lead' = play
  BY DEF CommitLead, CommitPlay
<1>2. play.cards \in Piles
  BY <1>1, HandTaken DEF PlayInv, Tricks
<1>3. plays[q] = NULL
  BY NoneBeforeLead, SeatedUsers DEF PlayInv
<1> QED
  BY <1>1, <1>2, <1>3 DEF Puts, IsLead

LEMMA LeaderLeads ==
  ASSUME Regular, PlayInv, phase = "LEAD", NEW p \in Users, p = current
  PROVE  p = leader
<1>1. leader \in Seated /\ phase # "INIT" /\ nplayers \in Nat /\ nplayers >= 3
  BY SeatedAt DEF Tricks, Regular, PlayInv
<1>2. PICK n \in 0..nplayers : At(n)
  BY SeatedAt DEF Tricks, Regular, PlayInv
<1>3. n = 0
  BY <1>1, <1>2 DEF At
<1>4. p = Turn(leader, 0)
  BY <1>2, <1>3, CurrentIs DEF Tricks, Regular, PlayInv
<1> QED
  BY <1>1, <1>4, Ring DEF PlayInv

LEMMA FollowerFirst ==
  ASSUME Regular, PlayInv, phase \in Tricks, NEW p \in Users, p = current
  PROVE  p \in Seated /\ plays[p] = NULL
<1>1. /\ phase # "INIT" /\ leader \in Seated /\ nplayers \in Nat /\ nplayers >= 3
  BY SeatedAt DEF Regular, PlayInv
<1>2. PICK n \in 0..nplayers : At(n)
  BY SeatedAt DEF Regular, PlayInv
<1>3. n \in 0..(nplayers - 1) /\ p = Turn(leader, n)
  BY <1>2, CurrentIs DEF Regular, PlayInv
<1>4. plays[p] # NULL <=> \E k \in 0..(n - 1) : p = Turn(leader, k)
  BY <1>2 DEF At, PlayedFrom
<1>5. \A k \in 0..(n - 1) : k \in 0..(nplayers - 1) /\ k # n
  BY <1>1, <1>3
<1>6. \A k \in 0..(n - 1) : Turn(leader, k) # Turn(leader, n)
  BY <1>1, <1>3, <1>5, RingOnce DEF PlayInv
<1>7. p \in Seated
  BY CurrentSeated DEF PlayInv
<1> QED
  BY <1>3, <1>4, <1>6, <1>7

\* Every step of a trick is a play, a play taken back, the end of the trick, or
\* another word about a fly.
LEMMA PlayMoves ==
  ASSUME Regular, PlayInv, NEW p \in Users, PlayTrick(p)
  PROVE  /\ UNCHANGED <<rules, players, order, host, kitty, ndecks>>
         /\ \/ Waits
            \/ \E q \in Seated : \E play : Puts(q, play) /\ (IsLead(q, play) \/ IsFollow(q, play))
            \/ UndoPlay(p)
            \/ CollectTrick(p)
<1>1. CASE \E play \in LeadsOf(p) : LeadPlay(p, play)
  <2>1. PICK play \in LeadsOf(p) : LeadPlay(p, play)
    BY <1>1
  <2>2. /\ phase = "LEAD" /\ p = current /\ UNCHANGED <<rules, players, order, host, kitty, ndecks, points, leader>>
    BY <2>1 DEF LeadPlay, lobbyVars, dealVars
  <2>3. play # NULL /\ IsPile(play.cards) /\ p \in Seated
    BY <2>1, <2>2, LeadIs, LeadsOfIs, CurrentSeated DEF Regular, PlayInv
  <2>4. CASE CommitLead(p, play)
    <3>1. p = leader
      BY <2>2, LeaderLeads
    <3> QED BY <2>2, <2>3, <2>4, <3>1, PutsLead
  <2>5. CASE ~CommitLead(p, play)
    BY <2>1, <2>2, <2>5 DEF LeadPlay, Waits
  <2> QED BY <2>4, <2>5
<1>2. CASE \E t \in TractorsIn(tr, hands[p], FlightSuit(lead)) : ContestFly(p, t)
  <2>1. PICK t : ContestFly(p, t)
    BY <1>2
  <2>2. PICK play : play = Flight(tr, <<Smallest(t)>>)
    OBVIOUS
  <2>3. /\ phase = "FLY" /\ CommitLead(leader, play)
        /\ UNCHANGED <<rules, players, order, host, kitty, ndecks, points, leader>>
    BY <2>1, <2>2 DEF ContestFly, lobbyVars, dealVars
  <2>4. play # NULL /\ IsPile(play.cards)
    <3>1. play # NULL
      BY <2>2, FlightIs DEF Regular
    <3>2. play.cards = TractorsPile(tr, <<Smallest(t)>>)
      BY <2>2 DEF Flight
    <3> QED BY <3>1, <3>2, TractorsPileIs
  <2>5. leader \in Seated
    BY <2>3, NoneBeforeLead
  <2> QED BY <2>3, <2>4, <2>5, PutsLead
<1>3. CASE PassContest(p)
  <2>1. phase = "FLY" /\ UNCHANGED <<rules, players, order, host, kitty, ndecks, points, leader>>
    BY <1>3 DEF PassContest, lobbyVars, dealVars
  <2>2. lead # NULL /\ lead.cards \in Piles /\ leader \in Seated
    BY <2>1, NoneBeforeLead DEF PlayInv, FlyInv, TypeInv, SeatTypes, FlyTypes, PlayOK
  <2>3. IsPile(lead.cards)
    BY <2>2 DEF IsPile, Piles
  <2>4. CASE CommitLead(leader, lead)
    BY <2>1, <2>2, <2>3, <2>4, PutsLead
  <2>5. CASE ~CommitLead(leader, lead)
    BY <1>3, <2>1, <2>5 DEF PassContest, Waits
  <2> QED BY <2>4, <2>5
<1>4. CASE \E play \in FollowsOf(p) : FollowLead(p, play)
  <2>1. PICK play \in FollowsOf(p) : FollowLead(p, play)
    BY <1>4
  <2>2. /\ phase = "FOLLOW" /\ p = current /\ lead' = lead
        /\ UNCHANGED <<rules, players, order, host, kitty, ndecks, points, leader>>
        /\ Contains(hands[p], play.cards) /\ Count(play) = Count(lead)
        /\ hands' = [hands EXCEPT ![p] = TakePile(hands[p], play.cards)]
    BY <2>1 DEF FollowLead, lobbyVars, dealVars
  <2>3. play # NULL /\ IsPile(play.cards) /\ p \in Seated /\ plays[p] = NULL
    BY <2>1, <2>2, FollowIs, FollowsOfIs, FollowerFirst DEF Regular, PlayInv, Tricks
  <2>4. play.cards \in Piles
    BY <2>2, <2>3, HandTaken DEF PlayInv, Tricks
  <2>5. PICK best : best = BestPlay(tr, hands[p], lead, play) /\ CommitPlay(p, best)
    BY <2>1 DEF FollowLead
  <2>6. best # NULL /\ best.cards = play.cards
    <3>1. best # NULL
      BY <2>3, <2>5, BestPlayIs DEF Regular
    <3>2. BestPlay(tr, hands[p], lead, play).cards = play.cards
      BY BestPlayCards
    <3> QED BY <2>5, <3>1, <3>2
  <2>7. Puts(p, best)
    BY <2>2, <2>3, <2>4, <2>5, <2>6 DEF Puts, CommitPlay
  <2>8. phase' = "FOLLOW" \/ (phase' = "FINISH" /\ rules.renege = "AUTOLOSE")
    <3>1. rules.renege \in {"FORBID", "ACCUSE", "AUTOLOSE"}
      BY DEF PlayInv, TypeInv, TypeOK, TableTypes, Rules
    <3>2. \/ phase' = "FOLLOW"
          \/ phase' = "FINISH" /\ rules.renege # "FORBID" /\ rules.renege # "ACCUSE"
      BY <2>1, Zenon DEF FollowLead
    <3>3. rules.renege # "FORBID" /\ rules.renege # "ACCUSE" => rules.renege = "AUTOLOSE"
      BY <3>1
    <3> QED BY <3>2, <3>3, Zenon
  <2>9. IsFollow(p, best)
    BY <2>2, <2>6, <2>8 DEF IsFollow, Count
  <2> QED BY <2>2, <2>3, <2>7, <2>9
<1>5. CASE UndoPlay(p)
  BY <1>5 DEF UndoPlay, lobbyVars, dealVars
<1>6. CASE CollectTrick(p)
  BY <1>6 DEF CollectTrick, lobbyVars, dealVars
<1> QED
  BY <1>1, <1>2, <1>3, <1>4, <1>5, <1>6 DEF PlayTrick

\* What u has in hand and on the table.
OnTable(w, u) == IF plays[u] = NULL THEN 0 ELSE Weigh(w, plays[u].cards)
Has(w, u) == Share(w, hands[u]) + OnTable(w, u)

LEMMA PlayTypes ==
  ASSUME TypeInv, NEW w \in Weights, NEW u \in Users
  PROVE  /\ OnTable(w, u) \in Nat /\ Share(w, hands[u]) \in Nat /\ Has(w, u) \in Nat
         /\ plays[u] # NULL => plays[u].cards \in Piles
         /\ DOMAIN plays = Users /\ hands \in Holdings
<1>1. /\ plays[u] # NULL => plays[u].cards \in Piles
      /\ DOMAIN plays = Users
  BY DEF TypeInv, TypeOK, TrickTypes, PlayOK
<1>2. hands \in Holdings /\ hands[u] \in Piles \cup {NULL}
  BY DealTypesAre DEF Holdings
<1>3. OnTable(w, u) \in Nat /\ Share(w, hands[u]) \in Nat
  BY <1>1, <1>2, WeighType, ShareType DEF OnTable
<1>4. \A x, y \in Nat : x + y \in Nat
  OBVIOUS
<1> QED
  BY <1>1, <1>2, <1>3, <1>4 DEF Has

\* A play changes hands, and takes nothing from anybody.
LEMMA PutsKeeps ==
  ASSUME TypeInv, phase \in Tricks, NEW w \in Weights, NEW q \in Seated, NEW play, Puts(q, play)
  PROVE  /\ \A u \in Users : Has(w, u)' = Has(w, u)
         /\ Share(w, hands[q]) = Share(w, hands'[q]) + Weigh(w, play.cards)
         /\ Weigh(w, play.cards) \in Nat /\ Swaps(q, hands, hands')
         /\ plays'[q] = play /\ \A u \in Users : u # q => plays'[u] = plays[u]
<1>1. /\ q \in Users /\ hands[q] \in Piles /\ DOMAIN plays = Users /\ hands \in Holdings
  BY SeatedUsers, PlayTypes DEF TypeInv, SeatTypes, PlaySeats
<1>2. /\ plays[q] = NULL /\ play # NULL
      /\ play.cards \in Piles /\ Contains(hands[q], play.cards)
      /\ hands' = [hands EXCEPT ![q] = TakePile(hands[q], play.cards)]
      /\ plays' = [plays EXCEPT ![q] = play]
  BY DEF Puts
<1>3. TakePile(hands[q], play.cards) \in Piles
  BY <1>1, <1>2, ContainedType DEF IsPile, Piles
<1>4. Swaps(q, hands, hands') /\ hands'[q] = TakePile(hands[q], play.cards)
  <2>1. PICK x \in Piles : x = TakePile(hands[q], play.cards)
    BY <1>3
  <2>2. hands' = [hands EXCEPT ![q] = x]
    BY <1>2, <2>1
  <2>3. hands \in Holdings /\ q \in Users
    BY <1>1
  <2>4. Swaps(q, hands, hands') /\ hands'[q] = x
    BY <2>1, <2>2, <2>3, SwapsIs, ZenonT(60)
  <2> QED BY <2>1, <2>4
<1>5. Weigh(w, hands[q]) = Weigh(w, hands'[q]) + Weigh(w, play.cards)
  BY <1>1, <1>2, <1>4, WeighTake
<1>6. /\ Share(w, hands[q]) = Weigh(w, hands[q]) /\ Share(w, hands'[q]) = Weigh(w, hands'[q])
      /\ Weigh(w, hands'[q]) \in Nat /\ Weigh(w, play.cards) \in Nat
  BY <1>1, <1>2, <1>3, <1>4, ShareType, WeighType
<1>7. plays'[q] = play /\ \A u \in Users : u # q => plays'[u] = plays[u]
  BY <1>1, <1>2
<1>8. Has(w, q)' = Has(w, q)
  <2>1. OnTable(w, q) = 0 /\ OnTable(w, q)' = Weigh(w, play.cards)
    BY <1>2, <1>7 DEF OnTable
  <2>2. Has(w, q) = Share(w, hands[q]) + OnTable(w, q)
    BY DEF Has
  <2>3. Has(w, q)' = Share(w, hands'[q]) + OnTable(w, q)'
    BY DEF Has
  <2> QED BY <1>5, <1>6, <2>1, <2>2, <2>3
<1>9. ASSUME NEW u \in Users, u # q PROVE Has(w, u)' = Has(w, u)
  <2>1. plays'[u] = plays[u] /\ hands'[u] = hands[u]
    BY <1>4, <1>7, <1>9 DEF Swaps
  <2> QED BY <2>1 DEF Has, OnTable
<1> QED
  BY <1>4, <1>5, <1>6, <1>7, <1>8, <1>9

\* Nor does a play that is taken back.
LEMMA UndoKeeps ==
  ASSUME TypeInv, NEW w \in Weights, NEW q \in Users, UndoPlay(q)
  PROVE  /\ \A u \in Users : Has(w, u)' = Has(w, u)
         /\ plays'[q] = NULL /\ \A u \in Users : u # q => plays'[u] = plays[u]
<1>1. /\ plays[q] # NULL /\ phase \in Tricks
      /\ hands' = [hands EXCEPT ![q] = AddPile(hands[q], plays[q].cards)]
      /\ plays' = [plays EXCEPT ![q] = NULL]
  BY DEF UndoPlay, CheckUndo, Tricks
<1>2. /\ hands[q] \in Piles /\ DOMAIN plays = Users /\ hands \in Holdings
      /\ plays[q].cards \in Piles
  BY <1>1, PlayTypes, WeightsAre DEF TypeInv, SeatTypes, PlaySeats, TrickSeats
<1>3. AddPile(hands[q], plays[q].cards) \in Piles
  BY <1>2, AddPileType
<1>4. Swaps(q, hands, hands') /\ hands'[q] = AddPile(hands[q], plays[q].cards)
  <2>1. PICK x \in Piles : x = AddPile(hands[q], plays[q].cards)
    BY <1>3
  <2>2. hands' = [hands EXCEPT ![q] = x]
    BY <1>1, <2>1
  <2>3. hands \in Holdings
    BY <1>2
  <2>4. Swaps(q, hands, hands') /\ hands'[q] = x
    BY <2>1, <2>2, <2>3, SwapsIs, ZenonT(60)
  <2> QED BY <2>1, <2>4
<1>5. Weigh(w, hands'[q]) = Weigh(w, hands[q]) + Weigh(w, plays[q].cards)
  BY <1>2, <1>4, WeighAdd
<1>6. /\ Share(w, hands[q]) = Weigh(w, hands[q]) /\ Share(w, hands'[q]) = Weigh(w, hands'[q])
      /\ Weigh(w, hands[q]) \in Nat /\ Weigh(w, plays[q].cards) \in Nat
  BY <1>2, <1>3, <1>4, ShareType, WeighType
<1>7. plays'[q] = NULL /\ \A u \in Users : u # q => plays'[u] = plays[u]
  BY <1>1, <1>2
<1>8. Has(w, q)' = Has(w, q)
  <2>1. OnTable(w, q) = Weigh(w, plays[q].cards) /\ OnTable(w, q)' = 0
    BY <1>1, <1>7 DEF OnTable
  <2>2. Has(w, q) = Share(w, hands[q]) + OnTable(w, q)
    BY DEF Has
  <2>3. Has(w, q)' = Share(w, hands'[q]) + OnTable(w, q)'
    BY DEF Has
  <2> QED BY <1>5, <1>6, <2>1, <2>2, <2>3
<1>9. ASSUME NEW u \in Users, u # q PROVE Has(w, u)' = Has(w, u)
  <2>1. plays'[u] = plays[u] /\ hands'[u] = hands[u]
    BY <1>4, <1>7, <1>9 DEF Swaps
  <2> QED BY <2>1 DEF Has, OnTable
<1> QED
  BY <1>7, <1>8, <1>9

\* A trick is collected when all at the table have played.
LEMMA AllPlayed ==
  ASSUME TypeInv, phase = "FOLLOW", trick_over(plays)
  PROVE  \A u \in Seated : plays[u] # NULL
<1> DEFINE S == {u \in Users : plays[u] # NULL}
<1>1. S \subseteq Seated /\ Cardinality(S) = nplayers
  BY DEF trick_over, TypeInv, SeatTypes, TrickSeats, Tricks
<1>2. IsFiniteSet(Seated) /\ Cardinality(Seated) = nplayers
  BY SeatedSize
<1>3. S = Seated
  <2> HIDE DEF S
  <2> QED BY <1>1, <1>2, FS_Subset
<1> QED
  BY <1>3

-----------------------------------------------------------------------------
(* Even hands *)

HandsInv ==
  /\ phase = "KITTY" /\ draws[host] # NULL =>
       \E e \in Nat : \A u \in Seated :
         Weigh(Each, draws[u]) = IF u = host THEN e + Weigh(Each, kitty) ELSE e
  /\ phase \in Tricks \cup {"FRIEND"} => \E e \in Nat : \A u \in Seated : Has(Each, u) = e
  /\ phase = "FOLLOW" =>
       \A u \in Seated : plays[u] # NULL => OnTable(Each, u) = Weigh(Each, lead.cards)
  /\ phase = "FOLLOW" => lead # NULL
  /\ phase = "FINISH" /\ rules.renege # "AUTOLOSE" =>
       \A u \in Seated : Share(Each, hands[u]) = 0

LEMMA ReadyHands ==
  ASSUME TypeInv, TypeInv', LapsInv, DealtInv, NEW p \in Users, Ready(p)
  PROVE  HandsInv'
<1>1. phase = "PREPARE" /\ UNCHANGED <<players, kitty>>
  BY DEF Ready, lobbyVars
<1>2. CASE phase' = "PREPARE"
  BY <1>2 DEF HandsInv, Tricks
<1>3. CASE phase' # "PREPARE"
  <2>1. InstallHost(DefaultHost)
    BY <1>1, <1>3 DEF Ready
  <2>2. PICK h : h = DefaultHost
    OBVIOUS
  <2>3. /\ phase' = "KITTY" /\ host' = h
        /\ draws' = IF draws[h] = NULL THEN draws
                    ELSE [draws EXCEPT ![h] = AddPile(draws[h], kitty)]
    BY <2>1, <2>2 DEF InstallHost
  <2>4. h \in Users
    <3>1. host' \in Users \cup {NULL} /\ host' # NULL
      BY <2>1 DEF InstallHost, TypeInv, TypeOK, RoundTypes
    <3> QED BY <2>3, <3>1
  <2> SUFFICES ASSUME draws'[h] # NULL
               PROVE  \E e \in Nat : \A u \in Seated :
                        Weigh(Each, draws'[u]) = IF u = h THEN e + Weigh(Each, kitty) ELSE e
    <3>1. Seated' = Seated /\ kitty' = kitty
      BY <1>1 DEF Seated
    <3> QED BY <2>3, <3>1 DEF HandsInv, Tricks
  <2>5. PICK e \in Nat : \A u \in Seated : Weigh(Each, draws[u]) = e /\ draws[u] \in Piles
    BY <1>1, LapsDone, WeightsAre DEF DealtInv
  <2>6. draws[h] # NULL /\ draws' = [draws EXCEPT ![h] = AddPile(draws[h], kitty)]
    BY <2>3
  <2>7. draws \in Holdings /\ draws[h] \in Piles /\ kitty \in Piles
    BY <2>4, <2>6, DealTypesAre
  <2>8. draws'[h] = AddPile(draws[h], kitty) /\ \A u \in Users : u # h => draws'[u] = draws[u]
    BY <2>4, <2>6, <2>7 DEF Holdings
  <2>9. Weigh(Each, draws'[h]) = Weigh(Each, draws[h]) + Weigh(Each, kitty)
    BY <2>7, <2>8, WeighAdd, WeightsAre
  <2>10. ASSUME NEW u \in Seated
         PROVE  Weigh(Each, draws'[u]) = IF u = h THEN e + Weigh(Each, kitty) ELSE e
    BY <2>5, <2>8, <2>9, SeatedUsers
  <2> QED BY <2>10
<1> QED
  BY <1>2, <1>3

LEMMA ReplaceKittyHands ==
  ASSUME TypeInv, HandsInv, NEW p \in Users, NEW k \in SubPiles(draws[p], Size(kitty)),
         ReplaceKitty(p, k)
  PROVE  HandsInv'
<1>1. /\ phase = "KITTY" /\ p = host /\ draws[p] # NULL /\ Contains(draws[p], k)
      /\ Size(k) = Size(kitty) /\ UNCHANGED <<players, plays>>
      /\ hands' = [draws EXCEPT ![p] = TakePile(draws[p], k)]
      /\ phase' \in {"FRIEND", "LEAD"}
  BY DEF ReplaceKitty, lobbyVars
<1>2. PICK e \in Nat : \A u \in Seated :
        Weigh(Each, draws[u]) = IF u = p THEN e + Weigh(Each, kitty) ELSE e
  BY <1>1 DEF HandsInv
<1>3. draws \in Holdings /\ draws[p] \in Piles /\ kitty \in Piles
  BY <1>1, DealTypesAre
<1>4. k \in Piles /\ TakePile(draws[p], k) \in Piles
  BY <1>1, <1>3, SubPileIs, ContainedType
<1>5. hands'[p] = TakePile(draws[p], k) /\ \A u \in Users : u # p => hands'[u] = draws[u]
  <2>1. PICK x : x = TakePile(draws[p], k)
    OBVIOUS
  <2>2. hands' = [draws EXCEPT ![p] = x]
    BY <1>1, <2>1
  <2>3. hands'[p] = x /\ \A u \in Users : u # p => hands'[u] = draws[u]
    BY <1>3, <2>2 DEF Holdings
  <2> QED BY <2>1, <2>3
<1>6. Weigh(Each, draws[p]) = Weigh(Each, hands'[p]) + Weigh(Each, k)
  BY <1>1, <1>3, <1>4, <1>5, WeighTake, WeightsAre
<1>7. Weigh(Each, k) = Weigh(Each, kitty)
  BY <1>1, <1>3, <1>4, SizeIs
<1>8. Weigh(Each, hands'[p]) \in Nat /\ Weigh(Each, k) \in Nat
  BY <1>4, <1>5, WeighType, WeightsAre
<1>9. ASSUME NEW u \in Seated PROVE Has(Each, u)' = e
  <2>1. plays'[u] = NULL /\ u \in Users
    BY <1>1, SeatedUsers DEF TypeInv, SeatTypes, NoTrick, NoPlays
  <2>2. Has(Each, u)' = Share(Each, hands'[u]) + 0
    BY <2>1 DEF Has, OnTable
  <2>3. hands'[u] \in Piles /\ draws[u] \in Piles
    BY <1>1, <1>4, <1>5, <2>1 DEF TypeInv, SeatTypes, DealtSeats
  <2>4. Share(Each, hands'[u]) = Weigh(Each, hands'[u])
    BY <2>3, ShareType, WeightsAre
  <2>5. CASE u = p
    BY <1>2, <1>6, <1>7, <1>8, <2>2, <2>4, <2>5
  <2>6. CASE u # p
    <3>1. Weigh(Each, hands'[u]) = e
      BY <1>2, <1>5, <2>1, <2>6
    <3> QED BY <2>2, <2>4, <3>1
  <2> QED BY <2>5, <2>6
<1>10. Seated' = Seated
  BY <1>1 DEF Seated
<1> QED
  BY <1>1, <1>9, <1>10 DEF HandsInv, Tricks

LEMMA PutsHands ==
  ASSUME Regular, PlayInv, PlayInv', HandsInv, NEW q \in Seated, NEW play, Puts(q, play),
         IsLead(q, play) \/ IsFollow(q, play), UNCHANGED <<players, rules>>
  PROVE  HandsInv'
<1>1. phase \in Tricks /\ phase' \in {"FOLLOW", "FINISH"} /\ TypeInv
  BY DEF IsLead, IsFollow, Tricks, PlayInv
<1>2. PICK e \in Nat : \A u \in Seated : Has(Each, u) = e
  BY <1>1 DEF HandsInv
<1>3. /\ \A u \in Users : Has(Each, u)' = Has(Each, u)
      /\ plays'[q] = play /\ \A u \in Users : u # q => plays'[u] = plays[u]
  BY <1>1, PutsKeeps, WeightsAre
<1>4. Seated' = Seated /\ Seated \subseteq Users
  BY <1>1, SeatedUsers DEF Seated
<1>5. \A u \in Seated' : Has(Each, u)' = e
  BY <1>2, <1>3, <1>4
<1>6. CASE IsLead(q, play)
  <2>1. \A u \in Users : plays[u] = NULL
    BY <1>6, NoneBeforeLead DEF IsLead
  <2>2. lead' = play /\ play # NULL /\ phase' = "FOLLOW"
    BY <1>6 DEF IsLead, Puts
  <2>3. \A u \in Seated' : plays'[u] # NULL => OnTable(Each, u)' = Weigh(Each, lead'.cards)
    BY <1>3, <1>4, <2>1, <2>2 DEF OnTable
  <2> QED BY <1>5, <2>2, <2>3 DEF HandsInv
<1>7. CASE IsFollow(q, play)
  <2>1. /\ phase = "FOLLOW" /\ lead' = lead /\ Count(play) = Count(lead) /\ lead # NULL
        /\ phase' = "FOLLOW" \/ (phase' = "FINISH" /\ rules.renege = "AUTOLOSE")
    BY <1>7 DEF IsFollow, HandsInv
  <2>2. play.cards \in Piles /\ lead.cards \in Piles
    BY <1>1, <2>1 DEF Puts, TypeInv, TypeOK, TrickTypes, PlayOK
  <2>3. Weigh(Each, play.cards) = Weigh(Each, lead.cards)
    BY <2>1, <2>2, SizeIs DEF Count
  <2>4. \A u \in Seated' : plays'[u] # NULL => OnTable(Each, u)' = Weigh(Each, lead'.cards)
    <3> SUFFICES ASSUME NEW u \in Seated, plays'[u] # NULL
                 PROVE  OnTable(Each, u)' = Weigh(Each, lead.cards)
      BY <1>4, <2>1
    <3>1. CASE u = q
      BY <1>3, <2>3, <3>1 DEF OnTable
    <3>2. CASE u # q
      <4>1. plays'[u] = plays[u]
        BY <1>3, <1>4, <3>2
      <4> QED BY <2>1, <4>1 DEF OnTable, HandsInv
    <3> QED BY <3>1, <3>2
  <2>5. rules' = rules
    OBVIOUS
  <2>6. CASE phase' = "FOLLOW"
    BY <1>5, <2>1, <2>4, <2>6 DEF HandsInv
  <2>7. CASE phase' = "FINISH" /\ rules.renege = "AUTOLOSE"
    BY <2>5, <2>7 DEF HandsInv, Tricks
  <2> QED BY <2>1, <2>6, <2>7
<1> QED
  BY <1>6, <1>7

LEMMA UndoHands ==
  ASSUME TypeInv, HandsInv, NEW p \in Users, UndoPlay(p)
  PROVE  HandsInv'
<1>1. phase = "FOLLOW" /\ phase' = "FOLLOW" /\ UNCHANGED <<players, lead>>
  BY DEF UndoPlay, lobbyVars
<1>2. PICK e \in Nat : \A u \in Seated : Has(Each, u) = e
  BY <1>1 DEF HandsInv, Tricks
<1>3. /\ \A u \in Users : Has(Each, u)' = Has(Each, u)
      /\ plays'[p] = NULL /\ \A u \in Users : u # p => plays'[u] = plays[u]
  BY UndoKeeps, WeightsAre
<1>4. Seated' = Seated /\ Seated \subseteq Users
  BY <1>1, SeatedUsers DEF Seated
<1>5. \A u \in Seated' : Has(Each, u)' = e
  BY <1>2, <1>3, <1>4
<1>6. ASSUME NEW u \in Seated, plays'[u] # NULL
      PROVE  OnTable(Each, u)' = Weigh(Each, lead.cards)
  <2>1. plays'[u] = plays[u]
    BY <1>3, <1>4, <1>6
  <2> QED BY <1>1, <1>6, <2>1 DEF OnTable, HandsInv
<1>7. lead # NULL
  BY <1>1 DEF HandsInv
<1> QED
  BY <1>1, <1>4, <1>5, <1>6, <1>7 DEF HandsInv

LEMMA CollectHands ==
  ASSUME TypeInv, HandsInv, NEW p \in Users, CollectTrick(p)
  PROVE  HandsInv'
<1>1. /\ phase = "FOLLOW" /\ trick_over(plays) /\ UNCHANGED <<players, rules, hands>>
      /\ \/ phase' = "FINISH" /\ Size(hands[leader]) = 0
         \/ phase' = "LEAD" /\ plays' = NoPlays
  BY DEF CollectTrick, lobbyVars
<1>2. PICK e \in Nat : \A u \in Seated : Has(Each, u) = e
  BY <1>1 DEF HandsInv, Tricks
<1>3. Seated' = Seated /\ Seated \subseteq Users /\ leader \in Seated
  BY <1>1, SeatedUsers DEF Seated, TypeInv, SeatTypes, TrickSeats, Tricks
<1>4. PICK c : c = Weigh(Each, lead.cards)
  OBVIOUS
<1>5. ASSUME NEW u \in Seated PROVE Share(Each, hands[u]) \in Nat /\ Share(Each, hands[u]) + c = e
  <2>1. OnTable(Each, u) = c
    BY <1>1, <1>4, AllPlayed DEF HandsInv
  <2>2. Has(Each, u) = e
    BY <1>2
  <2>3. Share(Each, hands[u]) \in Nat
    BY <1>3, PlayTypes, WeightsAre
  <2> QED BY <2>1, <2>2, <2>3 DEF Has
<1>6. PICK d \in Nat : d = Share(Each, hands[leader])
  BY <1>3, <1>5
<1>7. c \in Nat
  <2>1. OnTable(Each, leader) = c
    BY <1>1, <1>3, <1>4, AllPlayed DEF HandsInv
  <2> QED BY <1>3, <2>1, PlayTypes, WeightsAre
<1>8. \A u \in Seated : Share(Each, hands[u]) = d
  BY <1>3, <1>5, <1>6, <1>7
<1>9. CASE phase' = "FINISH" /\ Size(hands[leader]) = 0
  <2>1. hands[leader] \in Piles
    BY <1>1, <1>3 DEF TypeInv, SeatTypes, PlaySeats, Tricks
  <2>2. d = 0
    BY <1>6, <1>9, <2>1, SizeIs, ShareType, WeightsAre
  <2> QED BY <1>1, <1>3, <1>8, <1>9, <2>2 DEF HandsInv, Tricks
<1>10. CASE phase' = "LEAD" /\ plays' = NoPlays
  <2>1. ASSUME NEW u \in Seated PROVE Has(Each, u)' = d
    <3>1. OnTable(Each, u)' = 0
      BY <1>3, <1>10 DEF OnTable, NoPlays
    <3>2. Share(Each, hands'[u]) = d
      BY <1>1, <1>8
    <3> QED BY <3>1, <3>2 DEF Has
  <2> QED BY <1>3, <1>10, <2>1 DEF HandsInv
<1> QED
  BY <1>1, <1>9, <1>10

LEMMA HandsNext ==
  ASSUME Regular, PlayInv, PlayInv', LapsInv, DealtInv, HandsInv, [Next]_vars
  PROVE  HandsInv'
<1>0. TypeInv /\ TypeInv'
  BY DEF PlayInv
<1>1. CASE UNCHANGED vars
  BY <1>1 DEF vars, lobbyVars, dealVars, trickVars, HandsInv, Has, OnTable, Seated
<1>2. ASSUME NEW p \in Users, Configure(p) PROVE HandsInv'
  <2>1. Lobby /\ phase' = phase
    BY <1>2 DEF Configure, AddPlayer, RmPlayer, SetDecks, SetRuleMods, SetRank, roundVars
  <2> QED BY <2>1 DEF Lobby, HandsInv, Tricks
<1>3. ASSUME NEW p \in Users, Prepare(p) PROVE HandsInv'
  <2>1. CASE StartGame(p) \/ DrawCard(p) \/ RequestRedeal(p)
    <3>1. phase' \in {"DRAW", "PREPARE"}
      BY <2>1 DEF StartGame, DrawCard, RequestRedeal
    <3> QED BY <3>1 DEF HandsInv, Tricks
  <2>2. CASE phase \in {"DRAW", "PREPARE"} /\ \E c \in StdDeck, n \in 1..ndecks : BidTrump(p, c, n)
    <3>1. phase' \in {"DRAW", "PREPARE"}
      BY <2>2 DEF BidTrump
    <3> QED BY <3>1 DEF HandsInv, Tricks
  <2>3. CASE Ready(p)
    BY <1>0, <2>3, ReadyHands
  <2>4. CASE \E k \in SubPiles(draws[p], Size(kitty)) : ReplaceKitty(p, k)
    BY <1>0, <2>4, ReplaceKittyHands
  <2>5. CASE \E calls \in Calls : CallFriends(p, calls)
    <3>1. phase = "FRIEND" /\ phase' = "LEAD" /\ UNCHANGED <<players, hands, plays>>
      BY <2>5 DEF CallFriends, lobbyVars
    <3> QED BY <3>1 DEF HandsInv, Has, OnTable, Seated, Tricks
  <2> QED BY <1>3, <2>1, <2>2, <2>3, <2>4, <2>5 DEF Prepare
<1>4. ASSUME NEW p \in Users, PlayTrick(p) PROVE HandsInv'
  <2>1. /\ UNCHANGED <<rules, players, host, kitty, ndecks>>
        /\ \/ Waits
           \/ \E q \in Seated : \E play : Puts(q, play) /\ (IsLead(q, play) \/ IsFollow(q, play))
           \/ UndoPlay(p)
           \/ CollectTrick(p)
    BY <1>4, PlayMoves
  <2>2. CASE Waits
    BY <2>1, <2>2 DEF Waits, HandsInv, Has, OnTable, Seated, Tricks
  <2>3. CASE \E q \in Seated : \E play : Puts(q, play) /\ (IsLead(q, play) \/ IsFollow(q, play))
    BY <2>1, <2>3, PutsHands
  <2> QED BY <1>0, <2>1, <2>2, <2>3, UndoHands, CollectHands
<1>5. ASSUME NEW p \in Users, Conclude(p) PROVE HandsInv'
  BY <1>5 DEF Conclude, EndRound, NextReady, NextRound, HandsInv, Tricks
<1> QED
  BY <1>1, <1>2, <1>3, <1>4, <1>5 DEF Next

LEMMA HandsAlways == ASSUME Regular PROVE Spec => []HandsInv
<1>1. Init => HandsInv
  BY DEF Init, HandsInv, Tricks
<1>2. PlayInv /\ PlayInv' /\ LapsInv /\ DealtInv /\ HandsInv /\ [Next]_vars => HandsInv'
  BY HandsNext
<1>3. Spec => []LapsInv /\ []DealtInv
  <2>1. "joins again" \notin Habits
    BY DEF Regular
  <2> QED BY <2>1, LapsAlways, DealtAlways, PTL
<1> QED
  BY <1>1, <1>2, <1>3, PlayAlways, PTL DEF Spec

\* Hands are even: in every trick all at the table have as many cards as the others,
\* with what they have played, and unless a renege ended the round, all hands are
\* empty when it is over.
THEOREM HandsEvenAlways == ASSUME Regular PROVE Spec => []HandsEven
<1>1. ASSUME TypeInv, HandsInv PROVE HandsEven
  <2>1. ASSUME NEW u \in Seated, phase \in Tricks \cup {"FINISH"}
        PROVE  /\ CardCount(hands[u]) = Share(Each, hands[u])
               /\ (IF plays[u] = NULL THEN 0 ELSE Count(plays[u])) = OnTable(Each, u)
    <3>1. hands[u] \in Piles /\ u \in Users
      BY <1>1, <2>1, SeatedUsers DEF TypeInv, SeatTypes, PlaySeats
    <3>2. plays[u] # NULL => plays[u].cards \in Piles
      BY <1>1, <3>1, PlayTypes, WeightsAre
    <3>3. CardCount(hands[u]) = Share(Each, hands[u])
      BY <3>1, SizeIs, NotNull DEF CardCount, Share
    <3> QED BY <3>2, <3>3, SizeIs DEF OnTable, Count
  <2>2. phase \in Tricks => \E e \in Nat : \A u \in Seated : Has(Each, u) = e
    BY <1>1 DEF HandsInv
  <2>3. phase \in Tricks => \A p, q \in Seated :
          CardCount(hands[p]) + (IF plays[p] = NULL THEN 0 ELSE Count(plays[p])) =
          CardCount(hands[q]) + (IF plays[q] = NULL THEN 0 ELSE Count(plays[q]))
    BY <2>1, <2>2 DEF Has
  <2> QED BY <1>1, <2>1, <2>3 DEF HandsEven, HandsInv
<1> QED
  BY <1>1, TypeInvariant, HandsAlways, PTL DEF Regular

-----------------------------------------------------------------------------
(* Points *)

\* What all have in hand and on the table, what is on the table, and the points
\* that were taken in tricks.
Spread(w) == SumFunctionOnSet([u \in Users |-> Has(w, u)], Users)
Tabled(w) == SumFunctionOnSet([u \in Users |-> OnTable(w, u)], Users)
Taken == SumFunctionOnSet(points, Users)

LEMMA SpreadIs ==
  ASSUME TypeInv, NEW w \in Weights
  PROVE  /\ Spread(w) = Held(w, hands) + Tabled(w)
         /\ Spread(w) \in Nat /\ Held(w, hands) \in Nat /\ Tabled(w) \in Nat
<1> DEFINE f == [u \in Users |-> Share(w, hands[u])]
           g == [u \in Users |-> OnTable(w, u)]
           h == [u \in Users |-> Has(w, u)]
<1>1. \A u \in Users : f[u] \in Nat /\ g[u] \in Nat /\ h[u] \in Nat /\ h[u] = f[u] + g[u]
  BY PlayTypes DEF Has
<1>2. /\ SumFunctionOnSet(h, Users) = SumFunctionOnSet(f, Users) + SumFunctionOnSet(g, Users)
      /\ SumFunctionOnSet(f, Users) \in Nat /\ SumFunctionOnSet(g, Users) \in Nat
      /\ SumFunctionOnSet(h, Users) \in Nat
  <2> HIDE DEF f, g, h
  <2>1. \A u \in Users : f[u] \in Int /\ g[u] \in Int /\ h[u] = f[u] + g[u]
    BY <1>1
  <2>2. SumFunctionOnSet(h, Users) = SumFunctionOnSet(f, Users) + SumFunctionOnSet(g, Users)
    BY <2>1, SumPlus, UsersFinite
  <2> QED BY <1>1, <2>2, SumNat, UsersFinite
<1> QED
  BY <1>2 DEF f, g, h, Spread, Tabled, Held

\* If nobody gains or loses anything, nor do all together.
LEMMA SpreadStays ==
  ASSUME NEW w \in Weights, \A u \in Users : Has(w, u)' = Has(w, u)
  PROVE  Spread(w)' = Spread(w)
<1> DEFINE f == [u \in Users |-> Has(w, u)']
           g == [u \in Users |-> Has(w, u)]
<1>1. SumFunctionOnSet(f, Users) = SumFunctionOnSet(g, Users)
  <2>1. \A u \in Users : f[u] = g[u]
    OBVIOUS
  <2> HIDE DEF f, g
  <2> QED BY <2>1, SumSame, UsersFinite
<1> QED
  BY <1>1 DEF Spread

\* With nothing on the table, all that is about is in the hands.
LEMMA SpreadOfHands ==
  ASSUME TypeInv, NEW w \in Weights, \A u \in Users : plays[u] = NULL
  PROVE  Spread(w) = Held(w, hands)
<1> DEFINE g == [u \in Users |-> OnTable(w, u)]
<1>1. \A u \in Users : g[u] = 0
  BY DEF OnTable
<1>2. SumFunctionOnSet(g, Users) = 0
  <2> HIDE DEF g
  <2> QED BY <1>1, SumZero, UsersFinite
<1>3. Tabled(w) = 0
  BY <1>2 DEF g, Tabled
<1> QED
  BY <1>3, SpreadIs

Scores == [Users -> Nat]
PointsInv ==
  /\ phase \in {"DRAW", "PREPARE", "KITTY"} => points = [u \in Users |-> 0]
  /\ phase \in Tricks \cup {"FRIEND"} =>
       points \in Scores /\ Taken + Spread(Values) + Weigh(Values, kitty) = Total(Values)
  /\ phase = "FINISH" =>
       /\ points \in Scores
       /\ \/ Taken + Held(Values, hands) + Weigh(Values, kitty) = Total(Values)
          \/ /\ rules.renege = "AUTOLOSE"
             /\ Taken + Spread(Values) + Weigh(Values, kitty) = Total(Values)

LEMMA NoScores ==
  ASSUME points = [u \in Users |-> 0]
  PROVE  points \in Scores /\ Taken = 0
<1>1. points \in Scores /\ \A u \in Users : points[u] = 0
  BY DEF Scores
<1> QED
  BY <1>1, SumZero, UsersFinite DEF Taken

LEMMA TrickPointsAre == ASSUME TypeInv PROVE TrickPoints = Tabled(Values)
<1> DEFINE f == [u \in Users |-> IF plays[u] = NULL THEN 0 ELSE PilePoints(plays[u].cards)]
           g == [u \in Users |-> OnTable(Values, u)]
<1>1. \A u \in Users : f[u] = g[u]
  BY PlayTypes, PointsAre, WeightsAre DEF OnTable
<1>2. SumFunctionOnSet(f, Users) = SumFunctionOnSet(g, Users)
  <2> HIDE DEF f, g
  <2> QED BY <1>1, SumSame, UsersFinite
<1>3. DOMAIN f = Users
  OBVIOUS
<1>4. TrickPoints = SumFunction(f)
  BY DEF TrickPoints
<1>5. SumFunction(f) = SumFunctionOnSet(f, Users)
  <2> HIDE DEF f
  <2> QED BY <1>3 DEF SumFunction
<1> QED
  BY <1>2, <1>4, <1>5 DEF Tabled

LEMMA HandPointsAre == ASSUME TypeInv PROVE HandPoints = Held(Values, hands)
<1> DEFINE f == [u \in Users |-> IF hands[u] = NULL THEN 0 ELSE PilePoints(hands[u])]
           g == [u \in Users |-> Share(Values, hands[u])]
<1>1. \A u \in Users : f[u] = g[u]
  BY DealTypesAre, PointsAre DEF Share, Holdings
<1>2. SumFunctionOnSet(f, Users) = SumFunctionOnSet(g, Users)
  <2> HIDE DEF f, g
  <2> QED BY <1>1, SumSame, UsersFinite
<1>3. DOMAIN f = Users
  OBVIOUS
<1>4. HandPoints = SumFunction(f)
  BY DEF HandPoints
<1>5. SumFunction(f) = SumFunctionOnSet(f, Users)
  <2> HIDE DEF f
  <2> QED BY <1>3 DEF SumFunction
<1> QED
  BY <1>2, <1>4, <1>5 DEF Held

\* The same of the next state.
LEMMA NextSpread ==
  /\ TypeInv' => Held(Values, hands)' \in Nat /\ Weigh(Values, kitty)' \in Nat
  /\ TypeInv' /\ (\A u \in Users : plays[u] = NULL)' => Spread(Values)' = Held(Values, hands)'
  /\ (points = [u \in Users |-> 0])' => (points \in Scores)' /\ (Taken = 0)'
<1>1. TypeInv => Held(Values, hands) \in Nat /\ Weigh(Values, kitty) \in Nat
  BY SpreadIs, DealTypesAre, WeighType, WeightsAre
<1>2. TypeInv /\ (\A u \in Users : plays[u] = NULL) => Spread(Values) = Held(Values, hands)
  BY SpreadOfHands, WeightsAre
<1>3. points = [u \in Users |-> 0] => points \in Scores /\ Taken = 0
  BY NoScores
<1>4. (TypeInv => Held(Values, hands) \in Nat /\ Weigh(Values, kitty) \in Nat)'
  BY <1>1, PTL
<1>5. (TypeInv /\ (\A u \in Users : plays[u] = NULL) => Spread(Values) = Held(Values, hands))'
  BY <1>2, PTL
<1>6. (points = [u \in Users |-> 0] => points \in Scores /\ Taken = 0)'
  BY <1>3, PTL
<1> QED
  BY <1>4, <1>5, <1>6

\* The winner of a trick takes the points on the table.
LEMMA TrickTaken ==
  ASSUME TypeInv, points \in Scores, NEW q \in Users,
         points' = [points EXCEPT ![q] = @ + TrickPoints]
  PROVE  points' \in Scores /\ Taken' = Taken + Tabled(Values) /\ Taken \in Nat
<1>1. PICK t \in Nat : t = Tabled(Values)
  BY SpreadIs, WeightsAre
<1>2. TrickPoints = t
  BY <1>1, TrickPointsAre
<1>3. points' = [points EXCEPT ![q] = points[q] + t]
  BY <1>2
<1>4. /\ points' \in Scores /\ points'[q] = points[q] + t
      /\ \A u \in Users : u # q => points'[u] = points[u]
  BY <1>3 DEF Scores
<1>5. \A u \in Users : points[u] \in Nat /\ points'[u] \in Nat
  BY <1>4 DEF Scores
<1>6. PICK qs : qs = points'
  OBVIOUS
<1>7. SumFunctionOnSet(qs, Users) + points[q] = SumFunctionOnSet(points, Users) + qs[q]
  <2>1. \A u \in Users : points[u] \in Int /\ qs[u] \in Int /\ (u # q => qs[u] = points[u])
    BY <1>4, <1>5, <1>6
  <2> QED BY <2>1, SumPut, UsersFinite
<1>8. SumFunctionOnSet(qs, Users) \in Nat /\ SumFunctionOnSet(points, Users) \in Nat
  BY <1>5, <1>6, SumNat, UsersFinite
<1>9. Taken' = SumFunctionOnSet(qs, Users) /\ Taken = SumFunctionOnSet(points, Users)
  BY <1>6 DEF Taken
<1>10. points[q] \in Nat /\ qs[q] = points[q] + t
  BY <1>4, <1>5, <1>6
<1>11. SumFunctionOnSet(qs, Users) = SumFunctionOnSet(points, Users) + t
  BY <1>7, <1>8, <1>10
<1> QED
  BY <1>1, <1>4, <1>8, <1>9, <1>11

LEMMA CollectPoints ==
  ASSUME TypeInv, TypeInv', PointsInv, NEW p \in Users, CollectTrick(p)
  PROVE  PointsInv'
<1>1. /\ phase = "FOLLOW" /\ p = winning /\ UNCHANGED <<rules, hands, kitty, ndecks>>
      /\ points' = [points EXCEPT ![p] = @ + TrickPoints]
      /\ \/ phase' = "FINISH" /\ UNCHANGED plays
         \/ phase' = "LEAD" /\ plays' = NoPlays
  BY DEF CollectTrick, lobbyVars, dealVars, trickVars
<1>2. points \in Scores /\ Taken + Spread(Values) + Weigh(Values, kitty) = Total(Values)
  BY <1>1 DEF PointsInv, Tricks
<1>3. points' \in Scores /\ Taken' = Taken + Tabled(Values) /\ Taken \in Nat
  BY <1>1, <1>2, TrickTaken
<1>4. /\ Spread(Values) = Held(Values, hands) + Tabled(Values)
      /\ Held(Values, hands) \in Nat /\ Tabled(Values) \in Nat
  BY SpreadIs, WeightsAre
<1>5. Weigh(Values, kitty) \in Nat
  BY DealTypesAre, WeighType, WeightsAre
<1>6. Taken' + Held(Values, hands) + Weigh(Values, kitty) = Total(Values)
  BY <1>2, <1>3, <1>4, <1>5
<1>7. /\ Held(Values, hands)' = Held(Values, hands) /\ Weigh(Values, kitty)' = Weigh(Values, kitty)
      /\ Total(Values)' = Total(Values)
  BY <1>1 DEF Held, Total, Weigh
<1>8. CASE phase' = "FINISH"
  BY <1>3, <1>6, <1>7, <1>8 DEF PointsInv, Tricks
<1>9. CASE phase' = "LEAD" /\ plays' = NoPlays
  <2>1. (\A u \in Users : plays[u] = NULL)'
    BY <1>9 DEF NoPlays
  <2>2. Spread(Values)' = Held(Values, hands)'
    BY <2>1, NextSpread
  <2> QED BY <1>3, <1>6, <1>7, <1>9, <2>2 DEF PointsInv, Tricks
<1> QED
  BY <1>1, <1>8, <1>9

LEMMA PlayPoints ==
  ASSUME Regular, PlayInv, PlayInv', PointsInv, NEW p \in Users, PlayTrick(p)
  PROVE  PointsInv'
<1>0. TypeInv /\ TypeInv'
  BY DEF PlayInv
<1>1. /\ UNCHANGED <<rules, players, host, kitty, ndecks>>
      /\ \/ Waits
         \/ \E q \in Seated : \E play : Puts(q, play) /\ (IsLead(q, play) \/ IsFollow(q, play))
         \/ UndoPlay(p)
         \/ CollectTrick(p)
  BY PlayMoves
<1>2. ASSUME phase \in Tricks, points' = points, Spread(Values)' = Spread(Values),
             phase' \in Tricks \/ (phase' = "FINISH" /\ rules.renege = "AUTOLOSE")
      PROVE  PointsInv'
  <2>1. points \in Scores /\ Taken + Spread(Values) + Weigh(Values, kitty) = Total(Values)
    BY <1>2 DEF PointsInv
  <2>2. /\ Taken' = Taken /\ Weigh(Values, kitty)' = Weigh(Values, kitty)
        /\ Total(Values)' = Total(Values) /\ rules' = rules
    BY <1>1, <1>2 DEF Taken, Total, Weigh
  <2>3. points' \in Scores /\ (Taken + Spread(Values) + Weigh(Values, kitty) = Total(Values))'
    BY <1>2, <2>1, <2>2
  <2> QED BY <1>2, <2>2, <2>3 DEF PointsInv, Tricks
<1>3. CASE Waits
  <2>1. Spread(Values)' = Spread(Values)
    BY <1>3 DEF Waits, Spread, Has, OnTable
  <2> QED BY <1>2, <1>3, <2>1 DEF Waits, Tricks
<1>4. CASE \E q \in Seated : \E play : Puts(q, play) /\ (IsLead(q, play) \/ IsFollow(q, play))
  <2>1. PICK q \in Seated : \E play : Puts(q, play) /\ (IsLead(q, play) \/ IsFollow(q, play))
    BY <1>4
  <2>2. PICK play : Puts(q, play) /\ (IsLead(q, play) \/ IsFollow(q, play))
    BY <2>1
  <2>3. /\ phase \in Tricks
        /\ phase' \in Tricks \/ (phase' = "FINISH" /\ rules.renege = "AUTOLOSE")
    BY <2>2 DEF IsLead, IsFollow, Tricks
  <2>4. Spread(Values)' = Spread(Values)
    BY <1>0, <2>2, <2>3, PutsKeeps, SpreadStays, WeightsAre
  <2>5. points' = points
    BY <2>2 DEF Puts
  <2> QED BY <1>2, <2>3, <2>4, <2>5
<1>5. CASE UndoPlay(p)
  <2>1. phase = "FOLLOW" /\ phase' = "FOLLOW" /\ points' = points
    BY <1>5 DEF UndoPlay
  <2>2. Spread(Values)' = Spread(Values)
    BY <1>0, <1>5, UndoKeeps, SpreadStays, WeightsAre
  <2> QED BY <1>2, <2>1, <2>2 DEF Tricks
<1> QED
  BY <1>0, <1>1, <1>3, <1>4, <1>5, CollectPoints

LEMMA PointsNext ==
  ASSUME Regular, PlayInv, PlayInv', DealtInv, PointsInv, [Next]_vars
  PROVE  PointsInv'
<1>0. TypeInv /\ TypeInv'
  BY DEF PlayInv
<1>1. CASE UNCHANGED vars
  BY <1>1 DEF vars, lobbyVars, dealVars, trickVars, PointsInv, Taken, Spread, Has, OnTable, Held,
              Total, Weigh
<1>2. ASSUME NEW p \in Users, Configure(p) PROVE PointsInv'
  <2>1. Lobby /\ phase' = phase
    BY <1>2 DEF Configure, AddPlayer, RmPlayer, SetDecks, SetRuleMods, SetRank, roundVars
  <2> QED BY <2>1 DEF Lobby, PointsInv, Tricks
<1>3. ASSUME NEW p \in Users, Prepare(p) PROVE PointsInv'
  <2>1. CASE StartGame(p) \/ RequestRedeal(p)
    <3>1. phase' = "DRAW" /\ points' = [u \in Users |-> 0]
      BY <2>1 DEF StartGame, RequestRedeal, ResetRound
    <3> QED BY <3>1 DEF PointsInv, Tricks
  <2>2. CASE DrawCard(p) \/ Ready(p)
             \/ (phase \in {"DRAW", "PREPARE"} /\ \E c \in StdDeck, n \in 1..ndecks : BidTrump(p, c, n))
    <3>1. /\ phase \in {"DRAW", "PREPARE"} /\ phase' \in {"DRAW", "PREPARE", "KITTY"}
          /\ points' = points
      BY <2>2 DEF DrawCard, Ready, InstallHost, BidTrump
    <3> QED BY <3>1 DEF PointsInv, Tricks
  <2>3. CASE \E k \in SubPiles(draws[p], Size(kitty)) : ReplaceKitty(p, k)
    <3>1. PICK k \in SubPiles(draws[p], Size(kitty)) : ReplaceKitty(p, k)
      BY <2>3
    <3>2. /\ phase = "KITTY" /\ phase' \in {"FRIEND", "LEAD"} /\ UNCHANGED <<points, plays>>
      BY <3>1 DEF ReplaceKitty
    <3>3. Held(Values, hands') + Weigh(Values, kitty') = Total(Values)'
      BY <1>0, <3>1, ReplaceKittyKeeps, WeightsAre DEF DealtInv
    <3>4. (\A u \in Users : plays[u] = NULL)'
      BY <1>0, <3>2 DEF TypeInv, SeatTypes, NoTrick, NoPlays
    <3>5. Spread(Values)' = Held(Values, hands)'
      BY <1>0, <3>4, NextSpread
    <3>6. points' \in Scores /\ Taken' = 0
      <4>1. points' = [u \in Users |-> 0]
        BY <3>2 DEF PointsInv
      <4> QED BY <4>1, NextSpread
    <3>7. Held(Values, hands)' \in Nat /\ Weigh(Values, kitty)' \in Nat
      BY <1>0, NextSpread
    <3>8. (Taken + Spread(Values) + Weigh(Values, kitty) = Total(Values))'
      <4>1. Held(Values, hands)' = Held(Values, hands') /\ Weigh(Values, kitty)' = Weigh(Values, kitty')
        BY DEF Held, Weigh
      <4> QED BY <3>3, <3>5, <3>6, <3>7, <4>1
    <3> QED BY <3>2, <3>6, <3>8 DEF PointsInv, Tricks
  <2>4. CASE \E calls \in Calls : CallFriends(p, calls)
    <3>1. phase = "FRIEND" /\ phase' = "LEAD" /\ UNCHANGED <<points, hands, plays, kitty, ndecks>>
      BY <2>4 DEF CallFriends, lobbyVars, dealVars
    <3> QED BY <3>1 DEF PointsInv, Taken, Spread, Has, OnTable, Held, Total, Weigh, Tricks
  <2> QED BY <1>3, <2>1, <2>2, <2>3, <2>4 DEF Prepare
<1>4. ASSUME NEW p \in Users, Conclude(p) PROVE PointsInv'
  <2>1. CASE EndRound(p) \/ NextReady(p)
    BY <2>1 DEF EndRound, NextReady, PointsInv, Tricks
  <2>2. CASE NextRound(p)
    <3>1. phase' = "DRAW" /\ points' = [u \in Users |-> 0]
      BY <2>2 DEF NextRound, ResetRound
    <3> QED BY <3>1 DEF PointsInv, Tricks
  <2> QED BY <1>4, <2>1, <2>2 DEF Conclude
<1> QED
  BY <1>1, <1>2, <1>3, <1>4, PlayPoints DEF Next

LEMMA PointsAlways == ASSUME Regular PROVE Spec => []PointsInv
<1>1. Init => PointsInv
  BY DEF Init, PointsInv, Tricks
<1>2. PlayInv /\ PlayInv' /\ DealtInv /\ PointsInv /\ [Next]_vars => PointsInv'
  BY PointsNext
<1>3. Spec => []DealtInv
  <2>1. "joins again" \notin Habits
    BY DEF Regular
  <2> QED BY <2>1, DealtAlways
<1> QED
  BY <1>1, <1>2, <1>3, PlayAlways, PTL DEF Spec

\* No point is lost or counted twice between the kitty, the hands, the table and the
\* tricks that were taken, through leads, contested flies, follows, undos and renegings.
THEOREM PointsConservedAlways == ASSUME Regular PROVE Spec => []PointsConserved
<1>1. ASSUME PlayInv, PointsInv PROVE PointsConserved
  <2>0. TypeInv
    BY <1>1 DEF PlayInv
  <2>1. /\ TrickPoints = Tabled(Values) /\ HandPoints = Held(Values, hands)
        /\ Spread(Values) = Held(Values, hands) + Tabled(Values)
        /\ Held(Values, hands) \in Nat /\ Tabled(Values) \in Nat
    BY <2>0, TrickPointsAre, HandPointsAre, SpreadIs, WeightsAre
  <2>2. PilePoints(kitty) = Weigh(Values, kitty) /\ Weigh(Values, kitty) \in Nat
    BY <2>0, DealTypesAre, PointsAre, WeighType, WeightsAre
  <2>3. DeckPoints = Total(Values)
    <3>1. PilePoints(Each) = Weigh(Values, Each)
      BY PointsAre, WeightsAre
    <3> QED BY <3>1 DEF DeckPoints, Total, Each
  <2>4. points \in Scores => SumFunction(points) = Taken /\ Taken \in Nat
    BY SumNat, UsersFinite DEF Scores, SumFunction, Taken
  <2>5. phase \in {"FRIEND", "LEAD", "FLY"} => Tabled(Values) = 0
    <3>1. phase \in {"FRIEND", "LEAD", "FLY"} => \A u \in Users : plays[u] = NULL
      BY <1>1, <2>0, NoneBeforeLead DEF TypeInv, SeatTypes, NoTrick, NoPlays
    <3>2. phase \in {"FRIEND", "LEAD", "FLY"} => Spread(Values) = Held(Values, hands)
      BY <2>0, <3>1, SpreadOfHands, WeightsAre
    <3> QED BY <2>1, <3>2
  <2> DEFINE away == DeckPoints - (SumFunction(points) + HandPoints + PilePoints(kitty))
  <2>6. ASSUME points \in Scores
        PROVE  /\ Taken + Spread(Values) + Weigh(Values, kitty) = Total(Values) =>
                    away = TrickPoints
               /\ Taken + Held(Values, hands) + Weigh(Values, kitty) = Total(Values) => away = 0
    <3>1. Taken \in Nat /\ SumFunction(points) = Taken
      BY <2>4, <2>6
    <3>2. /\ DeckPoints = Total(Values) /\ HandPoints = Held(Values, hands)
          /\ PilePoints(kitty) = Weigh(Values, kitty) /\ TrickPoints = Tabled(Values)
      BY <2>1, <2>2, <2>3
    <3> QED BY <2>1, <2>2, <3>1, <3>2
  <2> HIDE DEF away
  <2>7. phase \in {"FRIEND", "LEAD", "FLY"} => away = 0
    BY <1>1, <2>1, <2>5, <2>6 DEF PointsInv, Tricks
  <2>8. phase = "FOLLOW" => away = TrickPoints
    BY <1>1, <2>6 DEF PointsInv, Tricks
  <2>9. phase = "FINISH" => \/ away = 0
                            \/ rules.renege = "AUTOLOSE" /\ away = TrickPoints
    BY <1>1, <2>6 DEF PointsInv
  <2> QED BY <2>7, <2>8, <2>9 DEF away, PointsConserved
<1> QED
  BY <1>1, PointsAlways, PlayAlways, PTL

-----------------------------------------------------------------------------
(* Tallies *)

LEMMA SeenIs ==
  ASSUME TypeInv, NEW c \in StdDeck
  PROVE  /\ Seen(c) = ndecks - kitty[c] - Held(Only(c), hands)
         /\ kitty[c] \in Nat /\ kitty[c] = Weigh(Only(c), kitty)
         /\ Held(Only(c), hands) \in Nat /\ ndecks \in Nat
         /\ Seen(c) \in Int
<1> DEFINE f == [u \in Users |-> IF hands[u] = NULL THEN 0 ELSE hands[u][c]]
           g == [u \in Users |-> Share(Only(c), hands[u])]
<1>1. \A u \in Users : f[u] = g[u]
  BY DealTypesAre, CopiesAre DEF Share, Holdings
<1>2. SumFunctionOnSet(f, Users) = SumFunctionOnSet(g, Users)
  <2> HIDE DEF f, g
  <2> QED BY <1>1, SumSame, UsersFinite
<1>3. DOMAIN f = Users
  OBVIOUS
<1>4. Seen(c) = ndecks - kitty[c] - SumFunction(f)
  BY DEF Seen
<1>5. SumFunction(f) = SumFunctionOnSet(f, Users)
  <2> HIDE DEF f
  <2> QED BY <1>3 DEF SumFunction
<1>6. SumFunctionOnSet(g, Users) = Held(Only(c), hands)
  BY DEF Held
<1>7. kitty \in Piles /\ hands \in Holdings /\ ndecks \in Nat
  BY DealTypesAre
<1>8. kitty[c] = Weigh(Only(c), kitty) /\ kitty[c] \in Nat
  BY <1>7, CopiesAre DEF Piles
<1>9. Held(Only(c), hands) \in Nat
  BY <1>7, HeldType, WeightsAre
<1> QED
  BY <1>2, <1>4, <1>5, <1>6, <1>7, <1>8, <1>9

LEMMA NextSeen ==
  ASSUME NEW c \in StdDeck
  PROVE  TypeInv' => Seen(c)' = ndecks' - kitty'[c] - Held(Only(c), hands')
<1>1. TypeInv => Seen(c) = ndecks - kitty[c] - Held(Only(c), hands)
  BY SeenIs
<1>2. (TypeInv => Seen(c) = ndecks - kitty[c] - Held(Only(c), hands))'
  BY <1>1, PTL
<1>3. Held(Only(c), hands)' = Held(Only(c), hands')
  BY DEF Held
<1> QED
  BY <1>2, <1>3

\* The copies of the card a friend is called by that are still awaited.
Awaited(f) == IF f.nth > Seen(f.card) THEN f.nth - Seen(f.card) ELSE 0

\* No tally is above what is awaited; it is below it only after an undo.
Counted(f) == f.tally <= Awaited(f) /\ ("undo" \notin Habits => f.tally = Awaited(f))

\* Without friends' cards to count there is nothing to tally.
Tallying ==
  /\ fixed_teams => friends = <<>>
  /\ \A i \in DOMAIN friends : Counted(friends[i])
TallyInv == phase \in Tricks \cup {"FINISH"} => Tallying

\* Copies that are played count down what is awaited, no lower than zero.
LEMMA CountDown ==
  ASSUME NEW n \in Nat, NEW s \in Int, NEW k \in Nat, NEW t \in Nat
  PROVE  LET a == IF n > s THEN n - s ELSE 0
             b == IF n > s + k THEN n - (s + k) ELSE 0
             r == IF t > k THEN t - k ELSE 0
         IN  (t <= a => r <= b) /\ (t = a => r = b)
  OBVIOUS

LEMMA FriendIs ==
  ASSUME TypeInv, NEW i \in DOMAIN friends
  PROVE  friends[i].card \in StdDeck /\ friends[i].nth \in Nat /\ friends[i].tally \in Nat
<1> DEFINE Friend == [card : StdDeck, nth : Nat, tally : Nat]
<1>1. friends \in Seq(Friend)
  BY DEF TypeInv, TypeOK, FriendTypes
<1>2. friends[i] \in Friend
  <2> HIDE DEF Friend
  <2> QED BY <1>1
<1> QED
  BY <1>2

\* A play is seen, once.
LEMMA PutsSeen ==
  ASSUME TypeInv, TypeInv', phase \in Tricks, NEW q \in Seated, NEW play, Puts(q, play),
         UNCHANGED <<kitty, ndecks>>, NEW c \in StdDeck
  PROVE  Seen(c)' = Seen(c) + play.cards[c] /\ play.cards[c] \in Nat
<1>1. PICK w \in Weights : w = Only(c)
  BY WeightsAre
<1>2. /\ Share(w, hands[q]) = Share(w, hands'[q]) + Weigh(w, play.cards)
      /\ Weigh(w, play.cards) \in Nat /\ Swaps(q, hands, hands')
  BY PutsKeeps
<1>3. /\ Held(w, hands') + Share(w, hands[q]) = Held(w, hands) + Share(w, hands'[q])
      /\ Held(w, hands') \in Nat /\ Held(w, hands) \in Nat
      /\ Share(w, hands[q]) \in Nat /\ Share(w, hands'[q]) \in Nat
  BY <1>2, HeldPut
<1>4. play.cards \in Piles
  BY DEF Puts
<1>5. play.cards[c] = Weigh(w, play.cards)
  BY <1>1, <1>4, CopiesAre
<1>6. Held(w, hands) = Held(w, hands') + play.cards[c]
  BY <1>2, <1>3, <1>5
<1>7. /\ Seen(c) = ndecks - kitty[c] - Held(w, hands)
      /\ kitty[c] \in Nat /\ ndecks \in Nat
  BY <1>1, SeenIs
<1>8. Seen(c)' = ndecks - kitty[c] - Held(w, hands')
  <2>1. Seen(c)' = ndecks' - kitty'[c] - Held(w, hands')
    BY <1>1, NextSeen
  <2> QED BY <2>1
<1>9. play.cards[c] \in Nat
  BY <1>2, <1>5
<1> QED
  BY <1>3, <1>6, <1>7, <1>8, <1>9

LEMMA PutsTally ==
  ASSUME TypeInv, TypeInv', phase \in Tricks, NEW q \in Seated, NEW play, Puts(q, play),
         UNCHANGED <<kitty, ndecks, rules, players>>, Tallying
  PROVE  Tallying'
<1>1. fixed_teams' = fixed_teams
  BY DEF fixed_teams, nplayers
<1>2. CASE fixed_teams
  <2>1. friends = <<>> /\ friends' = friends
    BY <1>2 DEF Tallying, Puts, DetectFriends, friendVars
  <2> QED BY <2>1 DEF Tallying
<1>3. CASE ~fixed_teams
  <2>1. friends' = Tallied(play.cards)
    BY <1>3 DEF Puts, DetectFriends
  <2>2. ASSUME NEW i \in DOMAIN friends'
        PROVE  Counted(friends[i])'
    <3>1. i \in DOMAIN friends
      BY <2>1, <2>2 DEF Tallied
    <3>2. /\ friends[i].card \in StdDeck /\ friends[i].nth \in Nat /\ friends[i].tally \in Nat
      BY <3>1, FriendIs
    <3>3. PICK c \in StdDeck : c = friends[i].card
      BY <3>2
    <3>4. PICK k : k = play.cards[c]
      OBVIOUS
    <3>5. PICK t : t = friends[i].tally
      OBVIOUS
    <3>6. friends'[i] = [friends[i] EXCEPT !.tally = IF t > k THEN t - k ELSE 0]
      BY <2>1, <3>1, <3>3, <3>4, <3>5 DEF Tallied
    <3>7. /\ friends'[i].card = c /\ friends'[i].nth = friends[i].nth
          /\ friends'[i].tally = IF t > k THEN t - k ELSE 0
      <4> DEFINE Friend == [card : StdDeck, nth : Nat, tally : Nat]
      <4>1. friends \in Seq(Friend)
        BY DEF TypeInv, TypeOK, FriendTypes
      <4>2. friends[i] \in Friend
        <5> HIDE DEF Friend
        <5> QED BY <3>1, <4>1
      <4> QED BY <3>3, <3>6, <4>2
    <3>8. Counted(friends[i]) /\ Seen(c) \in Int
      BY <3>1, SeenIs DEF Tallying
    <3>9. Seen(c)' = Seen(c) + k /\ k \in Nat
      BY <3>4, PutsSeen
    <3>10. PICK n \in Nat, z \in Int : n = friends[i].nth /\ z = Seen(c)
      BY <3>2, <3>8
    <3>11. PICK a : a = IF n > z THEN n - z ELSE 0
      OBVIOUS
    <3>12. PICK b : b = IF n > z + k THEN n - (z + k) ELSE 0
      OBVIOUS
    <3>13. t \in Nat /\ Awaited(friends[i]) = a
      BY <3>2, <3>3, <3>5, <3>10, <3>11 DEF Awaited
    <3>14. Awaited(friends[i])' = b
      <4>1. Seen(friends[i].card)' = z + k
        BY <3>7, <3>9, <3>10
      <4> QED BY <3>7, <3>10, <3>12, <4>1 DEF Awaited
    <3>15. t <= a /\ ("undo" \notin Habits => t = a)
      BY <3>5, <3>8, <3>13 DEF Counted
    <3>16. PICK r : r = IF t > k THEN t - k ELSE 0
      OBVIOUS
    <3>17. (t <= a => r <= b) /\ (t = a => r = b)
      BY <3>9, <3>10, <3>11, <3>12, <3>13, <3>16, CountDown
    <3>18. friends'[i].tally = r
      BY <3>7, <3>16
    <3> QED BY <3>14, <3>15, <3>17, <3>18 DEF Counted
  <2> QED BY <1>1, <1>3, <2>2 DEF Tallying
<1> QED
  BY <1>2, <1>3

\* Before the first lead nothing has been seen.
LEMMA NothingSeen ==
  ASSUME TypeInv, DealtInv, phase = "FRIEND", NEW c \in StdDeck
  PROVE  Seen(c) = 0
<1>1. PICK w \in Weights : w = Only(c)
  BY WeightsAre
<1>2. Held(w, hands) + Weigh(w, kitty) = Total(w)
  BY DEF DealtInv, Dealt
<1>3. Weigh(w, Each) = 1
  <2>1. Each[c] = Weigh(Only(c), Each)
    BY CopiesAre, WeightsAre
  <2> QED BY <1>1, <2>1 DEF Each
<1>4. /\ Seen(c) = ndecks - kitty[c] - Held(w, hands) /\ kitty[c] = Weigh(w, kitty)
      /\ kitty[c] \in Nat /\ Held(w, hands) \in Nat /\ ndecks \in Nat
  BY <1>1, SeenIs
<1>5. Total(w) = ndecks
  BY <1>3, <1>4 DEF Total
<1> QED
  BY <1>2, <1>4, <1>5

LEMMA CallFriendsTally ==
  ASSUME TypeInv, TypeInv', DealtInv, TeamsInv, NEW p \in Users, NEW calls \in Calls,
         CallFriends(p, calls)
  PROVE  Tallying'
<1>1. /\ phase = "FRIEND" /\ UNCHANGED <<rules, players, hands, kitty, ndecks>>
      /\ \A i \in DOMAIN calls : calls[i][2] \in 1..ndecks
      /\ friends' = [i \in DOMAIN calls |->
                       [card |-> calls[i][1], nth |-> calls[i][2], tally |-> calls[i][2]]]
  BY DEF CallFriends, lobbyVars, dealVars
<1>2. ~fixed_teams'
  BY <1>1 DEF TeamsInv, fixed_teams, nplayers
<1>3. ASSUME NEW i \in DOMAIN friends'
      PROVE  Counted(friends[i])'
  <2>1. i \in DOMAIN calls /\ calls[i] \in StdDeck \X (1..ndecks)
    BY <1>1, <1>3 DEF Calls
  <2>2. PICK c \in StdDeck, n \in 1..ndecks : c = calls[i][1] /\ n = calls[i][2]
    BY <2>1
  <2>3. friends'[i] = [card |-> c, nth |-> n, tally |-> n]
    BY <1>1, <2>1, <2>2
  <2>4. ndecks \in Nat /\ n \in Nat /\ n > 0
    BY <2>2, DealTypesAre
  <2>5. Seen(c) = 0
    BY <1>1, NothingSeen
  <2>6. Seen(friends[i].card)' = Seen(c)
    BY <1>1, <2>3 DEF Seen
  <2>7. Awaited(friends[i])' = n
    BY <2>3, <2>4, <2>5, <2>6 DEF Awaited
  <2> QED BY <2>3, <2>4, <2>7 DEF Counted
<1> QED
  BY <1>2, <1>3 DEF Tallying

\* What is taken back is unseen again, and more of it is awaited than is counted.
LEMMA UndoTally ==
  ASSUME TypeInv, TypeInv', NEW q \in Users, UndoPlay(q),
         UNCHANGED <<kitty, ndecks, rules, players>>, Tallying
  PROVE  Tallying'
<1>1. /\ "undo" \in Habits /\ friends' = friends
      /\ plays[q] # NULL /\ phase \in Tricks
      /\ hands' = [hands EXCEPT ![q] = AddPile(hands[q], plays[q].cards)]
  BY DEF UndoPlay, CheckUndo, Tricks, friendVars
<1>2. /\ hands[q] \in Piles /\ hands \in Holdings /\ plays[q].cards \in Piles
  BY <1>1, PlayTypes, WeightsAre DEF TypeInv, SeatTypes, PlaySeats, TrickSeats
<1>3. AddPile(hands[q], plays[q].cards) \in Piles
  BY <1>2, AddPileType
<1>4. Swaps(q, hands, hands') /\ hands'[q] = AddPile(hands[q], plays[q].cards)
  <2>1. PICK x \in Piles : x = AddPile(hands[q], plays[q].cards)
    BY <1>3
  <2>2. hands' = [hands EXCEPT ![q] = x]
    BY <1>1, <2>1
  <2>3. hands \in Holdings
    BY <1>2
  <2>4. Swaps(q, hands, hands') /\ hands'[q] = x
    BY <2>1, <2>2, <2>3, SwapsIs, ZenonT(60)
  <2> QED BY <2>1, <2>4
<1>5. ASSUME NEW c \in StdDeck PROVE Seen(c)' <= Seen(c) /\ Seen(c)' \in Int /\ Seen(c) \in Int
  <2>1. PICK w \in Weights : w = Only(c)
    BY WeightsAre
  <2>2. Weigh(w, hands'[q]) = Weigh(w, hands[q]) + Weigh(w, plays[q].cards)
    BY <1>2, <1>4, WeighAdd
  <2>3. /\ Share(w, hands[q]) = Weigh(w, hands[q]) /\ Share(w, hands'[q]) = Weigh(w, hands'[q])
        /\ Weigh(w, hands[q]) \in Nat /\ Weigh(w, plays[q].cards) \in Nat
    BY <1>2, <1>3, <1>4, ShareType, WeighType
  <2>4. /\ Held(w, hands') + Share(w, hands[q]) = Held(w, hands) + Share(w, hands'[q])
        /\ Held(w, hands') \in Nat /\ Held(w, hands) \in Nat
    BY <1>4, HeldPut
  <2>5. /\ Seen(c) = ndecks - kitty[c] - Held(w, hands)
        /\ kitty[c] \in Nat /\ ndecks \in Nat
    BY <2>1, SeenIs
  <2>6. Seen(c)' = ndecks' - kitty'[c] - Held(w, hands')
    BY <2>1, NextSeen
  <2>7. Held(w, hands') >= Held(w, hands)
    BY <2>2, <2>3, <2>4
  <2> QED BY <2>4, <2>5, <2>6, <2>7
<1>6. ASSUME NEW i \in DOMAIN friends' PROVE Counted(friends[i])'
  <2>1. i \in DOMAIN friends /\ friends'[i] = friends[i]
    BY <1>1, <1>6
  <2>2. PICK c \in StdDeck, n \in Nat, t \in Nat :
          c = friends[i].card /\ n = friends[i].nth /\ t = friends[i].tally
    BY <2>1, FriendIs
  <2>3. PICK y \in Int, z \in Int : y = Seen(c) /\ z = Seen(c)' /\ z <= y
    BY <1>5
  <2>4. Awaited(friends[i]) = IF n > y THEN n - y ELSE 0
    BY <2>2, <2>3 DEF Awaited
  <2>5. t <= IF n > y THEN n - y ELSE 0
    BY <2>1, <2>2, <2>4 DEF Tallying, Counted
  <2>6. Awaited(friends[i])' = IF n > z THEN n - z ELSE 0
    <3>1. Seen(friends[i].card)' = z
      BY <2>1, <2>2, <2>3
    <3> QED BY <2>1, <2>2, <3>1 DEF Awaited
  <2>7. t <= IF n > z THEN n - z ELSE 0
    BY <2>3, <2>5
  <2> QED BY <1>1, <2>1, <2>2, <2>6, <2>7 DEF Counted
<1>7. fixed_teams' = fixed_teams
  BY DEF fixed_teams, nplayers
<1> QED
  BY <1>1, <1>6, <1>7 DEF Tallying

LEMMA TallyNext ==
  ASSUME Regular, PlayInv, PlayInv', DealtInv, TeamsInv, TallyInv, [Next]_vars
  PROVE  TallyInv'
<1>0. TypeInv /\ TypeInv'
  BY DEF PlayInv
<1>1. CASE UNCHANGED vars
  BY <1>1 DEF vars, lobbyVars, dealVars, friendVars, TallyInv, Tallying, Counted, Awaited, Seen,
              fixed_teams, nplayers
<1>2. ASSUME NEW p \in Users, Configure(p) PROVE TallyInv'
  <2>1. Lobby /\ phase' = phase
    BY <1>2 DEF Configure, AddPlayer, RmPlayer, SetDecks, SetRuleMods, SetRank, roundVars
  <2> QED BY <2>1 DEF Lobby, TallyInv, Tricks
<1>3. ASSUME NEW p \in Users, Prepare(p) PROVE TallyInv'
  <2>1. CASE StartGame(p) \/ DrawCard(p) \/ RequestRedeal(p) \/ Ready(p)
             \/ (phase \in {"DRAW", "PREPARE"} /\ \E c \in StdDeck, n \in 1..ndecks : BidTrump(p, c, n))
    <3>1. phase' \in {"DRAW", "PREPARE", "KITTY"}
      BY <2>1 DEF StartGame, DrawCard, RequestRedeal, Ready, InstallHost, BidTrump
    <3> QED BY <3>1 DEF TallyInv, Tricks
  <2>2. CASE \E k \in SubPiles(draws[p], Size(kitty)) : ReplaceKitty(p, k)
    <3>1. phase = "KITTY" /\ friends' = friends
      BY <2>2 DEF ReplaceKitty
    <3>2. friends' = <<>>
      BY <3>1 DEF TeamsInv, NoTeams
    <3> QED BY <3>2 DEF TallyInv, Tallying
  <2>3. CASE \E calls \in Calls : CallFriends(p, calls)
    BY <1>0, <2>3, CallFriendsTally DEF TallyInv
  <2> QED BY <1>3, <2>1, <2>2, <2>3 DEF Prepare
<1>4. ASSUME NEW p \in Users, PlayTrick(p) PROVE TallyInv'
  <2>1. /\ UNCHANGED <<rules, players, host, kitty, ndecks>>
        /\ \/ Waits
           \/ \E q \in Seated : \E play : Puts(q, play) /\ (IsLead(q, play) \/ IsFollow(q, play))
           \/ UndoPlay(p)
           \/ CollectTrick(p)
    BY <1>4, PlayMoves
  <2>2. phase \in Tricks
    BY <1>0, <1>4, PlaysDetect
  <2>3. Tallying
    BY <2>2 DEF TallyInv
  <2>4. CASE Waits \/ CollectTrick(p)
    <3>1. UNCHANGED <<friends, hands>>
      BY <2>4 DEF Waits, CollectTrick, friendVars
    <3>2. Tallying'
      BY <2>1, <2>3, <3>1 DEF Tallying, Counted, Awaited, Seen, fixed_teams, nplayers
    <3> QED BY <3>2 DEF TallyInv
  <2>5. CASE \E q \in Seated : \E play : Puts(q, play) /\ (IsLead(q, play) \/ IsFollow(q, play))
    BY <1>0, <2>1, <2>2, <2>3, <2>5, PutsTally DEF TallyInv
  <2>6. CASE UndoPlay(p)
    BY <1>0, <2>1, <2>3, <2>6, UndoTally DEF TallyInv
  <2> QED BY <2>1, <2>4, <2>5, <2>6
<1>5. ASSUME NEW p \in Users, Conclude(p) PROVE TallyInv'
  <2>1. CASE EndRound(p) \/ NextReady(p) \/ NextRound(p)
    <3>1. phase' \in {"WAIT", "DRAW"}
      BY <2>1 DEF EndRound, NextReady, NextRound
    <3> QED BY <3>1 DEF TallyInv, Tricks
  <2> QED BY <1>5, <2>1 DEF Conclude
<1> QED
  BY <1>1, <1>2, <1>3, <1>4, <1>5 DEF Next

LEMMA TallyAlways == ASSUME Regular PROVE Spec => []TallyInv
<1>1. Init => TallyInv
  BY DEF Init, TallyInv, Tricks
<1>2. PlayInv /\ PlayInv' /\ DealtInv /\ TeamsInv /\ TallyInv /\ [Next]_vars => TallyInv'
  BY TallyNext
<1>3. Spec => []DealtInv
  <2>1. "joins again" \notin Habits
    BY DEF Regular
  <2> QED BY <2>1, DealtAlways
<1> QED
  BY <1>1, <1>2, <1>3, TeamsAlways, PlayAlways, PTL DEF Spec

\* Friend#tally, which commit_play counts down, is never more than the number of copies
\* of the called card that are still to come, whatever is taken back; and it is that
\* number where nobody takes a play back.
THEOREM TallyExactAlways == ASSUME Regular PROVE Spec => []TallyExact
<1>1. TallyInv => TallyExact
  BY DEF TallyInv, Tallying, Counted, Awaited, TallyExact
<1> QED
  BY <1>1, TallyAlways, PTL

-----------------------------------------------------------------------------
(* Who wins the trick *)

\* What a play must be to win: a flight with the lead's structure.
Structured(f) ==
  /\ IsFlight(f) /\ Len(f.tractors) = Len(lead.tractors)
  /\ \A i \in 1..Len(lead.tractors) : ShapeOf(f.tractors[i]) = ShapeOf(lead.tractors[i])

LEMMA BeatenBy ==
  ASSUME NEW a, NEW b, Structured(a), ~Beats(a, b) PROVE Structured(b)
<1>1. /\ IsFlight(b) /\ Len(a.tractors) = Len(b.tractors)
      /\ \A i \in 1..Len(a.tractors) : TractorCompare(a.tractors[i], b.tractors[i]) # NULL
  BY DEF Beats
<1>2. \A i \in 1..Len(a.tractors) : ShapeOf(a.tractors[i]) = ShapeOf(b.tractors[i])
  BY <1>1 DEF TractorCompare
<1> QED
  BY <1>1, <1>2 DEF Structured

\* Round(n), for the plays that are on the table.
RoundOf(ps, n) ==
  {w \in [0..(n - 1) -> 0..(n - 1)] :
     /\ w[0] = 0
     /\ \A k \in 1..(n - 1) :
          w[k] = IF Beats(ps[Turn(leader, w[k - 1])], ps[Turn(leader, k)])
                 THEN w[k - 1] ELSE k}

LEMMA RoundIs == ASSUME NEW n PROVE Round(n) = RoundOf(plays, n)
  BY DEF Round, RoundOf

\* The winner of the first ones to play is one of them.
LEMMA RoundType ==
  ASSUME NEW ps, NEW n \in Nat \ {0}, NEW w \in RoundOf(ps, n)
  PROVE  \A k \in 0..(n - 1) : w[k] \in 0..k
<1> DEFINE T == {k \in Nat : k <= n - 1 => w[k] \in 0..k}
<1>1. /\ w[0] = 0
      /\ \A k \in 1..(n - 1) : w[k] = w[k - 1] \/ w[k] = k
  BY DEF RoundOf
<1>2. 0 \in T
  BY <1>1
<1>3. ASSUME NEW k \in Nat, k \in T PROVE k + 1 \in T
  <2> SUFFICES ASSUME k + 1 <= n - 1 PROVE w[k + 1] \in 0..(k + 1)
    OBVIOUS
  <2>1. w[k] \in 0..k
    BY <1>3
  <2>2. k + 1 \in 1..(n - 1) /\ (k + 1) - 1 = k
    OBVIOUS
  <2>3. w[k + 1] = w[k] \/ w[k + 1] = k + 1
    BY <1>1, <2>2
  <2> QED BY <2>1, <2>3
<1>4. Nat \subseteq T
  <2> HIDE DEF T
  <2> QED BY <1>2, <1>3, Induct
<1> QED
  BY <1>4

\* Whoever wins at some point of the trick has the lead's structure.
LEMMA RoundStructured ==
  ASSUME NEW n \in Nat \ {0}, NEW w \in RoundOf(plays, n),
         Turn(leader, 0) = leader, plays[leader] = lead, IsFlight(lead)
  PROVE  Structured(plays[Turn(leader, w[n - 1])])
<1> DEFINE T == {k \in Nat : k <= n - 1 => Structured(plays[Turn(leader, w[k])])}
<1>1. /\ w[0] = 0
      /\ \A k \in 1..(n - 1) :
           w[k] = IF Beats(plays[Turn(leader, w[k - 1])], plays[Turn(leader, k)])
                  THEN w[k - 1] ELSE k
  BY DEF RoundOf
<1>2. 0 \in T
  BY <1>1 DEF Structured
<1>3. ASSUME NEW k \in Nat, k \in T PROVE k + 1 \in T
  <2> SUFFICES ASSUME k + 1 <= n - 1 PROVE Structured(plays[Turn(leader, w[k + 1])])
    OBVIOUS
  <2>1. Structured(plays[Turn(leader, w[k])])
    BY <1>3
  <2>2. k + 1 \in 1..(n - 1) /\ (k + 1) - 1 = k
    OBVIOUS
  <2>3. w[k + 1] = IF Beats(plays[Turn(leader, w[k])], plays[Turn(leader, k + 1)])
                   THEN w[k] ELSE k + 1
    BY <1>1, <2>2
  <2> QED BY <2>1, <2>3, BeatenBy
<1>4. Nat \subseteq T
  <2> HIDE DEF T
  <2> QED BY <1>2, <1>3, Induct
<1>5. n - 1 \in Nat /\ n - 1 <= n - 1
  OBVIOUS
<1> QED
  BY <1>4, <1>5

\* One more play.
LEMMA RoundGrows ==
  ASSUME NEW n \in Nat \ {0}, NEW ps, NEW qs, NEW w \in RoundOf(ps, n),
         \A k \in 0..(n - 1) : qs[Turn(leader, k)] = ps[Turn(leader, k)]
  PROVE  \E v \in RoundOf(qs, n + 1) :
           v[n] = IF Beats(ps[Turn(leader, w[n - 1])], qs[Turn(leader, n)]) THEN w[n - 1] ELSE n
<1> DEFINE x == IF Beats(ps[Turn(leader, w[n - 1])], qs[Turn(leader, n)]) THEN w[n - 1] ELSE n
           v == [k \in 0..n |-> IF k = n THEN x ELSE w[k]]
<1>1. /\ w[0] = 0
      /\ \A k \in 1..(n - 1) :
           w[k] = IF Beats(ps[Turn(leader, w[k - 1])], ps[Turn(leader, k)])
                  THEN w[k - 1] ELSE k
  BY DEF RoundOf
<1>2. \A k \in 0..(n - 1) : w[k] \in 0..k /\ w[k] \in 0..(n - 1)
  <2>1. \A k \in 0..(n - 1) : w[k] \in 0..k
    BY RoundType
  <2> QED BY <2>1
<1>3. n - 1 \in 0..(n - 1) /\ x \in 0..n
  BY <1>2
<1>4. /\ v[n] = x /\ \A k \in 0..(n - 1) : v[k] = w[k]
      /\ v \in [0..n -> 0..n]
  <2> HIDE DEF x
  <2>1. \A k \in 0..(n - 1) : k # n /\ k \in 0..n
    OBVIOUS
  <2>2. \A k \in 0..n : k = n \/ k \in 0..(n - 1)
    OBVIOUS
  <2>3. \A k \in 0..(n - 1) : w[k] \in 0..n
    BY <1>2
  <2>4. \A k \in 0..n : (IF k = n THEN x ELSE w[k]) \in 0..n
    BY <1>3, <2>2, <2>3
  <2> QED BY <1>3, <2>1, <2>4
<1> HIDE DEF v
<1>5. ASSUME NEW k \in 1..n
      PROVE  v[k] = IF Beats(qs[Turn(leader, v[k - 1])], qs[Turn(leader, k)]) THEN v[k - 1] ELSE k
  <2>1. k - 1 \in 0..(n - 1)
    OBVIOUS
  <2>2. v[k - 1] = w[k - 1] /\ w[k - 1] \in 0..(n - 1)
    BY <1>2, <1>4, <2>1
  <2>3. qs[Turn(leader, v[k - 1])] = ps[Turn(leader, w[k - 1])]
    BY <2>2
  <2>4. CASE k = n
    BY <1>4, <2>2, <2>3, <2>4
  <2>5. CASE k # n
    <3>1. k \in 1..(n - 1) /\ k \in 0..(n - 1)
      BY <2>5
    <3>2. v[k] = w[k] /\ qs[Turn(leader, k)] = ps[Turn(leader, k)]
      BY <1>4, <3>1
    <3> QED BY <1>1, <2>2, <2>3, <3>1, <3>2
  <2> QED BY <2>4, <2>5
<1>6. v[0] = 0
  BY <1>1, <1>4
<1>7. (n + 1) - 1 = n
  OBVIOUS
<1>8. v \in RoundOf(qs, n + 1)
  BY <1>4, <1>5, <1>6, <1>7 DEF RoundOf
<1> QED
  BY <1>4, <1>8

\* One play less.
LEMMA RoundShrinks ==
  ASSUME NEW n \in Nat \ {0}, NEW ps, NEW qs, NEW w \in RoundOf(ps, n + 1),
         \A k \in 0..(n - 1) : qs[Turn(leader, k)] = ps[Turn(leader, k)]
  PROVE  \E v \in RoundOf(qs, n) : w[n] = v[n - 1] \/ w[n] = n
<1> DEFINE v == [k \in 0..(n - 1) |-> w[k]]
<1>0. (n + 1) - 1 = n /\ n + 1 \in Nat \ {0}
  OBVIOUS
<1>1. /\ w[0] = 0
      /\ \A k \in 1..n :
           w[k] = IF Beats(ps[Turn(leader, w[k - 1])], ps[Turn(leader, k)])
                  THEN w[k - 1] ELSE k
  BY <1>0 DEF RoundOf
<1>2. \A k \in 0..(n - 1) : w[k] \in 0..k /\ w[k] \in 0..(n - 1)
  <2>1. \A k \in 0..n : w[k] \in 0..k
    BY <1>0, RoundType
  <2>2. \A k \in 0..(n - 1) : k \in 0..n
    OBVIOUS
  <2> QED BY <2>1, <2>2
<1>3. v \in [0..(n - 1) -> 0..(n - 1)] /\ \A k \in 0..(n - 1) : v[k] = w[k]
  BY <1>2
<1> HIDE DEF v
<1>4. ASSUME NEW k \in 1..(n - 1)
      PROVE  v[k] = IF Beats(qs[Turn(leader, v[k - 1])], qs[Turn(leader, k)]) THEN v[k - 1] ELSE k
  <2>1. k - 1 \in 0..(n - 1) /\ k \in 0..(n - 1) /\ k \in 1..n
    OBVIOUS
  <2>2. v[k - 1] = w[k - 1] /\ w[k - 1] \in 0..(n - 1) /\ v[k] = w[k]
    BY <1>2, <1>3, <2>1
  <2>3. qs[Turn(leader, v[k - 1])] = ps[Turn(leader, w[k - 1])] /\ qs[Turn(leader, k)] = ps[Turn(leader, k)]
    BY <2>1, <2>2
  <2> QED BY <1>1, <2>1, <2>2, <2>3
<1>5. v[0] = 0
  <2>1. 0 \in 0..(n - 1)
    OBVIOUS
  <2> QED BY <1>1, <1>3, <2>1
<1>6. v \in RoundOf(qs, n)
  BY <1>3, <1>4, <1>5 DEF RoundOf
<1>7. w[n] = v[n - 1] \/ w[n] = n
  <2>1. n \in 1..n /\ n - 1 \in 0..(n - 1)
    OBVIOUS
  <2>2. w[n] = w[n - 1] \/ w[n] = n
    BY <1>1, <2>1
  <2> QED BY <1>3, <2>1, <2>2
<1> QED
  BY <1>6, <1>7

\* From the lead to the score the trick has a flight to follow.
LeadInv == phase \in {"FLY", "FOLLOW", "FINISH"} => IsFlight(lead)

LEMMA LeadsAreFlights == ASSUME NEW p, NEW play \in LeadsOf(p) PROVE IsFlight(play)
<1>1. PICK s \in Suits : play \in FlightsIn(tr, hands[p], s, MaxTractors)
  BY DEF LeadsOf
<1>2. \E ts, cards : play = [tractors |-> ts, cards |-> cards] /\ ts # <<>>
  BY <1>1 DEF FlightsIn
<1> QED
  BY <1>2 DEF IsFlight

LEMMA LeadNext == ASSUME SortKeepsOne, LeadInv, [Next]_vars PROVE LeadInv'
<1> SUFFICES ASSUME phase' \in {"FLY", "FOLLOW", "FINISH"} PROVE IsFlight(lead')
  BY DEF LeadInv
<1>1. CASE UNCHANGED vars
  BY <1>1 DEF vars, trickVars, LeadInv
<1>2. ASSUME NEW p \in Users, Configure(p) PROVE IsFlight(lead')
  <2>1. Lobby /\ phase' = phase
    BY <1>2 DEF Configure, AddPlayer, RmPlayer, SetDecks, SetRuleMods, SetRank, roundVars
  <2> QED BY <2>1 DEF Lobby
<1>3. ASSUME NEW p \in Users PROVE ~Prepare(p)
  BY DEF Prepare, StartGame, DrawCard, BidTrump, RequestRedeal, Ready, InstallHost,
         ReplaceKitty, CallFriends
<1>4. ASSUME NEW p \in Users, PlayTrick(p) PROVE IsFlight(lead')
  <2>1. CASE \E play \in LeadsOf(p) : LeadPlay(p, play)
    BY <2>1, LeadsAreFlights DEF LeadPlay, CommitLead
  <2>2. CASE \E t \in TractorsIn(tr, hands[p], FlightSuit(lead)) : ContestFly(p, t)
    <3>1. PICK t : ContestFly(p, t)
      BY <2>2
    <3>2. lead' = Flight(tr, <<Smallest(t)>>)
      BY <3>1 DEF ContestFly, CommitLead
    <3>3. Len(lead'.tractors) = 1
      BY <3>2, FlightLen
    <3>4. lead'.tractors # <<>>
      BY <3>3
    <3> QED BY <3>4 DEF IsFlight
  <2>3. CASE PassContest(p) \/ UndoPlay(p) \/ (\E play \in FollowsOf(p) : FollowLead(p, play))
    BY <2>3 DEF PassContest, CommitLead, UndoPlay, FollowLead, LeadInv
  <2>4. CASE CollectTrick(p)
    BY <2>4 DEF CollectTrick, trickVars, LeadInv
  <2> QED BY <1>4, <2>1, <2>2, <2>3, <2>4 DEF PlayTrick
<1>5. ASSUME NEW p \in Users PROVE ~Conclude(p)
  BY DEF Conclude, EndRound, NextReady, NextRound
<1> QED
  BY <1>1, <1>2, <1>3, <1>4, <1>5 DEF Next

\* In a trick that was led, going round those who have played leads to the winner.
Wins(n) == \E w \in RoundOf(plays, n) : winning = Turn(leader, w[n - 1])
WinInv ==
  /\ phase \in {"LEAD", "FLY"} => winning = NULL
  /\ phase \in {"FOLLOW", "FINISH"} =>
       plays[leader] = lead /\ \E n \in 1..nplayers : PlayedFrom(leader, n) /\ Wins(n)

\* A step that leaves the table alone.
LEMMA WinsStay ==
  ASSUME UNCHANGED <<players, order, leader>>, phase' \in {"FOLLOW", "FINISH"},
         NEW n \in 1..nplayers, plays'[leader] = lead',
         \A u \in Users : plays'[u] # NULL <=> \E k \in 0..(n - 1) : u = Turn(leader, k),
         NEW w \in RoundOf(plays', n), winning' = Turn(leader, w[n - 1])
  PROVE  WinInv'
<1>1. PlayedFrom(leader, n)'
  BY DEF PlayedFrom, Turn, nplayers
<1>2. RoundOf(plays, n)' = RoundOf(plays', n)
  BY DEF RoundOf, Turn, nplayers
<1>3. Turn(leader, w[n - 1])' = Turn(leader, w[n - 1])
  BY DEF Turn, nplayers
<1>4. Wins(n)'
  BY <1>2, <1>3 DEF Wins
<1>5. n \in (1..nplayers)'
  BY DEF nplayers
<1> QED
  BY <1>1, <1>4, <1>5 DEF WinInv

LEMMA LeadWins ==
  ASSUME Regular, PlayInv, WinInv, UNCHANGED <<players, order>>, NEW q \in Seated, NEW play,
         Puts(q, play), IsLead(q, play)
  PROVE  WinInv'
<1>1. /\ phase \in {"LEAD", "FLY"} /\ phase' = "FOLLOW" /\ lead' = play /\ q = leader
      /\ leader' = leader /\ play # NULL /\ plays' = [plays EXCEPT ![q] = play]
      /\ winning' = Winner(q, play)
  BY DEF IsLead, Puts
<1>2. /\ phase # "INIT" /\ leader \in Seated /\ nplayers \in Nat /\ nplayers >= 3 /\ TypeInv
  BY <1>1, SeatedAt DEF Tricks, Regular, PlayInv
<1>3. Turn(leader, 0) = leader /\ 0 \in 0..(nplayers - 1) /\ 1 \in 1..nplayers /\ 1 - 1 = 0
  BY <1>2, Ring
<1>4. PlayedFrom(leader, 0)
  <2>1. \A u \in Users : plays[u] = NULL
    BY <1>1, NoneBeforeLead
  <2>2. 0..(0 - 1) = {}
    OBVIOUS
  <2> QED BY <2>1, <2>2 DEF PlayedFrom
<1>5. \A u \in Users : plays'[u] # NULL <=> \E k \in 0..0 : u = Turn(leader, k)
  BY <1>1, <1>2, <1>3, <1>4, OneMore
<1>6. winning' = leader
  BY <1>1 DEF Winner, WinInv
<1>7. plays'[leader] = lead'
  <2>1. leader \in Users /\ DOMAIN plays = Users
    BY <1>2, SeatedUsers DEF TypeInv, TypeOK, TrickTypes
  <2> QED BY <1>1, <2>1
<1> DEFINE w == [k \in 0..0 |-> 0]
<1>8. w \in RoundOf(plays', 1) /\ w[0] = 0
  <2>1. 1..(1 - 1) = {} /\ 0..(1 - 1) = 0..0
    OBVIOUS
  <2>2. w \in [0..0 -> 0..0] /\ w[0] = 0
    OBVIOUS
  <2> HIDE DEF w
  <2> QED BY <2>1, <2>2 DEF RoundOf
<1> HIDE DEF w
<1> QED
  BY <1>1, <1>3, <1>5, <1>6, <1>7, <1>8, WinsStay

\* There is only one way to tell how many have played.
LEMMA PlayedOnce ==
  ASSUME TypeInv, phase # "INIT", leader \in Seated, NEW n \in 0..nplayers, NEW m \in 0..nplayers,
         PlayedFrom(leader, n), PlayedFrom(leader, m)
  PROVE  n = m
<1>0. nplayers \in Nat \ {0}
  BY Ring
<1>1. ASSUME NEW i \in 0..nplayers, NEW j \in 0..nplayers, i < j,
             PlayedFrom(leader, i), PlayedFrom(leader, j)
      PROVE  FALSE
  <2>1. i \in 0..(j - 1) /\ i \in 0..(nplayers - 1)
    BY <1>0, <1>1
  <2>2. Turn(leader, i) \in Users
    BY Ring, SeatedUsers
  <2>3. PICK k \in 0..(i - 1) : Turn(leader, i) = Turn(leader, k)
    BY <1>1, <2>1, <2>2 DEF PlayedFrom
  <2>4. k \in 0..(nplayers - 1) /\ k # i
    BY <1>0, <2>1
  <2> QED BY <2>1, <2>3, <2>4, RingOnce
<1>2. n < m \/ m < n \/ n = m
  BY <1>0
<1> QED
  BY <1>1, <1>2

LEMMA FollowWins ==
  ASSUME Regular, PlayInv, WinInv, UNCHANGED <<players, order>>, NEW q \in Seated, NEW play,
         Puts(q, play), IsFollow(q, play)
  PROVE  WinInv'
<1>1. /\ phase = "FOLLOW" /\ phase' \in {"FOLLOW", "FINISH"} /\ lead' = lead /\ q = current
      /\ leader' = leader /\ play # NULL /\ plays' = [plays EXCEPT ![q] = play]
      /\ winning' = Winner(q, play)
  BY DEF IsFollow, Puts
<1>2. /\ phase # "INIT" /\ leader \in Seated /\ nplayers \in Nat /\ nplayers >= 3 /\ TypeInv
  BY <1>1, SeatedAt DEF Tricks, Regular, PlayInv
<1>3. PICK n \in 0..nplayers : At(n)
  BY <1>1, SeatedAt DEF Tricks, Regular, PlayInv
<1>4. n \in 0..(nplayers - 1) /\ q = Turn(leader, n) /\ PlayedFrom(leader, n) /\ n > 0
  <2>1. q \in Users
    BY <1>2, SeatedUsers
  <2> QED BY <1>1, <1>3, <2>1, CurrentIs DEF Tricks, Regular, PlayInv, At
<1>5. Wins(n) /\ plays[leader] = lead
  <2>1. PICK m \in 1..nplayers : PlayedFrom(leader, m) /\ Wins(m)
    BY <1>1 DEF WinInv
  <2>2. m \in 0..nplayers
    BY <1>2
  <2>3. m = n
    BY <1>2, <1>4, <2>1, <2>2, PlayedOnce
  <2> QED BY <1>1, <2>1, <2>3 DEF WinInv
<1>6. n \in Nat \ {0} /\ n + 1 \in 1..nplayers /\ (n + 1) - 1 = n
  BY <1>2, <1>4
<1>7. PICK w \in RoundOf(plays, n) : winning = Turn(leader, w[n - 1])
  BY <1>5 DEF Wins
<1>8. \A k \in 0..(n - 1) : Turn(leader, k) # q /\ Turn(leader, k) \in Users
  <2>1. \A k \in 0..(n - 1) : k \in 0..(nplayers - 1) /\ k \in 0..nplayers /\ k # n
    BY <1>2, <1>4
  <2>2. \A k \in 0..(n - 1) : Turn(leader, k) # q
    BY <1>2, <1>4, <2>1, RingOnce
  <2> QED BY <1>2, <2>1, <2>2, Ring, SeatedUsers
<1>9. DOMAIN plays = Users /\ q \in Users
  BY <1>2, SeatedUsers DEF TypeInv, TypeOK, TrickTypes
<1>10. plays'[q] = play /\ \A k \in 0..(n - 1) : plays'[Turn(leader, k)] = plays[Turn(leader, k)]
  BY <1>1, <1>8, <1>9
<1>11. PICK qs : qs = plays'
  OBVIOUS
<1>12. PICK v \in RoundOf(qs, n + 1) :
         v[n] = IF Beats(plays[Turn(leader, w[n - 1])], qs[Turn(leader, n)]) THEN w[n - 1] ELSE n
  BY <1>6, <1>7, <1>10, <1>11, RoundGrows
<1>13. winning # NULL
  <2>1. w[n - 1] \in 0..(n - 1)
    <3>1. n - 1 \in 0..(n - 1)
      BY <1>6
    <3>2. w \in [0..(n - 1) -> 0..(n - 1)]
      BY <1>7 DEF RoundOf
    <3> QED BY <3>1, <3>2
  <2>2. winning \in Users
    BY <1>7, <1>8, <2>1
  <2> QED BY <2>2, ZpyAssumption
<1>14. winning' = Turn(leader, v[n])
  BY <1>1, <1>4, <1>7, <1>10, <1>11, <1>12, <1>13 DEF Winner
<1>15. \A u \in Users : plays'[u] # NULL <=> \E k \in 0..n : u = Turn(leader, k)
  BY <1>1, <1>2, <1>4, OneMore
<1>16. plays'[leader] = lead'
  <2>1. 0 \in 0..(n - 1) /\ Turn(leader, 0) = leader
    BY <1>2, <1>6, Ring
  <2> QED BY <1>1, <1>5, <1>10, <2>1
<1>17. v \in RoundOf(plays', n + 1) /\ winning' = Turn(leader, v[(n + 1) - 1])
  BY <1>6, <1>11, <1>12, <1>14
<1>18. \A u \in Users : plays'[u] # NULL <=> \E k \in 0..((n + 1) - 1) : u = Turn(leader, k)
  BY <1>6, <1>15
<1> QED
  BY <1>1, <1>6, <1>16, <1>17, <1>18, WinsStay

\* The round is about the plays of those who have played, and of nobody else.
LEMMA RoundSame ==
  ASSUME NEW n \in Nat \ {0}, NEW ps, NEW qs, NEW w \in RoundOf(qs, n),
         \A k \in 0..(n - 1) : qs[Turn(leader, k)] = ps[Turn(leader, k)]
  PROVE  w \in RoundOf(ps, n)
<1>1. /\ w \in [0..(n - 1) -> 0..(n - 1)] /\ w[0] = 0
      /\ \A k \in 1..(n - 1) :
           w[k] = IF Beats(qs[Turn(leader, w[k - 1])], qs[Turn(leader, k)])
                  THEN w[k - 1] ELSE k
  BY DEF RoundOf
<1>2. ASSUME NEW k \in 1..(n - 1)
      PROVE  w[k] = IF Beats(ps[Turn(leader, w[k - 1])], ps[Turn(leader, k)])
                    THEN w[k - 1] ELSE k
  <2>1. k - 1 \in 0..(n - 1) /\ k \in 0..(n - 1)
    OBVIOUS
  <2>2. w[k - 1] \in 0..(n - 1)
    BY <1>1, <2>1
  <2>3. /\ qs[Turn(leader, w[k - 1])] = ps[Turn(leader, w[k - 1])]
        /\ qs[Turn(leader, k)] = ps[Turn(leader, k)]
    BY <2>1, <2>2
  <2> QED BY <1>1, <2>3
<1> QED
  BY <1>1, <1>2 DEF RoundOf

\* observe_undo starts over from the leader as far as the player's place.
LEMMA BeforeIs ==
  ASSUME TypeInv, phase # "INIT", leader \in Seated, NEW n \in 1..(nplayers - 1)
  PROVE  PlaysBefore(Turn(leader, n)) = n
<1>1. nplayers \in Nat \ {0} /\ order[leader] \in 0..(nplayers - 1) /\ n \in 0..nplayers
  BY Ring
<1>2. order[Turn(leader, n)] = IF order[leader] + n < nplayers THEN order[leader] + n
                               ELSE order[leader] + n - nplayers
  BY <1>1, Ring
<1>3. PICK a \in 0..(nplayers - 1) : a = order[leader]
  BY <1>1
<1>4. PICK b : b = order[Turn(leader, n)]
  OBVIOUS
<1>5. PICK m \in Nat \ {0} : m = nplayers
  BY <1>1
<1>6. b - a + m = IF a + n < m THEN n + m ELSE n
  BY <1>2, <1>3, <1>4, <1>5
<1>7. (n + m) % m = n /\ n % m = n
  <2>1. n \in 0..(m - 1) /\ n \in Nat /\ 0 \in 0..m /\ m \in 0..m
    BY <1>5
  <2>2. (n + m) % m = IF n + m < m THEN n + m ELSE n + m - m
    BY <2>1, ModOf
  <2>3. (n + 0) % m = IF n + 0 < m THEN n + 0 ELSE n + 0 - m
    BY <2>1, ModOf
  <2> QED BY <2>1, <2>2, <2>3
<1>8. (b - a + m) % m = n
  BY <1>6, <1>7
<1> QED
  BY <1>3, <1>4, <1>5, <1>8 DEF PlaysBefore

LEMMA UndoWins ==
  ASSUME Regular, PlayInv, WinInv, UNCHANGED <<players, order>>, NEW p \in Users, UndoPlay(p)
  PROVE  WinInv'
<1>1. /\ phase = "FOLLOW" /\ phase' = "FOLLOW" /\ plays' = [plays EXCEPT ![p] = NULL]
      /\ leader' = leader /\ lead' = lead /\ p # leader
      /\ p # winning => winning' = winning
      /\ p = winning => \E w \in Round(PlaysBefore(p)) :
                          winning' = Turn(leader, w[PlaysBefore(p) - 1])
  BY DEF UndoPlay, CheckUndo
<1>2. /\ phase # "INIT" /\ leader \in Seated /\ nplayers \in Nat /\ nplayers >= 3 /\ TypeInv
  BY <1>1, SeatedAt DEF Tricks, Regular, PlayInv
<1>3. PICK n \in 1..(nplayers - 1) :
        PlayedFrom(leader, n + 1) /\ n + 1 < nplayers /\ p = Turn(leader, n)
  BY UndoneIs DEF Regular, PlayInv
<1>4. \A u \in Users : plays'[u] # NULL <=> \E k \in 0..(n - 1) : u = Turn(leader, k)
  BY <1>3, UndonePlays DEF Regular, PlayInv
<1>5. n \in Nat \ {0} /\ n \in 1..nplayers /\ n + 1 \in 0..nplayers /\ (n + 1) - 1 = n
  BY <1>2
<1>6. Wins(n + 1) /\ plays[leader] = lead
  <2>1. PICK m \in 1..nplayers : PlayedFrom(leader, m) /\ Wins(m)
    BY <1>1 DEF WinInv
  <2>2. m \in 0..nplayers
    BY <1>2
  <2>3. m = n + 1
    BY <1>2, <1>3, <1>5, <2>1, <2>2, PlayedOnce
  <2> QED BY <1>1, <2>1, <2>3 DEF WinInv
<1>7. \A k \in 0..(n - 1) : Turn(leader, k) # p /\ Turn(leader, k) \in Users
  <2>1. n \in 0..(nplayers - 1)
    BY <1>2
  <2>2. \A k \in 0..(n - 1) : k \in 0..(nplayers - 1) /\ k \in 0..nplayers /\ k # n
    BY <1>2
  <2>3. \A k \in 0..(n - 1) : Turn(leader, k) # p
    BY <1>2, <1>3, <2>1, <2>2, RingOnce
  <2> QED BY <1>2, <2>2, <2>3, Ring, SeatedUsers
<1>8. DOMAIN plays = Users /\ leader \in Users
  BY <1>2, SeatedUsers DEF TypeInv, TypeOK, TrickTypes
<1>9. PICK qs : qs = plays'
  OBVIOUS
<1>10. /\ \A k \in 0..(n - 1) : qs[Turn(leader, k)] = plays[Turn(leader, k)]
       /\ plays'[leader] = lead'
  BY <1>1, <1>6, <1>7, <1>8, <1>9
<1>11. \E v \in RoundOf(qs, n) : winning' = Turn(leader, v[n - 1])
  <2>1. CASE p = winning
    <3>1. PlaysBefore(p) = n
      BY <1>2, <1>3, BeforeIs
    <3>2. PICK w \in Round(n) : winning' = Turn(leader, w[n - 1])
      BY <1>1, <2>1, <3>1
    <3>3. w \in RoundOf(plays, n)
      BY <3>2, RoundIs
    <3>4. \A k \in 0..(n - 1) : plays[Turn(leader, k)] = qs[Turn(leader, k)]
      BY <1>10
    <3>5. w \in RoundOf(qs, n)
      BY <1>5, <3>3, <3>4, RoundSame
    <3> QED BY <3>2, <3>5
  <2>2. CASE p # winning
    <3>1. PICK w \in RoundOf(plays, n + 1) : winning = Turn(leader, w[n])
      BY <1>5, <1>6 DEF Wins
    <3>2. PICK v \in RoundOf(qs, n) : w[n] = v[n - 1] \/ w[n] = n
      BY <1>5, <1>10, <3>1, RoundShrinks
    <3>3. w[n] = v[n - 1]
      BY <1>3, <2>2, <3>1, <3>2
    <3>4. winning' = Turn(leader, v[n - 1])
      BY <1>1, <2>2, <3>1, <3>3
    <3> QED BY <3>2, <3>4
  <2> QED BY <2>1, <2>2
<1>12. PICK v \in RoundOf(plays', n) : winning' = Turn(leader, v[n - 1])
  BY <1>9, <1>11
<1> QED
  BY <1>1, <1>4, <1>5, <1>10, <1>12, WinsStay

\* A step that leaves the trick alone.
LEMMA WinsKept ==
  ASSUME WinInv, UNCHANGED <<trickVars, players, order>>, phase' = phase \/ phase' = "FINISH",
         phase' = "FINISH" => phase \in {"FOLLOW", "FINISH"}
  PROVE  WinInv'
<1>0. UNCHANGED <<leader, lead, winning, plays>>
  BY DEF trickVars
<1>1. CASE phase' \in {"LEAD", "FLY"}
  <2>1. winning = NULL
    BY <1>1 DEF WinInv
  <2> QED BY <1>0, <1>1, <2>1 DEF WinInv
<1>2. CASE phase' \in {"FOLLOW", "FINISH"}
  <2>1. PICK n \in 1..nplayers : PlayedFrom(leader, n) /\ Wins(n)
    BY <1>2 DEF WinInv
  <2>2. PICK w \in RoundOf(plays, n) : winning = Turn(leader, w[n - 1])
    BY <2>1 DEF Wins
  <2>3. plays[leader] = lead
    BY <1>2 DEF WinInv
  <2> QED BY <1>0, <1>2, <2>1, <2>2, <2>3, WinsStay DEF PlayedFrom
<1>3. CASE phase' \notin {"LEAD", "FLY", "FOLLOW", "FINISH"}
  BY <1>3 DEF WinInv
<1> QED
  BY <1>1, <1>2, <1>3

LEMMA WinNext == ASSUME Regular, PlayInv, WinInv, [Next]_vars PROVE WinInv'
<1>1. CASE UNCHANGED vars
  <2>1. UNCHANGED <<trickVars, players, order>> /\ phase' = phase
    BY <1>1 DEF vars, lobbyVars, dealVars, trickVars
  <2> QED BY <2>1, WinsKept DEF WinInv
<1>2. ASSUME NEW p \in Users, Configure(p) PROVE WinInv'
  <2>1. Lobby /\ phase' = phase
    BY <1>2 DEF Configure, AddPlayer, RmPlayer, SetDecks, SetRuleMods, SetRank, roundVars
  <2> QED BY <2>1 DEF Lobby, WinInv
<1>3. ASSUME NEW p \in Users, Prepare(p) PROVE WinInv'
  <2>1. CASE StartGame(p) \/ DrawCard(p) \/ RequestRedeal(p) \/ Ready(p)
             \/ (phase \in {"DRAW", "PREPARE"} /\ \E c \in StdDeck, n \in 1..ndecks : BidTrump(p, c, n))
    <3>1. phase' \in {"DRAW", "PREPARE", "KITTY"}
      BY <2>1 DEF StartGame, DrawCard, RequestRedeal, Ready, InstallHost, BidTrump
    <3> QED BY <3>1 DEF WinInv
  <2>2. CASE \/ \E k \in SubPiles(draws[p], Size(kitty)) : ReplaceKitty(p, k)
             \/ \E calls \in Calls : CallFriends(p, calls)
    <3>1. phase \in {"KITTY", "FRIEND"} /\ phase' \in {"FRIEND", "LEAD"} /\ winning' = winning
      BY <2>2 DEF ReplaceKitty, CallFriends
    <3>2. winning = NULL
      BY <3>1 DEF PlayInv, TypeInv, SeatTypes, NoTrick
    <3> QED BY <3>1, <3>2 DEF WinInv
  <2> QED BY <1>3, <2>1, <2>2 DEF Prepare
<1>4. ASSUME NEW p \in Users, PlayTrick(p) PROVE WinInv'
  <2>1. /\ UNCHANGED <<rules, players, order, host, kitty, ndecks>>
        /\ \/ Waits
           \/ \E q \in Seated : \E play : Puts(q, play) /\ (IsLead(q, play) \/ IsFollow(q, play))
           \/ UndoPlay(p)
           \/ CollectTrick(p)
    BY <1>4, PlayMoves
  <2>2. CASE Waits
    BY <2>2 DEF Waits, WinInv
  <2>3. CASE \E q \in Seated : \E play : Puts(q, play) /\ (IsLead(q, play) \/ IsFollow(q, play))
    BY <2>1, <2>3, LeadWins, FollowWins
  <2>4. CASE UndoPlay(p)
    BY <2>1, <2>4, UndoWins
  <2>5. CASE CollectTrick(p)
    <3>1. \/ phase' = "FINISH" /\ UNCHANGED trickVars /\ phase = "FOLLOW"
          \/ phase' = "LEAD" /\ winning' = NULL
      BY <2>5 DEF CollectTrick
    <3> QED BY <2>1, <3>1, WinsKept DEF WinInv
  <2> QED BY <2>1, <2>2, <2>3, <2>4, <2>5
<1>5. ASSUME NEW p \in Users, Conclude(p) PROVE WinInv'
  <2>1. phase' \in {"WAIT", "DRAW"}
    BY <1>5 DEF Conclude, EndRound, NextReady, NextRound
  <2> QED BY <2>1 DEF WinInv
<1> QED
  BY <1>1, <1>2, <1>3, <1>4, <1>5 DEF Next

LEMMA WinAlways == ASSUME Regular PROVE Spec => []WinInv
<1>1. Init => WinInv
  BY DEF Init, WinInv
<1>2. PlayInv /\ WinInv /\ [Next]_vars => WinInv'
  BY WinNext
<1> QED
  BY <1>1, <1>2, PlayAlways, PTL DEF Spec

LEMMA LeadAlways == ASSUME SortKeepsOne PROVE Spec => []LeadInv
<1>1. Init => LeadInv
  BY DEF Init, LeadInv
<1>2. LeadInv /\ [Next]_vars => LeadInv'
  BY LeadNext
<1> QED
  BY <1>1, <1>2, PTL DEF Spec

\* The winner that commit_play keeps up, and observe_undo works out anew, is the
\* player whose play holds against the whole trick in turn order, and his play is a
\* flight with the lead's structure, which scoring relies on.
THEOREM WinnerStands == ASSUME Regular, SortKeepsOne PROVE Spec => []WinnerOK
<1>1. TypeInv /\ WinInv /\ LeadInv => WinnerOK
  <2> SUFFICES ASSUME TypeInv, WinInv, LeadInv, phase \in {"FOLLOW", "FINISH"}
               PROVE  /\ \E w \in Round(Cardinality(Played)) :
                            winning = Turn(leader, w[Cardinality(Played) - 1])
                      /\ Structured(plays[winning])
    BY DEF WinnerOK, Structured
  <2>1. phase # "INIT" /\ leader \in Seated /\ IsFlight(lead) /\ plays[leader] = lead
    BY DEF TypeInv, SeatTypes, TrickSeats, Tricks, LeadInv, WinInv
  <2>2. nplayers \in Nat \ {0} /\ Turn(leader, 0) = leader
    BY <2>1, Ring
  <2>3. PICK n \in 1..nplayers : PlayedFrom(leader, n) /\ Wins(n)
    BY DEF WinInv
  <2>4. n \in 0..nplayers /\ n \in Nat \ {0}
    BY <2>2
  <2>5. Played = {Turn(leader, k) : k \in 0..(n - 1)}
    <3>1. \A k \in 0..(n - 1) : Turn(leader, k) \in Users
      <4>1. \A k \in 0..(n - 1) : k \in 0..nplayers
        BY <2>2
      <4> QED BY <2>1, <4>1, Ring, SeatedUsers
    <3> QED BY <2>3, <3>1 DEF PlayedFrom, Played
  <2>6. Cardinality(Played) = n
    BY <2>1, <2>4, <2>5, RingSize
  <2>7. PICK w \in RoundOf(plays, n) : winning = Turn(leader, w[n - 1])
    BY <2>3 DEF Wins
  <2>8. w \in Round(n)
    BY <2>7, RoundIs
  <2>9. Structured(plays[winning])
    BY <2>1, <2>2, <2>4, <2>7, RoundStructured
  <2> QED BY <2>6, <2>7, <2>8, <2>9
<1>2. Spec => []TypeInv
  BY TypeInvariant DEF Regular
<1> QED
  BY <1>1, <1>2, WinAlways, LeadAlways, PTL

-----------------------------------------------------------------------------
(* The score is a number *)

\* What a flight is made of.
Shaped(t) == t.len \in Nat /\ t.arity \in Nat
Formed(f) == \E n \in Nat \ {0} :
               /\ Len(f.tractors) = n /\ DOMAIN f.tractors = 1..n
               /\ \A i \in 1..n : Shaped(f.tractors[i])

LEMMA TractorsShaped ==
  ASSUME NEW t, NEW pile \in Piles, NEW s, NEW x \in TractorsIn(t, pile, s) PROVE Shaped(x)
<1> DEFINE held  == {c \in StdDeck : pile[c] > 0 /\ VSuit(t, c) = s}
           vranks == {VRank(t, c) : c \in held}
           most  == {0} \cup {pile[c] : c \in held}
<1>1. IsFiniteSet(held)
  BY DeckFinite, FS_Subset
<1>2. IsFiniteSet(vranks) /\ IsFiniteSet({pile[c] : c \in held})
  <2> DEFINE vrank == [c \in held |-> VRank(t, c)]
             count == [c \in held |-> pile[c]]
  <2>1. vrank \in Surjection(held, vranks) /\ count \in Surjection(held, {pile[c] : c \in held})
    BY DEF Surjection
  <2> HIDE DEF held, vranks, vrank, count
  <2> QED BY <1>1, <2>1, FS_Surjection
<1>3. Cardinality(vranks) \in Nat
  BY <1>2, FS_CardinalityType
<1>4. IsFiniteSet(most)
  <2>1. IsFiniteSet({0})
    BY FS_Singleton
  <2> QED BY <1>2, <2>1, FS_Union
<1>5. most \subseteq Int /\ most # {}
  BY DEF Piles
<1>6. Max(most) \in Int
  BY <1>4, <1>5, GreatestIs
<1>7. \E a, b, c : x \in [len : 1..Cardinality(vranks), arity : 1..Max(most), suit : a, rank : b,
                          osnt : c]
  BY DEF TractorsIn
<1> HIDE DEF held, vranks, most
<1>8. x.len \in 1..Cardinality(vranks) /\ x.arity \in 1..Max(most)
  BY <1>7
<1> QED
  BY <1>3, <1>6, <1>8 DEF Shaped

LEMMA FlightsFormed ==
  ASSUME NEW trump, NEW pile \in Piles, NEW s, NEW play \in FlightsIn(trump, pile, s, MaxTractors)
  PROVE  Formed(play)
<1> DEFINE ts == TractorsIn(trump, pile, s)
           S  == SUBSET Seq(ts)
           longer(k, X) == UNION {{Append(f, t) : t \in ts} : f \in {g \in X : Len(g) = k - 1}}
           grown(k, X)  == X \cup {f \in longer(k, X) :
                                     /\ k > 1 => Precedes(f[k - 1], f[k])
                                     /\ Contains(pile, TractorsPile(trump, f))}
           F  == [k \in 1..MaxTractors |-> [X \in S |-> grown(k, X)]]
           Body(grow) == [k \in 0..MaxTractors |-> IF k = 0 THEN {<<>>} ELSE grown(k, grow[k - 1])]
           grow == CHOOSE grow : grow = Body(grow)
<1>1. MaxTractors \in Nat
  BY ZpyAssumption
<1>2. play \in {[tractors |-> f, cards |-> TractorsPile(trump, f)] :
                   f \in grow[MaxTractors] \ {<<>>}}
  BY DEF FlightsIn
<1> HIDE DEF grow
<1>3. \A k \in 1..MaxTractors : \A X \in S : F[k][X] \in S
  <2> SUFFICES ASSUME NEW k \in 1..MaxTractors, NEW X \in S PROVE grown(k, X) \in S
    OBVIOUS
  <2>1. longer(k, X) \subseteq Seq(ts)
    <3> SUFFICES ASSUME NEW f \in X, NEW t \in ts PROVE Append(f, t) \in Seq(ts)
      OBVIOUS
    <3>1. f \in Seq(ts)
      OBVIOUS
    <3> HIDE DEF ts, grown
    <3> QED BY <3>1
  <2> HIDE DEF longer
  <2> QED BY <2>1
<1>4. {<<>>} \in S
  OBVIOUS
<1>5. PICK g : IsSteps(g, F, MaxTractors, S, {<<>>})
  <2>1. StepsIn(F, MaxTractors, S)
    BY <1>3 DEF StepsIn
  <2> HIDE DEF F, S
  <2> QED BY <1>1, <1>4, <2>1, StepsExist
<1>6. g = Body(g)
  <2>1. \A k \in 1..MaxTractors : g[k] = grown(k, g[k - 1])
    <3> TAKE k \in 1..MaxTractors
    <3>1. g[k - 1] \in S
      BY <1>1, <1>5 DEF IsSteps
    <3> HIDE DEF S, grown
    <3> QED BY <1>5, <3>1 DEF IsSteps
  <2> HIDE DEF grown
  <2> QED BY <1>1, <1>5, <2>1 DEF IsSteps
<1>7. grow = Body(grow)
  <2> HIDE DEF Body
  <2> QED BY <1>6 DEF grow
<1>8. \A k \in 0..MaxTractors : grow[k] \in S
  <2> DEFINE N == {k \in Nat : k <= MaxTractors => grow[k] \in S}
  <2>1. 0 \in N
    BY <1>1, <1>7, <1>4
  <2>2. ASSUME NEW k \in Nat, k \in N PROVE k + 1 \in N
    <3> SUFFICES ASSUME k + 1 <= MaxTractors PROVE grow[k + 1] \in S
      OBVIOUS
    <3>1. k + 1 \in 1..MaxTractors /\ k + 1 \in 0..MaxTractors /\ (k + 1) - 1 = k /\ k + 1 # 0
      BY <1>1
    <3>2. grow[k] \in S
      BY <1>1, <2>2
    <3>3. grow[k + 1] = grown(k + 1, grow[k])
      <4> HIDE DEF grown
      <4>1. Body(grow)[k + 1] = grown(k + 1, grow[(k + 1) - 1])
        BY <3>1
      <4> HIDE DEF Body
      <4> QED BY <1>7, <3>1, <4>1
    <3>4. F[k + 1][grow[k]] = grown(k + 1, grow[k])
      BY <3>1, <3>2
    <3> HIDE DEF grown, F, S
    <3> QED BY <1>3, <3>1, <3>2, <3>3, <3>4
  <2> HIDE DEF N, S
  <2>3. Nat \subseteq N
    BY <2>1, <2>2, Induct
  <2> QED BY <1>1, <2>3 DEF N
<1>9. PICK h \in grow[MaxTractors] : h # <<>> /\ play.tractors = h
  BY <1>2
<1>10. h \in Seq(ts)
  BY <1>1, <1>8, <1>9
<1>11. \A i \in 1..Len(h) : Shaped(h[i])
  <2> TAKE i \in 1..Len(h)
  <2>1. h[i] \in ts
    <3> HIDE DEF ts
    <3> QED BY <1>10
  <2> QED BY <2>1, TractorsShaped
<1>12. Len(h) \in Nat \ {0} /\ DOMAIN h = 1..Len(h)
  <2> HIDE DEF ts
  <2> QED BY <1>9, <1>10
<1> QED
  BY <1>9, <1>11, <1>12 DEF Formed

\* From the lead to the score the lead is made of tractors that have a shape.
FormedInv == phase \in {"FLY", "FOLLOW", "FINISH"} => Formed(lead)

\* The part of a fly that is forced is one of its tractors.
LEMMA ForcedFormed ==
  ASSUME SortKeepsOne, Formed(lead), NEW t, Smallest(t) # NULL
  PROVE  Formed(Flight(tr, <<Smallest(t)>>))
<1>1. PICK n \in Nat \ {0} : /\ Len(lead.tractors) = n /\ DOMAIN lead.tractors = 1..n
                             /\ \A i \in 1..n : Shaped(lead.tractors[i])
  BY DEF Formed
<1> DEFINE compat == {i \in DOMAIN lead.tractors : ShapeOf(lead.tractors[i]) = ShapeOf(t)}
<1>2. compat # {} /\ Smallest(t) = lead.tractors[Max(compat)]
  BY DEF Smallest
<1>3. compat \subseteq 1..n
  BY <1>1
<1>4. IsFiniteSet(compat)
  <2>1. IsFiniteSet(1..n)
    BY FS_Interval
  <2> QED BY <1>3, <2>1, FS_Subset
<1> HIDE DEF compat
<1>5. Max(compat) \in 1..n
  <2>1. compat \subseteq Int
    BY <1>3
  <2> QED BY <1>2, <1>3, <1>4, <2>1, GreatestIs
<1>6. Shaped(Smallest(t))
  BY <1>1, <1>2, <1>5
<1> DEFINE x == Smallest(t)
<1> HIDE DEF x
<1>7. Flight(tr, <<x>>).tractors = <<x>>
  BY DEF SortKeepsOne, Flight
<1>8. Shaped(x)
  BY <1>6 DEF x
<1>9. Formed(Flight(tr, <<x>>))
  <2>1. Len(<<x>>) = 1 /\ DOMAIN <<x>> = 1..1 /\ \A i \in 1..1 : Shaped(<<x>>[i])
    BY <1>8
  <2> DEFINE f == Flight(tr, <<x>>)
  <2>2. f.tractors = <<x>>
    BY <1>7
  <2> HIDE DEF f
  <2>3. Len(f.tractors) = 1 /\ DOMAIN f.tractors = 1..1 /\ \A i \in 1..1 : Shaped(f.tractors[i])
    BY <2>1, <2>2
  <2>4. Formed(f)
    BY <2>3 DEF Formed
  <2> QED BY <2>4 DEF f
<1> QED
  BY <1>9 DEF x

LEMMA FormedNext == ASSUME SortKeepsOne, TypeInv, FormedInv, [Next]_vars PROVE FormedInv'
<1> SUFFICES ASSUME phase' \in {"FLY", "FOLLOW", "FINISH"} PROVE Formed(lead')
  BY DEF FormedInv
<1>1. CASE UNCHANGED vars
  BY <1>1 DEF vars, trickVars, FormedInv
<1>2. ASSUME NEW p \in Users, Configure(p) PROVE Formed(lead')
  <2>1. Lobby /\ phase' = phase
    BY <1>2 DEF Configure, AddPlayer, RmPlayer, SetDecks, SetRuleMods, SetRank, roundVars
  <2> QED BY <2>1 DEF Lobby
<1>3. ASSUME NEW p \in Users PROVE ~Prepare(p)
  BY DEF Prepare, StartGame, DrawCard, BidTrump, RequestRedeal, Ready, InstallHost,
         ReplaceKitty, CallFriends
<1>4. ASSUME NEW p \in Users, PlayTrick(p) PROVE Formed(lead')
  <2>1. CASE \E play \in LeadsOf(p) : LeadPlay(p, play)
    <3>1. PICK play \in LeadsOf(p) : LeadPlay(p, play)
      BY <2>1
    <3>2. lead' = play
      BY <3>1 DEF LeadPlay, CommitLead
    <3>3. hands[p] \in Piles
      BY <3>1 DEF LeadPlay, TypeInv, TypeOK, HandTypes
    <3>4. PICK s \in Suits : play \in FlightsIn(tr, hands[p], s, MaxTractors)
      BY <3>1 DEF LeadsOf
    <3>5. Formed(play)
      BY <3>3, <3>4, FlightsFormed
    <3> QED BY <3>2, <3>5
  <2>2. CASE \E t \in TractorsIn(tr, hands[p], FlightSuit(lead)) : ContestFly(p, t)
    <3>1. PICK t : ContestFly(p, t)
      BY <2>2
    <3>2. lead' = Flight(tr, <<Smallest(t)>>) /\ Smallest(t) # NULL /\ phase = "FLY"
      BY <3>1 DEF ContestFly, CommitLead
    <3>3. Formed(Flight(tr, <<Smallest(t)>>))
      BY <3>2, ForcedFormed DEF FormedInv
    <3> QED BY <3>2, <3>3
  <2>3. CASE PassContest(p) \/ UndoPlay(p) \/ (\E play \in FollowsOf(p) : FollowLead(p, play))
    BY <2>3 DEF PassContest, CommitLead, UndoPlay, FollowLead, FormedInv
  <2>4. CASE CollectTrick(p)
    BY <2>4 DEF CollectTrick, trickVars, FormedInv
  <2> QED BY <1>4, <2>1, <2>2, <2>3, <2>4 DEF PlayTrick
<1>5. ASSUME NEW p \in Users PROVE ~Conclude(p)
  BY DEF Conclude, EndRound, NextReady, NextRound
<1> QED
  BY <1>1, <1>2, <1>3, <1>4, <1>5 DEF Next

LEMMA FormedAlways ==
  ASSUME "joins again" \notin Habits, SortKeepsOne PROVE Spec => []FormedInv
<1>1. Init => FormedInv
  BY DEF Init, FormedInv
<1>2. TypeInv /\ FormedInv /\ [Next]_vars => FormedInv'
  BY FormedNext
<1> QED
  BY <1>1, <1>2, TypeInvariant, PTL DEF Spec

\* What the round was worth.
ScoreInv ==
  TypeInv /\ DecksInv /\ PointsInv /\ WinInv /\ LeadInv /\ FormedInv

LEMMA WinnerFormed ==
  ASSUME ScoreInv, phase = "FINISH"
  PROVE  /\ winning \in Users /\ plays[winning] # NULL
         /\ \E k \in Nat \ {0} : /\ Len(plays[winning].tractors) = k
                               /\ \A i \in 1..k : Shaped(plays[winning].tractors[i])
<1>0. TypeInv /\ WinInv /\ LeadInv /\ FormedInv
  BY DEF ScoreInv
<1>1. phase # "INIT" /\ leader \in Seated /\ IsFlight(lead) /\ plays[leader] = lead
  BY <1>0 DEF TypeInv, SeatTypes, TrickSeats, Tricks, LeadInv, WinInv
<1>2. nplayers \in Nat \ {0} /\ Turn(leader, 0) = leader
  BY <1>0, <1>1, Ring
<1>3. PICK n \in 1..nplayers : PlayedFrom(leader, n) /\ Wins(n)
  BY <1>0 DEF WinInv
<1>4. n \in Nat \ {0}
  BY <1>2
<1>5. PICK w \in RoundOf(plays, n) : winning = Turn(leader, w[n - 1])
  BY <1>3 DEF Wins
<1>6. Structured(plays[winning])
  BY <1>1, <1>2, <1>4, <1>5, RoundStructured
<1>7. w[n - 1] \in 0..(n - 1) /\ w[n - 1] \in 0..nplayers
  BY <1>2, <1>4, <1>5 DEF RoundOf
<1>8. winning \in Users
  BY <1>0, <1>1, <1>5, <1>7, Ring, SeatedUsers
<1>9. plays[winning] # NULL
  BY <1>3, <1>5, <1>7, <1>8 DEF PlayedFrom
<1>10. PICK k \in Nat \ {0} : /\ Len(lead.tractors) = k
                              /\ \A i \in 1..k : Shaped(lead.tractors[i])
  BY <1>0 DEF FormedInv, Formed
<1>11. Len(plays[winning].tractors) = k
  BY <1>6, <1>10 DEF Structured
<1>12. ASSUME NEW i \in 1..k PROVE Shaped(plays[winning].tractors[i])
  <2>1. ShapeOf(plays[winning].tractors[i]) = ShapeOf(lead.tractors[i])
    BY <1>6, <1>10 DEF Structured
  <2>2. /\ plays[winning].tractors[i].arity = lead.tractors[i].arity
        /\ plays[winning].tractors[i].len = lead.tractors[i].len
    BY <2>1 DEF ShapeOf
  <2> QED BY <1>10, <2>2 DEF Shaped
<1> QED
  BY <1>8, <1>9, <1>11, <1>12

\* The kitty's multiplier, and with it the score, is a number: the winner of the
\* last trick has a flight whose tractors can be measured.
LEMMA KittyCounts ==
  ASSUME ScoreInv, phase = "FINISH" PROVE KittyPoints \in Int
<1> DEFINE flight == plays[winning]
           counts == {TractorCount(flight.tractors[i]) : i \in 1..Len(flight.tractors)}
<1>1. PICK k \in Nat \ {0} : /\ Len(flight.tractors) = k
                             /\ \A i \in 1..k : Shaped(flight.tractors[i])
  BY WinnerFormed
<1>2. counts \subseteq Nat
  BY <1>1, TimesNat DEF TractorCount, Shaped
<1>3. IsFiniteSet(counts) /\ counts # {}
  <2> DEFINE count == [i \in 1..k |-> TractorCount(flight.tractors[i])]
  <2>1. count \in Surjection(1..k, counts)
    BY <1>1 DEF Surjection
  <2>2. IsFiniteSet(1..k)
    BY FS_Interval
  <2>3. counts # {}
    BY <1>1
  <2> HIDE DEF counts, count
  <2> QED BY <2>1, <2>2, <2>3, FS_Surjection
<1> HIDE DEF counts
<1>4. Max(counts) \in Nat
  <2>1. counts \subseteq Int
    BY <1>2
  <2> QED BY <1>2, <1>3, <2>1, GreatestIs
<1>5. 2 ^ Max(counts) \in Int
  <2> DEFINE m == Max(counts)
  <2>1. m \in Nat
    BY <1>4
  <2> HIDE DEF m
  <2>2. 2 ^ m \in Int
    BY <2>1
  <2> QED BY <2>2 DEF m
<1>6. Count(flight) \in Int
  <2>1. flight.cards \in Piles
    BY WinnerFormed DEF ScoreInv, TypeInv, TypeOK, TrickTypes, PlayOK
  <2>2. Size(flight.cards) = Weigh(Each, flight.cards) /\ Weigh(Each, flight.cards) \in Nat
    BY <2>1, SizeIs, WeighType, WeightsAre
  <2> QED BY <2>2 DEF Count
<1>7. PilePoints(kitty) \in Int
  <2>1. kitty \in Piles
    BY DEF ScoreInv, TypeInv, TypeOK, DealTypes
  <2>2. PilePoints(kitty) = Weigh(Values, kitty) /\ Weigh(Values, kitty) \in Nat
    BY <2>1, PointsAre, WeighType, WeightsAre
  <2> QED BY <2>2
<1>8. KittyPoints = IF winning \notin atk_team THEN 0
                    ELSE PilePoints(kitty) *
                           (IF rules.kitty = "EXP" THEN 2 ^ Max(counts) ELSE 2 * Count(flight))
  BY DEF KittyPoints, counts
<1> DEFINE times == IF rules.kitty = "EXP" THEN 2 ^ Max(counts) ELSE 2 * Count(flight)
<1>9. times \in Int
  BY <1>5, <1>6
<1>10. KittyPoints = IF winning \notin atk_team THEN 0 ELSE PilePoints(kitty) * times
  BY <1>8
<1> HIDE DEF times
<1> QED
  BY <1>7, <1>9, <1>10

LEMMA DeltaCounts ==
  ASSUME ScoreInv, phase = "FINISH" PROVE Delta \in Int /\ Abs(Delta) \in Nat
<1>1. IsFiniteSet(atk_team \cap Seated) /\ \A u \in atk_team \cap Seated : points[u] \in Int
  <2>1. Seated \subseteq Users /\ points \in Scores
    BY SeatedUsers DEF ScoreInv, PointsInv
  <2>2. IsFiniteSet(atk_team \cap Seated)
    BY <2>1, UsersFinite, FS_Subset
  <2> QED BY <2>1, <2>2 DEF Scores
<1>2. SumFunctionOnSet(points, atk_team \cap Seated) \in Int
  BY <1>1, SumTakes
<1>3. AtkPoints \in Int
  BY <1>2, KittyCounts DEF AtkPoints
<1>4. ndecks * 20 \in Nat \ {0}
  BY DEF ScoreInv, DecksInv, TypeInv, TypeOK, TableTypes
<1>5. AtkPoints \div (ndecks * 20) \in Int
  <2> DEFINE a == AtkPoints
             d == ndecks * 20
  <2>1. a \in Int /\ d \in Nat \ {0}
    BY <1>3, <1>4
  <2> HIDE DEF a, d
  <2>2. a \div d \in Int
    BY <2>1
  <2> QED BY <2>2 DEF a, d
<1>6. Delta \in Int
  BY <1>5 DEF Delta
<1> DEFINE d == Delta
<1> HIDE DEF d
<1>7. d \in Int => Abs(d) \in Nat
  BY DEF Abs
<1> QED
  BY <1>6, <1>7 DEF d

-----------------------------------------------------------------------------
(* Going up *)

\* A rank to play on, unless the player starts so high that the hook's average with
\* the big joker is a virtual rank.
Sound(m) ==
  m \in RankMetas /\ ((Big + m.start) \div 2 <= RankA => m.rank \in (2..RankA) \cup {Big})

LEMMA MetaIs ==
  ASSUME NEW m \in RankMetas
  PROVE  /\ m.rank \in 2..Big /\ m.start \in 2..RankA
         /\ \A r \in 2..Big : [m EXCEPT !.rank = r] \in RankMetas
         /\ \A s \in 2..RankA, r \in 2..Big : [m EXCEPT !.start = s, !.rank = r] \in RankMetas
  BY DEF RankMetas

LEMMA BumpIs ==
  ASSUME NEW m \in RankMetas
  PROVE  /\ Bump(m) \in RankMetas
         /\ Bump(m).last_host = m.last_host
         /\ m.rank = Big => /\ Bump(m).rank = Bump(m).start
                            /\ Bump(m).start = IF m.start + 1 > RankA THEN 2 ELSE m.start + 1
         /\ m.rank # Big => /\ Bump(m).start = m.start
                            /\ Bump(m).rank = IF m.rank = RankA THEN Big ELSE m.rank + 1
<1> DEFINE start == IF m.start + 1 > RankA THEN 2 ELSE m.start + 1
<1>1. m.rank \in 2..Big /\ m.start \in 2..RankA /\ start \in 2..RankA /\ start \in 2..Big
  <2>1. m.rank \in 2..Big /\ m.start \in 2..RankA
    BY MetaIs
  <2>2. start \in 2..14
    BY <2>1 DEF RankA
  <2> HIDE DEF start
  <2> QED BY <2>1, <2>2 DEF RankA, Big
<1>2. CASE m.rank = Big
  <2>1. Bump(m) = [m EXCEPT !.start = start, !.rank = start]
    BY <1>2 DEF Bump, Big, RankA
  <2> HIDE DEF start
  <2>2. Bump(m) \in RankMetas
    BY <1>1, <2>1, MetaIs, ZenonT(60)
  <2>3. Bump(m).rank = start /\ Bump(m).start = start /\ Bump(m).last_host = m.last_host
    BY <2>1 DEF RankMetas
  <2> QED BY <1>2, <2>2, <2>3 DEF start
<1>3. CASE m.rank # Big
  <2> DEFINE r == IF m.rank = RankA THEN Big ELSE m.rank + 1
  <2>1. Bump(m) = [m EXCEPT !.rank = r]
    BY <1>3 DEF Bump
  <2>2. r \in 2..Big
    BY <1>1, <1>3 DEF Big, RankA
  <2> HIDE DEF r
  <2>3. Bump(m) \in RankMetas
    BY <2>1, <2>2, MetaIs
  <2>4. Bump(m).rank = r /\ Bump(m).start = m.start /\ Bump(m).last_host = m.last_host
    BY <2>1 DEF RankMetas
  <2> QED BY <1>3, <2>3, <2>4 DEF r
<1> QED
  BY <1>2, <1>3

\* One more rank, or the early return.
Climb(x, is_host) ==
  IF x.stop \/ Blocked(x.meta, is_host) THEN [x EXCEPT !.stop = TRUE]
  ELSE [meta |-> Bump(x.meta), stop |-> Bump(x.meta).rank \in Special /\ rules.rank = "NO_SKIP"]
Climbers == [meta : RankMetas, stop : BOOLEAN]

LEMMA ClimbType ==
  ASSUME NEW x \in Climbers, NEW is_host PROVE Climb(x, is_host) \in Climbers
<1>1. x.meta \in RankMetas /\ x.stop \in BOOLEAN
  BY DEF Climbers
<1>2. CASE x.stop \/ Blocked(x.meta, is_host)
  BY <1>2 DEF Climb, Climbers
<1>3. CASE ~(x.stop \/ Blocked(x.meta, is_host))
  <2>1. Bump(x.meta) \in RankMetas
    BY <1>1, BumpIs
  <2> QED BY <1>3, <2>1 DEF Climb, Climbers
<1> QED
  BY <1>2, <1>3

\* The ranks of rank_up, one after the other.
Ladder(g, meta, is_host, delta) ==
  /\ g \in [0..delta -> Climbers] /\ g[0] = [meta |-> meta, stop |-> FALSE]
  /\ \A i \in 1..delta : g[i] = Climb(g[i - 1], is_host)

LEMMA RankUpIs ==
  ASSUME NEW meta \in RankMetas, NEW is_host, NEW delta \in Nat
  PROVE  \E g : Ladder(g, meta, is_host, delta) /\ RankUp(meta, is_host, delta) = g[delta].meta
<1> DEFINE F == [k \in 1..delta |-> [x \in Climbers |-> Climb(x, is_host)]]
           first == [meta |-> meta, stop |-> FALSE]
           Body(up) == [i \in 0..delta |-> IF i = 0 THEN first ELSE Climb(up[i - 1], is_host)]
           up == CHOOSE up : up = Body(up)
<1>1. RankUp(meta, is_host, delta) = up[delta].meta
  BY DEF RankUp, Climb
<1> HIDE DEF up
<1>2. StepsIn(F, delta, Climbers)
  BY ClimbType DEF StepsIn
<1>3. first \in Climbers
  BY DEF Climbers
<1>4. PICK g : IsSteps(g, F, delta, Climbers, first)
  <2> HIDE DEF F, first
  <2> QED BY <1>2, <1>3, StepsExist
<1>5. Ladder(g, meta, is_host, delta)
  <2>1. g \in [0..delta -> Climbers] /\ g[0] = first
    BY <1>4 DEF IsSteps
  <2>2. ASSUME NEW i \in 1..delta PROVE g[i] = Climb(g[i - 1], is_host)
    <3>1. g[i] = F[i][g[i - 1]]
      BY <1>4 DEF IsSteps
    <3>2. g[i - 1] \in Climbers
      BY <2>1
    <3> QED BY <3>1, <3>2
  <2> QED BY <2>1, <2>2 DEF Ladder
<1>6. ASSUME NEW h, Ladder(h, meta, is_host, delta) PROVE h = Body(h)
  <2>1. h \in [0..delta -> Climbers] /\ h[0] = first
    BY <1>6 DEF Ladder
  <2>2. \A i \in 0..delta : h[i] = IF i = 0 THEN first ELSE Climb(h[i - 1], is_host)
    BY <1>6 DEF Ladder
  <2> HIDE DEF first
  <2> QED BY <2>1, <2>2
<1>7. up = Body(up)
  <2>1. g = Body(g)
    BY <1>5, <1>6
  <2> HIDE DEF Body
  <2> QED BY <2>1 DEF up
<1>8. up = g
  <2> DEFINE N == {i \in Nat : i <= delta => up[i] = g[i]}
  <2>1. 0 \in N
    BY <1>5, <1>7 DEF Ladder
  <2>2. ASSUME NEW i \in Nat, i \in N PROVE i + 1 \in N
    <3> SUFFICES ASSUME i + 1 <= delta PROVE up[i + 1] = g[i + 1]
      OBVIOUS
    <3>1. i + 1 \in 1..delta /\ i + 1 \in 0..delta /\ (i + 1) - 1 = i /\ i + 1 # 0 /\ up[i] = g[i]
      BY <2>2
    <3>2. up[i + 1] = Climb(up[i], is_host)
      <4>1. Body(up)[i + 1] = Climb(up[(i + 1) - 1], is_host)
        BY <3>1
      <4> HIDE DEF Body
      <4> QED BY <1>7, <3>1, <4>1
    <3>3. g[i + 1] = Climb(g[(i + 1) - 1], is_host)
      BY <1>5, <3>1 DEF Ladder
    <3> QED BY <3>1, <3>2, <3>3
  <2> HIDE DEF N
  <2>3. Nat \subseteq N
    BY <2>1, <2>2, Induct
  <2>4. \A i \in 0..delta : up[i] = g[i]
    BY <2>3 DEF N
  <2>5. up = [i \in 0..delta |-> up[i]]
    BY <1>7
  <2>6. g = [i \in 0..delta |-> g[i]]
    BY <1>5 DEF Ladder
  <2> QED BY <2>4, <2>5, <2>6
<1> QED
  BY <1>1, <1>5, <1>8

LEMMA SpecialIs ==
  ASSUME NEW s \in Special PROVE s \in {5, 10, 11, 13, 18} /\ Big \in Special
  BY DEF Special, RankJ, RankK, Big

LEMMA BumpSound == ASSUME NEW m, Sound(m) PROVE Sound(Bump(m))
<1>1. m \in RankMetas /\ m.rank \in 2..Big /\ m.start \in 2..RankA
  BY MetaIs DEF Sound
<1>2. Bump(m) \in RankMetas /\ Bump(m).start \in 2..RankA
  BY <1>1, BumpIs, MetaIs
<1>3. CASE m.rank = Big
  <2>1. Bump(m).rank \in 2..RankA
    BY <1>1, <1>2, <1>3, BumpIs
  <2> QED BY <1>2, <2>1 DEF Sound
<1>4. CASE m.rank # Big
  <2>1. /\ Bump(m).start = m.start
        /\ Bump(m).rank = IF m.rank = RankA THEN Big ELSE m.rank + 1
    BY <1>1, <1>4, BumpIs
  <2>2. m.rank \in (2..RankA) \cup {Big} => Bump(m).rank \in (2..RankA) \cup {Big}
    BY <1>1, <1>4, <2>1 DEF RankA, Big
  <2> QED BY <1>2, <2>1, <2>2 DEF Sound
<1> QED
  BY <1>3, <1>4

LEMMA NothingLeft == ASSUME NEW m \in RankMetas PROVE LeftBehind(m, m) = {}
<1>1. PICK r \in 2..Big : r = m.rank
  BY MetaIs
<1>2. \A s \in Special : ~(r <= s /\ s < r)
  BY <1>1, SpecialIs DEF Big
<1> QED
  BY <1>1, <1>2 DEF LeftBehind

\* A step up leaves the rank it is made from behind, and no other special one.
LEMMA LeavesOne ==
  ASSUME NEW meta \in RankMetas, NEW m \in RankMetas,
         NEW s \in LeftBehind(meta, Bump(m)), s # m.rank
  PROVE  s \in LeftBehind(meta, m)
<1>1. s \in Special /\ s \in {5, 10, 11, 13, 18}
  BY SpecialIs DEF LeftBehind
<1>2. PICK n : n = Bump(m)
  OBVIOUS
<1>3. /\ n \in RankMetas
      /\ m.rank = Big => /\ n.rank = n.start
                         /\ n.start = IF m.start + 1 > RankA THEN 2 ELSE m.start + 1
      /\ m.rank # Big => n.start = m.start /\ n.rank = IF m.rank = RankA THEN Big ELSE m.rank + 1
  BY <1>2, BumpIs
<1>4. PICK r0 \in 2..18, s0 \in 2..14 : r0 = meta.rank /\ s0 = meta.start
  BY MetaIs DEF Big, RankA
<1>5. PICK r1 \in 2..18, s1 \in 2..14 : r1 = m.rank /\ s1 = m.start
  BY MetaIs DEF Big, RankA
<1>6. PICK r2 \in 2..18, s2 \in 2..14 : r2 = n.rank /\ s2 = n.start
  BY <1>3, MetaIs DEF Big, RankA
<1> DEFINE Lap(b, k) == IF s0 < b THEN s0 < k /\ k < b ELSE s0 < k \/ k < b
           Left(rr, b) == IF s0 = b THEN r0 <= s /\ s < rr
                          ELSE r0 <= s \/ (b <= s /\ s < rr) \/ \E k \in 2..14 : Lap(b, k) /\ k <= s
<1>7. Left(r2, s2)
  BY <1>1, <1>2, <1>4, <1>6 DEF LeftBehind, RankA
<1>8. Left(r1, s1)
  <2>1. CASE r1 # 18
    <3>1. s2 = s1 /\ r2 = IF r1 = 14 THEN 18 ELSE r1 + 1
      BY <1>3, <1>5, <1>6, <2>1 DEF Big, RankA
    <3>2. s < r2 => s < r1
      BY <1>1, <1>5, <3>1
    <3> QED BY <1>7, <3>1, <3>2
  <2>2. CASE r1 = 18
    <3>1. r2 = s2 /\ s2 = (IF s1 + 1 > 14 THEN 2 ELSE s1 + 1) /\ s < r1
      BY <1>1, <1>3, <1>5, <1>6, <2>2 DEF Big, RankA
    <3>2. CASE s0 = s2
      <4>1. r0 <= s /\ s0 # s1
        BY <1>7, <3>1, <3>2
      <4> QED BY <4>1
    <3>3. CASE s0 # s2
      <4>1. r0 <= s \/ \E k \in 2..14 : Lap(s2, k) /\ k <= s
        BY <1>1, <1>7, <3>1, <3>3
      <4>2. CASE s0 = s1
        <5>1. \A k \in 2..14 : ~Lap(s2, k)
          BY <3>1, <3>3, <4>2
        <5> QED BY <3>1, <4>1, <4>2, <5>1
      <4>3. CASE s0 # s1
        <5>1. \A k \in 2..14 : Lap(s2, k) => Lap(s1, k) \/ k = s1
          BY <3>1, <3>3, <4>3
        <5> QED BY <3>1, <4>1, <4>3, <5>1
      <4> QED BY <4>2, <4>3
    <3> QED BY <3>2, <3>3
  <2> QED BY <2>1, <2>2
<1> QED
  BY <1>1, <1>4, <1>5, <1>8 DEF LeftBehind, RankA

\* What holds on every rung of rank_up: from a sound rank there is a sound rank, and
\* each of the rules has held for every special rank that was left behind; under
\* NO_SKIP none is left but the one it began on.
RuleKept(meta, is_host, left) ==
  /\ rules.rank = "NO_SKIP" => left \subseteq {meta.rank}
  /\ rules.rank = "HOST_ONCE" => left \subseteq {meta.last_host}
  /\ rules.rank = "NO_PASS" => left = {} \/ is_host
Rung(meta, is_host, i, x) ==
  /\ x \in Climbers
  /\ Sound(meta) => Sound(x.meta)
  /\ x.meta.last_host = meta.last_host
  /\ i = 0 => x.meta = meta
  /\ RuleKept(meta, is_host, LeftBehind(meta, x.meta))
  /\ rules.rank = "NO_SKIP" /\ i > 0 /\ ~x.stop => x.meta.rank \notin Special

LEMMA ClimbUp ==
  ASSUME NEW meta \in RankMetas, NEW is_host, NEW i \in Nat, NEW x, Rung(meta, is_host, i, x)
  PROVE  Rung(meta, is_host, i + 1, Climb(x, is_host))
<1> DEFINE m == x.meta
           y == Climb(x, is_host)
<1>1. x \in Climbers /\ m \in RankMetas /\ x.stop \in BOOLEAN /\ y \in Climbers
  BY ClimbType DEF Rung, Climbers
<1>2. i + 1 # 0
  OBVIOUS
<1>3. CASE x.stop \/ Blocked(m, is_host)
  <2>1. y = [x EXCEPT !.stop = TRUE]
    BY <1>3 DEF Climb
  <2>2. y.meta = m /\ y.stop
    BY <1>1, <2>1 DEF Climbers
  <2> HIDE DEF y, m
  <2> QED BY <1>1, <1>2, <2>2 DEF Rung, m, y
<1>4. CASE ~(x.stop \/ Blocked(m, is_host))
  <2>1. y = [meta |-> Bump(m), stop |-> Bump(m).rank \in Special /\ rules.rank = "NO_SKIP"]
    BY <1>4 DEF Climb
  <2>2. y.meta = Bump(m) /\ (rules.rank = "NO_SKIP" /\ ~y.stop => Bump(m).rank \notin Special)
    <3> DEFINE b == Bump(m)
               halt == b.rank \in Special /\ rules.rank = "NO_SKIP"
    <3> HIDE DEF y, b, halt
    <3>1. y = [meta |-> b, stop |-> halt]
      BY <2>1 DEF b, halt
    <3>2. y.meta = b /\ y.stop = halt
      BY <3>1
    <3>3. rules.rank = "NO_SKIP" /\ ~halt => b.rank \notin Special
      BY Zenon DEF halt
    <3>4. rules.rank = "NO_SKIP" /\ ~y.stop => b.rank \notin Special
      BY <3>2, <3>3, Zenon
    <3> QED BY <3>2, <3>4 DEF b
  <2>3. Sound(meta) => Sound(Bump(m))
    BY BumpSound DEF Rung
  <2>4. Bump(m).last_host = meta.last_host
    BY <1>1, BumpIs DEF Rung
  <2>5. RuleKept(meta, is_host, LeftBehind(meta, Bump(m)))
    <3>1. PICK old : old = LeftBehind(meta, m)
      OBVIOUS
    <3>2. PICK new : new = LeftBehind(meta, Bump(m))
      OBVIOUS
    <3>3. new \subseteq Special /\ new \subseteq old \cup {m.rank}
      BY <1>1, <3>1, <3>2, LeavesOne DEF LeftBehind
    <3>4. RuleKept(meta, is_host, old) /\ m.last_host = meta.last_host
      BY <3>1 DEF Rung
    <3>5. ASSUME rules.rank = "NO_SKIP" PROVE new \subseteq {meta.rank}
      <4>1. CASE i = 0
        <5>1. m = meta
          BY <4>1 DEF Rung
        <5> QED BY <3>3, <3>4, <3>5, <5>1 DEF RuleKept
      <4>2. CASE i > 0
        <5>1. m.rank \notin Special
          BY <1>4, <3>5, <4>2 DEF Rung
        <5> QED BY <3>3, <3>4, <3>5, <5>1 DEF RuleKept
      <4> QED BY <4>1, <4>2
    <3>6. ASSUME rules.rank = "HOST_ONCE" PROVE new \subseteq {meta.last_host}
      <4>1. m.rank \in Special => m.rank = meta.last_host
        BY <1>4, <3>4, <3>6 DEF Blocked
      <4> QED BY <3>3, <3>4, <3>6, <4>1 DEF RuleKept
    <3>7. ASSUME rules.rank = "NO_PASS", ~is_host PROVE new = {}
      <4>1. m.rank \notin Special
        BY <1>4, <3>7 DEF Blocked
      <4>2. old = {}
        BY <3>4, <3>7 DEF RuleKept
      <4> QED BY <3>3, <4>1, <4>2
    <3> QED BY <3>2, <3>5, <3>6, <3>7 DEF RuleKept
  <2> HIDE DEF y, m
  <2> QED BY <1>1, <1>2, <2>2, <2>3, <2>4, <2>5, Zenon DEF Rung, y
<1> QED
  BY <1>3, <1>4

\* What rank_up makes of a rank.
LEMMA RankUpEnds ==
  ASSUME NEW meta \in RankMetas, NEW is_host, NEW delta \in Nat
  PROVE  \E x : Rung(meta, is_host, delta, x) /\ RankUp(meta, is_host, delta) = x.meta
<1>1. PICK g : Ladder(g, meta, is_host, delta) /\ RankUp(meta, is_host, delta) = g[delta].meta
  BY RankUpIs
<1> DEFINE N == {i \in Nat : i <= delta => Rung(meta, is_host, i, g[i])}
<1>2. 0 \in N
  <2>1. g[0] = [meta |-> meta, stop |-> FALSE] /\ g[0] \in Climbers
    <3>1. 0 \in 0..delta
      OBVIOUS
    <3> QED BY <1>1, <3>1 DEF Ladder
  <2>2. g[0].meta = meta
    BY <2>1
  <2>4. RuleKept(meta, is_host, LeftBehind(meta, meta))
    BY NothingLeft DEF RuleKept
  <2>5. ~(0 > 0)
    OBVIOUS
  <2>6. Rung(meta, is_host, 0, g[0])
    BY <2>1, <2>2, <2>4, <2>5 DEF Rung
  <2> QED BY <2>6
<1>3. ASSUME NEW i \in Nat, i \in N PROVE i + 1 \in N
  <2> SUFFICES ASSUME i + 1 <= delta PROVE Rung(meta, is_host, i + 1, g[i + 1])
    OBVIOUS
  <2>1. i + 1 \in 1..delta /\ (i + 1) - 1 = i /\ Rung(meta, is_host, i, g[i])
    BY <1>3
  <2>2. g[i + 1] = Climb(g[i], is_host)
    BY <1>1, <2>1 DEF Ladder
  <2> QED BY <2>1, <2>2, ClimbUp
<1> HIDE DEF N
<1>4. delta \in N
  BY <1>2, <1>3, Induct
<1> QED
  BY <1>1, <1>4 DEF N

-----------------------------------------------------------------------------
(* The ranks after the round *)

\* Ranks to go on with, of the same players as before.
Standings == [Users -> RankMetas \cup {NULL}]
RanksOK(rs) ==
  /\ rs \in Standings
  /\ \A u \in Users : /\ rs[u] = NULL <=> ranks[u] = NULL
                      /\ rs[u] # NULL => Sound(rs[u])

\* Everybody at the table has a rank, and so has the host, also one who left.
RanksInv ==
  /\ RanksOK(ranks)
  /\ \A u \in Seated : ranks[u] # NULL
  /\ host # NULL => ranks[host] # NULL

LEMMA NoRank == NULL \notin RankMetas /\ \A m : Sound(m) => m \in RankMetas /\ m # NULL
  BY ZpyAssumption DEF Sound

LEMMA FixupSound ==
  ASSUME NEW rs, RanksOK(rs), NEW team, team \subseteq Users, \A u \in team : ranks[u] # NULL
  PROVE  RanksOK(Fixup(rs, team))
<1> DEFINE starts == {rs[u].start : u \in team}
           start  == Max(starts)
           first  == {v \in team : rs[v].start = start}
           rks    == {rs[u].rank : u \in first}
           rank   == Max(rks)
           new    == Fixup(rs, team)
<1>1. \A u \in team : u \in Users /\ rs[u] \in RankMetas /\ Sound(rs[u])
  BY NoRank DEF RanksOK
<1>2. ASSUME NEW u \in team
      PROVE  /\ start \in 2..RankA /\ rank \in 2..Big
             /\ (Big + start) \div 2 <= RankA => rank \in (2..RankA) \cup {Big}
  <2>1. IsFiniteSet(team) /\ first \subseteq team
    BY UsersFinite, FS_Subset
  <2>2. IsFiniteSet(starts)
    <3> DEFINE f == [v \in team |-> rs[v].start]
    <3>1. f \in Surjection(team, starts)
      BY DEF Surjection
    <3> HIDE DEF f, starts
    <3> QED BY <2>1, <3>1, FS_Surjection
  <2>3. starts \subseteq 2..RankA /\ starts # {}
    BY <1>1, MetaIs
  <2>4. start \in starts
    <3>1. starts \subseteq Int
      BY <2>3 DEF RankA
    <3> HIDE DEF starts
    <3> QED BY <2>2, <2>3, <3>1, GreatestIs
  <2>5. IsFiniteSet(rks)
    <3> DEFINE f == [v \in first |-> rs[v].rank]
    <3>1. f \in Surjection(first, rks)
      BY DEF Surjection
    <3>2. IsFiniteSet(first)
      BY <2>1, FS_Subset
    <3> HIDE DEF f, first, rks
    <3> QED BY <3>1, <3>2, FS_Surjection
  <2>6. rks # {}
    <3>1. PICK v \in team : start = rs[v].start
      BY <2>4
    <3>2. v \in first
      BY <3>1
    <3> HIDE DEF first
    <3> QED BY <3>2
  <2>7. rks \subseteq 2..Big
    BY <1>1, <2>1, MetaIs
  <2>8. rank \in rks
    <3> HIDE DEF rks
    <3>1. rks \subseteq Int
      BY <2>7 DEF Big
    <3> QED BY <2>5, <2>6, <3>1, GreatestIs
  <2>9. PICK v \in first : rank = rs[v].rank
    BY <2>8
  <2>10. v \in team /\ rs[v].start = start /\ Sound(rs[v])
    BY <1>1, <2>9
  <2> HIDE DEF start, rank, starts, rks, first
  <2> QED BY <2>3, <2>4, <2>7, <2>8, <2>9, <2>10 DEF Sound
<1>3. ASSUME NEW u \in team PROVE new[u] \in RankMetas /\ Sound(new[u])
  <2>1. new[u] = [rs[u] EXCEPT !.start = start, !.rank = rank]
    BY <1>1, <1>3 DEF Fixup
  <2>2. start \in 2..RankA /\ rank \in 2..Big
    BY <1>2
  <2> HIDE DEF start, rank, new
  <2>0. PICK m : m = rs[u]
    OBVIOUS
  <2>3. new[u] \in RankMetas
    <3>1. m \in RankMetas
      BY <1>1, <2>0
    <3>2. [m EXCEPT !.start = start, !.rank = rank] \in RankMetas
      BY <2>2, <3>1, MetaIs
    <3> QED BY <2>0, <2>1, <3>2
  <2>4. new[u].start = start /\ new[u].rank = rank
    BY <1>1, <2>1 DEF RankMetas
  <2> QED BY <1>2, <2>3, <2>4 DEF Sound, start, rank
<1>4. \A u \in Users : u \notin team => new[u] = rs[u]
  BY DEF Fixup
<1>5. new = [u \in Users |-> new[u]]
  BY DEF Fixup
<1> HIDE DEF new
<1>6. ASSUME NEW u \in Users
      PROVE  /\ new[u] \in RankMetas \cup {NULL}
             /\ new[u] = NULL <=> ranks[u] = NULL
             /\ new[u] # NULL => Sound(new[u])
  <2>1. CASE u \in team
    BY <1>3, <2>1, NoRank
  <2>2. CASE u \notin team
    BY <1>4, <2>2 DEF RanksOK, Standings
  <2> QED BY <2>1, <2>2
<1>7. new \in Standings
  BY <1>5, <1>6 DEF Standings
<1>8. RanksOK(new)
  BY <1>6, <1>7 DEF RanksOK
<1> QED
  BY <1>8 DEF new

\* The hook's average of a sound rank with its start.
LEMMA HookSound ==
  ASSUME NEW m, Sound(m) PROVE Sound([m EXCEPT !.rank = HookRank(m)])
<1>1. m \in RankMetas /\ m.rank \in 2..Big /\ m.start \in 2..RankA
  BY MetaIs DEF Sound
<1>2. PICK r : r = HookRank(m)
  OBVIOUS
<1>3. r = m.start \/ r = (m.rank + m.start) \div 2
  BY <1>2 DEF HookRank
<1>4. r \in 2..Big
  BY <1>1, <1>3 DEF RankA, Big
<1>5. (Big + m.start) \div 2 <= RankA => r \in 2..RankA
  BY <1>1, <1>3 DEF RankA, Big
<1>6. [m EXCEPT !.rank = r] \in RankMetas
  BY <1>1, <1>4, MetaIs
<1>7. [m EXCEPT !.rank = r].start = m.start /\ [m EXCEPT !.rank = r].rank = r
  BY <1>1 DEF RankMetas
<1>8. Sound([m EXCEPT !.rank = r])
  BY <1>5, <1>6, <1>7 DEF Sound
<1> QED
  BY <1>2, <1>8

\* The ranks before the fixup for fixed teams and before the hook.
Risen == [u \in Users |-> IF u \in WinnerTeam THEN RankUp(ranks[u], u = host, Abs(Delta))
                          ELSE ranks[u]]

LEMMA TeamsRanked ==
  ASSUME ScoreInv, TeamsInv, RanksInv, phase = "FINISH"
  PROVE  /\ host_team \subseteq Users /\ atk_team \subseteq Users /\ WinnerTeam \subseteq Users
         /\ \A u \in host_team \cup atk_team \cup WinnerTeam : ranks[u] # NULL /\ u \in Seated
         /\ host_team \cap atk_team = {}
<1>1. Teamed /\ TypeInv
  BY DEF TeamsInv, ScoreInv
<1>2. host_team \subseteq Seated /\ atk_team \subseteq Seated /\ host_team \cap atk_team = {}
  BY <1>1 DEF Teamed
<1>3. WinnerTeam = host_team \/ WinnerTeam = atk_team
  BY DEF WinnerTeam
<1> QED
  BY <1>1, <1>2, <1>3, SeatedUsers DEF RanksInv

LEMMA RisenIs ==
  ASSUME ScoreInv, TeamsInv, RanksInv, phase = "FINISH"
  PROVE  /\ RanksOK(Risen)
         /\ \A u \in Users : u \notin WinnerTeam => Risen[u] = ranks[u]
         /\ \A u \in WinnerTeam : \E x : /\ Rung(ranks[u], u = host, Abs(Delta), x)
                                         /\ Risen[u] = x.meta /\ ranks[u] \in RankMetas
<1>1. \A u \in WinnerTeam : u \in Users /\ ranks[u] # NULL
  BY TeamsRanked
<1>2. ASSUME NEW u \in WinnerTeam
      PROVE  \E x : /\ Rung(ranks[u], u = host, Abs(Delta), x)
                    /\ Risen[u] = x.meta /\ ranks[u] \in RankMetas
  <2>1. ranks[u] \in RankMetas /\ Abs(Delta) \in Nat
    BY <1>1, DeltaCounts, NoRank DEF RanksInv, RanksOK
  <2>2. Risen[u] = RankUp(ranks[u], u = host, Abs(Delta))
    BY <1>1 DEF Risen
  <2> QED BY <2>1, <2>2, RankUpEnds
<1>3. ASSUME NEW u \in WinnerTeam PROVE Sound(Risen[u])
  <2>1. Sound(ranks[u])
    BY <1>1 DEF RanksInv, RanksOK
  <2> QED BY <1>2, <2>1 DEF Rung
<1>4. \A u \in Users : u \notin WinnerTeam => Risen[u] = ranks[u]
  BY DEF Risen
<1>5. ASSUME NEW u \in Users
      PROVE  /\ Risen[u] \in RankMetas \cup {NULL}
             /\ Risen[u] = NULL <=> ranks[u] = NULL
             /\ Risen[u] # NULL => Sound(Risen[u])
  <2>1. CASE u \in WinnerTeam
    BY <1>1, <1>3, <2>1, NoRank
  <2>2. CASE u \notin WinnerTeam
    BY <1>4, <2>2 DEF RanksInv, RanksOK, Standings
  <2> QED BY <2>1, <2>2
<1>6. Risen = [u \in Users |-> Risen[u]]
  BY DEF Risen
<1>7. Risen \in Standings
  BY <1>5, <1>6 DEF Standings
<1>8. RanksOK(Risen)
  BY <1>5, <1>7 DEF RanksOK
<1> QED
  BY <1>2, <1>4, <1>8

\* The standings before the hook.
Fixed == IF fixed_teams THEN Fixup(Fixup(Risen, host_team), atk_team) ELSE Risen

LEMMA ScoredIs ==
  ScoredRanks = IF Hooked THEN [u \in Users |-> IF u \in host_team
                                     THEN [Fixed[u] EXCEPT !.rank = HookRank(Fixed[u])]
                                     ELSE Fixed[u]]
                ELSE Fixed
  BY DEF ScoredRanks, Fixed, Risen

LEMMA ScoredSound ==
  ASSUME ScoreInv, TeamsInv, RanksInv, phase = "FINISH" PROVE RanksOK(ScoredRanks)
<1>1. RanksOK(Risen)
  BY RisenIs
<1>2. RanksOK(Fixed)
  <2>1. RanksOK(Fixup(Risen, host_team))
    BY <1>1, TeamsRanked, FixupSound
  <2>2. RanksOK(Fixup(Fixup(Risen, host_team), atk_team))
    BY <2>1, TeamsRanked, FixupSound
  <2> QED BY <1>1, <2>2 DEF Fixed
<1>3. CASE ~Hooked
  BY <1>2, <1>3, ScoredIs
<1>4. CASE Hooked
  <2> DEFINE new == [u \in Users |-> IF u \in host_team
                                     THEN [Fixed[u] EXCEPT !.rank = HookRank(Fixed[u])]
                                     ELSE Fixed[u]]
  <2>1. ASSUME NEW u \in host_team PROVE Sound([Fixed[u] EXCEPT !.rank = HookRank(Fixed[u])])
    <3>1. Sound(Fixed[u])
      BY <1>2, TeamsRanked DEF RanksOK
    <3> QED BY <3>1, HookSound
  <2>2. ASSUME NEW u \in Users
        PROVE  /\ new[u] \in RankMetas \cup {NULL}
               /\ new[u] = NULL <=> ranks[u] = NULL
               /\ new[u] # NULL => Sound(new[u])
    <3>1. CASE u \in host_team
      BY <2>1, <3>1, NoRank, TeamsRanked
    <3>2. CASE u \notin host_team
      BY <1>2, <3>2 DEF RanksOK, Standings
    <3> QED BY <3>1, <3>2
  <2>3. new \in Standings
    BY <2>2 DEF Standings
  <2> HIDE DEF new
  <2>4. RanksOK(new)
    BY <2>2, <2>3 DEF RanksOK
  <2> QED BY <1>4, <2>4, ScoredIs DEF new
<1> QED
  BY <1>3, <1>4

\* Whom the rank rules are about: EndRound moves nobody else up.
LEMMA ScoredRules ==
  ASSUME ScoreInv, TeamsInv, RanksInv, phase = "FINISH", ~fixed_teams, ranks' = ScoredRanks,
         NEW u \in Seated, Climbed(u), ~HookedUp(u)
  PROVE  /\ u \in WinnerTeam
         /\ RuleKept(ranks[u], u = host, LeftBehind(ranks[u], ranks'[u]))
<1>1. u \in Users /\ ranks[u] \in RankMetas
  <2>1. u \in Users /\ ranks[u] # NULL
    BY SeatedUsers DEF ScoreInv, RanksInv
  <2> QED BY <2>1, NoRank DEF RanksInv, RanksOK
<1>2. ranks[u].rank \in 2..Big /\ ranks[u].start \in 2..RankA
  BY <1>1, MetaIs
<1>3. Fixed = Risen
  BY DEF Fixed
<1>4. ~(Hooked /\ u \in host_team)
  <2> SUFFICES ASSUME Hooked, u \in host_team PROVE FALSE
    OBVIOUS
  <2>1. WinnerTeam = atk_team
    BY DEF Hooked, WinnerTeam
  <2>2. u \notin WinnerTeam
    BY <2>1, TeamsRanked
  <2>3. Risen[u] = ranks[u]
    BY <1>1, <2>2, RisenIs
  <2>4. PICK m : m = ranks[u]
    OBVIOUS
  <2>5. PICK r : r = HookRank(m)
    OBVIOUS
  <2>6. ranks'[u] = [m EXCEPT !.rank = r]
    BY <1>1, <1>3, <2>3, <2>4, <2>5, ScoredIs
  <2>7. ranks'[u].start = m.start /\ ranks'[u].rank = r
    BY <1>1, <2>4, <2>6 DEF RankMetas
  <2>8. r > m.rank
    BY <2>4, <2>7 DEF Climbed
  <2>9. r = m.start \/ r = (m.rank + m.start) \div 2
    BY <2>5 DEF HookRank
  <2>10. m.rank < m.start
    BY <1>2, <2>4, <2>8, <2>9 DEF Big, RankA
  <2> QED BY <2>4, <2>10 DEF HookedUp
<1>5. ranks'[u] = Risen[u]
  BY <1>1, <1>3, <1>4, ScoredIs
<1>6. Risen[u] # ranks[u]
  <2>1. ~(ranks[u].rank > ranks[u].rank)
    BY <1>2 DEF Big
  <2> QED BY <1>5, <2>1 DEF Climbed
<1>7. u \in WinnerTeam
  BY <1>1, <1>6, RisenIs
<1>8. PICK x : Rung(ranks[u], u = host, Abs(Delta), x) /\ Risen[u] = x.meta
  BY <1>7, RisenIs
<1>9. RuleKept(ranks[u], u = host, LeftBehind(ranks[u], ranks'[u]))
  BY <1>5, <1>8 DEF Rung
<1> QED
  BY <1>7, <1>9

-----------------------------------------------------------------------------
(* The ranks at the table *)

\* Ranks that nobody loses stay sound when each of them does.
LEMMA RanksKeep ==
  ASSUME RanksInv, ranks' \in Standings,
         \A u \in Users : ranks'[u] # NULL => Sound(ranks'[u]),
         \A u \in Seated' : ranks'[u] # NULL,
         host' # NULL => ranks'[host'] # NULL
  PROVE  RanksInv'
<1>1. RanksOK(ranks)'
  BY DEF RanksOK, Standings, Sound, RankMetas
<1> QED
  BY <1>1 DEF RanksInv

LEMMA RmPlayerLeft ==
  ASSUME SeatsInv, NEW p \in Users, RmPlayer(p) PROVE Seated' \subseteq Seated
<1>1. PICK k \in DOMAIN players : players[k] = p
  BY DEF RmPlayer, Seated, Range
<1>2. {i \in DOMAIN players : players[i] = p} = {k} /\ k \in Int
  BY <1>1 DEF SeatsInv, OneSeatEach
<1> DEFINE front == SubSeq(players, 1, k - 1)
           back  == SubSeq(players, k + 1, Len(players))
<1>3. players' = front \o back
  BY <1>2, MaxOfOne DEF RmPlayer, nplayers
<1>4. k \in 1..Len(players) /\ Len(players) \in Nat /\ players \in Seq(Users)
  BY <1>1 DEF SeatsInv
<1>5. /\ front \in Seq(Users) /\ Len(front) = k - 1
      /\ \A i \in 1..(k - 1) : front[i] = players[i]
  BY <1>4
<1>6. /\ back \in Seq(Users) /\ Len(back) = Len(players) - k
      /\ \A i \in 1..(Len(players) - k) : back[i] = players[k + i]
  BY <1>4
<1> HIDE DEF front, back
<1>7. ASSUME NEW i \in DOMAIN players' PROVE \E j \in DOMAIN players : players'[i] = players[j]
  <2>1. i \in 1..(Len(front) + Len(back))
    BY <1>3, <1>5, <1>6, <1>7
  <2>2. CASE i <= Len(front)
    <3>1. players'[i] = front[i] /\ i \in 1..(k - 1)
      BY <1>3, <1>5, <1>6, <2>1, <2>2
    <3> QED BY <1>4, <1>5, <3>1
  <2>3. CASE ~(i <= Len(front))
    <3>1. players'[i] = back[i - Len(front)]
      BY <1>3, <1>5, <1>6, <2>1, <2>3, ConcatProperties
    <3>2. PICK j : j = i - Len(front)
      OBVIOUS
    <3>3. PICK f \in Nat, n \in Nat : f = k - 1 /\ n = Len(players)
      BY <1>4
    <3>4. i \in 1..(f + (n - k)) /\ ~(i <= f) /\ j = i - f
      BY <1>5, <1>6, <2>1, <2>3, <3>2, <3>3
    <3>5. k \in 1..n
      BY <1>4, <3>3
    <3>6. j \in 1..(n - k) /\ k + j \in 1..n
      BY <3>3, <3>4, <3>5
    <3>7. k + j \in DOMAIN players
      BY <1>4, <3>3, <3>6
    <3>8. players'[i] = players[k + j]
      BY <1>6, <3>1, <3>2, <3>3, <3>6
    <3> QED BY <3>7, <3>8
  <2> QED BY <2>2, <2>3
<1> QED
  BY <1>7 DEF Seated, Range

LEMMA NewRankSound == Sound(NewRank)
  BY DEF NewRank, Sound, RankMetas, RankA, Big

LEMMA ConfigureRanks ==
  ASSUME TypeInv, RanksInv, NEW p \in Users, Configure(p) PROVE RanksInv'
<1>0. /\ \A u \in Users : ranks[u] # NULL => Sound(ranks[u])
      /\ ranks \in Standings /\ \A u \in Seated : u \in Users /\ ranks[u] # NULL
      /\ host # NULL => host \in Users /\ ranks[host] # NULL
  BY SeatedUsers DEF RanksInv, RanksOK, TypeInv, TypeOK, RoundTypes
<1>1. CASE AddPlayer(p)
  <2>1. players' = Append(players, p) /\ host' = host
        /\ ranks' = IF ranks[p] = NULL THEN [ranks EXCEPT ![p] = NewRank] ELSE ranks
    BY <1>1 DEF AddPlayer, roundVars
  <2>2. Seated' = Seated \cup {p}
    <3>1. players \in Seq(Users)
      BY DEF TypeInv, SeatsInv
    <3> QED BY <2>1, <3>1, AppendSeat DEF Seated
  <2>3. PICK new : new = NewRank
    OBVIOUS
  <2>4. Sound(new) /\ new \in RankMetas /\ new # NULL
    BY <2>3, NewRankSound, NoRank
  <2>5. ranks' \in Standings /\ \A u \in Users : ranks'[u] = IF u = p /\ ranks[p] = NULL THEN new ELSE ranks[u]
    BY <1>0, <2>1, <2>3, <2>4 DEF Standings
  <2> QED BY <1>0, <2>1, <2>2, <2>4, <2>5, RanksKeep
<1>2. CASE RmPlayer(p)
  <2>1. UNCHANGED <<ranks, host>>
    BY <1>2 DEF RmPlayer, roundVars
  <2>2. Seated' \subseteq Seated
    BY <1>2, RmPlayerLeft DEF TypeInv
  <2> QED BY <1>0, <2>1, <2>2, RanksKeep
<1>3. CASE (\E n \in DeckChoices : SetDecks(p, n)) \/ (\E mods \in RuleSets : SetRuleMods(p, mods))
  <2>1. UNCHANGED <<ranks, host, players>>
    BY <1>3 DEF SetDecks, SetRuleMods, roundVars
  <2> QED BY <1>0, <2>1, RanksKeep DEF Seated
<1>4. CASE \E rank \in RankChoices : SetRank(p, rank)
  <2>1. PICK rank \in RankChoices : SetRank(p, rank)
    BY <1>4
  <2>2. rank \in (2..RankA) \cup {Big} /\ rank \in 2..Big
    <3>1. RankChoices \subseteq (2..RankA) \cup {Big}
      BY ZpyAssumption
    <3>2. rank \in (2..RankA) \cup {Big}
      BY <3>1
    <3> QED BY <3>2 DEF RankA, Big
  <2>3. ranks[p] # NULL /\ UNCHANGED <<host, players>>
        /\ ranks' = [ranks EXCEPT ![p].rank = rank]
    BY <2>1 DEF SetRank, roundVars
  <2>4. PICK m : m = ranks[p]
    OBVIOUS
  <2>5. PICK new : new = [m EXCEPT !.rank = rank]
    OBVIOUS
  <2>6. m \in RankMetas /\ new \in RankMetas /\ new.start = m.start /\ new.rank = rank
    <3>1. m \in RankMetas
      BY <1>0, <2>3, <2>4, NoRank
    <3>2. new \in RankMetas
      BY <2>2, <2>5, <3>1, MetaIs
    <3>3. new.start = m.start /\ new.rank = rank
      BY <2>5, <3>1 DEF RankMetas
    <3> QED BY <3>1, <3>2, <3>3
  <2>7. Sound(new) /\ new # NULL
    <3>1. Sound(new)
      BY <2>2, <2>6 DEF Sound
    <3> QED BY <3>1, NoRank
  <2>8. ranks' = [ranks EXCEPT ![p] = new]
    BY <1>0, <2>3, <2>4, <2>5 DEF Standings
  <2>9. ranks' \in Standings /\ \A u \in Users : ranks'[u] = IF u = p THEN new ELSE ranks[u]
    BY <1>0, <2>6, <2>8 DEF Standings
  <2> QED BY <1>0, <2>3, <2>7, <2>9, RanksKeep DEF Seated
<1> QED
  BY <1>1, <1>2, <1>3, <1>4 DEF Configure

\* Who becomes host of a round nobody hosted before is at the table.
LEMMA DefaultHostRanked ==
  ASSUME TypeInv, BidsInv, RanksInv, phase = "PREPARE", DefaultHost # NULL
  PROVE  DefaultHost \in Users /\ ranks[DefaultHost] # NULL
<1>1. CASE host # NULL
  BY <1>1 DEF DefaultHost, RanksInv, TypeInv, TypeOK, RoundTypes
<1>2. CASE host = NULL /\ bids # <<>>
  <2>1. DefaultHost = winning_bid.player
    BY <1>2 DEF DefaultHost
  <2>2. winning_bid.player \in Seated
    BY <1>2, BidLast DEF BidsInv, Bidding, winning_bid
  <2> QED BY <2>1, <2>2, SeatedUsers DEF RanksInv
<1>3. CASE host = NULL /\ bids = <<>>
  <2>1. DefaultHost = current /\ current # NULL
    BY <1>3 DEF DefaultHost
  <2>2. cur_idx # NULL /\ cur_idx < nplayers /\ current = players[cur_idx + 1]
    BY <2>1 DEF current
  <2>3. cur_idx \in Nat /\ players \in Seq(Users)
    BY <2>2 DEF TypeInv, TypeOK, RoundTypes, TableTypes
  <2>4. current \in Seated
    <3>1. cur_idx + 1 \in DOMAIN players
      BY <2>2, <2>3 DEF nplayers
    <3> QED BY <2>2, <3>1 DEF Seated, Range
  <2> QED BY <2>1, <2>4, SeatedUsers DEF RanksInv
<1> QED
  BY <1>1, <1>2, <1>3

LEMMA InstallRanks ==
  ASSUME TypeInv, BidsInv, RanksInv, phase = "PREPARE", UNCHANGED players,
         InstallHost(DefaultHost)
  PROVE  RanksInv'
<1>1. PICK h : h = DefaultHost
  OBVIOUS
<1>2. h \in Users /\ ranks[h] # NULL
  BY <1>1, DefaultHostRanked DEF InstallHost
<1>3. host' = h /\ ranks' = [ranks EXCEPT ![h].last_host = ranks[h].rank]
  BY <1>1 DEF InstallHost
<1>0. /\ \A u \in Users : ranks[u] # NULL => Sound(ranks[u])
      /\ ranks \in Standings /\ \A u \in Seated : u \in Users /\ ranks[u] # NULL
  BY SeatedUsers DEF RanksInv, RanksOK
<1>4. PICK m : m = ranks[h]
  OBVIOUS
<1>5. PICK new : new = [m EXCEPT !.last_host = m.rank]
  OBVIOUS
<1>6. m \in RankMetas /\ Sound(m)
  BY <1>0, <1>2, <1>4, NoRank
<1>7. new \in RankMetas /\ new.rank = m.rank /\ new.start = m.start
  BY <1>5, <1>6 DEF RankMetas
<1>8. Sound(new) /\ new # NULL
  <2>1. Sound(new)
    BY <1>6, <1>7 DEF Sound
  <2> QED BY <2>1, NoRank
<1>9. ranks' = [ranks EXCEPT ![h] = new]
  BY <1>0, <1>3, <1>4, <1>5 DEF Standings
<1>10. ranks' \in Standings /\ \A u \in Users : ranks'[u] = IF u = h THEN new ELSE ranks[u]
  BY <1>0, <1>2, <1>7, <1>9 DEF Standings
<1> QED
  BY <1>0, <1>2, <1>3, <1>8, <1>10, RanksKeep DEF Seated

LEMMA PrepareRanks ==
  ASSUME TypeInv, BidsInv, RanksInv, NEW p \in Users, Prepare(p) PROVE RanksInv'
<1>0. /\ \A u \in Users : ranks[u] # NULL => Sound(ranks[u])
      /\ ranks \in Standings /\ \A u \in Seated : ranks[u] # NULL
      /\ host # NULL => ranks[host] # NULL
  BY DEF RanksInv, RanksOK
<1>1. CASE StartGame(p)
  <2>1. ranks' = ranks /\ host' = NULL
    BY <1>1 DEF StartGame, ResetRound
  <2>2. Seated' = Seated
    BY <1>1 DEF StartGame, Seatings, Seated
  <2> QED BY <1>0, <2>1, <2>2, RanksKeep
<1>2. CASE RequestRedeal(p)
  <2>1. ranks' = ranks /\ host' = NULL /\ players' = players
    BY <1>2 DEF RequestRedeal, ResetRound, lobbyVars
  <2> QED BY <1>0, <2>1, RanksKeep DEF Seated
<1>3. CASE Ready(p)
  <2>1. phase = "PREPARE" /\ players' = players
    BY <1>3 DEF Ready
  <2>2. CASE InstallHost(DefaultHost)
    BY <2>1, <2>2, InstallRanks
  <2>3. CASE UNCHANGED <<host, ranks>>
    BY <1>0, <2>1, <2>3, RanksKeep DEF Seated
  <2> QED BY <1>3, <2>2, <2>3 DEF Ready
<1>4. CASE UNCHANGED <<ranks, host, players>>
  BY <1>0, <1>4, RanksKeep DEF Seated
<1> QED
  BY <1>1, <1>2, <1>3, <1>4
  DEF Prepare, DrawCard, BidTrump, ReplaceKitty, CallFriends, lobbyVars

LEMMA RanksNext ==
  ASSUME ScoreInv, TeamsInv, BidsInv, RanksInv, [Next]_vars PROVE RanksInv'
<1>0. TypeInv
  BY DEF ScoreInv
<1>1. CASE UNCHANGED <<ranks, host, players>>
  BY <1>1, RanksKeep DEF RanksInv, RanksOK, Seated
<1>2. ASSUME NEW p \in Users, PlayTrick(p) PROVE UNCHANGED <<ranks, host, players>>
  BY <1>2 DEF PlayTrick, LeadPlay, ContestFly, PassContest, FollowLead, UndoPlay,
              CollectTrick, lobbyVars
<1>3. ASSUME NEW p \in Users, EndRound(p) PROVE RanksInv'
  <2>1. phase = "FINISH" /\ ranks' = ScoredRanks /\ players' = players
    BY <1>3 DEF EndRound
  <2>2. RanksOK(ScoredRanks)
    BY <2>1, ScoredSound
  <2>3. host' \in Seated
    BY <1>0, <1>3, NextHostSeated
  <2>4. \A u \in Seated : u \in Users /\ ranks[u] # NULL
    BY <1>0, SeatedUsers DEF RanksInv
  <2>5. PICK rs : rs = ScoredRanks
    OBVIOUS
  <2>6. ranks' = rs /\ RanksOK(rs)
    BY <2>1, <2>2, <2>5
  <2>7. /\ rs \in Standings /\ \A u \in Users : rs[u] # NULL => Sound(rs[u])
        /\ \A u \in Seated : rs[u] # NULL
    BY <2>4, <2>6 DEF RanksOK
  <2> QED BY <2>1, <2>3, <2>6, <2>7, RanksKeep DEF Seated
<1>4. ASSUME NEW p \in Users, NextReady(p) PROVE UNCHANGED <<ranks, host, players>>
  BY <1>4 DEF NextReady, lobbyVars
<1>5. ASSUME NEW p \in Users, NextRound(p) PROVE UNCHANGED <<ranks, host, players>>
  BY <1>5 DEF NextRound, ResetRound, lobbyVars
<1>6. CASE UNCHANGED vars
  BY <1>1, <1>6 DEF vars, lobbyVars
<1> QED
  BY <1>0, <1>1, <1>2, <1>3, <1>4, <1>5, <1>6, ConfigureRanks, PrepareRanks DEF Next, Conclude

LEMMA RanksInit == Init => RanksInv
<1> SUFFICES ASSUME Init PROVE RanksInv
  OBVIOUS
<1>1. \A u \in Users : ranks[u] = IF u \in Range(Arrived) THEN NewRank ELSE NULL
  BY DEF Init
<1>2. ranks = [u \in Users |-> ranks[u]]
  BY DEF Init
<1>3. Sound(NewRank) /\ NewRank \in RankMetas /\ NewRank # NULL
  BY NewRankSound, NoRank
<1>4. ranks \in Standings
  <2>1. \A u \in Users : ranks[u] \in RankMetas \cup {NULL}
    BY <1>1, <1>3
  <2> QED BY <1>2, <2>1 DEF Standings
<1>5. Seated = Range(Arrived) /\ Seated \subseteq Users
  BY ArrivedType DEF Init, Seated, Range
<1> QED
  BY <1>1, <1>3, <1>4, <1>5 DEF RanksInv, RanksOK, Init

LEMMA ScoreAlways ==
  ASSUME Regular, SortKeepsOne PROVE Spec => [](ScoreInv /\ TeamsInv /\ BidsInv)
<1>1. Init => DecksInv
  BY DEF Init, DecksInv
<1>2. TypeInv /\ TypeInv' /\ DecksInv /\ [Next]_vars => DecksInv'
  BY DecksNext
<1>3. "joins again" \notin Habits
  BY DEF Regular
<1>4. Spec => []TypeInv
  BY <1>3, TypeInvariant
<1>5. Spec => []BidsInv
  BY <1>3, BidsAlways
<1>6. Spec => []FormedInv
  BY <1>3, FormedAlways
<1> QED
  BY <1>1, <1>2, <1>4, <1>5, <1>6, TeamsAlways, PointsAlways, WinAlways, LeadAlways, PTL
  DEF Spec, ScoreInv

LEMMA RanksAlways == ASSUME Regular, SortKeepsOne PROVE Spec => []RanksInv
<1>1. ScoreInv /\ TeamsInv /\ BidsInv /\ RanksInv /\ [Next]_vars => RanksInv'
  BY RanksNext
<1> QED
  BY <1>1, RanksInit, ScoreAlways, PTL DEF Spec

-----------------------------------------------------------------------------
(* The rank a round is played on *)

OnRank == {"KITTY", "FRIEND", "FINISH"} \cup Tricks

\* The trump is of the winning bidder's rank, or of the host's where there is one,
\* and from the kitty on of the host's.
TrumpInv ==
  /\ Bidding /\ bids # <<>> => tr.rank = trump_rank(winning_bid.player)
  /\ phase \in OnRank => tr.rank = ranks[host].rank

LEMMA BidTrumpTrump ==
  ASSUME TypeInv, NEW p \in Users, NEW c \in StdDeck, NEW n \in 1..ndecks, BidTrump(p, c, n)
  PROVE  TrumpInv'
<1> DEFINE b == [player |-> p, card |-> c, n |-> n]
           Bids == [player : Users, card : StdDeck, n : Nat]
<1>1. /\ phase' = phase /\ UNCHANGED <<host, ranks>> /\ bids' = Append(bids, b)
      /\ phase \in {"DRAW", "PREPARE"} /\ tr' = [suit |-> c.suit, rank |-> trump_rank(p)]
  BY DEF BidTrump, lobbyVars
<1>2. bids \in Seq(Bids) /\ b \in Bids
  <2>1. n \in Nat
    BY DEF TypeInv, TypeOK, TableTypes
  <2> QED BY <2>1 DEF TypeInv, TypeOK, DealTypes
<1>3. b.player = p
  OBVIOUS
<1> HIDE DEF b, Bids
<1>4. bids'[Len(bids')] = b
  BY <1>1, <1>2, AppendProperties
<1>5. tr'.rank = ranks[IF host # NULL THEN host ELSE p].rank
  BY <1>1 DEF trump_rank
<1> QED
  BY <1>1, <1>3, <1>4, <1>5 DEF TrumpInv, OnRank, Tricks, trump_rank, winning_bid

LEMMA ReadyTrump ==
  ASSUME TypeInv, BidsInv, RanksInv, TrumpInv, NEW p \in Users, Ready(p) PROVE TrumpInv'
<1>1. phase = "PREPARE" /\ bids' = bids
  BY DEF Ready
<1>2. CASE UNCHANGED <<phase, host, ranks, tr>>
  BY <1>1, <1>2 DEF TrumpInv, Bidding, trump_rank, winning_bid
<1>3. CASE InstallHost(DefaultHost)
  <2>1. PICK h : h = DefaultHost
    OBVIOUS
  <2>2. h \in Users /\ ranks[h] # NULL
    BY <1>1, <1>3, <2>1, DefaultHostRanked DEF InstallHost
  <2>3. /\ phase' = "KITTY" /\ host' = h /\ ranks' = [ranks EXCEPT ![h].last_host = ranks[h].rank]
        /\ bids # <<>> => tr' = tr
        /\ bids = <<>> => tr'.rank = ranks[h].rank
    BY <1>3, <2>1 DEF InstallHost
  <2>4. ranks'[h].rank = ranks[h].rank
    <3>1. ranks[h] \in RankMetas /\ DOMAIN ranks = Users
      BY <2>2, NoRank DEF RanksInv, RanksOK, Standings
    <3> QED BY <2>2, <2>3, <3>1 DEF RankMetas
  <2>5. bids # <<>> => tr.rank = ranks[h].rank
    BY <1>1, <2>1 DEF TrumpInv, Bidding, trump_rank, DefaultHost
  <2> QED BY <2>3, <2>4, <2>5 DEF TrumpInv, Bidding
<1> QED
  BY <1>2, <1>3 DEF Ready

LEMMA TrumpNext ==
  ASSUME TypeInv, BidsInv, RanksInv, TrumpInv, [Next]_vars PROVE TrumpInv'
<1>1. CASE UNCHANGED vars
  BY <1>1 DEF vars, lobbyVars, dealVars, TrumpInv, Bidding, trump_rank, winning_bid
<1>2. ASSUME NEW p \in Users, Configure(p) PROVE TrumpInv'
  <2>1. Lobby /\ phase' = phase
    BY <1>2 DEF Configure, AddPlayer, RmPlayer, SetDecks, SetRuleMods, SetRank, roundVars
  <2> QED BY <2>1 DEF Lobby, TrumpInv, Bidding, OnRank, Tricks
<1>3. ASSUME phase' = "DRAW", bids' = <<>> PROVE TrumpInv'
  BY <1>3 DEF TrumpInv, OnRank, Tricks
<1>4. ASSUME phase \in OnRank, phase' \in OnRank, UNCHANGED <<tr, ranks, host>> PROVE TrumpInv'
  <2>1. ~Bidding'
    BY <1>4 DEF OnRank, Tricks, Bidding
  <2> QED BY <1>4, <2>1 DEF TrumpInv
<1>5. ASSUME NEW p \in Users, Prepare(p) PROVE TrumpInv'
  <2>1. CASE StartGame(p) \/ RequestRedeal(p)
    BY <1>3, <2>1 DEF StartGame, RequestRedeal, ResetRound
  <2>2. CASE DrawCard(p)
    <3>1. /\ Bidding /\ phase' \in {"DRAW", "PREPARE"} /\ UNCHANGED <<bids, tr, host, ranks>>
      BY <2>2 DEF DrawCard, Bidding, lobbyVars
    <3> QED BY <3>1 DEF TrumpInv, OnRank, Tricks, trump_rank, winning_bid
  <2>3. CASE \E c \in StdDeck, n \in 1..ndecks : BidTrump(p, c, n)
    BY <2>3, BidTrumpTrump
  <2>4. CASE Ready(p)
    BY <2>4, ReadyTrump
  <2>5. CASE \E k \in SubPiles(draws[p], Size(kitty)) : ReplaceKitty(p, k)
    BY <1>4, <2>5 DEF ReplaceKitty, lobbyVars, OnRank, Tricks
  <2>6. CASE \E calls \in Calls : CallFriends(p, calls)
    BY <1>4, <2>6 DEF CallFriends, lobbyVars, OnRank, Tricks
  <2> QED BY <1>5, <2>1, <2>2, <2>3, <2>4, <2>5, <2>6 DEF Prepare
<1>6. ASSUME NEW p \in Users, PlayTrick(p) PROVE TrumpInv'
  <2>1. phase \in OnRank /\ phase' \in OnRank
    BY <1>6, PlaysDetect DEF OnRank
  <2>2. UNCHANGED <<tr, ranks, host>>
    BY <1>6 DEF PlayTrick, LeadPlay, ContestFly, PassContest, FollowLead, UndoPlay,
                CollectTrick, lobbyVars
  <2> QED BY <1>4, <2>1, <2>2
<1>7. ASSUME NEW p \in Users, Conclude(p) PROVE TrumpInv'
  <2>1. CASE NextRound(p)
    BY <1>3, <2>1 DEF NextRound, ResetRound
  <2>2. CASE phase' = "WAIT"
    BY <2>2 DEF TrumpInv, Bidding, OnRank, Tricks
  <2> QED BY <1>7, <2>1, <2>2 DEF Conclude, EndRound, NextReady
<1> QED
  BY <1>1, <1>2, <1>5, <1>6, <1>7 DEF Next

LEMMA TrumpAlways == ASSUME Regular, SortKeepsOne PROVE Spec => []TrumpInv
<1>1. Init => TrumpInv
  BY DEF Init, TrumpInv, Bidding, OnRank, Tricks
<1>2. ScoreInv /\ BidsInv /\ RanksInv /\ TrumpInv /\ [Next]_vars => TrumpInv'
  BY TrumpNext DEF ScoreInv
<1> QED
  BY <1>1, <1>2, ScoreAlways, RanksAlways, PTL DEF Spec

\* Through any number of rounds and whatever the rules, rank_up, the fixup of fixed
\* teams and the J-to-bottom hook leave everybody a rank that a round can be played
\* on, except where the hook averages a high start with the big joker; and a round is
\* played on its host's rank, whether it was bid for or the kitty was turned over.
THEOREM RanksAlwaysPlayable == ASSUME Regular, SortKeepsOne PROVE Spec => []RanksPlayable
<1>1. RanksInv /\ TrumpInv => RanksPlayable
  <2> SUFFICES ASSUME RanksInv, TrumpInv PROVE RanksPlayable
    OBVIOUS
  <2>1. ASSUME NEW u \in Users, ranks[u] # NULL
        PROVE  /\ ranks[u].rank \in 2..Big /\ ranks[u].start \in 2..RankA
               /\ (Big + ranks[u].start) \div 2 <= RankA => ranks[u].rank \in (2..RankA) \cup {Big}
    <3>1. Sound(ranks[u])
      BY <2>1 DEF RanksInv, RanksOK
    <3>2. PICK m : m = ranks[u]
      OBVIOUS
    <3>3. m \in RankMetas /\ ((Big + m.start) \div 2 <= RankA => m.rank \in (2..RankA) \cup {Big})
      BY <3>1, <3>2 DEF Sound
    <3>4. m.rank \in 2..Big /\ m.start \in 2..RankA
      BY <3>3, MetaIs
    <3> QED BY <3>2, <3>3, <3>4
  <2> QED BY <2>1 DEF RanksPlayable, TrumpInv, OnRank
<1> QED
  BY <1>1, RanksAlways, TrumpAlways, PTL

\* rank_up keeps each RankSkipRule at every step of a round's delta, of any size: of
\* those at the table only winners go up, and of the special ranks on their way they
\* leave under NO_SKIP none but the one they began on, under HOST_ONCE none but the
\* one they last hosted and under NO_PASS none unless they are the host.
THEOREM RankRulesAlways == ASSUME Regular, SortKeepsOne PROVE Spec => RankRules
<1> DEFINE Ruled ==
      phase = "FINISH" /\ phase' = "WAIT" /\ ~fixed_teams =>
       \A u \in {v \in Seated : Climbed(v) /\ ~HookedUp(v)} :
         LET left == LeftBehind(ranks[u], ranks'[u])
         IN  /\ u \in WinnerTeam
             /\ rules.rank = "NO_SKIP" => left \subseteq {ranks[u].rank}
             /\ rules.rank = "HOST_ONCE" => left \subseteq {ranks[u].last_host}
             /\ rules.rank = "NO_PASS" => left = {} \/ u = host
<1>1. ASSUME ScoreInv, TeamsInv, RanksInv, [Next]_vars PROVE [Ruled]_vars
  <2> SUFFICES ASSUME Next, phase = "FINISH", phase' = "WAIT", ~fixed_teams,
                      NEW u \in Seated, Climbed(u), ~HookedUp(u)
               PROVE  /\ u \in WinnerTeam
                      /\ RuleKept(ranks[u], u = host, LeftBehind(ranks[u], ranks'[u]))
    BY <1>1 DEF RuleKept
  <2>1. PICK p \in Users : EndRound(p)
    BY <1>1 DEF Next, Configure, AddPlayer, RmPlayer, SetDecks, SetRuleMods, SetRank, roundVars,
      Prepare, StartGame, DrawCard, BidTrump, RequestRedeal, Ready, ReplaceKitty, CallFriends,
      PlayTrick, LeadPlay, ContestFly, PassContest, FollowLead, UndoPlay, CollectTrick,
      Conclude, NextReady, NextRound
  <2>2. ranks' = ScoredRanks
    BY <2>1 DEF EndRound
  <2> QED BY <1>1, <2>2, ScoredRules
<1>2. RankRules <=> [][Ruled]_vars
  BY PTL DEF RankRules
<1> QED
  BY <1>1, <1>2, ScoreAlways, RanksAlways, PTL DEF Spec
=============================================================================
