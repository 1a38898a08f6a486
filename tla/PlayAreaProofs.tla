--------------------------- MODULE PlayAreaProofs ---------------------------
(***************************************************************************)
(* Proofs about the play area, for any faces, seats, kitty and openings:   *)
(* its areas are coherent (CoherentAlways, from PageInv), and its cards    *)
(* are the hand of the round it shows (AreasAreHandAlways, from CardInv).  *)
(***************************************************************************)
EXTENDS PlayArea, Basics

-----------------------------------------------------------------------------
(* Areas *)

UiFields ==
  {"page", "seen", "id_set", "hand", "staged", "id_to_area", "selected", "prev_start",
   "prev_stop", "auto_draw", "auto_play", "full_control", "action_pending", "pending_cards"}

\* The cards are where id_to_area says.
Placed(s) ==
  /\ s.seen \in Seq(Faces)
  /\ s.staged \in Seq(SUBSET Nat)
  /\ s.id_set \subseteq 1..Len(s.seen)
  /\ s.id_to_area \in [s.id_set -> 0..Len(s.staged)]
  /\ s.hand = {i \in s.id_set : s.id_to_area[i] = 0}
  /\ \A k \in 1..Len(s.staged) : s.staged[k] = {i \in s.id_set : s.id_to_area[i] = k}

\* The selection is of cards on the page.
Chosen(s) ==
  /\ s.selected \subseteq s.id_set
  /\ s.prev_start # 0 => s.prev_start \in s.selected
  /\ s.prev_stop # 0 => s.prev_stop \in s.id_set

Good(s) == DOMAIN s = UiFields /\ s.page = "mounted" /\ Placed(s) /\ Chosen(s)

\* The members of a set of numbers, numbered in order.
Number(K) == [k \in K |-> Cardinality({j \in K : j <= k})]

LEMMA Numbered ==
  ASSUME NEW n \in Nat, NEW K \in SUBSET (1..n)
  PROVE  /\ Cardinality(K) \in Nat
         /\ Number(K) \in [K -> 1..Cardinality(K)]
         /\ \A k, l \in K : Number(K)[k] = Number(K)[l] => k = l
         /\ \A m \in 1..Cardinality(K) : \E k \in K : Number(K)[k] = m
<1> DEFINE num == Number(K)
           below(k) == {j \in K : j <= k}
<1> USE DEF Number
<1>1. IsFiniteSet(K) /\ Cardinality(K) \in Nat
  <2>1. IsFiniteSet(1..n)
    BY FS_Interval
  <2> QED BY <2>1, FS_Subset, FS_CardinalityType
<1>2. ASSUME NEW k \in K
      PROVE  /\ IsFiniteSet(below(k)) /\ Cardinality(below(k)) \in 1..Cardinality(K)
  <2>1. below(k) \in SUBSET K /\ k \in below(k)
    OBVIOUS
  <2> HIDE DEF below
  <2>2. IsFiniteSet(below(k)) /\ Cardinality(below(k)) <= Cardinality(K)
    BY <1>1, <2>1, FS_Subset
  <2>3. Cardinality(below(k)) \in Nat /\ Cardinality(below(k)) # 0
    BY <2>1, <2>2, FS_CardinalityType, FS_EmptySet
  <2> QED BY <1>1, <2>2, <2>3
<1>3. num \in [K -> 1..Cardinality(K)]
  BY <1>2
<1>4. ASSUME NEW k \in K, NEW l \in K, k < l
      PROVE  Cardinality(below(k)) # Cardinality(below(l))
  <2>1. below(k) \in SUBSET below(l) /\ l \in below(l) /\ l \notin below(k)
    <3>1. \A j \in K : j \in Int
      OBVIOUS
    <3>2. \A j \in K : j <= k => j <= l
      BY <1>4, <3>1
    <3>3. ~(l <= k)
      BY <1>4, <3>1
    <3>4. \A j \in below(k) : j \in below(l)
      BY <3>2
    <3>5. l \in below(l) /\ l \notin below(k)
      BY <3>1, <3>3
    <3> QED BY <3>4, <3>5
  <2>2. IsFiniteSet(below(l))
    BY <1>2
  <2> HIDE DEF below
  <2>3. Cardinality(below(l)) = Cardinality(below(k)) => below(l) = below(k)
    BY <2>1, <2>2, FS_Subset
  <2> QED BY <2>1, <2>3
<1>5. \A k, l \in K : num[k] = num[l] => k = l
  <2> SUFFICES ASSUME NEW k \in K, NEW l \in K, k # l PROVE num[k] # num[l]
    OBVIOUS
  <2>1. num[k] = Cardinality(below(k)) /\ num[l] = Cardinality(below(l))
    OBVIOUS
  <2>2. k < l \/ l < k
    OBVIOUS
  <2> HIDE DEF below
  <2> QED BY <1>4, <2>1, <2>2
<1>6. num \in Surjection(K, 1..Cardinality(K))
  <2>1. num \in Injection(K, 1..Cardinality(K))
    BY <1>3, <1>5 DEF Injection, IsInjective
  <2>2. IsFiniteSet(1..Cardinality(K)) /\ Cardinality(1..Cardinality(K)) = Cardinality(K)
    BY <1>1, FS_Interval
  <2> QED BY <2>1, <2>2, FS_Injection
<1> QED
  BY <1>1, <1>3, <1>5, <1>6 DEF Surjection

\* Discarding the empty areas leaves every card where id_to_area says.
LEMMA ReapPlaced ==
  ASSUME NEW s, DOMAIN s = UiFields, Placed(s)
  PROVE  LET t == ReapAreas(s)
         IN  /\ Placed(t) /\ DOMAIN t = UiFields
             /\ \A f \in UiFields \ {"staged", "id_to_area"} : t[f] = s[f]
<1> DEFINE n == Len(s.staged)
           K == {k \in DOMAIN s.staged : s.staged[k] # {}}
           num == Number(K)
           m == Cardinality(K)
           old(a) == CHOOSE k \in K : num[k] = a
           staged == [a \in 1..m |-> s.staged[old(a)]]
           at == [i \in DOMAIN s.id_to_area |->
                    IF \E k \in K : i \in s.staged[k]
                    THEN num[CHOOSE k \in K : i \in s.staged[k]]
                    ELSE s.id_to_area[i]]
           t == ReapAreas(s)
<1>1. n \in Nat /\ K \in SUBSET (1..n) /\ DOMAIN s.staged = 1..n
  BY DEF Placed
<1> HIDE DEF K
<1>2. /\ m \in Nat /\ num \in [K -> 1..m]
      /\ \A k, l \in K : num[k] = num[l] => k = l
      /\ \A a \in 1..m : \E k \in K : num[k] = a
  BY <1>1, Numbered
<1>3. t = [s EXCEPT !.staged = staged, !.id_to_area = at]
  BY DEF ReapAreas, K, Number
<1> HIDE DEF num, m
<1>4. \A a \in 1..m : old(a) \in K /\ num[old(a)] = a
  BY <1>2
<1>5. \A k \in K : num[k] \in 1..m /\ old(num[k]) = k
  BY <1>2, <1>4
<1>6. \A i \in s.id_set : \A k \in K : i \in s.staged[k] <=> s.id_to_area[i] = k
  BY <1>1 DEF Placed
<1>7. \A i \in s.id_set : s.id_to_area[i] \in K \/ s.id_to_area[i] = 0
  BY <1>1 DEF Placed, K
<1>8. 0 \notin K
  BY <1>1
<1>9. \A i \in s.id_set : at[i] = IF s.id_to_area[i] = 0 THEN 0 ELSE num[s.id_to_area[i]]
  <2> SUFFICES ASSUME NEW i \in s.id_set
               PROVE  at[i] = IF s.id_to_area[i] = 0 THEN 0 ELSE num[s.id_to_area[i]]
    OBVIOUS
  <2>1. i \in DOMAIN s.id_to_area
    BY DEF Placed
  <2>2. CASE s.id_to_area[i] = 0
    BY <1>6, <1>8, <2>1, <2>2
  <2>3. CASE s.id_to_area[i] # 0
    <3>1. (CHOOSE k \in K : i \in s.staged[k]) = s.id_to_area[i] /\ \E k \in K : i \in s.staged[k]
      BY <1>6, <1>7, <2>3
    <3> QED BY <2>1, <2>3, <3>1
  <2> QED BY <2>2, <2>3
<1> HIDE DEF old
<1>10. at \in [s.id_set -> 0..m]
  <2>1. DOMAIN s.id_to_area = s.id_set
    BY DEF Placed
  <2>2. \A i \in s.id_set : at[i] \in 0..m
    BY <1>2, <1>5, <1>7, <1>9
  <2> HIDE DEF at
  <2>3. at = [i \in s.id_set |-> at[i]]
    BY <2>1 DEF at
  <2> QED BY <2>2, <2>3
<1>11. staged \in Seq(SUBSET Nat) /\ Len(staged) = m
  <2>1. \A k \in 1..n : s.staged[k] \in SUBSET Nat
    BY DEF Placed
  <2>2. \A a \in 1..m : s.staged[old(a)] \in SUBSET Nat
    BY <1>1, <1>4, <2>1
  <2> QED BY <1>2, <2>2
<1>12. s.hand = {i \in s.id_set : at[i] = 0}
  <2>1. \A i \in s.id_set : at[i] = 0 <=> s.id_to_area[i] = 0
    BY <1>5, <1>7, <1>9
  <2> HIDE DEF at
  <2> QED BY <2>1 DEF Placed
<1>13. ASSUME NEW a \in 1..m PROVE staged[a] = {i \in s.id_set : at[i] = a}
  <2>1. staged[a] = s.staged[old(a)] /\ old(a) \in 1..n /\ old(a) \in K
    BY <1>1, <1>4
  <2>2. staged[a] = {i \in s.id_set : s.id_to_area[i] = old(a)}
    BY <1>1, <2>1 DEF Placed
  <2> HIDE DEF at, staged
  <2>3. ASSUME NEW i \in s.id_set PROVE at[i] = a <=> s.id_to_area[i] = old(a)
    <3>1. CASE s.id_to_area[i] = 0
      <4>1. at[i] = 0 /\ a # 0 /\ old(a) # 0
        BY <1>2, <1>8, <1>9, <2>1, <3>1
      <4> QED BY <3>1, <4>1
    <3>2. CASE s.id_to_area[i] \in K
      <4>1. at[i] = num[s.id_to_area[i]]
        BY <1>8, <1>9, <3>2
      <4> QED BY <1>4, <1>5, <3>2, <4>1
    <3> QED BY <1>7, <3>1, <3>2
  <2> QED BY <2>2, <2>3
<1> HIDE DEF at, staged, t
<1>14. DOMAIN t = UiFields /\ t.staged = staged /\ t.id_to_area = at
  BY <1>3 DEF UiFields
<1>15. \A f \in UiFields \ {"staged", "id_to_area"} : t[f] = s[f]
  BY <1>3
<1>16. t.seen = s.seen /\ t.id_set = s.id_set /\ t.hand = s.hand
  BY <1>15 DEF UiFields
<1>17. Placed(t)
  BY <1>10, <1>11, <1>12, <1>13, <1>14, <1>16 DEF Placed
<1> QED
  BY <1>14, <1>15, <1>17 DEF t

-----------------------------------------------------------------------------
(* Tallies *)

Tallies == [Faces -> Int]

\* How many of the ids are of a face.
Of(s, ids, f) == {i \in ids : s.seen[i] = f}

LEMMA Ordered ==
  ASSUME NEW S, IsFiniteSet(S)
  PROVE  /\ Cardinality(S) \in Nat
         /\ SetToSeq(S) \in [1..Cardinality(S) -> S]
         /\ \A i, j \in 1..Cardinality(S) : SetToSeq(S)[i] = SetToSeq(S)[j] => i = j
         /\ \A x \in S : \E i \in 1..Cardinality(S) : SetToSeq(S)[i] = x
<1> DEFINE n == Cardinality(S)
           q == SetToSeq(S)
<1>1. n \in Nat /\ ExistsBijection(1..n, S)
  BY FS_CardinalityType
<1>2. \E f \in [1..n -> S] : IsInjective(f)
  BY <1>1 DEF ExistsBijection, Bijection, Injection
<1>3. q \in [1..n -> S] /\ IsInjective(q)
  BY <1>2 DEF SetToSeq
<1>4. q \in Surjection(1..n, S)
  <2>1. q \in Injection(1..n, S)
    BY <1>3 DEF Injection
  <2>2. Cardinality(1..n) = n
    BY <1>1, FS_Interval
  <2> HIDE DEF n, q
  <2>3. Cardinality(S) = Cardinality(1..n)
    BY <2>2 DEF n
  <2> QED BY <2>1, <2>3, FS_Injection
<1> HIDE DEF q
<1> QED
  BY <1>1, <1>3, <1>4 DEF Surjection, IsInjective, q

\* One copy of a card for each that a tally has.
Copies(cards) == UNION {{f} \X (1..cards[f]) : f \in Faces}

LEMMA CopiesFinite ==
  ASSUME NEW cards \in Tallies
  PROVE  IsFiniteSet(Copies(cards))
<1> DEFINE S == {{f} \X (1..cards[f]) : f \in Faces}
           g == [f \in Faces |-> {f} \X (1..cards[f])]
<1>1. g \in Surjection(Faces, S)
  BY DEF Surjection
<1>2. IsFiniteSet(S)
  <2> HIDE DEF S, g
  <2> QED BY <1>1, PlayAreaAssumption, FS_Surjection
<1>3. ASSUME NEW T \in S PROVE IsFiniteSet(T)
  <2>1. PICK f \in Faces : T = {f} \X (1..cards[f])
    OBVIOUS
  <2>2. IsFiniteSet({f}) /\ IsFiniteSet(1..cards[f])
    <3>1. cards[f] \in Int
      BY DEF Tallies
    <3>2. IsFiniteSet(1..cards[f])
      BY <3>1, FS_Interval
    <3> QED BY <3>2, FS_Singleton
  <2> QED BY <2>1, <2>2, FS_Product
<1> HIDE DEF S
<1>4. IsFiniteSet(UNION S)
  BY <1>2, <1>3, FS_UNION
<1> QED
  BY <1>4 DEF Copies, S

\* The ids given to new cards are as many of each face as the cards.
LEMMA FreshTally ==
  ASSUME NEW cards \in Tallies, NEW f \in Faces, NEW n \in Nat
  PROVE  Cardinality({i \in n + 1..n + Cardinality(Copies(cards)) :
                        SetToSeq(Copies(cards))[i - n][1] = f})
           = IF cards[f] > 0 THEN cards[f] ELSE 0
<1> DEFINE S == Copies(cards)
           m == Cardinality(S)
           k == cards[f]
           order == SetToSeq(S)
           ids == {i \in n + 1..n + m : order[i - n][1] = f}
           g == [i \in ids |-> order[i - n][2]]
<1>1. /\ m \in Nat /\ order \in [1..m -> S]
      /\ \A i, j \in 1..m : order[i] = order[j] => i = j
      /\ \A x \in S : \E i \in 1..m : order[i] = x
  BY CopiesFinite, Ordered
<1>2. \A x \in S : /\ x = <<x[1], x[2]>> /\ x[1] \in Faces
                   /\ x[1] = f => x[2] \in 1..k
  BY DEF Copies
<1>3. \A i \in 1..k : <<f, i>> \in S
  BY DEF Copies
<1> HIDE DEF order
<1>4. ids = {i \in n + 1..n + m : order[i - n][1] = f}
  OBVIOUS
<1> HIDE DEF S, m, ids
<1>5. \A i \in ids : i - n \in 1..m /\ order[i - n] \in S /\ order[i - n][1] = f
  BY <1>1, <1>4
<1>6. g \in [ids -> 1..k]
  BY <1>2, <1>5
<1>7. ASSUME NEW i \in ids, NEW j \in ids, g[i] = g[j] PROVE i = j
  <2>1. order[i - n] = order[j - n]
    BY <1>2, <1>5, <1>7
  <2>2. i - n = j - n
    BY <1>1, <1>5, <2>1
  <2>3. i \in Int /\ j \in Int
    BY <1>4
  <2> QED BY <2>2, <2>3
<1>8. ASSUME NEW a \in 1..k PROVE \E i \in ids : g[i] = a
  <2>1. PICK i \in 1..m : order[i] = <<f, a>>
    BY <1>1, <1>3
  <2>2. i + n \in n + 1..n + m /\ (i + n) - n = i
    BY <1>1
  <2>3. i + n \in ids
    BY <1>4, <2>1, <2>2
  <2> QED BY <2>1, <2>2, <2>3
<1> HIDE DEF g
<1>9. g \in Injection(ids, 1..k) /\ g \in Surjection(ids, 1..k)
  BY <1>6, <1>7, <1>8 DEF Injection, IsInjective, Surjection
<1>10. k \in Int
  BY DEF Tallies
<1>11. IsFiniteSet(1..k) /\ Cardinality(1..k) = IF 1 > k THEN 0 ELSE k - 1 + 1
  BY <1>10, FS_Interval
<1>12. Cardinality(ids) = Cardinality(1..k)
  <2> HIDE DEF k
  <2> QED BY <1>9, <1>11, FS_Injection
<1> QED
  BY <1>10, <1>11, <1>12 DEF ids, m, S, order

LEMMA TallyIs ==
  ASSUME NEW s, NEW ids, IsFiniteSet(ids)
  PROVE  /\ Tally(s, ids) \in [Faces -> Nat]
         /\ \A f \in Faces : /\ Tally(s, ids)[f] = Cardinality(Of(s, ids, f))
                            /\ IsFiniteSet(Of(s, ids, f))
<1>1. \A f \in Faces : /\ IsFiniteSet(Of(s, ids, f)) /\ Cardinality(Of(s, ids, f)) \in Nat
  <2> TAKE f \in Faces
  <2>1. Of(s, ids, f) \in SUBSET ids
    BY DEF Of
  <2> QED BY <2>1, FS_Subset, FS_CardinalityType
<1>2. Tally(s, ids) = [f \in Faces |-> Cardinality(Of(s, ids, f))]
  BY DEF Tally, Of
<1> QED
  BY <1>1, <1>2

LEMMA TallySplit ==
  ASSUME NEW s, NEW ids, IsFiniteSet(ids), NEW A \in SUBSET ids
  PROVE  \A f \in Faces : Tally(s, ids)[f] = Tally(s, A)[f] + Tally(s, ids \ A)[f]
<1> SUFFICES ASSUME NEW f \in Faces
             PROVE  Tally(s, ids)[f] = Tally(s, A)[f] + Tally(s, ids \ A)[f]
  OBVIOUS
<1>1. IsFiniteSet(A) /\ IsFiniteSet(ids \ A)
  BY FS_Subset, FS_Difference
<1> DEFINE P == Of(s, A, f)
           Q == Of(s, ids \ A, f)
           R == Of(s, ids, f)
<1>2. R = P \cup Q /\ P \cap Q = {}
  BY DEF Of
<1>3. /\ Tally(s, ids)[f] = Cardinality(R) /\ IsFiniteSet(R)
      /\ Tally(s, A)[f] = Cardinality(P) /\ IsFiniteSet(P)
      /\ Tally(s, ids \ A)[f] = Cardinality(Q) /\ IsFiniteSet(Q)
  BY <1>1, TallyIs
<1> HIDE DEF P, Q, R
<1>4. /\ Cardinality(R) = Cardinality(P) + Cardinality(Q) - Cardinality({})
      /\ Cardinality({}) = 0
  BY <1>2, <1>3, FS_Union, FS_EmptySet
<1>5. Cardinality(P) \in Nat /\ Cardinality(Q) \in Nat
  BY <1>3, FS_CardinalityType
<1> QED
  BY <1>3, <1>4, <1>5

\* A tally is of the cards as they were when they came.
LEMMA TallySame ==
  ASSUME NEW s, NEW t, NEW ids, \A i \in ids : t.seen[i] = s.seen[i]
  PROVE  Tally(t, ids) = Tally(s, ids)
<1>1. \A f \in Faces : {i \in ids : t.seen[i] = f} = {i \in ids : s.seen[i] = f}
  OBVIOUS
<1> QED
  BY <1>1 DEF Tally

LEMMA TallyAll ==
  ASSUME NEW s, NEW ids, IsFiniteSet(ids), NEW A \in SUBSET ids,
         \A i \in ids : s.seen[i] \in Faces,
         \A f \in Faces : Tally(s, A)[f] = Tally(s, ids)[f]
  PROVE  A = ids
<1> SUFFICES ASSUME NEW i \in ids PROVE i \in A
  OBVIOUS
<1> DEFINE f == s.seen[i]
<1>1. Of(s, A, f) \in SUBSET Of(s, ids, f) /\ i \in Of(s, ids, f)
  BY DEF Of
<1>2. IsFiniteSet(A) /\ f \in Faces
  BY FS_Subset
<1> HIDE DEF f
<1>3. Cardinality(Of(s, A, f)) = Cardinality(Of(s, ids, f)) /\ IsFiniteSet(Of(s, ids, f))
  BY <1>2, TallyIs
<1>4. Of(s, A, f) = Of(s, ids, f)
  BY <1>1, <1>3, FS_Subset
<1> QED
  BY <1>1, <1>4 DEF Of

-----------------------------------------------------------------------------
(* What the operators make of the page *)

\* New cards come to the page with new ids, one for each of the cards.
LEMMA AddedIs ==
  ASSUME NEW s, DOMAIN s = UiFields, Placed(s), NEW cards \in Tallies, NEW adx \in {0, 1}
  PROVE  LET t == WithCardsAdded(s, cards, adx)
             fresh == t.id_set \ s.id_set
         IN  /\ Placed(t) /\ DOMAIN t = UiFields
             /\ \A f \in UiFields \ {"seen", "id_set", "hand", "staged", "id_to_area"} :
                  t[f] = s[f]
             /\ s.id_set \subseteq t.id_set
             /\ \A i \in s.id_set : t.seen[i] = s.seen[i]
             /\ \A f \in Faces :
                  Tally(t, fresh)[f] = IF cards[f] > 0 THEN cards[f] ELSE 0
<1> DEFINE S == Copies(cards)
           order == SetToSeq(S)
           n == Len(s.seen)
           m == Len(order)
           fresh == n + 1 .. n + m
           shunted == IF adx = 1 THEN Area1(s) ELSE {}
           hand == s.hand \union shunted \union (IF adx = 0 THEN fresh ELSE {})
           seen == s.seen \o [k \in DOMAIN order |-> order[k][1]]
           staged == IF adx = 0 THEN s.staged
                     ELSE IF s.staged = <<>> THEN <<fresh>>
                     ELSE [s.staged EXCEPT ![1] = fresh]
           at == [i \in DOMAIN s.id_to_area \union fresh |->
                   IF i \in fresh THEN adx ELSE IF i \in shunted THEN 0
                   ELSE s.id_to_area[i]]
           t == WithCardsAdded(s, cards, adx)
<1>1. t = [s EXCEPT !.seen = seen, !.id_set = s.id_set \union fresh, !.hand = hand,
                    !.staged = staged, !.id_to_area = at]
  BY DEF WithCardsAdded, Copies
<1>2. /\ Cardinality(S) \in Nat /\ order \in [1..Cardinality(S) -> S]
      /\ m = Cardinality(S)
  BY CopiesFinite, Ordered
<1>3. n \in Nat /\ m \in Nat /\ s.seen \in Seq(Faces) /\ DOMAIN order = 1..m
  BY <1>2 DEF Placed
<1>4. \A k \in 1..m : order[k][1] \in Faces
  BY <1>2 DEF Copies
<1> HIDE DEF order, m
<1>5. /\ seen \in Seq(Faces) /\ Len(seen) = n + m
      /\ \A i \in 1..n : seen[i] = s.seen[i]
      /\ \A i \in fresh : seen[i] = order[i - n][1]
  <2> DEFINE new == [k \in 1..m |-> order[k][1]]
  <2>1. new \in Seq(Faces) /\ Len(new) = m /\ \A k \in 1..m : new[k] = order[k][1]
    BY <1>3, <1>4
  <2>2. seen = s.seen \o new
    BY <1>3
  <2> HIDE DEF new, seen
  <2>3. /\ seen \in Seq(Faces) /\ Len(seen) = n + m
        /\ \A i \in 1..n + m : seen[i] = IF i <= n THEN s.seen[i] ELSE new[i - n]
    BY <1>3, <2>1, <2>2, ConcatProperties
  <2>4. \A i \in fresh : i \in 1..n + m /\ ~(i <= n) /\ i - n \in 1..m
    BY <1>3
  <2>5. \A i \in 1..n : i \in 1..n + m /\ i <= n
    BY <1>3
  <2> QED BY <2>1, <2>3, <2>4, <2>5
<1>6. s.id_set \in SUBSET (1..n) /\ s.id_set \cap fresh = {} /\ fresh \in SUBSET (1..n + m)
  BY <1>3 DEF Placed
<1> HIDE DEF fresh
<1>7. /\ s.staged \in Seq(SUBSET Nat) /\ Len(s.staged) \in Nat
      /\ s.id_to_area \in [s.id_set -> 0..Len(s.staged)]
      /\ s.hand = {i \in s.id_set : s.id_to_area[i] = 0}
      /\ \A k \in 1..Len(s.staged) : s.staged[k] = {i \in s.id_set : s.id_to_area[i] = k}
  BY DEF Placed
<1>8. /\ staged \in Seq(SUBSET Nat)
      /\ Len(staged) = IF adx = 1 /\ s.staged = <<>> THEN 1 ELSE Len(s.staged)
      /\ \A k \in 1..Len(staged) : staged[k] = IF adx = 1 /\ k = 1 THEN fresh ELSE s.staged[k]
  <2>1. fresh \in SUBSET Nat
    BY <1>3, <1>6
  <2>2. CASE adx = 0
    BY <1>7, <2>2
  <2>3. CASE adx = 1 /\ s.staged = <<>>
    BY <2>1, <2>3
  <2>4. CASE adx = 1 /\ s.staged # <<>>
    <3>1. staged = [s.staged EXCEPT ![1] = fresh] /\ Len(s.staged) >= 1
      BY <1>7, <2>4, EmptyIs
    <3> QED BY <1>7, <2>1, <2>4, <3>1
  <2> QED BY <2>2, <2>3, <2>4
<1>9. shunted = {i \in s.id_set : adx = 1 /\ s.id_to_area[i] = 1}
  <2>1. CASE adx = 1 /\ s.staged # <<>>
    <3>1. 1 \in 1..Len(s.staged)
      BY <1>7, <2>1, EmptyIs
    <3> QED BY <1>7, <2>1, <3>1 DEF Area1
  <2>2. CASE adx = 1 /\ s.staged = <<>>
    <3>1. Len(s.staged) = 0
      BY <2>2
    <3> QED BY <1>7, <2>2, <3>1 DEF Area1
  <2> QED BY <2>1, <2>2
<1> HIDE DEF shunted, staged
<1>10. /\ \A i \in fresh : at[i] = adx
       /\ \A i \in s.id_set : i \in shunted => at[i] = 0
       /\ \A i \in s.id_set : i \notin shunted => at[i] = s.id_to_area[i]
  BY <1>6, <1>7
<1>19. at = [i \in s.id_set \union fresh |-> at[i]]
  BY <1>6, <1>7
<1> HIDE DEF at
<1>11. at \in [s.id_set \union fresh -> 0..Len(staged)]
  <2>1. \A i \in fresh : at[i] \in 0..Len(staged)
    <3>1. adx \in 0..Len(staged)
      BY <1>7, <1>8, EmptyIs
    <3> QED BY <1>10, <3>1
  <2>2. \A i \in s.id_set : at[i] \in 0..Len(staged)
    <3>1. Len(s.staged) <= Len(staged) /\ Len(staged) \in Nat
      BY <1>7, <1>8, EmptyIs
    <3>2. \A i \in s.id_set : at[i] \in 0..Len(s.staged)
      BY <1>7, <1>10
    <3> QED BY <1>7, <3>1, <3>2
  <2> QED BY <1>19, <2>1, <2>2
<1>12. hand = {i \in s.id_set \union fresh : at[i] = 0}
  BY <1>6, <1>7, <1>9, <1>10
<1>13. ASSUME NEW k \in 1..Len(staged)
       PROVE  staged[k] = {i \in s.id_set \union fresh : at[i] = k}
  <2>1. CASE adx = 1 /\ k = 1
    <3>1. ASSUME NEW i \in s.id_set PROVE at[i] # 1
      <4>1. i \in shunted <=> s.id_to_area[i] = 1
        BY <1>9, <2>1
      <4> QED BY <1>10, <4>1
    <3> QED BY <1>8, <1>10, <2>1, <3>1
  <2>2. CASE ~(adx = 1 /\ k = 1)
    <3>1. k \in 1..Len(s.staged) /\ k # 0 /\ k # adx
      <4>1. CASE adx = 1 /\ s.staged = <<>>
        BY <1>8, <2>2, <4>1
      <4>2. CASE ~(adx = 1 /\ s.staged = <<>>)
        BY <1>7, <1>8, <2>2, <4>2
      <4> QED BY <4>1, <4>2
    <3>2. staged[k] = {i \in s.id_set : s.id_to_area[i] = k}
      BY <1>7, <1>8, <2>2, <3>1
    <3>3. \A i \in s.id_set : at[i] = k <=> s.id_to_area[i] = k
      BY <1>9, <1>10, <2>2, <3>1
    <3> QED BY <1>10, <3>1, <3>2, <3>3
  <2> QED BY <2>1, <2>2
<1> HIDE DEF hand, seen, t
<1>14. /\ DOMAIN t = UiFields /\ t.seen = seen /\ t.id_set = s.id_set \union fresh
       /\ t.hand = hand /\ t.staged = staged /\ t.id_to_area = at
       /\ \A f \in UiFields \ {"seen", "id_set", "hand", "staged", "id_to_area"} : t[f] = s[f]
  BY <1>1 DEF UiFields
<1>15. Placed(t)
  <2>1. t.id_set \subseteq 1..Len(t.seen)
    <3>1. \A i \in 1..n : i \in 1..n + m
      BY <1>3
    <3> QED BY <1>5, <1>6, <1>14, <3>1
  <2> QED BY <1>5, <1>8, <1>11, <1>12, <1>13, <1>14, <2>1 DEF Placed
<1>16. \A i \in s.id_set : t.seen[i] = s.seen[i]
  BY <1>5, <1>6, <1>14
<1>17. t.id_set \ s.id_set = fresh
  BY <1>6, <1>14
<1>18. ASSUME NEW f \in Faces
       PROVE  Tally(t, fresh)[f] = IF cards[f] > 0 THEN cards[f] ELSE 0
  <2>1. fresh = n + 1..n + Cardinality(Copies(cards))
    BY <1>2 DEF fresh
  <2>2. {i \in fresh : t.seen[i] = f} =
          {i \in n + 1..n + Cardinality(Copies(cards)) : SetToSeq(Copies(cards))[i - n][1] = f}
    BY <1>5, <1>14, <2>1 DEF order
  <2>3. Tally(t, fresh)[f] = Cardinality({i \in fresh : t.seen[i] = f})
    BY DEF Tally
  <2> HIDE DEF n
  <2> QED BY <1>3, <2>2, <2>3, FreshTally
<1> QED
  BY <1>14, <1>15, <1>16, <1>17, <1>18 DEF t

LEMMA OnPageIs ==
  ASSUME NEW s, Placed(s)
  PROVE  /\ OnPage(s) = s.id_set /\ AllStaged(s) \subseteq s.id_set
         /\ Area1(s) \subseteq s.id_set /\ IsFiniteSet(s.id_set) /\ s.id_set \subseteq Nat \ {0}
         /\ \A i \in s.id_set : s.seen[i] \in Faces
<1>1. /\ DOMAIN s.staged = 1..Len(s.staged) /\ Len(s.staged) \in Nat
      /\ \A i \in s.id_set : s.id_to_area[i] \in 0..Len(s.staged)
  BY DEF Placed
<1>2. ASSUME NEW i \in s.id_set PROVE i \in OnPage(s)
  <2>1. CASE s.id_to_area[i] = 0
    BY <2>1 DEF Placed, OnPage
  <2>2. CASE s.id_to_area[i] # 0
    <3>1. s.id_to_area[i] \in 1..Len(s.staged)
      BY <1>1, <2>2
    <3>2. i \in s.staged[s.id_to_area[i]]
      BY <3>1 DEF Placed
    <3> QED BY <1>1, <3>1, <3>2 DEF OnPage, ToSet
  <2> QED BY <2>1, <2>2
<1>3. \A k \in DOMAIN s.staged : s.staged[k] \subseteq s.id_set
  BY <1>1 DEF Placed
<1>4. AllStaged(s) \subseteq s.id_set
  BY <1>3 DEF AllStaged, ToSet
<1>5. OnPage(s) \subseteq s.id_set
  BY <1>4 DEF OnPage, AllStaged, Placed
<1>6. Area1(s) \subseteq s.id_set
  <2>1. CASE s.staged = <<>>
    BY <2>1 DEF Area1
  <2>2. CASE s.staged # <<>>
    <3>1. 1 \in DOMAIN s.staged
      BY <2>2, EmptyIs DEF Placed
    <3> QED BY <1>3, <2>2, <3>1 DEF Area1
  <2> QED BY <2>1, <2>2
<1>7. IsFiniteSet(s.id_set) /\ s.id_set \subseteq Nat \ {0} /\ \A i \in s.id_set : s.seen[i] \in Faces
  <2>1. Len(s.seen) \in Nat /\ s.id_set \in SUBSET (1..Len(s.seen)) /\ s.seen \in Seq(Faces)
    BY DEF Placed
  <2>2. IsFiniteSet(1..Len(s.seen))
    BY <2>1, FS_Interval
  <2> QED BY <2>1, <2>2, FS_Subset
<1> QED
  BY <1>2, <1>4, <1>5, <1>6, <1>7

\* The fields that say where the cards are.
Where == {"hand", "staged", "id_to_area"}

\* What is left when cards go is where it was, and the selection goes with them.
LEMMA RemovedIs ==
  ASSUME NEW s, DOMAIN s = UiFields, Placed(s), Chosen(s), NEW to_rm
  PROVE  LET t == WithCardsRemoved(s, to_rm)
         IN  /\ Placed(t) /\ Chosen(t) /\ DOMAIN t = UiFields
             /\ t.id_set = s.id_set \ to_rm
             /\ \A f \in UiFields \ (Where \cup {"id_set", "selected", "prev_start", "prev_stop"}) :
                  t[f] = s[f]
<1> DEFINE start == IF s.prev_start \in to_rm THEN 0 ELSE s.prev_start
           stop == IF s.prev_stop \in to_rm \/ s.prev_start \in to_rm THEN 0 ELSE s.prev_stop
           staged == [k \in DOMAIN s.staged |-> s.staged[k] \ to_rm]
           at == [i \in DOMAIN s.id_to_area \ to_rm |-> s.id_to_area[i]]
           u == [s EXCEPT !.id_set = s.id_set \ to_rm, !.selected = s.selected \ to_rm,
                          !.id_to_area = at, !.prev_start = start, !.prev_stop = stop,
                          !.hand = s.hand \ to_rm, !.staged = staged]
           t == WithCardsRemoved(s, to_rm)
<1>1. t = ReapAreas(u)
  BY DEF WithCardsRemoved
<1> HIDE DEF start, stop, staged, at, t
<1>2. /\ DOMAIN u = UiFields /\ u.id_set = s.id_set \ to_rm
      /\ u.selected = s.selected \ to_rm /\ u.id_to_area = at
      /\ u.prev_start = start /\ u.prev_stop = stop
      /\ u.hand = s.hand \ to_rm /\ u.staged = staged /\ u.seen = s.seen
      /\ \A f \in UiFields \ (Where \cup {"id_set", "selected", "prev_start", "prev_stop"}) :
           u[f] = s[f]
  BY DEF UiFields, Where
<1> HIDE DEF u
<1>3. /\ staged \in Seq(SUBSET Nat) /\ Len(staged) = Len(s.staged)
      /\ \A k \in 1..Len(s.staged) : staged[k] = s.staged[k] \ to_rm
  <2>1. /\ s.staged \in Seq(SUBSET Nat) /\ DOMAIN s.staged = 1..Len(s.staged)
        /\ Len(s.staged) \in Nat
    BY DEF Placed
  <2>2. \A k \in 1..Len(s.staged) : s.staged[k] \ to_rm \in SUBSET Nat
    BY <2>1
  <2> QED BY <2>1, <2>2 DEF staged
<1>4. Placed(u)
  <2>1. at \in [u.id_set -> 0..Len(staged)] /\ \A i \in u.id_set : at[i] = s.id_to_area[i]
    BY <1>2, <1>3 DEF Placed, at
  <2>2. u.hand = {i \in u.id_set : u.id_to_area[i] = 0}
    BY <1>2, <2>1 DEF Placed
  <2>3. \A k \in 1..Len(u.staged) : u.staged[k] = {i \in u.id_set : u.id_to_area[i] = k}
    BY <1>2, <1>3, <2>1 DEF Placed
  <2>4. u.seen \in Seq(Faces) /\ u.id_set \subseteq 1..Len(u.seen)
    BY <1>2 DEF Placed
  <2> QED BY <1>2, <1>3, <2>1, <2>2, <2>3, <2>4 DEF Placed
<1>5. Chosen(u)
  BY <1>2 DEF Chosen, start, stop
<1>6. /\ Placed(t) /\ DOMAIN t = UiFields
      /\ \A f \in UiFields \ {"staged", "id_to_area"} : t[f] = u[f]
  BY <1>1, <1>2, <1>4, ReapPlaced
<1>7. /\ t.id_set = u.id_set /\ t.selected = u.selected /\ t.prev_start = u.prev_start
      /\ t.prev_stop = u.prev_stop
  BY <1>6 DEF UiFields
<1>8. Chosen(t)
  BY <1>5, <1>7 DEF Chosen
<1>9. \A f \in UiFields \ (Where \cup {"id_set", "selected", "prev_start", "prev_stop"}) :
        t[f] = s[f]
  BY <1>2, <1>6 DEF Where
<1> QED
  BY <1>2, <1>6, <1>7, <1>8, <1>9 DEF t

LEMMA ResetPlaysIs ==
  ASSUME NEW s, DOMAIN s = UiFields, Placed(s)
  PROVE  LET t == ResetPlays(s)
         IN  /\ Placed(t) /\ DOMAIN t = UiFields
             /\ \A f \in UiFields \ Where : t[f] = s[f]
<1> DEFINE t == ResetPlays(s)
<1>1. CASE AllStaged(s) = {}
  BY <1>1 DEF ResetPlays
<1>2. CASE AllStaged(s) # {}
  <2>1. t = [s EXCEPT !.hand = s.id_set, !.staged = <<>>, !.id_to_area = [i \in s.id_set |-> 0]]
    BY <1>2, OnPageIs DEF ResetPlays
  <2> HIDE DEF t
  <2>2. /\ t.hand = s.id_set /\ t.staged = <<>> /\ t.id_to_area = [i \in s.id_set |-> 0]
        /\ t.seen = s.seen /\ t.id_set = s.id_set /\ DOMAIN t = UiFields
        /\ \A f \in UiFields \ Where : t[f] = s[f]
    BY <2>1 DEF UiFields, Where
  <2>3. /\ t.staged \in Seq(SUBSET Nat) /\ Len(t.staged) = 0
        /\ t.id_to_area \in [t.id_set -> 0..0]
        /\ t.hand = {i \in t.id_set : t.id_to_area[i] = 0}
    BY <2>2
  <2>4. Placed(t)
    BY <2>2, <2>3 DEF Placed
  <2> QED BY <2>2, <2>4 DEF t
<1> QED
  BY <1>1, <1>2

LEMMA MoveIs ==
  ASSUME NEW s, DOMAIN s = UiFields, Placed(s), Chosen(s), NEW phase,
         NEW dst \in 0..Len(s.staged) + 1, NEW src \in s.id_set
  PROVE  LET t == MoveCards(s, phase, dst, src)
         IN  /\ Placed(t) /\ DOMAIN t = UiFields
             /\ \A f \in UiFields \ Where : t[f] = s[f]
<1> DEFINE moving == IF s.selected # {} THEN s.selected ELSE {src}
           made == dst = Len(s.staged) + 1
           wide == IF made THEN Append(s.staged, {}) ELSE s.staged
           staged == [k \in DOMAIN wide |->
                       IF k = dst THEN wide[k] \union moving ELSE wide[k] \ moving]
           hand == IF dst = 0 THEN s.hand \union moving ELSE s.hand \ moving
           at == [i \in DOMAIN s.id_to_area \union moving |->
                   IF i \in moving THEN dst ELSE s.id_to_area[i]]
           u == [s EXCEPT !.hand = hand, !.staged = staged, !.id_to_area = at]
           t == MoveCards(s, phase, dst, src)
<1>1. CASE made /\ phase = "FRIEND"
  BY <1>1 DEF MoveCards
<1>2. CASE ~(made /\ phase = "FRIEND")
  <2>1. t = ReapAreas(u)
    BY <1>2 DEF MoveCards
  <2>2. moving \in SUBSET s.id_set
    BY DEF Chosen
  <2> HIDE DEF moving, t
  <2>3. /\ s.staged \in Seq(SUBSET Nat) /\ Len(s.staged) \in Nat
        /\ s.seen \in Seq(Faces) /\ s.id_set \subseteq 1..Len(s.seen)
        /\ s.id_to_area \in [s.id_set -> 0..Len(s.staged)]
        /\ s.hand = {i \in s.id_set : s.id_to_area[i] = 0}
        /\ \A k \in 1..Len(s.staged) : s.staged[k] = {i \in s.id_set : s.id_to_area[i] = k}
    BY DEF Placed
  <2>4. /\ wide \in Seq(SUBSET Nat) /\ Len(wide) = (IF made THEN Len(s.staged) + 1 ELSE Len(s.staged))
        /\ \A k \in 1..Len(wide) : wide[k] = {i \in s.id_set : s.id_to_area[i] = k}
    <3>1. CASE made
      <4> DEFINE n == Len(s.staged)
      <4>1. wide = Append(s.staged, {}) /\ {} \in SUBSET Nat
        BY <3>1
      <4>2. /\ wide \in Seq(SUBSET Nat) /\ Len(wide) = n + 1 /\ wide[n + 1] = {}
            /\ \A k \in 1..n : wide[k] = s.staged[k]
        BY <2>3, <4>1, AppendIs
      <4>3. {i \in s.id_set : s.id_to_area[i] = n + 1} = {}
        BY <2>3
      <4>4. \A k \in 1..n + 1 : k \in 1..n \/ k = n + 1
        BY <2>3
      <4> HIDE DEF wide
      <4> QED BY <2>3, <3>1, <4>2, <4>3, <4>4
    <3>2. CASE ~made
      BY <2>3, <3>2
    <3> QED BY <3>1, <3>2
  <2>5. dst \in 0..Len(wide) /\ Len(wide) \in Nat /\ DOMAIN wide = 1..Len(wide)
        /\ Len(s.staged) <= Len(wide)
    BY <2>3, <2>4
  <2> HIDE DEF wide, made
  <2>6. /\ staged \in Seq(SUBSET Nat) /\ Len(staged) = Len(wide)
        /\ \A k \in 1..Len(wide) : staged[k] =
             IF k = dst THEN wide[k] \union moving ELSE wide[k] \ moving
    <3>1. moving \in SUBSET Nat
      BY <2>2, <2>3
    <3>2. \A k \in 1..Len(wide) : wide[k] \in SUBSET Nat
      BY <2>4, <2>5
    <3>3. \A k \in 1..Len(wide) :
           (IF k = dst THEN wide[k] \union moving ELSE wide[k] \ moving) \in SUBSET Nat
      BY <3>1, <3>2
    <3> QED BY <2>5, <3>3
  <2>7. /\ \A i \in moving : at[i] = dst
        /\ \A i \in s.id_set : i \notin moving => at[i] = s.id_to_area[i]
    BY <2>2, <2>3
  <2>8. at = [i \in s.id_set |-> at[i]]
    BY <2>2, <2>3
  <2> HIDE DEF at, staged
  <2>9. at \in [s.id_set -> 0..Len(staged)]
    <3>1. \A i \in s.id_set : at[i] \in 0..Len(wide)
      <4>1. \A i \in s.id_set : s.id_to_area[i] \in 0..Len(wide)
        BY <2>3, <2>5
      <4> QED BY <2>5, <2>7, <4>1
    <3> QED BY <2>6, <2>8, <3>1
  <2>10. hand = {i \in s.id_set : at[i] = 0}
    <3>1. CASE dst = 0
      BY <2>2, <2>3, <2>7, <3>1
    <3>2. CASE dst # 0
      BY <2>2, <2>3, <2>7, <3>2
    <3> QED BY <3>1, <3>2
  <2>11. ASSUME NEW k \in 1..Len(staged) PROVE staged[k] = {i \in s.id_set : at[i] = k}
    <3>1. wide[k] = {i \in s.id_set : s.id_to_area[i] = k}
      BY <2>4, <2>6
    <3>2. CASE k = dst
      <4>1. staged[k] = wide[k] \union moving
        BY <2>6, <3>2
      <4> QED BY <2>2, <2>7, <3>1, <3>2, <4>1
    <3>3. CASE k # dst
      <4>1. staged[k] = wide[k] \ moving
        BY <2>6, <3>3
      <4> QED BY <2>2, <2>7, <3>1, <3>3, <4>1
    <3> QED BY <3>2, <3>3
  <2> HIDE DEF hand
  <2>12. /\ DOMAIN u = UiFields /\ u.hand = hand /\ u.staged = staged /\ u.id_to_area = at
         /\ u.seen = s.seen /\ u.id_set = s.id_set
         /\ \A f \in UiFields \ Where : u[f] = s[f]
    BY DEF UiFields, Where
  <2> HIDE DEF u
  <2>13. Placed(u)
    BY <2>3, <2>6, <2>9, <2>10, <2>11, <2>12 DEF Placed
  <2>14. /\ Placed(t) /\ DOMAIN t = UiFields
         /\ \A f \in UiFields \ {"staged", "id_to_area"} : t[f] = u[f]
    BY <2>1, <2>12, <2>13, ReapPlaced
  <2>15. \A f \in UiFields \ Where : t[f] = s[f]
    BY <2>12, <2>14 DEF Where
  <2> QED BY <2>14, <2>15 DEF t
<1> QED
  BY <1>1, <1>2

\* The fields that only the user changes.
Marks == {"selected", "prev_start", "prev_stop"}

LEMMA MarkedGood ==
  ASSUME NEW s, Good(s), NEW t, DOMAIN t = UiFields, Chosen(t),
         \A f \in UiFields \ Marks : t[f] = s[f]
  PROVE  Good(t)
<1>1. /\ t.page = s.page /\ t.seen = s.seen /\ t.id_set = s.id_set /\ t.hand = s.hand
      /\ t.staged = s.staged /\ t.id_to_area = s.id_to_area
  BY DEF UiFields, Marks
<1> QED
  BY <1>1 DEF Good, Placed

LEMMA ToggleIs ==
  ASSUME NEW s, Good(s), NEW id \in s.id_set
  PROVE  LET t == Toggle(s, id)
         IN  Good(t) /\ \A f \in UiFields \ Marks : t[f] = s[f]
<1> DEFINE t == Toggle(s, id)
<1>1. CASE id \in s.selected
  <2>1. t = [s EXCEPT !.selected = s.selected \ {id}, !.prev_start = 0]
    BY <1>1 DEF Toggle
  <2> HIDE DEF t
  <2>2. /\ DOMAIN t = UiFields /\ t.selected = s.selected \ {id} /\ t.prev_start = 0
        /\ t.prev_stop = s.prev_stop /\ t.id_set = s.id_set
        /\ \A f \in UiFields \ Marks : t[f] = s[f]
    BY <2>1 DEF Good, UiFields, Marks
  <2>3. Chosen(t)
    BY <2>2 DEF Good, Chosen
  <2> QED BY <2>2, <2>3, MarkedGood DEF t
<1>2. CASE id \notin s.selected
  <2>1. t = [s EXCEPT !.selected = s.selected \union {id}, !.prev_start = id]
    BY <1>2 DEF Toggle
  <2> HIDE DEF t
  <2>2. /\ DOMAIN t = UiFields /\ t.selected = s.selected \union {id} /\ t.prev_start = id
        /\ t.prev_stop = s.prev_stop /\ t.id_set = s.id_set
        /\ \A f \in UiFields \ Marks : t[f] = s[f]
    BY <2>1 DEF Good, UiFields, Marks
  <2>3. Chosen(t)
    BY <2>2 DEF Good, Chosen
  <2> QED BY <2>2, <2>3, MarkedGood DEF t
<1> QED
  BY <1>1, <1>2

LEMMA DeselectIs ==
  ASSUME NEW s, Good(s)
  PROVE  LET t == DeselectAll(s)
         IN  Good(t) /\ t.selected = {} /\ \A f \in UiFields \ Marks : t[f] = s[f]
<1> DEFINE t == DeselectAll(s)
<1>1. CASE s.selected = {}
  BY <1>1 DEF DeselectAll
<1>2. CASE s.selected # {}
  <2>1. t = [s EXCEPT !.selected = {}, !.prev_start = 0, !.prev_stop = 0]
    BY <1>2 DEF DeselectAll
  <2> HIDE DEF t
  <2>2. /\ DOMAIN t = UiFields /\ t.selected = {} /\ t.prev_start = 0 /\ t.prev_stop = 0
        /\ \A f \in UiFields \ Marks : t[f] = s[f]
    BY <2>1 DEF Good, UiFields, Marks
  <2>3. Chosen(t)
    BY <2>2 DEF Chosen
  <2> QED BY <2>2, <2>3, MarkedGood DEF t
<1> QED
  BY <1>1, <1>2

LEMMA StretchIs ==
  ASSUME NEW s, Good(s), NEW id \in s.id_set, s.prev_start # 0, NEW t \in Stretch(s, id)
  PROVE  Good(t) /\ \A f \in UiFields \ Marks : t[f] = s[f]
<1> DEFINE area == IF s.id_to_area[id] = 0 THEN s.hand ELSE s.staged[s.id_to_area[id]]
           old == IF s.prev_stop \in area THEN Between(area, s.prev_stop, id) ELSE {{}}
<1>1. area \subseteq s.id_set
  <2>1. Len(s.staged) \in Nat /\ s.id_to_area[id] \in 0..Len(s.staged)
    BY DEF Good, Placed
  <2>2. CASE s.id_to_area[id] = 0
    BY <2>2 DEF Good, Placed
  <2>3. CASE s.id_to_area[id] # 0
    <3>1. s.id_to_area[id] \in 1..Len(s.staged)
      BY <2>1, <2>3
    <3> QED BY <2>3, <3>1 DEF Good, Placed
  <2> QED BY <2>2, <2>3
<1> HIDE DEF area
<1>2. CASE s.prev_start \notin area
  BY <1>2 DEF Stretch, area
<1>3. CASE s.prev_start \in area
  <2> DEFINE selections == {(s.selected \ w[1]) \union w[2] :
                              w \in old \X Between(area, s.prev_start, id)}
  <2>1. \E S \in selections : t = WithRange(s, S, id)
    BY <1>3 DEF Stretch, area
  <2>2. PICK S \in selections : t = WithRange(s, S, id)
    BY <2>1
  <2>3. S \subseteq s.id_set /\ s.prev_start \in S
    <3>1. PICK O \in old, R \in Between(area, s.prev_start, id) : S = (s.selected \ O) \union R
      OBVIOUS
    <3>2. R \subseteq s.id_set /\ s.prev_start \in R
      BY <1>1 DEF Between
    <3> QED BY <3>1, <3>2 DEF Good, Chosen
  <2> HIDE DEF selections
  <2>4. /\ DOMAIN t = UiFields /\ t.selected = S /\ t.prev_stop = id
        /\ t.prev_start = s.prev_start /\ t.id_set = s.id_set
        /\ \A f \in UiFields \ Marks : t[f] = s[f]
    BY <2>2 DEF Good, UiFields, Marks, WithRange
  <2>5. Chosen(t)
    BY <2>3, <2>4 DEF Good, Chosen
  <2> QED BY <2>4, <2>5, MarkedGood
<1> QED
  BY <1>2, <1>3

\* The fields that say what the page is about to do.
Flags == {"auto_play", "full_control", "action_pending", "pending_cards"}

LEMMA FlagsGood ==
  ASSUME NEW s, Good(s), NEW t, DOMAIN t = UiFields, \A f \in UiFields \ Flags : t[f] = s[f]
  PROVE  Good(t)
<1>1. /\ t.page = s.page /\ t.seen = s.seen /\ t.id_set = s.id_set /\ t.hand = s.hand
      /\ t.staged = s.staged /\ t.id_to_area = s.id_to_area
      /\ t.selected = s.selected /\ t.prev_start = s.prev_start /\ t.prev_stop = s.prev_stop
  BY DEF UiFields, Flags
<1> QED
  BY <1>1 DEF Good, Placed, Chosen

LEMMA AddedGood ==
  ASSUME NEW s, Good(s), NEW cards \in Tallies, NEW adx \in {0, 1}
  PROVE  Good(WithCardsAdded(s, cards, adx))
<1> DEFINE t == WithCardsAdded(s, cards, adx)
<1>1. /\ Placed(t) /\ DOMAIN t = UiFields /\ s.id_set \subseteq t.id_set
      /\ \A f \in UiFields \ {"seen", "id_set", "hand", "staged", "id_to_area"} : t[f] = s[f]
  <2>1. DOMAIN s = UiFields /\ Placed(s)
    BY DEF Good
  <2> QED BY <2>1, AddedIs
<1> HIDE DEF t
<1>2. /\ t.page = s.page /\ t.selected = s.selected /\ t.prev_start = s.prev_start
      /\ t.prev_stop = s.prev_stop
  BY <1>1 DEF UiFields
<1>3. Good(t)
  BY <1>1, <1>2 DEF Good, Chosen
<1> QED
  BY <1>3 DEF t

LEMMA RemovedGood ==
  ASSUME NEW s, Good(s), NEW to_rm
  PROVE  Good(WithCardsRemoved(s, to_rm))
<1> DEFINE t == WithCardsRemoved(s, to_rm)
<1>1. /\ Placed(t) /\ Chosen(t) /\ DOMAIN t = UiFields
      /\ \A f \in UiFields \ (Where \cup {"id_set", "selected", "prev_start", "prev_stop"}) :
           t[f] = s[f]
  BY RemovedIs DEF Good
<1> HIDE DEF t
<1>2. t.page = s.page
  BY <1>1 DEF UiFields, Where
<1>3. Good(t)
  BY <1>1, <1>2 DEF Good
<1> QED
  BY <1>3 DEF t

\* A page whose cards only went elsewhere.
LEMMA WhereGood ==
  ASSUME NEW s, Good(s), NEW t, Placed(t), DOMAIN t = UiFields,
         \A f \in UiFields \ Where : t[f] = s[f]
  PROVE  Good(t)
<1>1. /\ t.page = s.page /\ t.id_set = s.id_set
      /\ t.selected = s.selected /\ t.prev_start = s.prev_start /\ t.prev_stop = s.prev_stop
  BY DEF UiFields, Where
<1> QED
  BY <1>1 DEF Good, Chosen

LEMMA OnEffectIs ==
  ASSUME NEW s, DOMAIN s = UiFields
  PROVE  /\ DOMAIN OnEffect(s) = UiFields
         /\ \A f \in UiFields \ {"action_pending"} : OnEffect(s)[f] = s[f]
  BY DEF OnEffect, UiFields

LEMMA OnEffectGood ==
  ASSUME NEW s, Good(s)
  PROVE  Good(OnEffect(s))
<1> DEFINE t == OnEffect(s)
<1>1. DOMAIN t = UiFields /\ \A f \in UiFields \ {"action_pending"} : t[f] = s[f]
  BY OnEffectIs DEF Good
<1> HIDE DEF t
<1>2. Good(t)
  BY <1>1, FlagsGood DEF Flags
<1> QED
  BY <1>2 DEF t

Crashed == [page |-> "crashed"]

\* A page that a play or its refusal has changed.
PageOk(s) == Good(s) \/ s = Crashed

LEMMA OnPlayEffectIs ==
  ASSUME NEW s, Good(s), NEW i, i.kind = "lead_play" /\ i.big, s.pending_cards = {}
  PROVE  LET t == OnPlayEffect(s, i)
         IN  /\ DOMAIN t = UiFields /\ t.pending_cards = i.ids
             /\ \A f \in UiFields \ Flags : t[f] = s[f]
<1> DEFINE t == OnPlayEffect(s, i)
<1>1. t = [s EXCEPT !.auto_play = FALSE, !.pending_cards = i.ids, !.action_pending = FALSE]
  BY DEF OnPlayEffect
<1> HIDE DEF t
<1>2. /\ DOMAIN t = UiFields /\ t.pending_cards = i.ids
      /\ \A f \in UiFields \ Flags : t[f] = s[f]
  BY <1>1 DEF Good, UiFields, Flags
<1> QED
  BY <1>2 DEF t

LEMMA PlayedIs ==
  ASSUME NEW s, Good(s), NEW i, ~(i.kind = "lead_play" /\ i.big)
  PROVE  LET t == OnPlayEffect(s, i)
         IN  /\ Good(t) /\ t.id_set = s.id_set \ i.ids /\ t.seen = s.seen
             /\ t.pending_cards = s.pending_cards
<1> DEFINE u == WithCardsRemoved(s, i.ids)
           t == OnPlayEffect(s, i)
<1>1. t = [u EXCEPT !.auto_play = FALSE, !.action_pending = FALSE]
  BY DEF OnPlayEffect
<1>2. /\ DOMAIN u = UiFields /\ u.id_set = s.id_set \ i.ids
      /\ \A f \in UiFields \ (Where \cup {"id_set", "selected", "prev_start", "prev_stop"}) :
           u[f] = s[f]
  BY RemovedIs DEF Good
<1>3. Good(u)
  BY RemovedGood
<1> HIDE DEF t, u
<1>4. u.seen = s.seen /\ u.pending_cards = s.pending_cards
  BY <1>2 DEF UiFields, Where
<1>5. /\ DOMAIN t = UiFields /\ t.id_set = u.id_set /\ t.seen = u.seen
      /\ t.pending_cards = u.pending_cards
      /\ \A f \in UiFields \ Flags : t[f] = u[f]
  BY <1>1, <1>2 DEF UiFields, Flags
<1>6. Good(t)
  BY <1>3, <1>5, FlagsGood
<1> QED
  BY <1>2, <1>4, <1>5, <1>6 DEF t

LEMMA OnPlayEffectOk ==
  ASSUME NEW s, Good(s), NEW i
  PROVE  PageOk(OnPlayEffect(s, i))
<1>1. CASE i.kind = "lead_play" /\ i.big /\ s.pending_cards # {}
  BY <1>1 DEF OnPlayEffect, PageOk, Crashed
<1>2. CASE i.kind = "lead_play" /\ i.big /\ s.pending_cards = {}
  BY <1>2, OnPlayEffectIs, FlagsGood DEF PageOk
<1>3. CASE ~(i.kind = "lead_play" /\ i.big)
  BY <1>3, PlayedIs DEF PageOk
<1> QED
  BY <1>1, <1>2, <1>3

\* What becomes of an attempt: it waits, it is refused or it is made.
Outcome(u, z, sent) == [ui |-> u, zpy |-> z, sent |-> sent]

LEMMA AttemptIs ==
  ASSUME NEW s, NEW z, NEW i, NEW o \in Attempt(s, z, i)
  PROVE  \/ /\ i.kind \notin Predictable
            /\ o = Outcome([s EXCEPT !.action_pending = TRUE], z, <<i>>)
         \/ i.kind \in Predictable /\ o = Outcome(OnEffect(s), z, <<>>)
         \/ /\ i.kind \in {"call_friends", "collect_trick"} /\ Legal(z, i)
            /\ o = Outcome(OnEffect(s), Apply(z, i), <<i>>)
         \/ /\ i.kind \in {"replace_kitty", "lead_play", "follow_lead"} /\ Legal(z, i)
            /\ o = Outcome(OnPlayEffect(s, i), Apply(z, i), <<i>>)
<1>1. CASE i.kind \notin Predictable
  BY <1>1 DEF Attempt, Outcome
<1>2. CASE i.kind \in Predictable
  BY <1>2 DEF Attempt, Outcome, Predictable
<1> QED
  BY <1>1, <1>2

-----------------------------------------------------------------------------
(* What is asked, done and sent *)

Requests == Predictable \cup {"draw_card", "ready", "pass_contest", "contest_fly", "undo_play"}

Plays == {"replace_kitty", "lead_play", "follow_lead"}

\* A component that is gone still draws, and does nothing else.
Intents ==
  {i \in [kind : Requests, who : {Me}, cards : [Faces -> Nat], big : BOOLEAN, ids : SUBSET Nat,
          page : {"live", "former"}] :
     i.page = "former" => i.kind = "draw_card"}

\* An intent of the user's: a play is of cards on the page.
Planned(s, i) ==
  /\ i \in Intents /\ i.page = "live"
  /\ i.kind \in Plays => i.ids \subseteq s.id_set /\ i.cards = Tally(s, i.ids)
  /\ i.kind = "replace_kitty" => ~i.big
  /\ i.kind # "undo_play"

LEMMA NothingIs ==
  ASSUME NEW f \in Faces
  PROVE  Nothing \in [Faces -> Nat] /\ Nothing[f] = 0
  BY DEF Nothing

LEMMA IntentIs ==
  ASSUME NEW kind \in Requests, NEW cards \in [Faces -> Nat], NEW big \in BOOLEAN,
         NEW ids \in SUBSET Nat
  PROVE  LET i == Intent(kind, cards, big, ids)
         IN  /\ i \in Intents /\ i.kind = kind /\ i.cards = cards /\ i.big = big /\ i.ids = ids
             /\ i.page = "live" /\ i.who = Me
  BY DEF Intent, Intents

LEMMA PlainPlanned ==
  ASSUME NEW s, NEW kind \in Requests, kind \notin Plays, kind # "undo_play"
  PROVE  LET i == Intent(kind, Nothing, FALSE, {})
         IN  Planned(s, i) /\ i.kind = kind
<1> DEFINE i == Intent(kind, Nothing, FALSE, {})
<1>1. i \in Intents /\ i.kind = kind /\ i.page = "live"
  <2>1. Nothing \in [Faces -> Nat]
    BY DEF Nothing
  <2> QED BY <2>1 DEF Intent, Intents
<1> HIDE DEF i
<1>2. Planned(s, i)
  BY <1>1 DEF Planned, Plays
<1> QED
  BY <1>1, <1>2 DEF i

LEMMA SubmitPlayIs ==
  ASSUME NEW s, Good(s), NEW z, NEW kind \in Plays, NEW ids \in SUBSET s.id_set,
         NEW o \in SubmitPlay(s, z, kind, ids)
  PROVE  \/ o = Outcome(s, z, <<>>)
         \/ \E i : Planned(s, i) /\ i.kind = kind /\ o \in Attempt(s, z, i)
<1>1. CASE ids = {}
  BY <1>1 DEF SubmitPlay, Idle, Outcome
<1>2. CASE ids # {}
  <2> DEFINE sizes == IF kind = "replace_kitty" THEN {FALSE} ELSE BOOLEAN
             intent(big) == Intent(kind, Tally(s, ids), big, ids)
  <2>1. SubmitPlay(s, z, kind, ids) = UNION {Attempt(s, z, intent(big)) : big \in sizes}
    BY <1>2 DEF SubmitPlay
  <2> HIDE DEF intent
  <2>2. PICK big \in sizes : o \in Attempt(s, z, intent(big))
    BY <2>1
  <2>3. big \in BOOLEAN /\ (kind = "replace_kitty" => big = FALSE)
    OBVIOUS
  <2>4. Tally(s, ids) \in [Faces -> Nat] /\ ids \in SUBSET Nat
    <3>1. IsFiniteSet(s.id_set) /\ s.id_set \subseteq Nat \ {0}
      BY OnPageIs DEF Good
    <3> QED BY <3>1, FS_Subset, TallyIs
  <2>5. /\ intent(big) \in Intents /\ intent(big).kind = kind
        /\ intent(big).cards = Tally(s, ids) /\ intent(big).big = big
        /\ intent(big).ids = ids /\ intent(big).page = "live"
    <3>1. kind \in Requests
      BY DEF Plays, Requests, Predictable
    <3> QED BY <2>3, <2>4, <3>1, IntentIs DEF intent
  <2>6. Planned(s, intent(big))
    BY <2>3, <2>5 DEF Planned, Plays
  <2> QED BY <2>2, <2>5, <2>6
<1> QED
  BY <1>1, <1>2

LEMMA TryAutoPlayIs ==
  ASSUME NEW s, Good(s), NEW z, NEW o \in TryAutoPlay(s, z)
  PROVE  \/ o = Outcome(s, z, <<>>)
         \/ /\ z.phase = "FOLLOW" /\ z.cur = Me
            /\ \E i : Planned(s, i) /\ i.kind = "follow_lead" /\ o \in Attempt(s, z, i)
<1>1. CASE s.auto_play /\ z.phase = "FOLLOW" /\ z.cur = Me
  <2>1. o \in SubmitPlay(s, z, "follow_lead", AllStaged(s))
    BY <1>1 DEF TryAutoPlay
  <2>2. AllStaged(s) \in SUBSET s.id_set /\ "follow_lead" \in Plays
    BY OnPageIs DEF Good, Plays
  <2> QED BY <1>1, <2>1, <2>2, SubmitPlayIs
<1>2. CASE ~(s.auto_play /\ z.phase = "FOLLOW" /\ z.cur = Me)
  BY <1>2 DEF TryAutoPlay, Idle, Outcome
<1> QED
  BY <1>1, <1>2

\* What Enter does: nothing, a wish to play as soon as may be, or an attempt.
LEMMA OnSubmitIs ==
  ASSUME NEW s, Good(s), NEW z, NEW o \in OnSubmit(s, z)
  PROVE  \/ o = Outcome(s, z, <<>>)
         \/ o = Outcome([s EXCEPT !.auto_play = TRUE], z, <<>>)
         \/ \E i : Planned(s, i) /\ o \in Attempt(s, z, i)
<1> DEFINE plain(kind) == Intent(kind, Nothing, FALSE, {})
<1>1. \A kind \in {"ready", "call_friends", "pass_contest", "contest_fly", "collect_trick"} :
        Planned(s, plain(kind))
  BY PlainPlanned DEF Requests, Predictable, Plays
<1>2. AllStaged(s) \in SUBSET s.id_set /\ Area1(s) \in SUBSET s.id_set
  BY OnPageIs DEF Good
<1>3. \A kind \in Plays : \A ids \in SUBSET s.id_set : o \in SubmitPlay(s, z, kind, ids) =>
        \/ o = Outcome(s, z, <<>>)
        \/ \E i : Planned(s, i) /\ o \in Attempt(s, z, i)
  BY SubmitPlayIs
<1>4. \/ o \in Idle(s, z)
      \/ o \in Idle([s EXCEPT !.auto_play = TRUE], z)
      \/ \E kind \in {"ready", "call_friends", "pass_contest", "contest_fly", "collect_trick"} :
           o \in Attempt(s, z, plain(kind))
      \/ \E kind \in Plays : \E ids \in {AllStaged(s), Area1(s)} : o \in SubmitPlay(s, z, kind, ids)
  <2>1. CASE z.phase = "PREPARE"
    BY <2>1 DEF OnSubmit
  <2>2. CASE z.phase = "KITTY"
    BY <2>2 DEF OnSubmit, Plays
  <2>3. CASE z.phase = "FRIEND"
    BY <2>3 DEF OnSubmit
  <2>4. CASE z.phase = "LEAD"
    BY <2>4 DEF OnSubmit, Plays
  <2>5. CASE z.phase = "FLY"
    <3>1. CASE Area1(s) = {}
      <4>1. o \in Attempt(s, z, plain("pass_contest"))
        BY <2>5, <3>1 DEF OnSubmit
      <4> QED BY <4>1
    <3>2. CASE Area1(s) # {}
      <4>1. o \in Attempt(s, z, plain("contest_fly"))
        BY <2>5, <3>2 DEF OnSubmit
      <4> QED BY <4>1
    <3> QED BY <3>1, <3>2
  <2>6. CASE z.phase = "FOLLOW"
    <3>5. Me # Nobody
      BY PlayAreaAssumption DEF Me, Nobody
    <3>1. CASE z.cur = Nobody /\ z.winning = Me
      <4>1. o \in Attempt(s, z, plain("collect_trick"))
        BY <2>6, <3>1, <3>5 DEF OnSubmit
      <4> QED BY <4>1
    <3>2. CASE z.cur = Me
      <4>1. o \in SubmitPlay(s, z, "follow_lead", AllStaged(s))
        BY <2>6, <3>2, <3>5 DEF OnSubmit
      <4> QED BY <4>1 DEF Plays
    <3>3. CASE z.cur \notin {Me, Nobody}
      BY <2>6, <3>3 DEF OnSubmit
    <3>4. CASE z.cur = Nobody /\ z.winning # Me
      <4>1. o \in Idle(s, z)
        BY <2>6, <3>4, <3>5 DEF OnSubmit
      <4> QED BY <4>1
    <3> QED BY <3>1, <3>2, <3>3, <3>4
  <2>7. CASE z.phase \notin {"PREPARE", "KITTY", "FRIEND", "LEAD", "FLY", "FOLLOW"}
    BY <2>7 DEF OnSubmit
  <2> QED BY <2>1, <2>2, <2>3, <2>4, <2>5, <2>6, <2>7
<1> HIDE DEF plain
<1> QED
  BY <1>1, <1>2, <1>3, <1>4 DEF Idle, Outcome

-----------------------------------------------------------------------------
(* Rounds and messages *)

Phases == {"DRAW", "PREPARE", "KITTY", "FRIEND", "LEAD", "FLY", "FOLLOW", "FINISH"}

Rounds ==
  [phase : Phases, host : Seats, leader : Seats, cur : 0..N, deck : Int,
   hand : [Faces -> Int], consensus : SUBSET Seats, winning : Seats, prior : Seats,
   lead : [Faces -> Nat], play : [Faces -> Nat]]

EffectKinds ==
  Predictable \cup {"add_to_hand", "ready", "install_host", "reject_fly", "pass_contest",
                    "undo_play"}

\* What an intent or an effect says of itself.
Told(e) == e.kind \in EffectKinds /\ e.who \in Seats /\ e.cards \in [Faces -> Nat]

Happenings ==
  [kind : EffectKinds, who : Seats, cards : [Faces -> Nat], big : BOOLEAN]

Updates == [verb : {"update"}, effect : Happenings, tx : Intents \cup {NoTx}]
Rejects == [verb : {"reject"}, tx : Intents]
Resets == [verb : {"reset"}, state : Rounds]
Messages == Updates \cup Rejects \cup Resets

LEMMA AfterTyped ==
  ASSUME NEW r \in Rounds, NEW p \in Seats
  PROVE  After(r, p) \in 0..N /\ (p + 1) % N \in Seats
<1>1. N \in Nat \ {0, 1} /\ p \in Int
  BY PlayAreaAssumption DEF Seats
<1>2. (p + 1) % N \in 0..N - 1
  BY <1>1
<1> QED
  BY <1>1, <1>2 DEF After, Seats, Nobody

LEMMA CommitTyped ==
  ASSUME NEW r \in Rounds, NEW cards \in [Faces -> Nat]
  PROVE  Commit(r, cards) \in Rounds
<1>1. r.leader \in Seats /\ After(r, r.leader) \in 0..N
  BY AfterTyped DEF Rounds
<1>2. Minus(r.hand, cards) \in [Faces -> Int]
  BY DEF Minus, Rounds
<1>3. (IF r.leader = Me THEN Minus(r.hand, cards) ELSE r.hand) \in [Faces -> Int]
  BY <1>2 DEF Rounds
<1>4. (IF r.leader = Me THEN cards ELSE r.play) \in [Faces -> Nat]
  BY DEF Rounds
<1>5. "FOLLOW" \in Phases /\ {} \in SUBSET Seats
  BY DEF Phases
<1> QED
  BY <1>1, <1>3, <1>4, <1>5 DEF Commit, Rounds

LEMMA ApplyTyped ==
  ASSUME NEW r \in Rounds, NEW e, Told(e)
  PROVE  Apply(r, e) \in Rounds
<1>1. /\ r.cur \in 0..N /\ r.host \in Seats /\ r.hand \in [Faces -> Int]
      /\ r.play \in [Faces -> Nat] /\ r.lead \in [Faces -> Nat] /\ r.leader \in Seats
      /\ r.deck \in Int /\ r.consensus \in SUBSET Seats /\ r.winning \in Seats
      /\ r.prior \in Seats
  BY DEF Rounds
<1>2. e.who \in Seats /\ e.cards \in [Faces -> Nat] /\ e.kind \in EffectKinds
  BY DEF Told
<1>3. N \in Nat \ {0, 1} /\ Kitty \in [Faces -> Nat]
  BY PlayAreaAssumption
<1>4. Seats \subseteq 0..N /\ Me \in Seats
  BY <1>3 DEF Seats, Me
<1>5. CASE e.kind = "add_to_hand"
  <2>1. (r.cur + 1) % N \in 0..N
    BY <1>1, <1>3
  <2>2. Plus(r.hand, e.cards) \in [Faces -> Int]
    BY <1>1, <1>2 DEF Plus
  <2>3. (IF r.deck = 1 THEN "PREPARE" ELSE r.phase) \in Phases /\ r.deck - 1 \in Int
    BY DEF Rounds, Phases
  <2>4. Apply(r, e) = [r EXCEPT !.hand = Plus(r.hand, e.cards), !.deck = r.deck - 1,
                                !.cur = (r.cur + 1) % N,
                                !.phase = IF r.deck = 1 THEN "PREPARE" ELSE r.phase]
    BY <1>5 DEF Apply
  <2> QED BY <2>1, <2>2, <2>3, <2>4 DEF Rounds
<1>6. CASE e.kind = "ready"
  <2>1. Apply(r, e) = [r EXCEPT !.consensus = r.consensus \union {e.who}]
    BY <1>6 DEF Apply
  <2> QED BY <1>1, <1>2, <2>1 DEF Rounds
<1>7. CASE e.kind = "install_host"
  <2> DEFINE hand == IF r.host = Me THEN Plus(r.hand, Kitty) ELSE r.hand
  <2>1. Apply(r, e) = [r EXCEPT !.phase = "KITTY", !.consensus = {}, !.hand = hand]
    BY <1>7 DEF Apply
  <2>2. hand \in [Faces -> Int] /\ "KITTY" \in Phases /\ {} \in SUBSET Seats
    BY <1>1, <1>3 DEF Plus, Phases
  <2> HIDE DEF hand
  <2> QED BY <2>1, <2>2 DEF Rounds
<1>8. CASE e.kind = "replace_kitty"
  <2>1. Apply(r, e) = [r EXCEPT !.phase = "FRIEND", !.hand = Minus(r.hand, e.cards)]
    BY <1>8 DEF Apply
  <2>2. Minus(r.hand, e.cards) \in [Faces -> Int] /\ "FRIEND" \in Phases
    BY <1>1, <1>2 DEF Minus, Phases
  <2> QED BY <2>1, <2>2 DEF Rounds
<1>9. CASE e.kind = "call_friends"
  <2>1. Apply(r, e) = [r EXCEPT !.phase = "LEAD", !.leader = r.host, !.cur = r.host]
    BY <1>9 DEF Apply
  <2>2. "LEAD" \in Phases /\ r.host \in 0..N
    BY <1>1, <1>4 DEF Phases
  <2> QED BY <1>1, <2>1, <2>2 DEF Rounds
<1>10. CASE e.kind = "lead_play" /\ e.big
  <2>1. Apply(r, e) = [r EXCEPT !.phase = "FLY", !.lead = e.cards, !.consensus = {r.leader}]
    BY <1>10 DEF Apply
  <2>2. "FLY" \in Phases /\ {r.leader} \in SUBSET Seats
    BY <1>1 DEF Phases
  <2> QED BY <1>2, <2>1, <2>2 DEF Rounds
<1>11. CASE (e.kind = "lead_play" /\ ~e.big) \/ e.kind = "reject_fly"
  <2>1. Apply(r, e) = Commit(r, e.cards)
    BY <1>11 DEF Apply
  <2> QED BY <1>2, <2>1, CommitTyped
<1>12. CASE e.kind = "pass_contest"
  <2>1. CASE r.consensus \union {e.who} = Seats
    BY <1>1, <1>12, <2>1, CommitTyped DEF Apply
  <2>2. CASE r.consensus \union {e.who} # Seats
    <3>1. Apply(r, e) = [r EXCEPT !.consensus = r.consensus \union {e.who}]
      BY <1>12, <2>2 DEF Apply
    <3> QED BY <1>1, <1>2, <3>1 DEF Rounds
  <2> QED BY <2>1, <2>2
<1>13. CASE e.kind = "follow_lead"
  <2> DEFINE play == IF e.who = Me THEN e.cards ELSE r.play
             winning == IF e.big THEN e.who ELSE r.winning
             prior == IF e.who = Me THEN r.winning ELSE r.prior
  <2>1. Apply(r, e) = [r EXCEPT !.cur = After(r, e.who), !.hand = Minus(r.hand, e.cards),
                                !.play = play, !.winning = winning, !.prior = prior]
    BY <1>13 DEF Apply
  <2>2. After(r, e.who) \in 0..N /\ Minus(r.hand, e.cards) \in [Faces -> Int]
    BY <1>1, <1>2, AfterTyped DEF Minus
  <2>3. play \in [Faces -> Nat] /\ winning \in Seats /\ prior \in Seats
    BY <1>1, <1>2
  <2> HIDE DEF play, winning, prior
  <2> QED BY <2>1, <2>2, <2>3 DEF Rounds
<1>14. CASE e.kind = "undo_play"
  <2> DEFINE winning == IF r.winning = Me THEN r.prior ELSE r.winning
  <2>1. Apply(r, e) = [r EXCEPT !.cur = Me, !.hand = Plus(r.hand, r.play), !.play = Nothing,
                                !.winning = winning]
    BY <1>14 DEF Apply
  <2>2. Plus(r.hand, r.play) \in [Faces -> Int] /\ Nothing \in [Faces -> Nat] /\ winning \in Seats
    BY <1>1 DEF Plus, Nothing
  <2>3. Me \in 0..N
    BY <1>4
  <2> HIDE DEF winning
  <2> QED BY <2>1, <2>2, <2>3 DEF Rounds
<1>15. CASE e.kind = "collect_trick"
  <2> DEFINE phase == IF r.hand = Nothing THEN "FINISH" ELSE "LEAD"
  <2>1. Apply(r, e) = [r EXCEPT !.phase = phase, !.leader = e.who, !.cur = e.who,
                                !.lead = Nothing, !.play = Nothing]
    BY <1>15 DEF Apply
  <2>2. phase \in Phases /\ Nothing \in [Faces -> Nat] /\ e.who \in 0..N
    BY <1>2, <1>4 DEF Phases, Nothing
  <2> HIDE DEF phase
  <2> QED BY <1>2, <2>1, <2>2 DEF Rounds
<1> QED
  BY <1>2, <1>5, <1>6, <1>7, <1>8, <1>9, <1>10, <1>11, <1>12, <1>13, <1>14, <1>15
     DEF EffectKinds, Predictable

-----------------------------------------------------------------------------
(* The cards of the page stay coherent *)

LEMMA LandedIs ==
  ASSUME NEW s, Good(s), NEW B
  PROVE  LET t == Landed(s, B)
         IN  Good(t) /\ t.id_set = s.id_set \ B /\ t.seen = s.seen /\ t.pending_cards = {}
<1> DEFINE u == WithCardsRemoved(s, B)
           t == Landed(s, B)
<1>1. t = [u EXCEPT !.pending_cards = {}]
  BY DEF Landed
<1>2. /\ DOMAIN u = UiFields /\ u.id_set = s.id_set \ B
      /\ \A f \in UiFields \ (Where \cup {"id_set", "selected", "prev_start", "prev_stop"}) :
           u[f] = s[f]
  BY RemovedIs DEF Good
<1>3. Good(u)
  BY RemovedGood
<1> HIDE DEF t, u
<1>4. u.seen = s.seen
  BY <1>2 DEF UiFields, Where
<1>5. /\ DOMAIN t = UiFields /\ t.id_set = u.id_set /\ t.seen = u.seen /\ t.pending_cards = {}
      /\ \A f \in UiFields \ Flags : t[f] = u[f]
  BY <1>1, <1>2 DEF UiFields, Flags
<1>6. Good(t)
  BY <1>3, <1>5, FlagsGood
<1> QED
  BY <1>2, <1>4, <1>5, <1>6 DEF t

LEMMA BlankGood == Good(Blank)
<1>1. DOMAIN Blank = UiFields /\ Blank.page = "mounted"
  BY DEF Blank, UiFields
<1>2. Placed(Blank)
  <2>1. /\ Blank.seen = <<>> /\ Blank.id_set = {} /\ Blank.hand = {} /\ Blank.staged = <<>>
        /\ Blank.id_to_area = <<>>
    BY DEF Blank
  <2>2. <<>> \in Seq(Faces) /\ <<>> \in Seq(SUBSET Nat) /\ Len(<<>>) = 0 /\ <<>> \in [{} -> 0..0]
    OBVIOUS
  <2> QED BY <2>1, <2>2 DEF Placed
<1>3. Chosen(Blank)
  BY DEF Blank, Chosen
<1> QED
  BY <1>1, <1>2, <1>3 DEF Good

LEMMA MountedGood ==
  ASSUME NEW r \in Rounds
  PROVE  Good(Mounted(r))
<1>1. r.hand \in Tallies
  BY DEF Rounds, Tallies
<1> QED
  BY <1>1, BlankGood, AddedGood DEF Mounted

LEMMA BothIs ==
  ASSUME NEW s, Good(s), NEW cards \in [Faces -> Int], NEW ids \in SUBSET s.id_set,
         NEW B \in Both(s, cards, ids)
  PROVE  /\ B \in SUBSET ids /\ IsFiniteSet(B) /\ IsFiniteSet(ids)
         /\ Tally(s, B) \in [Faces -> Nat] /\ Tally(s, ids) \in [Faces -> Nat]
         /\ Minus(cards, Tally(s, B)) \in Tallies
         /\ \A f \in Faces : Tally(s, B)[f] = Min({cards[f], Tally(s, ids)[f]})
<1>1. B \in SUBSET ids /\ \A f \in Faces : Tally(s, B)[f] = Min({cards[f], Tally(s, ids)[f]})
  BY DEF Both
<1>2. IsFiniteSet(ids) /\ IsFiniteSet(B)
  <2>1. IsFiniteSet(s.id_set)
    BY OnPageIs DEF Good
  <2> QED BY <1>1, <2>1, FS_Subset
<1>3. Tally(s, B) \in [Faces -> Nat] /\ Tally(s, ids) \in [Faces -> Nat]
  BY <1>2, TallyIs
<1>4. Minus(cards, Tally(s, B)) \in Tallies
  BY <1>3 DEF Minus, Tallies
<1> QED
  BY <1>1, <1>2, <1>3, <1>4

LEMMA OnResetGood ==
  ASSUME NEW s, Good(s), NEW z \in Rounds, NEW t \in OnReset(s, z)
  PROVE  Good(t)
<1> DEFINE fixed(B) == WithCardsRemoved(
             WithCardsAdded(s, Minus(z.hand, Tally(s, B)), 0), s.id_set \ B)
<1>1. OnPage(s) = s.id_set
  BY OnPageIs DEF Good
<1>2. PICK B \in Both(s, z.hand, s.id_set) : t = OnEffect(fixed(B))
  BY <1>1 DEF OnReset
<1>3. Minus(z.hand, Tally(s, B)) \in Tallies
  <2>1. z.hand \in [Faces -> Int]
    BY DEF Rounds
  <2> QED BY <2>1, BothIs
<1>4. Good(WithCardsAdded(s, Minus(z.hand, Tally(s, B)), 0))
  BY <1>3, AddedGood
<1>5. Good(fixed(B))
  BY <1>4, RemovedGood
<1> HIDE DEF fixed
<1> QED
  BY <1>2, <1>5, OnEffectGood

LEMMA OnUpdateGood ==
  ASSUME NEW s, Good(s), NEW z, NEW e, NEW t \in OnUpdate(s, z, e)
  PROVE  Good(t)
<1>1. \/ t = s
      \/ t = WithCardsAdded(s, Kitty, 1)
      \/ t = ResetPlays(s)
      \/ \E B : t = Landed(s, B)
  <2>1. CASE e.kind = "install_host"
    BY <2>1 DEF OnUpdate
  <2>2. CASE e.kind = "reject_fly"
    <3>1. CASE z.leader = Me
      BY <2>2, <3>1 DEF OnUpdate
    <3>2. CASE z.leader # Me
      BY <2>2, <3>2 DEF OnUpdate
    <3> QED BY <3>1, <3>2
  <2>3. CASE e.kind = "pass_contest"
    BY <2>3 DEF OnUpdate
  <2>4. CASE e.kind \notin {"install_host", "reject_fly", "pass_contest"}
    BY <2>4 DEF OnUpdate
  <2> QED BY <2>1, <2>2, <2>3, <2>4
<1>2. Kitty \in Tallies
  BY PlayAreaAssumption DEF Tallies
<1>3. Good(ResetPlays(s))
  <2> DEFINE u == ResetPlays(s)
  <2>1. Placed(u) /\ DOMAIN u = UiFields /\ \A f \in UiFields \ Where : u[f] = s[f]
    BY ResetPlaysIs DEF Good
  <2> HIDE DEF u
  <2>2. Good(u)
    BY <2>1, WhereGood
  <2> QED BY <2>2 DEF u
<1> QED
  BY <1>1, <1>2, <1>3, AddedGood, LandedIs

LEMMA OnAnswerGood ==
  ASSUME NEW s, Good(s), NEW e \in Happenings, NEW tx \in Intents
  PROVE  Good(OnAnswer(s, e, tx))
<1>1. e.cards \in Tallies /\ tx.cards \in Tallies
  BY DEF Happenings, Intents, Tallies
<1>2. Good(WithCardsAdded(s, e.cards, 0)) /\ Good(WithCardsAdded(s, tx.cards, 0))
  BY <1>1, AddedGood
<1>3. OnAnswer(s, e, tx) \in {s, OnEffect(WithCardsAdded(s, e.cards, 0)),
                             OnEffect(WithCardsAdded(s, tx.cards, 0)), OnEffect(s)}
  <2>1. CASE tx.page = "former"
    BY <2>1 DEF OnAnswer
  <2>2. CASE tx.page # "former"
    BY <2>2 DEF OnAnswer
  <2> QED BY <2>1, <2>2
<1> QED
  BY <1>2, <1>3, OnEffectGood

\* The page is made, gone or coherent.
Screen == ui = Unmounted \/ PageOk(ui)

Typed ==
  /\ game \in Rounds /\ zpy \in Rounds
  /\ outbox \in Seq(Intents) /\ inbox \in Seq(Messages)

\* A connection begins with the state, and while it has one the play area is
\* on the screen.
Wires ==
  /\ conn \in {"sync", "pending-reset", "closed"}
  /\ conn = "sync" => ui # Unmounted
  /\ conn # "sync" => outbox = <<>>
  /\ conn = "closed" => inbox = <<>>
  /\ conn = "pending-reset" => inbox # <<>> /\ Head(inbox).verb = "reset"

PageInv == Typed /\ Screen /\ Wires

LEMMA PagesApart ==
  /\ \A s : Good(s) => s.page = "mounted"
  /\ Unmounted.page = "unmounted" /\ Crashed.page = "crashed" /\ Unmounted # Crashed
<1>1. Unmounted.page = "unmounted" /\ Crashed.page = "crashed"
  BY DEF Unmounted, Crashed
<1> QED
  BY <1>1 DEF Good

LEMMA LiveIs ==
  ASSUME Screen
  PROVE  /\ Live <=> Good(ui)
         /\ ~Live => ui = Unmounted \/ ui = Crashed
         /\ ui.page # "crashed" /\ ~Live => ui = Unmounted
  BY PagesApart DEF Screen, PageOk, Live

\* What an attempt leaves.
OutcomeOk(o) == PageOk(o.ui) /\ o.zpy \in Rounds /\ o.sent \in Seq(Intents)

LEMMA OutcomeIs ==
  ASSUME NEW u, NEW z, NEW sent
  PROVE  LET o == Outcome(u, z, sent)
         IN  o.ui = u /\ o.zpy = z /\ o.sent = sent
  BY DEF Outcome

LEMMA IntentTold ==
  ASSUME NEW i \in Intents, i.kind \in Predictable
  PROVE  Told(i)
<1>1. Me \in Seats
  BY PlayAreaAssumption DEF Me, Seats
<1> QED
  BY <1>1 DEF Told, Intents, EffectKinds

LEMMA AttemptOk ==
  ASSUME NEW s, Good(s), NEW z \in Rounds, NEW i \in Intents, NEW o \in Attempt(s, z, i)
  PROVE  OutcomeOk(o)
<1> DEFINE waits == [s EXCEPT !.action_pending = TRUE]
<1>1. Good(waits)
  <2>1. DOMAIN waits = UiFields /\ \A f \in UiFields \ Flags : waits[f] = s[f]
    BY DEF Good, UiFields, Flags
  <2> HIDE DEF waits
  <2> QED BY <2>1, FlagsGood
<1>2. <<i>> \in Seq(Intents) /\ <<>> \in Seq(Intents)
  OBVIOUS
<1>3. i.kind \in Predictable => Apply(z, i) \in Rounds
  BY IntentTold, ApplyTyped
<1>4. PageOk(OnEffect(s)) /\ PageOk(OnPlayEffect(s, i)) /\ PageOk(waits)
  BY <1>1, OnEffectGood, OnPlayEffectOk DEF PageOk
<1> HIDE DEF waits
<1>5. \/ o = Outcome(waits, z, <<i>>)
      \/ o = Outcome(OnEffect(s), z, <<>>)
      \/ i.kind \in Predictable /\ o = Outcome(OnEffect(s), Apply(z, i), <<i>>)
      \/ i.kind \in Predictable /\ o = Outcome(OnPlayEffect(s, i), Apply(z, i), <<i>>)
  BY AttemptIs DEF waits, Predictable
<1>6. CASE o = Outcome(waits, z, <<i>>)
  <2>1. o.ui = waits /\ o.zpy = z /\ o.sent = <<i>>
    BY <1>6 DEF Outcome
  <2> QED BY <1>2, <1>4, <1>6, <2>1 DEF OutcomeOk
<1>7. CASE o = Outcome(OnEffect(s), z, <<>>)
  <2>1. o.ui = OnEffect(s) /\ o.zpy = z /\ o.sent = <<>>
    BY <1>7 DEF Outcome
  <2> QED BY <1>2, <1>4, <1>7, <2>1 DEF OutcomeOk
<1>8. CASE i.kind \in Predictable /\ o = Outcome(OnEffect(s), Apply(z, i), <<i>>)
  <2>1. o.ui = OnEffect(s) /\ o.zpy = Apply(z, i) /\ o.sent = <<i>>
    BY <1>8 DEF Outcome
  <2> QED BY <1>2, <1>3, <1>4, <1>8, <2>1 DEF OutcomeOk
<1>9. CASE i.kind \in Predictable /\ o = Outcome(OnPlayEffect(s, i), Apply(z, i), <<i>>)
  <2>1. o.ui = OnPlayEffect(s, i) /\ o.zpy = Apply(z, i) /\ o.sent = <<i>>
    BY <1>9 DEF Outcome
  <2> QED BY <1>2, <1>3, <1>4, <1>9, <2>1 DEF OutcomeOk
<1> QED
  BY <1>5, <1>6, <1>7, <1>8, <1>9

LEMMA IdleOk ==
  ASSUME NEW s, Good(s), NEW z \in Rounds
  PROVE  OutcomeOk(Outcome(s, z, <<>>)) /\ Idle(s, z) = {Outcome(s, z, <<>>)}
<1>1. <<>> \in Seq(Intents)
  OBVIOUS
<1> QED
  BY <1>1, OutcomeIs DEF OutcomeOk, PageOk, Idle, Outcome

LEMMA OnSubmitOk ==
  ASSUME NEW s, Good(s), NEW z \in Rounds, NEW o \in OnSubmit(s, z)
  PROVE  OutcomeOk(o)
<1> DEFINE waits == [s EXCEPT !.auto_play = TRUE]
<1>1. Good(waits)
  <2>1. DOMAIN waits = UiFields /\ \A f \in UiFields \ Flags : waits[f] = s[f]
    BY DEF Good, UiFields, Flags
  <2> HIDE DEF waits
  <2> QED BY <2>1, FlagsGood
<1> HIDE DEF waits
<1>2. \/ o = Outcome(s, z, <<>>)
      \/ o = Outcome(waits, z, <<>>)
      \/ \E i : Planned(s, i) /\ o \in Attempt(s, z, i)
  BY OnSubmitIs DEF waits
<1> QED
  BY <1>1, <1>2, IdleOk, AttemptOk DEF Planned

LEMMA TryAutoPlayOk ==
  ASSUME NEW s, Good(s), NEW z \in Rounds, NEW o \in TryAutoPlay(s, z)
  PROVE  OutcomeOk(o)
<1>1. \/ o = Outcome(s, z, <<>>)
      \/ \E i : Planned(s, i) /\ o \in Attempt(s, z, i)
  BY TryAutoPlayIs
<1> QED
  BY <1>1, IdleOk, AttemptOk DEF Planned

LEMMA TakeOk ==
  ASSUME PageInv, NEW outcomes, \A o \in outcomes : OutcomeOk(o), Take(outcomes)
  PROVE  PageOk(ui') /\ zpy' \in Rounds /\ outbox' \in Seq(Intents)
<1>1. PICK o \in outcomes : ui' = o.ui /\ zpy' = o.zpy /\ outbox' = outbox \o o.sent
  BY DEF Take
<1>2. outbox \in Seq(Intents) /\ o.sent \in Seq(Intents)
  BY DEF PageInv, Typed, OutcomeOk
<1>3. outbox \o o.sent \in Seq(Intents)
  BY <1>2, ConcatProperties
<1> QED
  BY <1>1, <1>3 DEF OutcomeOk

LEMMA MinPair ==
  ASSUME NEW a \in Int, NEW b \in Int
  PROVE  Min({a, b}) = IF a <= b THEN a ELSE b
  BY DEF Min

LEMMA SizeIs ==
  ASSUME NEW b \in [Faces -> Int]
  PROVE  Size(b) \in Int
  BY PlayAreaAssumption, SumTakes DEF Size

\* What the server makes of an intent, its own or somebody's.
LEMMA EffectsAre ==
  ASSUME NEW r \in Rounds, NEW i, i.kind \in Requests, i.who \in Seats,
         i.cards \in [Faces -> Nat], i.big \in BOOLEAN, NEW e \in Effects(r, i)
  PROVE  /\ e \in Happenings /\ Legal(r, e) /\ e.who = i.who /\ e.big = i.big
         /\ i.kind = "draw_card" =>
              e.kind = "add_to_hand" /\ (i.who # Me => e.cards = Nothing)
         /\ i.kind = "contest_fly" => e.kind = "reject_fly"
         /\ i.kind = "ready" => e.kind \in {"ready", "install_host"}
         /\ i.kind \notin {"draw_card", "contest_fly", "ready"} =>
              e.kind = i.kind /\ e.cards = i.cards
<1> DEFINE kind == CASE i.kind = "draw_card" -> "add_to_hand"
                     [] i.kind = "contest_fly" -> "reject_fly"
                     [] i.kind = "ready" /\ r.consensus \union {i.who} = Seats -> "install_host"
                     [] OTHER -> i.kind
           cards == CASE kind = "add_to_hand" ->
                           IF i.who = Me THEN {One(f) : f \in Faces} ELSE {Nothing}
                      [] kind = "reject_fly" ->
                           {c \in [Faces -> 0..Size(r.lead)] : AtMost(c, r.lead)}
                      [] OTHER -> {i.cards}
           made(c) == [kind |-> kind, who |-> i.who, cards |-> c, big |-> i.big]
<1>1. Effects(r, i) = {d \in {made(c) : c \in cards} : Legal(r, d)}
  BY DEF Effects
<1> HIDE DEF cards, kind
<1>2. PICK c \in cards : e = made(c) /\ Legal(r, e)
  BY <1>1
<1>3. e.kind = kind /\ e.who = i.who /\ e.cards = c /\ e.big = i.big
  BY <1>2
<1>4. /\ i.kind = "draw_card" => kind = "add_to_hand"
      /\ i.kind = "contest_fly" => kind = "reject_fly"
      /\ i.kind = "ready" => kind \in {"ready", "install_host"}
      /\ i.kind \notin {"draw_card", "contest_fly", "ready"} => kind = i.kind
  BY DEF kind
<1>5. kind \in EffectKinds
  BY <1>4 DEF Requests, EffectKinds, Predictable
<1>6. i.kind # "draw_card" => kind # "add_to_hand"
  BY <1>4 DEF Requests, Predictable
<1>7. i.kind # "contest_fly" => kind # "reject_fly"
  BY <1>4 DEF Requests, Predictable
<1>8. Nothing \in [Faces -> Nat] /\ \A f \in Faces : One(f) \in [Faces -> Nat]
  BY DEF Nothing, One
<1>9. c \in [Faces -> Nat]
  <2>1. CASE kind = "add_to_hand"
    BY <1>2, <1>8, <2>1 DEF cards
  <2>2. CASE kind = "reject_fly"
    <3>1. c \in [Faces -> 0..Size(r.lead)]
      BY <1>2, <2>2 DEF cards
    <3>2. Size(r.lead) \in Int
      <4>1. r.lead \in [Faces -> Int]
        BY DEF Rounds
      <4> QED BY <4>1, SizeIs
    <3> QED BY <3>1, <3>2
  <2>3. CASE kind \notin {"add_to_hand", "reject_fly"}
    BY <1>2, <2>3 DEF cards
  <2> QED BY <2>1, <2>2, <2>3
<1>10. kind = "add_to_hand" /\ i.who # Me => c = Nothing
  BY <1>2 DEF cards
<1>11. kind \notin {"add_to_hand", "reject_fly"} => c = i.cards
  BY <1>2 DEF cards
<1>12. e \in Happenings
  BY <1>2, <1>5, <1>9 DEF Happenings
<1> QED
  BY <1>2, <1>3, <1>4, <1>6, <1>7, <1>10, <1>11, <1>12

\* What another seat may want, and what of that has to do with cards.
LEMMA WishesAre ==
  ASSUME NEW r \in Rounds, NEW p \in Seats, NEW i \in Wishes(r, p)
  PROVE  /\ i.kind \in Requests /\ i.kind # "undo_play" /\ i.who = p
         /\ i.cards \in [Faces -> Nat] /\ i.big \in BOOLEAN
         /\ i.kind # "lead_play" => i.cards = Nothing
<1> DEFINE some == CHOOSE f \in Faces : TRUE
           tally(n) == [f \in Faces |-> IF f = some THEN n ELSE 0]
<1>1. \A k, big : \A n \in Nat :
        LET w == Wish(k, p, n, big)
        IN  /\ w.kind = k /\ w.who = p /\ w.big = big /\ w.cards = tally(n)
            /\ tally(n) \in [Faces -> Nat]
  BY DEF Wish
<1>2. tally(0) = Nothing
  BY DEF Nothing
<1> HIDE DEF tally
<1>3. 1..Min({2, Size(r.hand)}) \subseteq Nat
  <2>1. Size(r.hand) \in Int
    BY SizeIs DEF Rounds
  <2>2. Min({2, Size(r.hand)}) \in Int
    BY <2>1, MinPair
  <2> QED BY <2>2
<1>4. \/ \E k \in {"draw_card", "ready", "replace_kitty", "call_friends", "contest_fly",
                   "pass_contest", "collect_trick"} : i = Wish(k, p, 0, FALSE)
      \/ \E n \in Nat : \E big \in BOOLEAN : i = Wish("lead_play", p, n, big)
      \/ \E big \in BOOLEAN : i = Wish("follow_lead", p, 0, big)
  <2> DEFINE A == {Wish(k, p, 0, FALSE) : k \in {"draw_card", "ready", "replace_kitty",
                    "call_friends", "contest_fly", "pass_contest", "collect_trick"}}
             F(n) == {Wish("lead_play", p, n, big) : big \in BOOLEAN}
             B == UNION {F(n) : n \in 1..Min({2, Size(r.hand)})}
             C == {Wish("follow_lead", p, 0, big) : big \in BOOLEAN}
  <2>1. Wishes(r, p) = A \union B \union C
    BY DEF Wishes
  <2>2. CASE i \in A
    BY <2>2
  <2>3. CASE i \in B
    <3> HIDE DEF F
    <3>1. PICK n \in Nat : i \in F(n)
      BY <1>3, <2>3
    <3> QED BY <3>1 DEF F
  <2>4. CASE i \in C
    BY <2>4
  <2> HIDE DEF A, B, C
  <2> QED BY <2>1, <2>2, <2>3, <2>4
<1>5. CASE \E k \in {"draw_card", "ready", "replace_kitty", "call_friends", "contest_fly",
                   "pass_contest", "collect_trick"} : i = Wish(k, p, 0, FALSE)
  <2>1. PICK k \in {"draw_card", "ready", "replace_kitty", "call_friends", "contest_fly",
                   "pass_contest", "collect_trick"} : i = Wish(k, p, 0, FALSE)
    BY <1>5
  <2>2. i.kind = k /\ i.who = p /\ i.big = FALSE /\ i.cards = Nothing
    BY <2>1 DEF Wish, Nothing
  <2>3. Nothing \in [Faces -> Nat]
    BY DEF Nothing
  <2> QED BY <2>1, <2>2, <2>3 DEF Requests, Predictable
<1>6. CASE \E n \in Nat : \E big \in BOOLEAN : i = Wish("lead_play", p, n, big)
  BY <1>1, <1>6 DEF Requests, Predictable
<1>7. CASE \E big \in BOOLEAN : i = Wish("follow_lead", p, 0, big)
  BY <1>1, <1>2, <1>7 DEF Requests, Predictable
<1> QED
  BY <1>4, <1>5, <1>6, <1>7

\* Where the round is opened there is a page with its hand.
LEMMA InitPage == Init => PageInv
<1> SUFFICES ASSUME Init PROVE PageInv
  OBVIOUS
<1>1. PICK start \in Starts : game = start.round
  BY DEF Init
<1>2. game \in Rounds
  <2>1. game \in [phase : {"DRAW", "LEAD"}, host : Seats, leader : Seats,
                  cur : Seats, deck : Int, hand : [Faces -> Nat],
                  consensus : {{}}, winning : Seats, prior : Seats,
                  lead : {Nothing}, play : {Nothing}]
    BY <1>1, PlayAreaAssumption
  <2>2. Nothing \in [Faces -> Nat] /\ [Faces -> Nat] \subseteq [Faces -> Int]
    BY DEF Nothing
  <2>3. Seats \subseteq 0..N
    BY PlayAreaAssumption DEF Seats
  <2> QED BY <2>1, <2>2, <2>3 DEF Rounds, Phases
<1>3. zpy \in Rounds /\ outbox = <<>> /\ inbox = <<>> /\ conn = "sync"
  BY <1>2 DEF Init
<1>4. Good(ui)
  BY <1>2, MountedGood DEF Init
<1> QED
  BY <1>2, <1>3, <1>4, PagesApart DEF PageInv, Typed, Screen, Wires, PageOk

\* Attempts and clicks leave a page, and touch no wire but the outgoing one.
LEMMA AttemptKeeps ==
  ASSUME PageInv, Synced, NEW outcomes, \A o \in outcomes : OutcomeOk(o), Take(outcomes),
         UNCHANGED network
  PROVE  PageInv'
<1>1. PageOk(ui') /\ zpy' \in Rounds /\ outbox' \in Seq(Intents)
  BY TakeOk
<1>2. ui' # Unmounted
  BY <1>1, PagesApart DEF PageOk
<1>3. conn' = "sync" /\ game' = game /\ inbox' = inbox
  BY DEF Synced, network
<1> QED
  BY <1>1, <1>2, <1>3 DEF PageInv, Typed, Screen, Wires

LEMMA ArrangeKeeps ==
  ASSUME PageInv, NEW s, Good(s), Arrange(s)
  PROVE  PageInv'
<1>1. ui' = s /\ UNCHANGED <<game, zpy, conn, outbox, inbox>>
  BY DEF Arrange, network
<1>2. PageOk(ui') /\ ui' # Unmounted
  BY <1>1, PagesApart DEF PageOk
<1> QED
  BY <1>1, <1>2 DEF PageInv, Typed, Screen, Wires

LEMMA FlagKeeps ==
  ASSUME NEW s, Good(s)
  PROVE  /\ Good([s EXCEPT !.action_pending = TRUE])
         /\ \A b : Good([s EXCEPT !.auto_play = b]) /\ Good([s EXCEPT !.full_control = b])
<1>1. Good([s EXCEPT !.action_pending = TRUE])
  <2> DEFINE t == [s EXCEPT !.action_pending = TRUE]
  <2>1. DOMAIN t = UiFields /\ \A f \in UiFields \ Flags : t[f] = s[f]
    BY DEF Good, UiFields, Flags
  <2> HIDE DEF t
  <2>2. Good(t)
    BY <2>1, FlagsGood
  <2> QED BY <2>2 DEF t
<1>2. ASSUME NEW b PROVE Good([s EXCEPT !.auto_play = b])
  <2> DEFINE t == [s EXCEPT !.auto_play = b]
  <2>1. DOMAIN t = UiFields /\ \A f \in UiFields \ Flags : t[f] = s[f]
    BY DEF Good, UiFields, Flags
  <2> HIDE DEF t
  <2>2. Good(t)
    BY <2>1, FlagsGood
  <2> QED BY <2>2 DEF t
<1>3. ASSUME NEW b PROVE Good([s EXCEPT !.full_control = b])
  <2> DEFINE t == [s EXCEPT !.full_control = b]
  <2>1. DOMAIN t = UiFields /\ \A f \in UiFields \ Flags : t[f] = s[f]
    BY DEF Good, UiFields, Flags
  <2> HIDE DEF t
  <2>2. Good(t)
    BY <2>1, FlagsGood
  <2> QED BY <2>2 DEF t
<1> QED
  BY <1>1, <1>2, <1>3

LEMMA ResetPlaysGood ==
  ASSUME NEW s, Good(s)
  PROVE  Good(ResetPlays(s))
<1> DEFINE t == ResetPlays(s)
<1>1. Placed(t) /\ DOMAIN t = UiFields /\ \A f \in UiFields \ Where : t[f] = s[f]
  BY ResetPlaysIs DEF Good
<1> HIDE DEF t
<1>2. Good(t)
  BY <1>1, WhereGood
<1> QED
  BY <1>2 DEF t

LEMMA MoveGood ==
  ASSUME NEW s, Good(s), NEW phase, NEW dst \in 0..Len(s.staged) + 1, NEW src \in s.id_set
  PROVE  Good(MoveCards(s, phase, dst, src))
<1> DEFINE t == MoveCards(s, phase, dst, src)
<1>1. Placed(t) /\ DOMAIN t = UiFields /\ \A f \in UiFields \ Where : t[f] = s[f]
  BY MoveIs DEF Good
<1> HIDE DEF t
<1>2. Good(t)
  BY <1>1, WhereGood
<1> QED
  BY <1>2 DEF t

\* The areas that are shown, or are about to be.
LEMMA ShownIs ==
  ASSUME Len(ui.staged) \in Nat, NEW dst \in Shown
  PROVE  dst \in 0..Len(ui.staged) + 1
<1> DEFINE n == Len(ui.staged) + 1
           m == Min({n, MaxAreas})
<1>1. n \in Nat \ {0}
  OBVIOUS
<1> HIDE DEF n
<1>2. m \in Int /\ m <= n
  BY <1>1, PlayAreaAssumption, MinPair
<1> HIDE DEF m
<1>3. dst = 0 \/ dst = 1 \/ dst \in 1..m
  BY DEF Shown, m, n
<1>4. dst \in 0..n
  BY <1>1, <1>2, <1>3
<1> QED
  BY <1>4 DEF n

LEMMA UserKeeps ==
  ASSUME PageInv, User
  PROVE  PageInv'
<1>1. Live => Good(ui) /\ OnPage(ui) = ui.id_set /\ Len(ui.staged) \in Nat
  <2>1. Live => Good(ui)
    BY LiveIs DEF PageInv
  <2> QED BY <2>1, OnPageIs DEF Good, Placed
<1>2. zpy \in Rounds
  BY DEF PageInv, Typed
<1>3. CASE Submit
  BY <1>1, <1>2, <1>3, OnSubmitOk, AttemptKeeps DEF Submit, Synced
<1>4. CASE SubmitOffline
  <2>1. Good(ui) /\ Arrange([ui EXCEPT !.action_pending = TRUE])
    BY <1>1, <1>4 DEF SubmitOffline, Arrange
  <2> QED BY <2>1, FlagKeeps, ArrangeKeeps
<1>5. CASE ClickDeck
  <2> DEFINE i == Intent("draw_card", Nothing, FALSE, {})
  <2>1. Good(ui) /\ Synced /\ Take(Attempt(ui, zpy, i)) /\ UNCHANGED network
    BY <1>1, <1>5 DEF ClickDeck, Synced
  <2>2. i \in Intents
    BY PlainPlanned DEF Planned, Requests, Plays
  <2> HIDE DEF i
  <2> QED BY <1>2, <2>1, <2>2, AttemptOk, AttemptKeeps
<1>6. CASE UndoPlay
  <2> DEFINE i == Intent("undo_play", zpy.play, FALSE, {})
  <2>1. Good(ui) /\ Synced /\ Take(Attempt(ui, zpy, i)) /\ UNCHANGED network
    BY <1>1, <1>6 DEF UndoPlay, Synced
  <2>2. i \in Intents
    <3>1. zpy.play \in [Faces -> Nat]
      BY <1>2 DEF Rounds
    <3> QED BY <3>1 DEF Intent, Intents, Requests
  <2> HIDE DEF i
  <2> QED BY <1>2, <2>1, <2>2, AttemptOk, AttemptKeeps
<1>7. CASE ClickCard
  <2>1. Good(ui)
    BY <1>1, <1>7 DEF ClickCard
  <2>2. PICK id \in ui.id_set :
          \/ Arrange(MoveCards(ui, zpy.phase, IF ui.id_to_area[id] = 0 THEN 1 ELSE 0, id))
          \/ Arrange(Toggle(ui, id))
          \/ ui.prev_start # 0 /\ \E s \in Stretch(ui, id) : Arrange(s)
    BY <1>1, <1>7 DEF ClickCard
  <2>3. Good(MoveCards(ui, zpy.phase, IF ui.id_to_area[id] = 0 THEN 1 ELSE 0, id))
    <3>1. (IF ui.id_to_area[id] = 0 THEN 1 ELSE 0) \in 0..Len(ui.staged) + 1
      BY <1>1, <2>1 DEF Good, Placed
    <3> QED BY <2>1, <3>1, MoveGood
  <2> QED BY <2>1, <2>2, <2>3, ToggleIs, StretchIs, ArrangeKeeps
<1>8. CASE DragCard
  <2>1. Good(ui)
    BY <1>1, <1>8 DEF DragCard
  <2>2. PICK id \in ui.id_set, dst \in Shown :
          Arrange(MoveCards(IF id \in ui.selected THEN ui ELSE DeselectAll(ui),
                            zpy.phase, dst, id))
    BY <1>1, <1>8 DEF DragCard
  <2>3. dst \in 0..Len(ui.staged) + 1
    BY <1>1, <2>1, ShownIs
  <2>4. CASE id \in ui.selected
    BY <2>1, <2>2, <2>3, <2>4, MoveGood, ArrangeKeeps
  <2>5. CASE id \notin ui.selected
    <3> DEFINE s == DeselectAll(ui)
    <3>1. Good(s) /\ \A f \in UiFields \ Marks : s[f] = ui[f]
      BY <2>1, DeselectIs
    <3>2. Arrange(MoveCards(s, zpy.phase, dst, id))
      BY <2>2, <2>5
    <3> HIDE DEF s
    <3>3. s.staged = ui.staged /\ s.id_set = ui.id_set
      BY <3>1 DEF UiFields, Marks
    <3> QED BY <2>3, <3>1, <3>2, <3>3, MoveGood, ArrangeKeeps
  <2> QED BY <2>4, <2>5
<1>9. CASE SelectAll
  <2> DEFINE s == [ui EXCEPT !.selected = ui.id_set]
  <2>1. Good(ui) /\ Arrange(s)
    BY <1>1, <1>9 DEF SelectAll
  <2>2. /\ DOMAIN s = UiFields /\ s.selected = ui.id_set /\ s.id_set = ui.id_set
        /\ s.prev_start = ui.prev_start /\ s.prev_stop = ui.prev_stop
        /\ \A f \in UiFields \ Marks : s[f] = ui[f]
    BY <2>1 DEF Good, UiFields, Marks
  <2> HIDE DEF s
  <2>3. Chosen(s)
    BY <2>1, <2>2 DEF Good, Chosen
  <2> QED BY <2>1, <2>2, <2>3, MarkedGood, ArrangeKeeps
<1>10. CASE ClickOut
  BY <1>1, <1>10, DeselectIs, ArrangeKeeps DEF ClickOut
<1>11. CASE KeyReset
  BY <1>1, <1>11, ResetPlaysGood, ArrangeKeeps DEF KeyReset
<1>12. CASE ToggleFullControl
  <2>1. Good(ui)
    BY <1>1, <1>12 DEF ToggleFullControl
  <2>2. \/ Arrange([ResetPlays(ui) EXCEPT !.full_control = FALSE])
        \/ Arrange([ui EXCEPT !.full_control = TRUE])
    BY <1>12 DEF ToggleFullControl
  <2>3. Good(ResetPlays(ui))
    BY <2>1, ResetPlaysGood
  <2> QED BY <2>1, <2>2, <2>3, FlagKeeps, ArrangeKeeps
<1>13. CASE ToggleAutoPlay
  <2>1. Good(ui) /\ Arrange([ui EXCEPT !.auto_play = ~ui.auto_play /\ AllStaged(ui) # {}])
    BY <1>1, <1>13 DEF ToggleAutoPlay
  <2> DEFINE s == [ui EXCEPT !.auto_play = ~ui.auto_play /\ AllStaged(ui) # {}]
  <2>2. Good(s)
    <3>1. DOMAIN s = UiFields /\ \A f \in UiFields \ Flags : s[f] = ui[f]
      BY <2>1 DEF Good, UiFields, Flags
    <3> HIDE DEF s
    <3> QED BY <2>1, <3>1, FlagsGood
  <2> HIDE DEF s
  <2> QED BY <2>1, <2>2, ArrangeKeeps DEF s
<1> QED
  BY <1>3, <1>4, <1>5, <1>6, <1>7, <1>8, <1>9, <1>10, <1>11, <1>12, <1>13 DEF User

LEMMA DrawKeeps ==
  ASSUME PageInv, NEW page \in {"live", "former"}, Draw(page)
  PROVE  PageInv'
<1> DEFINE i == [Intent("draw_card", Nothing, FALSE, {}) EXCEPT !.page = page]
<1>1. i \in Intents
  BY NothingIs DEF Intent, Intents, Requests, Nothing
<1> HIDE DEF i
<1>2. /\ ui' = ui \/ (Live /\ ui' = [ui EXCEPT !.action_pending = TRUE])
      /\ outbox' = outbox \/ (conn = "sync" /\ outbox' = Append(outbox, i))
      /\ UNCHANGED <<game, zpy, conn, inbox>>
  BY DEF Draw, network, i
<1>3. outbox' \in Seq(Intents)
  BY <1>1, <1>2, AppendIs DEF PageInv, Typed
<1>4. Live => Good([ui EXCEPT !.action_pending = TRUE])
  BY LiveIs, FlagKeeps DEF PageInv
<1>5. Screen'
  BY <1>2, <1>4 DEF PageInv, Screen, PageOk
<1>6. ui' = Unmounted => ui = Unmounted
  BY <1>2, <1>4, PagesApart
<1> QED
  BY <1>2, <1>3, <1>5, <1>6 DEF PageInv, Typed, Wires

LEMMA UnmountKeeps ==
  ASSUME PageInv, Unmount
  PROVE  PageInv'
  BY DEF PageInv, Typed, Screen, Wires, Unmount, network

LEMMA LoseKeeps ==
  ASSUME PageInv, Lose
  PROVE  PageInv'
<1>1. <<>> \in Seq(Intents) /\ <<>> \in Seq(Messages)
  OBVIOUS
<1> QED
  BY <1>1 DEF PageInv, Typed, Screen, Wires, Lose

LEMMA ReconnectKeeps ==
  ASSUME PageInv, Reconnect
  PROVE  PageInv'
<1> DEFINE m == Reset(game)
<1>1. m \in Messages /\ m.verb = "reset"
  BY DEF Reset, Messages, Resets, PageInv, Typed
<1> HIDE DEF m
<1>2. <<m>> \in Seq(Messages) /\ Head(<<m>>) = m /\ <<m>> # <<>>
  BY <1>1
<1>3. /\ inbox' = <<m>> /\ conn' = "pending-reset" /\ UNCHANGED <<game, zpy, outbox, ui>>
      /\ conn = "closed"
  BY DEF Reconnect, m
<1> QED
  BY <1>1, <1>2, <1>3 DEF PageInv, Typed, Screen, Wires

\* What the server sends goes behind what is under way.
LEMMA SentKeeps ==
  ASSUME PageInv, NEW m \in Messages, inbox' = Append(inbox, m) \/ inbox' = inbox,
         game' \in Rounds, outbox' \in Seq(Intents), UNCHANGED <<zpy, conn, ui>>,
         conn = "closed" => inbox' = inbox, conn # "sync" => outbox' = <<>>
  PROVE  PageInv'
<1>1. inbox \in Seq(Messages)
  BY DEF PageInv, Typed
<1>2. /\ inbox' \in Seq(Messages)
      /\ inbox # <<>> => inbox' # <<>> /\ Head(inbox') = Head(inbox)
  <2>1. CASE inbox' = inbox
    BY <1>1, <2>1
  <2>2. CASE inbox' = Append(inbox, m)
    <3>1. Append(inbox, m) \in Seq(Messages) /\ Append(inbox, m) # <<>>
      BY <1>1, AppendIs
    <3>2. inbox # <<>> => Head(Append(inbox, m)) = Head(inbox)
      BY <1>1
    <3> QED BY <2>2, <3>1, <3>2
  <2> QED BY <2>1, <2>2
<1> QED
  BY <1>2 DEF PageInv, Typed, Screen, Wires

LEMMA MessagesAre ==
  /\ \A e \in Happenings : \A tx \in Intents \cup {NoTx} : Update(e, tx) \in Messages
  /\ \A tx \in Intents : Reject(tx) \in Messages
  BY DEF Messages, Updates, Rejects, Update, Reject

LEMMA HappeningTold ==
  ASSUME NEW e \in Happenings
  PROVE  Told(e)
  BY DEF Told, Happenings

\* The server has requests only over a connection.
LEMMA ServeKeeps ==
  ASSUME PageInv, Serve
  PROVE  PageInv'
<1> DEFINE i == Head(outbox)
<1>1. outbox \in Seq(Intents) /\ game \in Rounds /\ outbox # <<>>
  BY DEF PageInv, Typed, Serve
<1>2. i \in Intents /\ outbox' \in Seq(Intents)
  BY <1>1, TailIs DEF Serve
<1>3. /\ i.kind \in Requests /\ i.who \in Seats /\ i.cards \in [Faces -> Nat] /\ i.big \in BOOLEAN
  BY <1>2, PlayAreaAssumption DEF Intents, Seats, Me
<1>4. UNCHANGED <<zpy, conn, ui>> /\ conn = "sync"
  BY <1>1 DEF Serve, PageInv, Wires
<1>5. \/ \E e \in Effects(game, i) :
           /\ game' = Apply(game, e)
           /\ inbox' = IF i.kind \in Predictable THEN inbox ELSE Append(inbox, Update(e, i))
      \/ game' = game /\ inbox' = Append(inbox, Reject(i))
  BY DEF Serve
<1> HIDE DEF i
<1>6. ASSUME NEW e \in Effects(game, i), game' = Apply(game, e),
             inbox' = IF i.kind \in Predictable THEN inbox ELSE Append(inbox, Update(e, i))
      PROVE  PageInv'
  <2>1. e \in Happenings
    BY <1>1, <1>3, EffectsAre
  <2>2. game' \in Rounds
    BY <1>1, <1>6, <2>1, HappeningTold, ApplyTyped
  <2>3. Update(e, i) \in Messages
    BY <1>2, <2>1, MessagesAre
  <2>4. inbox' = inbox \/ inbox' = Append(inbox, Update(e, i))
    BY <1>6
  <2> QED BY <1>2, <1>4, <2>2, <2>3, <2>4, SentKeeps
<1>7. CASE game' = game /\ inbox' = Append(inbox, Reject(i))
  <2>1. Reject(i) \in Messages
    BY <1>2, MessagesAre
  <2> QED BY <1>1, <1>2, <1>4, <1>7, <2>1, SentKeeps
<1> QED
  BY <1>5, <1>6, <1>7

LEMMA OtherSeatKeeps ==
  ASSUME PageInv, OtherSeat
  PROVE  PageInv'
<1> DEFINE sent(e) == /\ game' = Apply(game, e)
                      /\ inbox' = IF conn = "closed" THEN inbox ELSE Append(inbox, Update(e, NoTx))
<1>8. PICK p \in Seats \ {Me} : \E i \in Wishes(game, p) : \E e \in Effects(game, i) : sent(e)
  BY DEF OtherSeat
<1>9. PICK i \in Wishes(game, p) : \E e \in Effects(game, i) : sent(e)
  BY <1>8
<1>1. PICK e \in Effects(game, i) : sent(e)
  BY <1>9
<1>2. /\ game \in Rounds /\ outbox' \in Seq(Intents) /\ UNCHANGED <<zpy, conn, ui>>
      /\ conn # "sync" => outbox' = <<>>
  BY DEF PageInv, Typed, Wires, OtherSeat
<1>3. /\ i.kind \in Requests /\ i.who \in Seats /\ i.cards \in [Faces -> Nat] /\ i.big \in BOOLEAN
  BY <1>2, WishesAre
<1>4. e \in Happenings
  BY <1>2, <1>3, EffectsAre
<1>5. game' \in Rounds
  BY <1>1, <1>2, <1>4, HappeningTold, ApplyTyped
<1>6. Update(e, NoTx) \in Messages
  BY <1>4, MessagesAre
<1>7. /\ inbox' = inbox \/ inbox' = Append(inbox, Update(e, NoTx))
      /\ conn = "closed" => inbox' = inbox
  BY <1>1
<1> QED
  BY <1>2, <1>5, <1>6, <1>7, SentKeeps

\* While a message is taken the play area is on the screen or waits for a
\* reset.
LEMMA DeliverKeeps ==
  ASSUME PageInv, Deliver
  PROVE  PageInv'
<1> DEFINE m == Head(inbox)
<1>1. /\ inbox \in Seq(Messages) /\ inbox # <<>> /\ inbox' = Tail(inbox) /\ game' = game
      /\ game \in Rounds /\ zpy \in Rounds /\ ui.page # "crashed"
  BY DEF PageInv, Typed, Deliver
<1>2. m \in Messages /\ inbox' \in Seq(Messages)
  BY <1>1, TailIs
<1>3. Live \/ ui = Unmounted
  BY <1>1, LiveIs DEF PageInv
<1>4. Live => Good(ui)
  BY LiveIs DEF PageInv
<1>5. conn = "sync" \/ m.verb = "reset"
  BY <1>1 DEF PageInv, Wires
<1>6. conn = "sync" => Live
  BY <1>3 DEF PageInv, Wires
<1>7. \/ /\ m.verb = "reset" /\ conn' = "sync"
         /\ \E s \in IF Live THEN OnReset(ui, m.state) ELSE {Mounted(m.state)} :
              Take(TryAutoPlay(s, m.state))
      \/ /\ m.verb = "update" /\ UNCHANGED conn
         /\ \E s \in OnUpdate(ui, Apply(zpy, m.effect), m.effect) :
              \/ m.tx = NoTx /\ Take(TryAutoPlay(s, Apply(zpy, m.effect)))
              \/ m.tx = NoTx /\ Take(Idle(s, Apply(zpy, m.effect)))
              \/ /\ m.tx # NoTx
                 /\ Take(Idle(OnAnswer(s, m.effect, m.tx), Apply(zpy, m.effect)))
      \/ /\ m.verb = "reject" /\ UNCHANGED conn
         /\ Take(Idle(IF m.tx.page = "live" THEN OnEffect(ui) ELSE ui, zpy))
  <2>1. CASE TakeReset
    BY <2>1 DEF TakeReset
  <2>2. CASE TakeUpdate
    <3>1. \A s : (IF m.tx = NoTx
                  THEN IF m.effect.kind = "follow_lead"
                       THEN Take(TryAutoPlay(s, Apply(zpy, m.effect)))
                       ELSE Take(Idle(s, Apply(zpy, m.effect)))
                  ELSE Take(Idle(OnAnswer(s, m.effect, m.tx), Apply(zpy, m.effect))))
                 => \/ m.tx = NoTx /\ Take(TryAutoPlay(s, Apply(zpy, m.effect)))
                    \/ m.tx = NoTx /\ Take(Idle(s, Apply(zpy, m.effect)))
                    \/ /\ m.tx # NoTx
                       /\ Take(Idle(OnAnswer(s, m.effect, m.tx), Apply(zpy, m.effect)))
      OBVIOUS
    <3> QED BY <2>2, <3>1, Zenon DEF TakeUpdate
  <2>3. CASE TakeReject
    BY <2>3 DEF TakeReject
  <2> QED BY <2>1, <2>2, <2>3 DEF Deliver
<1> HIDE DEF m
<1>8. ASSUME conn' = "sync", PageOk(ui'), zpy' \in Rounds, outbox' \in Seq(Intents)
      PROVE  PageInv'
  BY <1>1, <1>2, <1>8, PagesApart DEF PageInv, Typed, Screen, Wires, PageOk
<1>9. CASE /\ m.verb = "reset" /\ conn' = "sync"
           /\ \E s \in IF Live THEN OnReset(ui, m.state) ELSE {Mounted(m.state)} :
                Take(TryAutoPlay(s, m.state))
  <2>1. m.state \in Rounds
    BY <1>2, <1>9 DEF Messages, Updates, Rejects, Resets
  <2>2. PICK s \in IF Live THEN OnReset(ui, m.state) ELSE {Mounted(m.state)} :
          Take(TryAutoPlay(s, m.state))
    BY <1>9
  <2>3. Good(s)
    BY <1>4, <2>1, <2>2, OnResetGood, MountedGood
  <2> QED BY <1>8, <1>9, <2>1, <2>2, <2>3, TryAutoPlayOk, TakeOk
<1>10. ASSUME m.verb = "update", UNCHANGED conn,
              \E s \in OnUpdate(ui, Apply(zpy, m.effect), m.effect) :
                \/ m.tx = NoTx /\ Take(TryAutoPlay(s, Apply(zpy, m.effect)))
                \/ m.tx = NoTx /\ Take(Idle(s, Apply(zpy, m.effect)))
                \/ /\ m.tx # NoTx
                   /\ Take(Idle(OnAnswer(s, m.effect, m.tx), Apply(zpy, m.effect)))
       PROVE  PageInv'
  <2> DEFINE e == m.effect
             z == Apply(zpy, e)
  <2>1. e \in Happenings /\ m.tx \in Intents \cup {NoTx}
    BY <1>2, <1>10 DEF Messages, Updates, Rejects, Resets
  <2>2. conn = "sync" /\ Good(ui) /\ z \in Rounds
    BY <1>1, <1>4, <1>5, <1>6, <1>10, <2>1, HappeningTold, ApplyTyped
  <2>3. PICK s \in OnUpdate(ui, z, e) :
          \/ m.tx = NoTx /\ Take(TryAutoPlay(s, z))
          \/ m.tx = NoTx /\ Take(Idle(s, z))
          \/ m.tx # NoTx /\ Take(Idle(OnAnswer(s, e, m.tx), z))
    BY <1>10
  <2> HIDE DEF z, e
  <2>4. Good(s)
    BY <2>2, OnUpdateGood
  <2>5. m.tx # NoTx => Good(OnAnswer(s, e, m.tx))
    BY <2>1, <2>4, OnAnswerGood
  <2>6. \A u : Good(u) => \A o \in Idle(u, z) : OutcomeOk(o)
    BY <2>2, IdleOk
  <2>7. \A o \in TryAutoPlay(s, z) : OutcomeOk(o)
    BY <2>2, <2>4, TryAutoPlayOk
  <2>8. PageOk(ui') /\ zpy' \in Rounds /\ outbox' \in Seq(Intents)
    BY <2>3, <2>4, <2>5, <2>6, <2>7, TakeOk
  <2> QED BY <1>8, <1>10, <2>2, <2>8
<1>11. CASE /\ m.verb = "reject" /\ UNCHANGED conn
            /\ Take(Idle(IF m.tx.page = "live" THEN OnEffect(ui) ELSE ui, zpy))
  <2> DEFINE s == IF m.tx.page = "live" THEN OnEffect(ui) ELSE ui
  <2>1. conn = "sync" /\ Good(s)
    BY <1>4, <1>5, <1>6, <1>11, OnEffectGood
  <2> HIDE DEF s
  <2>2. \A o \in Idle(s, zpy) : OutcomeOk(o)
    BY <1>1, <2>1, IdleOk
  <2>3. Take(Idle(s, zpy))
    BY <1>11 DEF s
  <2> QED BY <1>8, <1>11, <2>1, <2>2, <2>3, TakeOk
<1> QED
  BY <1>7, <1>9, <1>10, <1>11

LEMMA NextKeeps ==
  ASSUME PageInv, [Next]_vars
  PROVE  PageInv'
<1>1. CASE Next
  <2>1. CASE User
    BY <2>1, UserKeeps
  <2>2. CASE \E page \in {"live", "former"} : Draw(page)
    BY <2>2, DrawKeeps
  <2>3. CASE Unmount \/ Lose \/ Reconnect
    BY <2>3, UnmountKeeps, LoseKeeps, ReconnectKeeps
  <2>4. CASE Serve \/ OtherSeat \/ Deliver
    BY <2>4, ServeKeeps, OtherSeatKeeps, DeliverKeeps
  <2> QED BY <1>1, <2>1, <2>2, <2>3, <2>4 DEF Next
<1>2. CASE UNCHANGED vars
  BY <1>2 DEF vars, PageInv, Typed, Screen, Wires
<1> QED
  BY <1>1, <1>2

LEMMA PageAlways == Spec => []PageInv
<1> QED
  BY InitPage, NextKeeps, PTL DEF Spec

LEMMA PageCoherent == PageInv => Coherent
<1> SUFFICES ASSUME PageInv, Live PROVE
      /\ ui.id_set = OnPage(ui)
      /\ \A i \in ui.hand : ui.id_to_area[i] = 0
      /\ \A k \in DOMAIN ui.staged : \A i \in ui.staged[k] : ui.id_to_area[i] = k
      /\ ui.selected \subseteq ui.id_set
      /\ ui.prev_start # 0 => ui.prev_start \in ui.selected
      /\ ui.prev_stop # 0 => ui.prev_stop \in ui.id_set
  BY DEF Coherent
<1>1. Good(ui)
  BY LiveIs DEF PageInv
<1>2. DOMAIN ui.staged = 1..Len(ui.staged)
  BY <1>1 DEF Good, Placed
<1> QED
  BY <1>1, <1>2, OnPageIs DEF Good, Placed, Chosen

\* In every state of a mounted play area what validate() asserts holds
\* (PlayArea.tsx): each card is in the one area that id_to_area says, and the
\* selection and its ends are cards on the page, whatever the user, the
\* timers, the server and the connection do.
THEOREM CoherentAlways == Spec => []Coherent
<1> QED
  BY PageAlways, PageCoherent, PTL

-----------------------------------------------------------------------------
(* Whose turn it is *)

FlyOpenFits(r) == FlyOpen(r) => AtMost(r.lead, r.hand)

\* What the phase of a round says of its turn, its trick and Me's hand.
Sound(r) ==
  /\ r \in Rounds
  /\ r.phase = "LEAD" => r.cur = r.leader
  /\ r.phase # "FOLLOW" => r.play = Nothing
  /\ r.hand \in [Faces -> Nat] /\ FlyOpenFits(r)

\* Of other seats' cards the page sees none go.
Modest(e) == e.kind \in {"replace_kitty", "follow_lead"} /\ e.who # Me => e.cards = Nothing

\* Only Me may act.
MyTurn(r) ==
  \/ r.phase \in {"KITTY", "FRIEND"} /\ r.host = Me
  \/ r.phase \in {"LEAD", "FOLLOW"} /\ r.cur = Me
  \/ r.phase = "FOLLOW" /\ r.cur = Nobody /\ r.winning = Me

\* An undo in the current trick would give back these cards.
Keeps(r, c) == r.phase = "FOLLOW" /\ r.leader # Me /\ r.play # Nothing => r.play = c

Foretold(e) == e.who = Me /\ e.kind \in Predictable

LEMMA CommitIs ==
  ASSUME NEW r \in Rounds, NEW cards
  PROVE  LET q == Commit(r, cards)
         IN  /\ q.phase = "FOLLOW" /\ q.leader = r.leader /\ q.lead = cards
             /\ q.hand = IF r.leader = Me THEN Minus(r.hand, cards) ELSE r.hand
             /\ q.play = IF r.leader = Me THEN cards ELSE r.play
  BY DEF Commit, Rounds

LEMMA SeatsApart == Me \in Seats /\ Nobody \notin Seats /\ Me # Nobody
  BY PlayAreaAssumption DEF Me, Seats, Nobody

LEMMA AfterMe ==
  ASSUME NEW r \in Rounds
  PROVE  After(r, Me) # Me
<1>1. (Me + 1) % N # Me
  BY PlayAreaAssumption DEF Me
<1> QED
  BY <1>1, SeatsApart DEF After

\* What a legal effect makes of the phase, the leader and the trick, by kind.
LEMMA ApplyIs ==
  ASSUME NEW r \in Rounds, NEW e, Told(e), Legal(r, e)
  PROVE  LET q == Apply(r, e)
         IN  /\ e.kind = "add_to_hand" =>
                  /\ r.phase = "DRAW" /\ r.cur = e.who /\ q.phase \in {"DRAW", "PREPARE"}
                  /\ q.hand = Plus(r.hand, e.cards) /\ q.play = r.play
             /\ e.kind = "ready" =>
                  /\ r.phase = "PREPARE" /\ q.phase = "PREPARE"
                  /\ q.hand = r.hand /\ q.play = r.play
             /\ e.kind = "install_host" =>
                  /\ r.phase = "PREPARE" /\ q.phase = "KITTY" /\ q.host = r.host
                  /\ q.hand = (IF r.host = Me THEN Plus(r.hand, Kitty) ELSE r.hand)
                  /\ q.play = r.play
             /\ e.kind = "replace_kitty" =>
                  /\ r.phase = "KITTY" /\ r.host = e.who /\ q.phase = "FRIEND"
                  /\ q.hand = Minus(r.hand, e.cards) /\ q.play = r.play
             /\ e.kind = "call_friends" =>
                  /\ r.phase = "FRIEND" /\ r.host = e.who /\ q.phase = "LEAD"
                  /\ q.leader = q.cur /\ q.hand = r.hand /\ q.play = r.play
             /\ e.kind = "lead_play" => r.phase = "LEAD" /\ r.cur = e.who
             /\ e.kind = "lead_play" /\ e.big =>
                  /\ q.phase = "FLY" /\ q.leader = r.leader /\ q.lead = e.cards
                  /\ q.hand = r.hand /\ q.play = r.play
             /\ e.kind = "lead_play" /\ ~e.big => q = Commit(r, e.cards)
<1> DEFINE q == Apply(r, e)
<1>1. CASE e.kind = "add_to_hand"
  <2>1. q = [r EXCEPT !.hand = Plus(r.hand, e.cards), !.deck = r.deck - 1,
                      !.cur = (r.cur + 1) % N,
                      !.phase = IF r.deck = 1 THEN "PREPARE" ELSE r.phase]
    BY <1>1 DEF Apply
  <2>2. r.phase = "DRAW" /\ r.cur = e.who
    BY <1>1 DEF Legal
  <2> HIDE DEF q
  <2>3. /\ q.phase = (IF r.deck = 1 THEN "PREPARE" ELSE r.phase)
        /\ q.hand = Plus(r.hand, e.cards) /\ q.play = r.play
    BY <2>1 DEF Rounds
  <2> QED BY <1>1, <2>2, <2>3 DEF q
<1>2. CASE e.kind = "ready"
  <2>1. q = [r EXCEPT !.consensus = r.consensus \union {e.who}]
    BY <1>2 DEF Apply
  <2>2. r.phase = "PREPARE"
    BY <1>2 DEF Legal
  <2> HIDE DEF q
  <2>3. q.phase = r.phase /\ q.hand = r.hand /\ q.play = r.play
    BY <2>1 DEF Rounds
  <2> QED BY <1>2, <2>2, <2>3 DEF q
<1>3. CASE e.kind = "install_host"
  <2> DEFINE hand == IF r.host = Me THEN Plus(r.hand, Kitty) ELSE r.hand
  <2>1. q = [r EXCEPT !.phase = "KITTY", !.consensus = {}, !.hand = hand]
    BY <1>3 DEF Apply
  <2>2. r.phase = "PREPARE"
    BY <1>3 DEF Legal
  <2> HIDE DEF q, hand
  <2>3. q.phase = "KITTY" /\ q.host = r.host /\ q.hand = hand /\ q.play = r.play
    BY <2>1 DEF Rounds
  <2> QED BY <1>3, <2>2, <2>3 DEF q, hand
<1>4. CASE e.kind = "replace_kitty"
  <2>1. q = [r EXCEPT !.phase = "FRIEND", !.hand = Minus(r.hand, e.cards)]
    BY <1>4 DEF Apply
  <2>2. r.phase = "KITTY" /\ r.host = e.who
    BY <1>4 DEF Legal
  <2> HIDE DEF q
  <2>3. q.phase = "FRIEND" /\ q.hand = Minus(r.hand, e.cards) /\ q.play = r.play
    BY <2>1 DEF Rounds
  <2> QED BY <1>4, <2>2, <2>3 DEF q
<1>5. CASE e.kind = "call_friends"
  <2>1. q = [r EXCEPT !.phase = "LEAD", !.leader = r.host, !.cur = r.host]
    BY <1>5 DEF Apply
  <2>2. r.phase = "FRIEND" /\ r.host = e.who
    BY <1>5 DEF Legal
  <2> HIDE DEF q
  <2>3. q.phase = "LEAD" /\ q.leader = q.cur /\ q.hand = r.hand /\ q.play = r.play
    BY <2>1 DEF Rounds
  <2> QED BY <1>5, <2>2, <2>3 DEF q
<1>6. CASE e.kind = "lead_play" /\ e.big
  <2>1. q = [r EXCEPT !.phase = "FLY", !.lead = e.cards, !.consensus = {r.leader}]
    BY <1>6 DEF Apply
  <2>2. r.phase = "LEAD" /\ r.cur = e.who
    BY <1>6 DEF Legal
  <2> HIDE DEF q
  <2>3. /\ q.phase = "FLY" /\ q.leader = r.leader /\ q.lead = e.cards
        /\ q.hand = r.hand /\ q.play = r.play
    BY <2>1 DEF Rounds
  <2> QED BY <1>6, <2>2, <2>3 DEF q
<1>7. CASE e.kind = "lead_play" /\ ~e.big
  <2>1. q = Commit(r, e.cards) /\ r.phase = "LEAD" /\ r.cur = e.who
    BY <1>7 DEF Apply, Legal
  <2> HIDE DEF q
  <2> QED BY <1>7, <2>1 DEF q
<1>8. CASE e.kind \notin {"add_to_hand", "ready", "install_host", "replace_kitty",
                         "call_friends", "lead_play"}
  BY <1>8
<1> HIDE DEF q
<1> QED
  BY <1>1, <1>2, <1>3, <1>4, <1>5, <1>6, <1>7, <1>8 DEF q

LEMMA ApplyTrickIs ==
  ASSUME NEW r \in Rounds, NEW e, Told(e), Legal(r, e)
  PROVE  LET q == Apply(r, e)
         IN  /\ e.kind = "reject_fly" =>
                  r.phase = "FLY" /\ AtMost(e.cards, r.lead) /\ q = Commit(r, e.cards)
             /\ e.kind = "pass_contest" =>
                  /\ r.phase = "FLY"
                  /\ \/ q = Commit(r, r.lead)
                     \/ /\ q.phase = "FLY" /\ q.leader = r.leader /\ q.lead = r.lead
                        /\ q.hand = r.hand /\ q.play = r.play
             /\ e.kind = "follow_lead" =>
                  /\ r.phase = "FOLLOW" /\ r.cur = e.who
                  /\ q.phase = "FOLLOW" /\ q.leader = r.leader
                  /\ q.hand = Minus(r.hand, e.cards)
                  /\ q.play = IF e.who = Me THEN e.cards ELSE r.play
             /\ e.kind = "undo_play" =>
                  /\ r.phase = "FOLLOW" /\ r.play # Nothing /\ r.leader # Me
                  /\ r.cur = After(r, Me) /\ r.cur # Nobody
                  /\ q.phase = "FOLLOW" /\ q.hand = Plus(r.hand, r.play) /\ q.play = Nothing
             /\ e.kind = "collect_trick" =>
                  /\ r.phase = "FOLLOW" /\ r.cur = Nobody /\ r.winning = e.who
                  /\ q.phase \in {"FINISH", "LEAD"} /\ q.leader = q.cur
                  /\ q.hand = r.hand /\ q.play = Nothing
<1> DEFINE q == Apply(r, e)
<1>1. CASE e.kind = "reject_fly"
  BY <1>1 DEF Apply, Legal
<1>2. CASE e.kind = "pass_contest"
  <2>1. r.phase = "FLY"
    BY <1>2 DEF Legal
  <2>2. CASE r.consensus \union {e.who} = Seats
    BY <1>2, <2>1, <2>2 DEF Apply
  <2>3. CASE r.consensus \union {e.who} # Seats
    <3>1. q = [r EXCEPT !.consensus = r.consensus \union {e.who}]
      BY <1>2, <2>3 DEF Apply
    <3> HIDE DEF q
    <3>2. /\ q.phase = r.phase /\ q.leader = r.leader /\ q.lead = r.lead /\ q.hand = r.hand
          /\ q.play = r.play
      BY <3>1 DEF Rounds
    <3> QED BY <1>2, <2>1, <3>2 DEF q
  <2> QED BY <2>2, <2>3
<1>3. CASE e.kind = "follow_lead"
  <2> DEFINE play == IF e.who = Me THEN e.cards ELSE r.play
             winning == IF e.big THEN e.who ELSE r.winning
             prior == IF e.who = Me THEN r.winning ELSE r.prior
  <2>1. q = [r EXCEPT !.cur = After(r, e.who), !.hand = Minus(r.hand, e.cards),
                      !.play = play, !.winning = winning, !.prior = prior]
    BY <1>3 DEF Apply
  <2>2. r.phase = "FOLLOW" /\ r.cur = e.who
    BY <1>3 DEF Legal
  <2> HIDE DEF q, play, winning, prior
  <2>3. /\ q.phase = r.phase /\ q.leader = r.leader /\ q.hand = Minus(r.hand, e.cards)
        /\ q.play = play
    BY <2>1 DEF Rounds
  <2> QED BY <1>3, <2>2, <2>3 DEF q, play
<1>4. CASE e.kind = "undo_play"
  <2> DEFINE winning == IF r.winning = Me THEN r.prior ELSE r.winning
  <2>1. q = [r EXCEPT !.cur = Me, !.hand = Plus(r.hand, r.play), !.play = Nothing,
                      !.winning = winning]
    BY <1>4 DEF Apply
  <2>2. /\ r.phase = "FOLLOW" /\ r.play # Nothing /\ r.leader # Me
        /\ r.cur = After(r, Me) /\ r.cur # Nobody
    BY <1>4 DEF Legal
  <2> HIDE DEF q, winning
  <2>3. q.phase = r.phase /\ q.hand = Plus(r.hand, r.play) /\ q.play = Nothing
    BY <2>1 DEF Rounds
  <2> QED BY <1>4, <2>2, <2>3 DEF q
<1>5. CASE e.kind = "collect_trick"
  <2> DEFINE phase == IF r.hand = Nothing THEN "FINISH" ELSE "LEAD"
  <2>1. q = [r EXCEPT !.phase = phase, !.leader = e.who, !.cur = e.who,
                      !.lead = Nothing, !.play = Nothing]
    BY <1>5 DEF Apply
  <2>2. r.phase = "FOLLOW" /\ r.cur = Nobody /\ r.winning = e.who
    BY <1>5 DEF Legal
  <2>3. phase \in {"FINISH", "LEAD"}
    OBVIOUS
  <2> HIDE DEF q, phase
  <2>4. q.phase = phase /\ q.leader = q.cur /\ q.hand = r.hand /\ q.play = Nothing
    BY <2>1 DEF Rounds
  <2> QED BY <1>5, <2>2, <2>3, <2>4 DEF q
<1>6. CASE e.kind \notin {"reject_fly", "pass_contest", "follow_lead", "undo_play",
                         "collect_trick"}
  BY <1>6
<1> HIDE DEF q
<1> QED
  BY <1>1, <1>2, <1>3, <1>4, <1>5, <1>6 DEF q

\* Tallies that stay tallies of cards.
LEMMA TalliesKeep ==
  ASSUME NEW b \in [Faces -> Nat], NEW c \in [Faces -> Nat]
  PROVE  /\ Plus(b, c) \in [Faces -> Nat]
         /\ AtMost(c, b) => Minus(b, c) \in [Faces -> Nat]
         /\ Minus(b, Nothing) = b
<1>1. \A f \in Faces : b[f] + c[f] \in Nat
  OBVIOUS
<1>2. AtMost(c, b) => \A f \in Faces : b[f] - c[f] \in Nat
  BY DEF AtMost
<1>3. Minus(b, Nothing) = b
  <2>1. \A f \in Faces : b[f] - Nothing[f] = b[f]
    BY NothingIs
  <2> QED BY <2>1 DEF Minus
<1> QED
  BY <1>1, <1>2, <1>3 DEF Plus, Minus

LEMMA LegalCards ==
  ASSUME NEW r, NEW e, Legal(r, e), e.who = Me,
         e.kind \in {"replace_kitty", "lead_play", "follow_lead"}
  PROVE  AtMost(e.cards, r.hand)
  BY DEF Legal

\* The hand remains one of cards, and holds a fly until it lands.
LEMMA ApplyHand ==
  ASSUME NEW r, Sound(r), NEW e, Told(e), Legal(r, e), Modest(e)
  PROVE  Apply(r, e).hand \in [Faces -> Nat] /\ FlyOpenFits(Apply(r, e))
<1> DEFINE q == Apply(r, e)
<1>1. /\ r \in Rounds /\ r.hand \in [Faces -> Nat] /\ r.lead \in [Faces -> Nat]
      /\ r.play \in [Faces -> Nat] /\ e.cards \in [Faces -> Nat] /\ Kitty \in [Faces -> Nat]
      /\ (r.phase = "LEAD" => r.cur = r.leader)
  BY PlayAreaAssumption DEF Sound, Rounds, Told
<1>2. FlyOpen(r) => AtMost(r.lead, r.hand)
  BY DEF Sound, FlyOpenFits
<1>3. Plus(r.hand, e.cards) \in [Faces -> Nat] /\ Plus(r.hand, Kitty) \in [Faces -> Nat]
      /\ Plus(r.hand, r.play) \in [Faces -> Nat]
  BY <1>1, TalliesKeep
<1>4. \A c \in [Faces -> Nat] : AtMost(c, r.hand) => Minus(r.hand, c) \in [Faces -> Nat]
  BY <1>1, TalliesKeep
<1>5. Minus(r.hand, Nothing) = r.hand
  BY <1>1, TalliesKeep
<1>6. /\ q = Commit(r, e.cards) => q.hand = (IF r.leader = Me THEN Minus(r.hand, e.cards) ELSE r.hand)
                                  /\ q.phase = "FOLLOW"
      /\ q = Commit(r, r.lead) => q.hand = (IF r.leader = Me THEN Minus(r.hand, r.lead) ELSE r.hand)
                                  /\ q.phase = "FOLLOW"
  BY <1>1, CommitIs
<1>7. e.who = Me /\ e.kind \in {"replace_kitty", "lead_play", "follow_lead"} => AtMost(e.cards, r.hand)
  BY LegalCards
<1> HIDE DEF q
<1>8. CASE e.kind \in {"add_to_hand", "ready", "install_host", "call_friends"}
  <2>1. q.phase # "FLY" /\ q.hand \in {Plus(r.hand, e.cards), r.hand, Plus(r.hand, Kitty)}
    BY <1>1, <1>8, ApplyIs DEF q
  <2> QED BY <1>1, <1>3, <2>1 DEF q, FlyOpenFits, FlyOpen
<1>9. CASE e.kind \in {"replace_kitty", "follow_lead"}
  <2>1. q.phase # "FLY" /\ q.hand = Minus(r.hand, e.cards)
    BY <1>1, <1>9, ApplyIs, ApplyTrickIs DEF q
  <2>2. e.cards = Nothing \/ AtMost(e.cards, r.hand)
    BY <1>7, <1>9 DEF Modest
  <2> QED BY <1>1, <1>4, <1>5, <2>1, <2>2 DEF q, FlyOpenFits, FlyOpen
<1>10. CASE e.kind = "lead_play" /\ e.big
  <2>1. q.leader = r.leader /\ q.lead = e.cards /\ q.hand = r.hand /\ e.who = r.leader
    BY <1>1, <1>10, ApplyIs DEF q
  <2> QED BY <1>1, <1>7, <1>10, <2>1 DEF q, FlyOpenFits, FlyOpen
<1>11. CASE e.kind = "lead_play" /\ ~e.big
  <2>1. q = Commit(r, e.cards) /\ e.who = r.leader
    BY <1>1, <1>11, ApplyIs DEF q
  <2> QED BY <1>1, <1>4, <1>6, <1>7, <1>11, <2>1 DEF q, FlyOpenFits, FlyOpen
<1>12. CASE e.kind \in {"reject_fly", "pass_contest"}
  <2>1. /\ r.phase = "FLY"
        /\ \/ q = Commit(r, r.lead)
           \/ q = Commit(r, e.cards) /\ AtMost(e.cards, r.lead)
           \/ q.leader = r.leader /\ q.lead = r.lead /\ q.hand = r.hand
    BY <1>1, <1>12, ApplyTrickIs DEF q
  <2>2. r.leader = Me => AtMost(r.lead, r.hand)
    BY <1>2, <2>1 DEF FlyOpen
  <2>3. r.leader = Me /\ AtMost(e.cards, r.lead) => AtMost(e.cards, r.hand)
    BY <1>1, <2>2 DEF AtMost
  <2> QED BY <1>1, <1>4, <1>6, <2>1, <2>2, <2>3 DEF q, FlyOpenFits, FlyOpen
<1>13. CASE e.kind \in {"undo_play", "collect_trick"}
  <2>1. q.phase # "FLY" /\ q.hand \in {r.hand, Plus(r.hand, r.play)}
    BY <1>1, <1>13, ApplyTrickIs DEF q
  <2> QED BY <1>1, <1>3, <2>1 DEF q, FlyOpenFits, FlyOpen
<1> QED
  BY <1>8, <1>9, <1>10, <1>11, <1>12, <1>13 DEF Told, EffectKinds, Predictable

LEMMA ApplySound ==
  ASSUME NEW r, Sound(r), NEW e, Told(e), Legal(r, e), Modest(e)
  PROVE  Sound(Apply(r, e))
<1> DEFINE q == Apply(r, e)
<1>1. r \in Rounds /\ q \in Rounds
  BY ApplyTyped DEF Sound
<1>2. ASSUME q = Commit(r, e.cards) \/ q = Commit(r, r.lead) PROVE q.phase = "FOLLOW"
  BY <1>1, <1>2, CommitIs
<1>6. q.hand \in [Faces -> Nat] /\ FlyOpenFits(q)
  BY ApplyHand
<1>3. r.phase # "FOLLOW" => r.play = Nothing
  BY DEF Sound
<1> HIDE DEF q
<1>4. CASE e.kind \in {"add_to_hand", "ready", "install_host", "replace_kitty", "call_friends",
                      "lead_play"}
  <2>1. q.phase = "FOLLOW" \/ (q.play = r.play /\ r.phase # "FOLLOW")
    BY <1>1, <1>2, <1>4, ApplyIs DEF q
  <2>2. q.phase = "LEAD" => q.cur = q.leader
    BY <1>1, <1>2, <1>4, ApplyIs DEF q
  <2> QED BY <1>1, <1>3, <1>6, <2>1, <2>2 DEF Sound, q
<1>5. CASE e.kind \in {"reject_fly", "pass_contest", "follow_lead", "undo_play", "collect_trick"}
  <2>1. q.phase = "FOLLOW" \/ (q.play = r.play /\ r.phase # "FOLLOW") \/ q.play = Nothing
    BY <1>1, <1>2, <1>5, ApplyTrickIs DEF q
  <2>2. q.phase = "LEAD" => q.cur = q.leader
    BY <1>1, <1>2, <1>5, ApplyTrickIs DEF q
  <2> QED BY <1>1, <1>3, <1>6, <2>1, <2>2 DEF Sound, q
<1> QED
  BY <1>4, <1>5 DEF Told, EffectKinds, Predictable

\* In Me's turn nobody acts but Me, and only by what can be predicted.
LEMMA TurnIsMine ==
  ASSUME NEW r \in Rounds, MyTurn(r), NEW e, Told(e), Legal(r, e)
  PROVE  Foretold(e)
<1>1. /\ e.kind \in EffectKinds /\ e.who \in Seats /\ Nobody \notin Seats
      /\ Me # Nobody
  BY SeatsApart DEF Told
<1>2. CASE e.kind \in {"add_to_hand", "ready", "install_host", "replace_kitty", "call_friends",
                      "lead_play"}
  BY <1>1, <1>2, ApplyIs DEF MyTurn, Foretold, Predictable
<1>3. CASE e.kind \in {"reject_fly", "pass_contest", "follow_lead", "undo_play", "collect_trick"}
  BY <1>1, <1>3, ApplyTrickIs, AfterMe DEF MyTurn, Foretold, Predictable
<1> QED
  BY <1>1, <1>2, <1>3 DEF EffectKinds, Predictable

LEMMA MineIsTurn ==
  ASSUME NEW r \in Rounds, NEW e, Told(e), Legal(r, e), Foretold(e)
  PROVE  MyTurn(r)
<1>1. CASE e.kind \in {"replace_kitty", "call_friends", "lead_play"}
  BY <1>1, ApplyIs DEF MyTurn, Foretold
<1>2. CASE e.kind \in {"follow_lead", "collect_trick"}
  BY <1>2, ApplyTrickIs DEF MyTurn, Foretold
<1> QED
  BY <1>1, <1>2 DEF Foretold, Predictable

\* A fly of Me's that is open after a step not predicted was open before it.
LEMMA FlyBack ==
  ASSUME NEW r, Sound(r), NEW e, Told(e), Legal(r, e), ~Foretold(e), FlyOpen(Apply(r, e))
  PROVE  FlyOpen(r) /\ Apply(r, e).lead = r.lead /\ Apply(r, e).hand = r.hand
<1> DEFINE q == Apply(r, e)
<1>1. r \in Rounds /\ (r.phase = "LEAD" => r.cur = r.leader) /\ q.phase = "FLY" /\ q.leader = Me
  BY DEF Sound, FlyOpen
<1>2. q # Commit(r, e.cards) /\ q # Commit(r, r.lead)
  BY <1>1, CommitIs
<1> HIDE DEF q
<1>3. CASE e.kind \in {"add_to_hand", "ready", "install_host", "replace_kitty", "call_friends",
                      "lead_play"}
  BY <1>1, <1>2, <1>3, ApplyIs DEF q, Foretold, Predictable
<1>4. CASE e.kind \in {"reject_fly", "pass_contest", "follow_lead", "undo_play", "collect_trick"}
  BY <1>1, <1>2, <1>4, ApplyTrickIs DEF q, FlyOpen
<1> QED
  BY <1>3, <1>4 DEF Told, EffectKinds, Predictable

LEMMA KeepsStep ==
  ASSUME NEW r, Sound(r), NEW e, Told(e), Legal(r, e), ~Foretold(e), NEW c, Keeps(r, c)
  PROVE  Keeps(Apply(r, e), c)
<1> DEFINE q == Apply(r, e)
<1>1. /\ r \in Rounds /\ (r.phase = "LEAD" => r.cur = r.leader)
      /\ r.phase # "FOLLOW" => r.play = Nothing
  BY DEF Sound
<1>2. ASSUME q = Commit(r, e.cards) \/ q = Commit(r, r.lead)
      PROVE  q.leader = r.leader /\ (r.leader # Me => q.play = r.play)
  BY <1>1, <1>2, CommitIs
<1> HIDE DEF q
<1>3. CASE e.kind \in {"add_to_hand", "ready", "install_host", "replace_kitty", "call_friends",
                      "lead_play"}
  <2>1. q.phase # "FOLLOW" \/ (q.leader = r.leader /\ (r.leader # Me => q.play = r.play)
                              /\ r.phase = "LEAD")
    BY <1>1, <1>2, <1>3, ApplyIs DEF q
  <2>2. Keeps(q, c)
    BY <1>1, <2>1 DEF Keeps
  <2> QED BY <2>2 DEF q
<1>4. CASE e.kind \in {"reject_fly", "pass_contest", "follow_lead", "undo_play", "collect_trick"}
  <2>1. \/ q.phase # "FOLLOW" \/ q.play = Nothing
        \/ q.leader = r.leader /\ (r.leader # Me => q.play = r.play)
    BY <1>1, <1>2, <1>4, ApplyTrickIs DEF q, Foretold, Predictable
  <2>2. r.phase = "FOLLOW" \/ r.play = Nothing
    BY <1>1
  <2>3. Keeps(q, c)
    BY <2>1, <2>2 DEF Keeps
  <2> QED BY <2>3 DEF q
<1> QED
  BY <1>3, <1>4 DEF Told, EffectKinds, Predictable

\* The server takes a request as the page has predicted it.
LEMMA ApplySame ==
  ASSUME NEW r, NEW e, NEW i, e.kind = i.kind, e.who = i.who, e.cards = i.cards, e.big = i.big
  PROVE  Apply(r, e) = Apply(r, i) /\ (Legal(r, e) <=> Legal(r, i))
<1>1. Apply(r, e) = Apply(r, i)
  BY DEF Apply
<1>2. Legal(r, e) <=> Legal(r, i)
  BY DEF Legal
<1> QED
  BY <1>1, <1>2

-----------------------------------------------------------------------------
(* What is under way leads from the one's round to the other's *)

\* Another seat's effect, which shows no card.
Theirs(e) ==
  /\ e.who # Me /\ e.kind # "undo_play"
  /\ e.kind \in {"add_to_hand", "replace_kitty", "follow_lead"} => e.cards = Nothing

\* The answer to a request of Me's that could not be predicted.
Answers(r, e, tx) ==
  /\ tx \in Intents /\ e.who = Me /\ e.kind \notin Predictable
  /\ e.kind = "undo_play" => tx.page = "live" /\ tx.cards = r.play
  /\ tx.page = "former" => e.kind = "add_to_hand"

\* The server's message m makes of a page's round a the round b.
Heard(a, m, b) ==
  \/ m.verb = "reject" /\ b = a
  \/ /\ m.verb = "update" /\ Legal(a, m.effect) /\ b = Apply(a, m.effect)
     /\ (m.tx = NoTx /\ Theirs(m.effect)) \/ (m.tx # NoTx /\ Answers(a, m.effect, m.tx))

\* The request i makes of the server's round a the round b.
Made(a, i, b) ==
  IF i.kind \in Predictable THEN Legal(a, i) /\ b = Apply(a, i) ELSE b = a

Hears == {t \in Rounds \X Messages \X Rounds : Heard(t[1], t[2], t[3])}
Makes == {t \in Rounds \X Intents \X Rounds : Made(t[1], t[2], t[3])}

LEMMA StepsAre ==
  ASSUME NEW a, NEW m, NEW b
  PROVE  /\ <<a, m, b>> \in Hears <=> a \in Rounds /\ m \in Messages /\ b \in Rounds /\ Heard(a, m, b)
         /\ <<a, m, b>> \in Makes <=> a \in Rounds /\ m \in Intents /\ b \in Rounds /\ Made(a, m, b)
<1> DEFINE t == <<a, m, b>>
<1>1. t[1] = a /\ t[2] = m /\ t[3] = b
  OBVIOUS
<1>2. t \in Rounds \X Messages \X Rounds <=> a \in Rounds /\ m \in Messages /\ b \in Rounds
  OBVIOUS
<1>3. t \in Rounds \X Intents \X Rounds <=> a \in Rounds /\ m \in Intents /\ b \in Rounds
  OBVIOUS
<1>4. t \in Hears <=> t \in Rounds \X Messages \X Rounds /\ Heard(a, m, b)
  BY <1>1 DEF Hears
<1>5. t \in Makes <=> t \in Rounds \X Intents \X Rounds /\ Made(a, m, b)
  BY <1>1 DEF Makes
<1> HIDE DEF t
<1> QED
  BY <1>2, <1>3, <1>4, <1>5 DEF t

LEMMA HeardIs ==
  ASSUME NEW a, NEW m \in Messages, NEW b, Heard(a, m, b)
  PROVE  \/ m.verb = "reject" /\ b = a
         \/ /\ m.verb = "update" /\ m.effect \in Happenings /\ Told(m.effect)
            /\ Legal(a, m.effect) /\ b = Apply(a, m.effect) /\ ~Foretold(m.effect)
            /\ Modest(m.effect)
<1>1. CASE m.verb = "reject"
  BY <1>1 DEF Heard
<1>2. CASE m.verb = "update"
  <2>1. m.effect \in Happenings
    BY <1>2 DEF Messages, Updates, Rejects, Resets
  <2> QED BY <1>2, <2>1, HappeningTold DEF Heard, Theirs, Answers, Foretold, Modest
<1> QED
  BY <1>1, <1>2 DEF Heard

\* What the page is still to hear opens no fly of Me's, and takes back nothing
\* that it did not know of.
LEMMA HearsBack ==
  ASSUME NEW d \in Seq(Messages), NEW a, Sound(a), NEW b, Leads(Hears, d, a, b)
  PROVE  /\ Sound(b)
         /\ FlyOpen(b) => FlyOpen(a) /\ b.lead = a.lead /\ b.hand = a.hand
         /\ \A c : Keeps(a, c) => Keeps(b, c)
<1> DEFINE G == {r \in Rounds :
                  /\ Sound(r)
                  /\ FlyOpen(r) => FlyOpen(a) /\ r.lead = a.lead /\ r.hand = a.hand
                  /\ \A c : Keeps(a, c) => Keeps(r, c)}
<1>1. a \in G
  BY DEF Sound
<1>2. ASSUME NEW v \in G, NEW i \in 1..Len(d), NEW w, <<v, d[i], w>> \in Hears PROVE w \in G
  <2> DEFINE m == d[i]
  <2>1. m \in Messages /\ Heard(v, m, w) /\ w \in Rounds
    BY <1>2, StepsAre
  <2> HIDE DEF m
  <2>2. CASE w = v
    BY <2>2
  <2>3. CASE w # v
    <3>1. /\ Told(m.effect) /\ Legal(v, m.effect) /\ w = Apply(v, m.effect)
          /\ ~Foretold(m.effect) /\ Modest(m.effect)
      BY <2>1, <2>3, HeardIs
    <3>2. Sound(v)
      OBVIOUS
    <3>3. Sound(w)
      BY <3>1, <3>2, ApplySound
    <3>4. FlyOpen(w) => FlyOpen(v) /\ w.lead = v.lead /\ w.hand = v.hand
      BY <3>1, <3>2, FlyBack
    <3>5. \A c : Keeps(v, c) => Keeps(w, c)
      BY <3>1, <3>2, KeepsStep
    <3> QED BY <2>1, <3>3, <3>4, <3>5
  <2> QED BY <2>2, <2>3
<1>3. b \in G
  <2> HIDE DEF G
  <2> QED BY <1>1, <1>2, LeadsInto
<1> QED
  BY <1>3

\* In Me's turn there is nothing to be heard but refusals.
LEMMA HearsTurn ==
  ASSUME NEW d \in Seq(Messages), NEW a \in Rounds, MyTurn(a), NEW b, Leads(Hears, d, a, b)
  PROVE  a = b /\ \A i \in 1..Len(d) : d[i].verb = "reject"
<1> DEFINE Q == {m \in Messages : m.verb = "reject"}
<1>1. ASSUME NEW i \in 1..Len(d), NEW w, <<a, d[i], w>> \in Hears PROVE w = a /\ d[i] \in Q
  <2> DEFINE m == d[i]
  <2>1. m \in Messages /\ Heard(a, m, w)
    BY <1>1, StepsAre
  <2> HIDE DEF m
  <2>2. m.verb = "reject" /\ w = a
    BY <2>1, HeardIs, TurnIsMine
  <2> QED BY <2>1, <2>2 DEF m
<1>2. a = b /\ AllOf(d, Q)
  <2> HIDE DEF Q
  <2>1. \A i \in 1..Len(d) : \A w : <<a, d[i], w>> \in Hears => w = a /\ d[i] \in Q
    BY <1>1
  <2> QED BY <2>1, LeadsStuck
<1> QED
  BY <1>2 DEF AllOf

\* Refusals lead nowhere.
LEMMA HearsRefusals ==
  ASSUME NEW d \in Seq(Messages), NEW a \in Rounds, \A i \in 1..Len(d) : d[i].verb = "reject"
  PROVE  Leads(Hears, d, a, a)
<1>1. \A i \in 1..Len(d) : d[i] \in Messages /\ Heard(a, d[i], a)
  BY DEF Heard
<1>2. \A i \in 1..Len(d) : <<a, d[i], a>> \in Hears
  BY <1>1, StepsAre
<1> QED
  BY <1>2, LeadsStill

\* Are there predictions among these requests?
Bold(d) == \E k \in 1..Len(d) : d[k].kind \in Predictable

LEMMA MakesNothing ==
  ASSUME NEW d \in Seq(Intents), NEW a, NEW b, Leads(Makes, d, a, b), ~Bold(d)
  PROVE  a = b
<1>1. \A i \in 1..Len(d) : \A v, w : <<v, d[i], w>> \in Makes => v = w
  BY StepsAre DEF Made, Bold
<1> QED
  BY <1>1, LeadsNowhere

LEMMA MakesStill ==
  ASSUME NEW d \in Seq(Intents), NEW a \in Rounds, ~Bold(d)
  PROVE  Leads(Makes, d, a, a)
<1>1. \A i \in 1..Len(d) : d[i] \in Intents /\ Made(a, d[i], a)
  BY DEF Made, Bold
<1>2. \A i \in 1..Len(d) : <<a, d[i], a>> \in Makes
  BY <1>1, StepsAre
<1> QED
  BY <1>2, LeadsStill

\* Where predictions are under way it is Me's turn.
LEMMA MakesTurn ==
  ASSUME NEW d \in Seq(Intents), NEW a, NEW b, Leads(Makes, d, a, b), Bold(d)
  PROVE  MyTurn(a)
<1> DEFINE Q == {i \in Intents : i.kind \notin Predictable}
<1>1. ~AllOf(d, Q)
  BY DEF Bold, AllOf
<1>2. \A k \in 1..Len(d) : \A v, w : <<v, d[k], w>> \in Makes /\ d[k] \in Q => v = w
  BY StepsAre DEF Made
<1>3. PICK k \in 1..Len(d) : d[k] \notin Q /\ \E w : <<a, d[k], w>> \in Makes
  <2> HIDE DEF Q
  <2> SUFFICES ASSUME \A k \in 1..Len(d) : \A w : <<a, d[k], w>> \in Makes => d[k] \in Q
               PROVE  FALSE
    OBVIOUS
  <2> QED BY <1>1, <1>2, LeadsFirst
<1> DEFINE i == d[k]
<1>4. i \in Intents /\ i.kind \in Predictable /\ a \in Rounds /\ Legal(a, i)
  BY <1>3, StepsAre DEF Made
<1> HIDE DEF i
<1>5. Told(i) /\ Foretold(i)
  <2>1. i.who = Me
    BY <1>4 DEF Intents
  <2> QED BY <1>4, <2>1, IntentTold DEF Foretold
<1> QED
  BY <1>4, <1>5, MineIsTurn

Refusals(d) == \A k \in 1..Len(d) : d[k].verb = "reject"

\* Nothing from the k-th request on is a prediction.
Late(d, k) == \A j \in k..Len(d) : d[j].kind \notin Predictable

\* Between the server's round g and the page's z: while predictions are under
\* way they lead from the server's to the page's, and otherwise what the page is
\* still to hear leads from its own to the server's.  An undo that is not before
\* a prediction will give back the cards it was asked for with.
Talks(g, z, out, in) ==
  /\ Sound(g) /\ Sound(z) /\ out \in Seq(Intents) /\ in \in Seq(Messages)
  /\ Bold(out) => Leads(Makes, out, g, z) /\ Refusals(in)
  /\ ~Bold(out) => Leads(Hears, in, z, g)
  /\ \A k \in 1..Len(out) : out[k].kind = "undo_play" /\ Late(out, k) =>
       Keeps(IF Bold(out) THEN z ELSE g, out[k].cards)

LEMMA BoldAppend ==
  ASSUME NEW d \in Seq(Intents), NEW i \in Intents
  PROVE  /\ Bold(Append(d, i)) <=> Bold(d) \/ i.kind \in Predictable
         /\ \A k \in 1..Len(d) : Late(Append(d, i), k) => Late(d, k) /\ i.kind \notin Predictable
<1> DEFINE e == Append(d, i)
<1>1. /\ Len(d) \in Nat /\ Len(e) = Len(d) + 1 /\ e[Len(d) + 1] = i
      /\ \A k \in 1..Len(d) : e[k] = d[k]
  BY AppendIs
<1> HIDE DEF e
<1>2. Bold(e) <=> Bold(d) \/ i.kind \in Predictable
  <2>1. \A k \in 1..Len(e) : k \in 1..Len(d) \/ k = Len(d) + 1
    BY <1>1
  <2>2. 1..Len(d) \subseteq 1..Len(e) /\ Len(d) + 1 \in 1..Len(e)
    BY <1>1
  <2> QED BY <1>1, <2>1, <2>2 DEF Bold
<1>3. ASSUME NEW k \in 1..Len(d), Late(e, k) PROVE Late(d, k) /\ i.kind \notin Predictable
  <2>1. k..Len(d) \subseteq k..Len(e) /\ Len(d) + 1 \in k..Len(e) /\ k..Len(d) \subseteq 1..Len(d)
    BY <1>1
  <2> QED BY <1>1, <1>3, <2>1 DEF Late
<1> QED
  BY <1>2, <1>3 DEF e

LEMMA BoldTail ==
  ASSUME NEW d \in Seq(Intents), d # <<>>
  PROVE  /\ Bold(d) <=> Head(d).kind \in Predictable \/ Bold(Tail(d))
         /\ ~Bold(d) => Late(d, 1)
         /\ \A k \in 1..Len(Tail(d)) : Late(Tail(d), k) => Late(d, k + 1)
<1> DEFINE e == Tail(d)
<1>1. /\ Len(d) \in Nat \ {0} /\ Len(e) = Len(d) - 1 /\ Head(d) = d[1]
      /\ \A k \in 1..Len(e) : e[k] = d[k + 1] /\ k + 1 \in 1..Len(d)
  BY TailIs
<1> HIDE DEF e
<1>2. \A k \in 1..Len(d) : k = 1 \/ (k - 1 \in 1..Len(e) /\ e[k - 1] = d[k])
  <2>1. \A k \in 1..Len(d) : k = 1 \/ (k - 1 \in 1..Len(e) /\ (k - 1) + 1 = k)
    BY <1>1
  <2> QED BY <1>1, <2>1
<1>3. Bold(d) <=> d[1].kind \in Predictable \/ Bold(e)
  <2>1. 1 \in 1..Len(d)
    BY <1>1
  <2> QED BY <1>1, <1>2, <2>1 DEF Bold
<1>4. ASSUME NEW k \in 1..Len(e), Late(e, k) PROVE Late(d, k + 1)
  <2>1. \A j \in k + 1..Len(d) : j - 1 \in k..Len(e) /\ j \in 1..Len(d) /\ j # 1
    BY <1>1
  <2> QED BY <1>2, <1>4, <2>1 DEF Late
<1>5. ~Bold(d) => Late(d, 1)
  BY DEF Bold, Late
<1> QED
  BY <1>1, <1>3, <1>4, <1>5 DEF e

\* A request that is not predicted is sent.
LEMMA TalksAsk ==
  ASSUME NEW g, NEW z, NEW out, NEW in, Talks(g, z, out, in), NEW i \in Intents,
         i.kind \notin Predictable, i.kind = "undo_play" => i.cards = z.play
  PROVE  Talks(g, z, Append(out, i), in)
<1> DEFINE e == Append(out, i)
<1>1. /\ out \in Seq(Intents) /\ in \in Seq(Messages) /\ g \in Rounds /\ z \in Rounds
      /\ Sound(g) /\ Sound(z)
  BY DEF Talks, Sound
<1>2. /\ e \in Seq(Intents) /\ Len(out) \in Nat /\ Len(e) = Len(out) + 1 /\ e[Len(out) + 1] = i
      /\ \A k \in 1..Len(out) : e[k] = out[k]
  BY <1>1, AppendIs
<1>3. /\ Bold(e) <=> Bold(out)
      /\ \A k \in 1..Len(out) : Late(e, k) => Late(out, k)
  BY <1>1, BoldAppend
<1>4. Bold(out) => Leads(Makes, e, g, z)
  <2>1. <<z, i, z>> \in Makes
    BY <1>1, StepsAre DEF Made
  <2> QED BY <1>1, <2>1, LeadsAppend DEF Talks
<1>5. i.kind = "undo_play" => Keeps(IF Bold(e) THEN z ELSE g, i.cards)
  <2>1. Keeps(z, z.play)
    BY DEF Keeps
  <2>2. ~Bold(out) => Keeps(g, z.play)
    BY <1>1, <2>1, HearsBack DEF Talks
  <2> QED BY <1>3, <2>1, <2>2
<1> HIDE DEF e
<1>6. ASSUME NEW k \in 1..Len(e), e[k].kind = "undo_play" /\ Late(e, k)
      PROVE  Keeps(IF Bold(e) THEN z ELSE g, e[k].cards)
  <2>1. CASE k = Len(out) + 1
    BY <1>2, <1>5, <1>6, <2>1
  <2>2. CASE k \in 1..Len(out)
    BY <1>2, <1>3, <1>6, <2>2 DEF Talks
  <2> QED BY <1>2, <2>1, <2>2
<1> QED
  BY <1>1, <1>2, <1>3, <1>4, <1>6 DEF Talks, e

\* A prediction is made and sent.
LEMMA TalksPredict ==
  ASSUME NEW g, NEW z, NEW out, NEW in, Talks(g, z, out, in), NEW i \in Intents,
         i.kind \in Predictable, Legal(z, i)
  PROVE  Talks(g, Apply(z, i), Append(out, i), in)
<1> DEFINE e == Append(out, i)
           q == Apply(z, i)
<1>1. /\ out \in Seq(Intents) /\ in \in Seq(Messages) /\ g \in Rounds /\ z \in Rounds
      /\ Sound(g) /\ Sound(z)
  BY DEF Talks, Sound
<1>2. Told(i) /\ Foretold(i) /\ Modest(i)
  <2>1. i.who = Me
    BY DEF Intents
  <2> QED BY <2>1, IntentTold DEF Foretold, Modest
<1>3. Sound(q) /\ q \in Rounds
  <2>1. Sound(q)
    BY <1>1, <1>2, ApplySound
  <2> QED BY <2>1 DEF Sound
<1>4. /\ e \in Seq(Intents) /\ Len(out) \in Nat /\ Len(e) = Len(out) + 1 /\ e[Len(out) + 1] = i
      /\ \A k \in 1..Len(out) : e[k] = out[k]
  BY <1>1, AppendIs
<1>5. Bold(e) /\ \A k \in 1..Len(out) : ~Late(e, k)
  BY <1>1, BoldAppend
<1>6. MyTurn(z)
  BY <1>1, <1>2, MineIsTurn
<1>7. Leads(Makes, out, g, z) /\ Refusals(in)
  <2>1. CASE Bold(out)
    BY <2>1 DEF Talks
  <2>2. CASE ~Bold(out)
    <3>1. g = z /\ Refusals(in)
      BY <1>1, <1>6, <2>2, HearsTurn DEF Talks, Refusals
    <3> QED BY <1>1, <2>2, <3>1, MakesStill
  <2> QED BY <2>1, <2>2
<1> HIDE DEF q
<1>8. Leads(Makes, e, g, q)
  <2>1. <<z, i, q>> \in Makes
    BY <1>1, <1>3, StepsAre DEF Made, q
  <2> QED BY <1>1, <1>7, <2>1, LeadsAppend
<1> HIDE DEF e
<1>9. ASSUME NEW k \in 1..Len(e), e[k].kind = "undo_play" /\ Late(e, k)
      PROVE  FALSE
  <2>1. CASE k = Len(out) + 1
    BY <1>4, <1>9, <2>1 DEF Predictable
  <2>2. CASE k \in 1..Len(out)
    BY <1>5, <1>9, <2>2
  <2> QED BY <1>4, <2>1, <2>2
<1> QED
  BY <1>1, <1>3, <1>4, <1>5, <1>7, <1>8, <1>9 DEF Talks, e, q

LEMMA IntentAsks ==
  ASSUME NEW i \in Intents
  PROVE  i.kind \in Requests /\ i.who = Me /\ i.who \in Seats /\ i.cards \in [Faces -> Nat]
         /\ i.big \in BOOLEAN /\ (i.kind = "undo_play" => i.page = "live")
  BY SeatsApart DEF Intents

\* What was predicted of the server's round the server does.
LEMMA EffectThere ==
  ASSUME NEW r, NEW i \in Intents, i.kind \in Predictable, Legal(r, i)
  PROVE  Effects(r, i) # {}
<1> DEFINE e == [kind |-> i.kind, who |-> i.who, cards |-> i.cards, big |-> i.big]
<1>1. e.kind = i.kind /\ e.who = i.who /\ e.cards = i.cards /\ e.big = i.big
  OBVIOUS
<1>2. Legal(r, e)
  <2> HIDE DEF e
  <2> QED BY <1>1, ApplySame
<1>3. e \in Effects(r, i)
  <2>1. i.kind \notin {"draw_card", "contest_fly", "ready", "add_to_hand", "reject_fly"}
    BY DEF Predictable
  <2> QED BY <1>2, <2>1 DEF Effects
<1> QED
  BY <1>3

LEMMA EffectSound ==
  ASSUME NEW g, Sound(g), NEW i \in Intents, NEW e \in Effects(g, i)
  PROVE  /\ e \in Happenings /\ Told(e) /\ Legal(g, e) /\ e.who = Me /\ Modest(e)
         /\ Sound(Apply(g, e)) /\ Apply(g, e) \in Rounds
<1>1. e \in Happenings /\ Legal(g, e) /\ e.who = Me
  BY IntentAsks, EffectsAre DEF Sound
<1>2. Told(e) /\ Modest(e)
  BY <1>1, HappeningTold DEF Modest
<1>3. Sound(Apply(g, e))
  BY <1>1, <1>2, ApplySound
<1> QED
  BY <1>1, <1>2, <1>3 DEF Sound

\* The server does what was predicted.
LEMMA TalksMade ==
  ASSUME NEW g, NEW z, NEW out, NEW in, Talks(g, z, out, in), out # <<>>,
         Head(out).kind \in Predictable, NEW e \in Effects(g, Head(out))
  PROVE  Talks(Apply(g, e), z, Tail(out), in)
<1> DEFINE i == Head(out)
           d == Tail(out)
           q == Apply(g, e)
<1>1. /\ out \in Seq(Intents) /\ in \in Seq(Messages) /\ Sound(g) /\ Sound(z)
      /\ z \in Rounds /\ g \in Rounds
  BY DEF Talks, Sound
<1>2. /\ i \in Intents /\ d \in Seq(Intents)
      /\ \A k \in 1..Len(d) : d[k] = out[k + 1] /\ k + 1 \in 1..Len(out)
  BY <1>1, TailIs
<1>3. Sound(q)
  BY <1>1, <1>2, EffectSound
<1>4. q = Apply(g, i)
  <2>1. e.kind = i.kind /\ e.who = i.who /\ e.cards = i.cards /\ e.big = i.big
    <3>1. i.kind \notin {"draw_card", "contest_fly", "ready"}
      BY DEF Predictable
    <3> QED BY <1>1, <1>2, <3>1, IntentAsks, EffectsAre
  <2> QED BY <2>1, ApplySame
<1>5. Bold(out)
  BY <1>1, BoldTail
<1>6. Leads(Makes, d, q, z) /\ Refusals(in)
  <2>1. Leads(Makes, out, g, z) /\ Refusals(in)
    BY <1>5 DEF Talks
  <2>2. PICK c : <<g, i, c>> \in Makes /\ Leads(Makes, d, c, z)
    BY <1>1, <2>1, LeadsTail
  <2>3. c = q
    BY <1>4, <2>2, StepsAre DEF Made
  <2> QED BY <2>1, <2>2, <2>3
<1> HIDE DEF q
<1>7. CASE Bold(d)
  BY <1>1, <1>2, <1>3, <1>5, <1>6, <1>7, BoldTail DEF Talks, q
<1>8. CASE ~Bold(d)
  <2>1. q = z
    BY <1>2, <1>6, <1>8, MakesNothing
  <2>2. Leads(Hears, in, z, q)
    BY <1>1, <1>6, <2>1, HearsRefusals DEF Refusals
  <2> QED BY <1>1, <1>2, <1>3, <1>5, <1>8, <2>1, <2>2, BoldTail DEF Talks, q
<1> QED
  BY <1>7, <1>8

\* The server does what was asked for, and tells the page.
LEMMA TalksAnswer ==
  ASSUME NEW g, NEW z, NEW out, NEW in, Talks(g, z, out, in), out # <<>>,
         Head(out).kind \notin Predictable, NEW e \in Effects(g, Head(out))
  PROVE  Talks(Apply(g, e), z, Tail(out), Append(in, Update(e, Head(out))))
<1> DEFINE i == Head(out)
           d == Tail(out)
           q == Apply(g, e)
           m == Update(e, i)
<1>1. /\ out \in Seq(Intents) /\ in \in Seq(Messages) /\ Sound(g) /\ Sound(z)
      /\ z \in Rounds /\ g \in Rounds
  BY DEF Talks, Sound
<1>2. /\ i \in Intents /\ d \in Seq(Intents) /\ i = out[1] /\ 1 \in 1..Len(out)
      /\ \A k \in 1..Len(d) : d[k] = out[k + 1] /\ k + 1 \in 1..Len(out)
  BY <1>1, TailIs
<1>3. /\ e \in Happenings /\ Told(e) /\ Legal(g, e) /\ e.who = Me /\ Modest(e)
      /\ Sound(q) /\ q \in Rounds
  BY <1>1, <1>2, EffectSound
<1>4. /\ e.kind \notin Predictable
      /\ e.kind = "undo_play" => i.kind = "undo_play" /\ e.cards = i.cards
      /\ i.page = "former" => e.kind = "add_to_hand"
  BY <1>1, <1>2, IntentAsks, EffectsAre DEF Predictable, Intents
<1>5. ~Foretold(e)
  BY <1>4 DEF Foretold
<1>6. ~Bold(out) /\ ~Bold(d) /\ Late(out, 1)
  <2>1. ~Bold(out)
    BY <1>1, <1>3, <1>5, MakesTurn, TurnIsMine DEF Talks
  <2> QED BY <1>1, <2>1, BoldTail
<1>7. Answers(g, e, i)
  <2>1. e.kind = "undo_play" => i.page = "live" /\ i.cards = g.play
    <3>1. SUFFICES ASSUME e.kind = "undo_play" PROVE i.page = "live" /\ i.cards = g.play
      OBVIOUS
    <3>2. Keeps(g, i.cards)
      BY <1>2, <1>4, <1>6, <3>1 DEF Talks
    <3>3. g.phase = "FOLLOW" /\ g.leader # Me /\ g.play # Nothing
      BY <1>1, <1>3, <3>1, ApplyTrickIs
    <3> QED BY <1>2, <1>4, <3>1, <3>2, <3>3, IntentAsks DEF Keeps
  <2> QED BY <1>2, <1>3, <1>4, <2>1 DEF Answers
<1>8. m \in Messages /\ m.verb = "update" /\ m.effect = e /\ m.tx = i
  BY <1>2, <1>3, MessagesAre DEF Update
<1>9. i # NoTx
  <2>1. i.kind # "none"
    BY <1>2, IntentAsks DEF Requests, Predictable
  <2> QED BY <2>1 DEF NoTx
<1>10. \A k \in 1..Len(d) : d[k].kind = "undo_play" /\ Late(d, k) => Keeps(q, d[k].cards)
  <2> SUFFICES ASSUME NEW k \in 1..Len(d), d[k].kind = "undo_play", Late(d, k)
               PROVE  Keeps(q, d[k].cards)
    OBVIOUS
  <2>1. Late(out, k + 1)
    BY <1>1, BoldTail
  <2>2. Keeps(g, d[k].cards)
    BY <1>2, <1>6, <2>1 DEF Talks
  <2> QED BY <1>1, <1>3, <1>5, <2>2, KeepsStep
<1>11. Append(in, m) \in Seq(Messages) /\ Leads(Hears, in, z, g)
  BY <1>1, <1>6, <1>8, AppendIs DEF Talks
<1> HIDE DEF m, q
<1>12. <<g, m, q>> \in Hears
  BY <1>1, <1>3, <1>7, <1>8, <1>9, StepsAre DEF Heard, q
<1>13. Leads(Hears, Append(in, m), z, q)
  BY <1>1, <1>8, <1>11, <1>12, LeadsAppend
<1>14. Talks(q, z, d, Append(in, m))
  BY <1>1, <1>2, <1>3, <1>6, <1>10, <1>11, <1>13 DEF Talks
<1> QED
  BY <1>14 DEF m, q

\* The server refuses.
LEMMA TalksRefuse ==
  ASSUME NEW g, NEW z, NEW out, NEW in, Talks(g, z, out, in), out # <<>>,
         Effects(g, Head(out)) = {} \/ Head(out).kind = "contest_fly"
  PROVE  Talks(g, z, Tail(out), Append(in, Reject(Head(out))))
<1> DEFINE i == Head(out)
           d == Tail(out)
           m == Reject(i)
<1>1. /\ out \in Seq(Intents) /\ in \in Seq(Messages) /\ Sound(g) /\ Sound(z)
      /\ z \in Rounds /\ g \in Rounds
  BY DEF Talks, Sound
<1>2. /\ i \in Intents /\ d \in Seq(Intents)
      /\ \A k \in 1..Len(d) : d[k] = out[k + 1] /\ k + 1 \in 1..Len(out)
  BY <1>1, TailIs
<1>3. m \in Messages /\ m.verb = "reject"
  BY <1>2, MessagesAre DEF Reject
<1>4. /\ Append(in, m) \in Seq(Messages) /\ Len(in) \in Nat /\ Len(Append(in, m)) = Len(in) + 1
      /\ \A k \in 1..Len(in) : Append(in, m)[k] = in[k]
      /\ Append(in, m)[Len(in) + 1] = m
  BY <1>1, <1>3, AppendIs
<1>5. CASE Bold(out)
  <2>1. PICK c : <<g, i, c>> \in Makes /\ Leads(Makes, d, c, z)
    BY <1>1, <1>5, LeadsTail DEF Talks
  <2>2. i.kind \notin Predictable
    <3>1. i.kind \in Predictable => Legal(g, i) /\ i.kind # "contest_fly"
      BY <2>1, StepsAre DEF Made, Predictable
    <3> QED BY <1>2, <3>1, EffectThere
  <2>3. c = g
    BY <2>1, <2>2, StepsAre DEF Made
  <2>4. Bold(d)
    BY <1>1, <1>5, <2>2, BoldTail
  <2>5. Refusals(Append(in, m))
    <3>1. Refusals(in)
      BY <1>5 DEF Talks
    <3>2. \A k \in 1..Len(in) + 1 : k \in 1..Len(in) \/ k = Len(in) + 1
      BY <1>4
    <3> HIDE DEF m
    <3> QED BY <1>3, <1>4, <3>1, <3>2 DEF Refusals
  <2>6. \A k \in 1..Len(d) : d[k].kind = "undo_play" /\ Late(d, k) => Keeps(z, d[k].cards)
    BY <1>1, <1>2, <1>5, BoldTail DEF Talks
  <2> HIDE DEF m
  <2>7. Talks(g, z, d, Append(in, m))
    BY <1>1, <1>2, <1>4, <2>1, <2>3, <2>4, <2>5, <2>6 DEF Talks
  <2> QED BY <2>7 DEF m
<1>6. CASE ~Bold(out)
  <2>1. ~Bold(d)
    BY <1>1, <1>6, BoldTail
  <2>2. \A k \in 1..Len(d) : d[k].kind = "undo_play" /\ Late(d, k) => Keeps(g, d[k].cards)
    BY <1>1, <1>2, <1>6, BoldTail DEF Talks
  <2> HIDE DEF m
  <2>3. <<g, m, g>> \in Hears
    BY <1>1, <1>3, StepsAre DEF Heard
  <2>4. Leads(Hears, Append(in, m), z, g)
    BY <1>1, <1>3, <1>6, <2>3, LeadsAppend DEF Talks
  <2>5. Talks(g, z, d, Append(in, m))
    BY <1>1, <1>2, <1>4, <2>1, <2>2, <2>4 DEF Talks
  <2> QED BY <2>5 DEF m
<1> QED
  BY <1>5, <1>6

\* What the server does for another seat.
LEMMA TheirEffect ==
  ASSUME NEW g, Sound(g), NEW p \in Seats \ {Me}, NEW i \in Wishes(g, p), NEW e \in Effects(g, i)
  PROVE  /\ e \in Happenings /\ Told(e) /\ Legal(g, e) /\ Theirs(e) /\ Modest(e) /\ ~Foretold(e)
         /\ Sound(Apply(g, e)) /\ Apply(g, e) \in Rounds
         /\ Update(e, NoTx) \in Messages /\ <<g, Update(e, NoTx), Apply(g, e)>> \in Hears
<1> DEFINE m == Update(e, NoTx)
           q == Apply(g, e)
<1>1. g \in Rounds
  BY DEF Sound
<1>2. /\ i.kind \in Requests /\ i.kind # "undo_play" /\ i.who = p /\ i.cards \in [Faces -> Nat]
      /\ i.big \in BOOLEAN /\ (i.kind # "lead_play" => i.cards = Nothing)
  BY <1>1, WishesAre
<1>3. /\ e \in Happenings /\ Legal(g, e) /\ e.who = p
      /\ i.kind = "draw_card" => e.kind = "add_to_hand" /\ e.cards = Nothing
      /\ i.kind = "contest_fly" => e.kind = "reject_fly"
      /\ i.kind = "ready" => e.kind \in {"ready", "install_host"}
      /\ i.kind \notin {"draw_card", "contest_fly", "ready"} => e.kind = i.kind /\ e.cards = i.cards
  BY <1>1, <1>2, EffectsAre
<1>4. Theirs(e) /\ Modest(e) /\ ~Foretold(e)
  BY <1>2, <1>3 DEF Theirs, Modest, Foretold
<1>5. Told(e) /\ Sound(q) /\ q \in Rounds
  <2>1. Told(e)
    BY <1>3, HappeningTold
  <2>2. Sound(q)
    BY <1>3, <1>4, <2>1, ApplySound
  <2> QED BY <2>1, <2>2 DEF Sound
<1>6. m \in Messages /\ m.verb = "update" /\ m.effect = e /\ m.tx = NoTx
  BY <1>3, MessagesAre DEF Update
<1> HIDE DEF m, q
<1>7. <<g, m, q>> \in Hears
  BY <1>1, <1>3, <1>4, <1>5, <1>6, StepsAre DEF Heard, q
<1> QED
  BY <1>3, <1>4, <1>5, <1>6, <1>7 DEF m, q

LEMMA TalksOther ==
  ASSUME NEW g, NEW z, NEW out, NEW in, Talks(g, z, out, in), NEW p \in Seats \ {Me},
         NEW i \in Wishes(g, p), NEW e \in Effects(g, i)
  PROVE  Talks(Apply(g, e), z, out, Append(in, Update(e, NoTx)))
<1> DEFINE m == Update(e, NoTx)
           q == Apply(g, e)
<1>1. /\ out \in Seq(Intents) /\ in \in Seq(Messages) /\ Sound(g) /\ Sound(z) /\ g \in Rounds
  BY DEF Talks, Sound
<1>2. /\ Told(e) /\ Legal(g, e) /\ ~Foretold(e) /\ Sound(q) /\ m \in Messages
      /\ <<g, m, q>> \in Hears
  BY <1>1, TheirEffect
<1>3. ~Bold(out)
  BY <1>1, <1>2, MakesTurn, TurnIsMine DEF Talks
<1>4. \A k \in 1..Len(out) : out[k].kind = "undo_play" /\ Late(out, k) => Keeps(q, out[k].cards)
  BY <1>1, <1>2, <1>3, KeepsStep DEF Talks
<1> HIDE DEF m, q
<1>5. Append(in, m) \in Seq(Messages) /\ Leads(Hears, Append(in, m), z, q)
  BY <1>1, <1>2, <1>3, AppendIs, LeadsAppend DEF Talks
<1>6. Talks(q, z, out, Append(in, m))
  BY <1>1, <1>2, <1>3, <1>4, <1>5 DEF Talks
<1> QED
  BY <1>6 DEF m, q

\* The page takes a message.
LEMMA TalksHear ==
  ASSUME NEW g, NEW z, NEW out, NEW in, Talks(g, z, out, in), in # <<>>
  PROVE  LET m == Head(in)
         IN  \/ m.verb = "reject" /\ Talks(g, z, out, Tail(in))
             \/ /\ m.verb = "update" /\ Heard(z, m, Apply(z, m.effect))
                /\ m.effect \in Happenings /\ m.tx \in Intents \cup {NoTx}
                /\ Told(m.effect) /\ Legal(z, m.effect) /\ ~Foretold(m.effect) /\ Modest(m.effect)
                /\ Talks(g, Apply(z, m.effect), out, Tail(in))
<1> DEFINE m == Head(in)
           d == Tail(in)
<1>1. /\ out \in Seq(Intents) /\ in \in Seq(Messages) /\ Sound(g) /\ Sound(z) /\ g \in Rounds
  BY DEF Talks, Sound
<1>2. /\ m \in Messages /\ d \in Seq(Messages) /\ m = in[1] /\ 1 \in 1..Len(in)
      /\ \A k \in 1..Len(d) : d[k] = in[k + 1] /\ k + 1 \in 1..Len(in)
  BY <1>1, TailIs
<1>3. CASE Bold(out)
  <2>1. Refusals(in)
    BY <1>3 DEF Talks
  <2>2. m.verb = "reject" /\ Refusals(d)
    BY <1>2, <2>1 DEF Refusals
  <2>3. Talks(g, z, out, d)
    BY <1>1, <1>2, <1>3, <2>2 DEF Talks
  <2> QED BY <2>2, <2>3
<1>4. CASE ~Bold(out)
  <2>1. PICK c : <<z, m, c>> \in Hears /\ Leads(Hears, d, c, g)
    BY <1>1, <1>4, LeadsTail DEF Talks
  <2>2. Heard(z, m, c) /\ c \in Rounds
    BY <2>1, StepsAre
  <2>3. CASE c = z /\ m.verb = "reject"
    <3>1. Talks(g, z, out, d)
      BY <1>1, <1>2, <1>4, <2>1, <2>3 DEF Talks
    <3> QED BY <2>3, <3>1
  <2>4. CASE ~(c = z /\ m.verb = "reject")
    <3>1. /\ m.verb = "update" /\ m.effect \in Happenings /\ Told(m.effect)
          /\ Legal(z, m.effect) /\ c = Apply(z, m.effect) /\ ~Foretold(m.effect)
          /\ Modest(m.effect)
      BY <1>2, <2>2, <2>4, HeardIs
    <3>2. Sound(c)
      BY <1>1, <3>1, ApplySound
    <3>3. Talks(g, c, out, d)
      BY <1>1, <1>2, <1>4, <2>1, <3>2 DEF Talks
    <3>4. m.tx \in Intents \cup {NoTx}
      BY <1>2, <3>1 DEF Messages, Updates, Rejects, Resets
    <3> HIDE DEF m, d
    <3> QED BY <2>2, <3>1, <3>3, <3>4 DEF m, d
  <2> QED BY <2>3, <2>4
<1> QED
  BY <1>3, <1>4

\* The page starts from a reset.
LEMMA TalksReset ==
  ASSUME NEW g, Sound(g), NEW r, Sound(r), NEW d \in Seq(Messages), Leads(Hears, d, r, g)
  PROVE  Talks(g, r, <<>>, d)
<1>1. <<>> \in Seq(Intents) /\ Len(<<>>) = 0
  OBVIOUS
<1>2. ~Bold(<<>>)
  BY DEF Bold
<1> QED
  BY <1>1, <1>2 DEF Talks

-----------------------------------------------------------------------------
(* The cards of the page are the hand *)

LEMMA AddedTally ==
  ASSUME NEW s, Good(s), NEW cards \in [Faces -> Nat], NEW adx \in {0, 1}
  PROVE  LET t == WithCardsAdded(s, cards, adx)
         IN  /\ Good(t) /\ t.pending_cards = s.pending_cards /\ s.id_set \subseteq t.id_set
             /\ Tally(t, t.id_set) = Plus(Tally(s, s.id_set), cards)
             /\ \A A \in SUBSET s.id_set : Tally(t, A) = Tally(s, A)
<1> DEFINE t == WithCardsAdded(s, cards, adx)
           fresh == t.id_set \ s.id_set
<1>1. cards \in Tallies
  BY DEF Tallies
<1>2. DOMAIN s = UiFields /\ Placed(s)
  BY DEF Good
<1>3. Good(t)
  BY <1>1, AddedGood
<1>4. /\ \A f \in UiFields \ {"seen", "id_set", "hand", "staged", "id_to_area"} : t[f] = s[f]
      /\ s.id_set \subseteq t.id_set
      /\ \A i \in s.id_set : t.seen[i] = s.seen[i]
      /\ \A f \in Faces : Tally(t, fresh)[f] = IF cards[f] > 0 THEN cards[f] ELSE 0
  BY <1>1, <1>2, AddedIs
<1> HIDE DEF t
<1>5. t.pending_cards = s.pending_cards
  BY <1>4 DEF UiFields
<1>6. IsFiniteSet(t.id_set) /\ IsFiniteSet(s.id_set)
  BY <1>2, <1>3, OnPageIs DEF Good
<1>7. ASSUME NEW A \in SUBSET s.id_set PROVE Tally(t, A) = Tally(s, A)
  BY <1>4, TallySame
<1>8. \A f \in Faces : Tally(t, t.id_set)[f] = Tally(t, s.id_set)[f] + Tally(t, fresh)[f]
  BY <1>4, <1>6, TallySplit
<1>9. Tally(t, s.id_set) = Tally(s, s.id_set)
  BY <1>7
<1> HIDE DEF fresh
<1>10. \A f \in Faces : Tally(t, t.id_set)[f] = Tally(s, s.id_set)[f] + cards[f]
  <2>1. \A f \in Faces : Tally(t, fresh)[f] = cards[f]
    BY <1>4
  <2> QED BY <1>8, <1>9, <2>1
<1>11. Tally(t, t.id_set) = Plus(Tally(s, s.id_set), cards)
  <2>1. Tally(t, t.id_set) \in [Faces -> Nat]
    BY <1>6, TallyIs
  <2> QED BY <1>10, <2>1 DEF Plus
<1> QED
  BY <1>3, <1>4, <1>5, <1>7, <1>11 DEF t

LEMMA RemovedTally ==
  ASSUME NEW s, Good(s), NEW A \in SUBSET s.id_set
  PROVE  /\ Tally(s, A) \in [Faces -> Nat] /\ Tally(s, s.id_set) \in [Faces -> Nat]
         /\ Tally(s, s.id_set \ A) = Minus(Tally(s, s.id_set), Tally(s, A))
<1>1. IsFiniteSet(s.id_set) /\ IsFiniteSet(A) /\ IsFiniteSet(s.id_set \ A)
  <2>1. IsFiniteSet(s.id_set)
    BY OnPageIs DEF Good
  <2> QED BY <2>1, FS_Subset
<1>2. /\ Tally(s, A) \in [Faces -> Nat] /\ Tally(s, s.id_set) \in [Faces -> Nat]
      /\ Tally(s, s.id_set \ A) \in [Faces -> Nat]
  BY <1>1, TallyIs
<1>3. \A f \in Faces : Tally(s, s.id_set)[f] = Tally(s, A)[f] + Tally(s, s.id_set \ A)[f]
  BY <1>1, TallySplit
<1>4. \A f \in Faces : Tally(s, s.id_set \ A)[f] = Tally(s, s.id_set)[f] - Tally(s, A)[f]
  BY <1>2, <1>3
<1> QED
  BY <1>2, <1>4 DEF Minus

\* A fly of Me's that is open is of the cards that wait for its landing.
Flown(s, r) ==
  FlyOpen(r) => s.pending_cards \subseteq s.id_set /\ Tally(s, s.pending_cards) = r.lead

\* The page shows the hand, less what was drawn behind its back.
Within(s, r) == AtMost(Tally(s, s.id_set), r.hand) /\ Flown(s, r)
Shows(s, r, lost) ==
  Within(s, r) /\ ("draw" \notin lost => Tally(s, s.id_set) = r.hand)

\* What changes neither the cards nor those that wait keeps it so.
LEMMA ShowsStill ==
  ASSUME NEW s, NEW r, NEW t, t.id_set = s.id_set, t.seen = s.seen,
         t.pending_cards = s.pending_cards
  PROVE  /\ Within(s, r) => Within(t, r)
         /\ \A lost : Shows(s, r, lost) => Shows(t, r, lost)
<1>1. \A A : Tally(t, A) = Tally(s, A)
  BY DEF Tally
<1> QED
  BY <1>1 DEF Within, Flown, Shows

LEMMA ShowsRound ==
  ASSUME NEW s, NEW r, NEW q, q.hand = r.hand,
         FlyOpen(q) => FlyOpen(r) /\ q.lead = r.lead
  PROVE  /\ Within(s, r) => Within(s, q)
         /\ \A lost : Shows(s, r, lost) => Shows(s, q, lost)
  BY DEF Within, Flown, Shows

\* Cards come to the page as they come to the hand.
LEMMA ShowsAdded ==
  ASSUME NEW s, Good(s), NEW r \in Rounds, NEW q \in Rounds, NEW cards \in [Faces -> Nat],
         NEW adx \in {0, 1}, q.hand = Plus(r.hand, cards), ~FlyOpen(q),
         NEW lost, Shows(s, r, lost)
  PROVE  Shows(WithCardsAdded(s, cards, adx), q, lost)
<1> DEFINE t == WithCardsAdded(s, cards, adx)
<1>1. Tally(t, t.id_set) = Plus(Tally(s, s.id_set), cards)
  BY AddedTally
<1>2. Tally(s, s.id_set) \in [Faces -> Nat] /\ r.hand \in [Faces -> Int]
  BY RemovedTally DEF Rounds
<1> HIDE DEF t
<1>3. AtMost(Tally(t, t.id_set), q.hand)
  <2>1. AtMost(Tally(s, s.id_set), r.hand)
    BY DEF Shows, Within
  <2>2. \A f \in Faces : Tally(s, s.id_set)[f] + cards[f] <= r.hand[f] + cards[f]
    BY <1>2, <2>1 DEF AtMost
  <2> QED BY <1>1, <2>2 DEF AtMost, Plus
<1>4. "draw" \notin lost => Tally(t, t.id_set) = q.hand
  BY <1>1 DEF Shows
<1>5. Shows(t, q, lost)
  BY <1>3, <1>4 DEF Shows, Within, Flown
<1> QED
  BY <1>5 DEF t

\* Cards leave the page as they leave the hand.
LEMMA ShowsRemoved ==
  ASSUME NEW s, Good(s), NEW r \in Rounds, NEW q \in Rounds, NEW A \in SUBSET s.id_set,
         q.hand = Minus(r.hand, Tally(s, A)), ~FlyOpen(q),
         NEW t, t.id_set = s.id_set \ A, t.seen = s.seen, NEW lost, Shows(s, r, lost)
  PROVE  Shows(t, q, lost)
<1>1. Tally(t, t.id_set) = Minus(Tally(s, s.id_set), Tally(s, A))
  <2>1. Tally(t, s.id_set \ A) = Tally(s, s.id_set \ A)
    BY DEF Tally
  <2> QED BY <2>1, RemovedTally
<1>2. /\ Tally(s, s.id_set) \in [Faces -> Nat] /\ Tally(s, A) \in [Faces -> Nat]
      /\ r.hand \in [Faces -> Int]
  BY RemovedTally DEF Rounds
<1>3. AtMost(Tally(t, t.id_set), q.hand)
  <2>1. AtMost(Tally(s, s.id_set), r.hand)
    BY DEF Shows, Within
  <2>2. \A f \in Faces : Tally(s, s.id_set)[f] - Tally(s, A)[f] <= r.hand[f] - Tally(s, A)[f]
    BY <1>2, <2>1 DEF AtMost
  <2> QED BY <1>1, <2>2 DEF AtMost, Minus
<1>4. "draw" \notin lost => Tally(t, t.id_set) = q.hand
  BY <1>1 DEF Shows
<1> QED
  BY <1>3, <1>4 DEF Shows, Within, Flown

\* Flags of the page are not cards.
LEMMA ShowsFlags ==
  ASSUME NEW s, NEW t, \A f \in UiFields \ {"auto_play", "full_control", "action_pending"} :
           t[f] = s[f],
         NEW r, NEW lost, Shows(s, r, lost)
  PROVE  Shows(t, r, lost)
<1>1. t.id_set = s.id_set /\ t.seen = s.seen /\ t.pending_cards = s.pending_cards
  BY DEF UiFields
<1> QED
  BY <1>1, ShowsStill

\* An attempt leaves the page with the hand it predicts, or takes it down.
LEMMA ShowsAttempt ==
  ASSUME NEW s, Good(s), NEW z, Sound(z), NEW i, Planned(s, i), NEW o \in Attempt(s, z, i),
         NEW lost, Shows(s, z, lost)
  PROVE  o.ui = Crashed \/ (Good(o.ui) /\ Shows(o.ui, o.zpy, lost))
<1> DEFINE waits == [s EXCEPT !.action_pending = TRUE]
           q == Apply(z, i)
<1>1. /\ DOMAIN s = UiFields /\ z \in Rounds /\ i \in Intents /\ i.who = Me
      /\ (z.phase = "LEAD" => z.cur = z.leader)
  BY IntentAsks DEF Good, Sound, Planned
<1>2. \A f \in UiFields \ {"auto_play", "full_control", "action_pending"} : waits[f] = s[f]
  BY <1>1 DEF UiFields
<1>3. \A f \in UiFields \ {"auto_play", "full_control", "action_pending"} : OnEffect(s)[f] = s[f]
  BY <1>1, OnEffectIs
<1>4. Good(waits) /\ Good(OnEffect(s))
  BY FlagKeeps, OnEffectGood
<1>5. Shows(waits, z, lost) /\ Shows(OnEffect(s), z, lost)
  <2> HIDE DEF waits
  <2> QED BY <1>2, <1>3, ShowsFlags
<1> HIDE DEF waits
<1>6. CASE o = Outcome(waits, z, <<i>>)
  <2>1. o.ui = waits /\ o.zpy = z
    BY <1>6, OutcomeIs
  <2> QED BY <1>4, <1>5, <2>1
<1>7. CASE o = Outcome(OnEffect(s), z, <<>>)
  <2>1. o.ui = OnEffect(s) /\ o.zpy = z
    BY <1>7, OutcomeIs
  <2> QED BY <1>4, <1>5, <2>1
<1>8. ASSUME i.kind \in Predictable, Legal(z, i) PROVE Told(i) /\ q \in Rounds
  BY <1>1, <1>8, IntentTold, ApplyTyped
<1>9. CASE /\ i.kind \in {"call_friends", "collect_trick"} /\ Legal(z, i)
           /\ o = Outcome(OnEffect(s), q, <<i>>)
  <2>1. Told(i) /\ i.kind \in Predictable
    BY <1>8, <1>9 DEF Predictable
  <2>2. q.hand = z.hand /\ q.phase # "FLY"
    BY <1>1, <1>9, <2>1, ApplyIs, ApplyTrickIs
  <2> HIDE DEF q
  <2>3. Shows(OnEffect(s), q, lost)
    BY <1>5, <2>2, ShowsRound DEF FlyOpen
  <2>4. o.ui = OnEffect(s) /\ o.zpy = q
    BY <1>9, OutcomeIs
  <2> QED BY <1>4, <2>3, <2>4
<1>10. CASE /\ i.kind \in {"replace_kitty", "lead_play", "follow_lead"} /\ Legal(z, i)
            /\ o = Outcome(OnPlayEffect(s, i), q, <<i>>)
  <2> DEFINE t == OnPlayEffect(s, i)
  <2>1. Told(i) /\ q \in Rounds
    BY <1>8, <1>10 DEF Predictable
  <2>2. i.ids \in SUBSET s.id_set /\ i.cards = Tally(s, i.ids)
    BY <1>10 DEF Planned, Plays
  <2>3. o.ui = t /\ o.zpy = q
    BY <1>10, OutcomeIs
  <2>4. CASE i.kind = "lead_play" /\ i.big
    <3>1. CASE s.pending_cards # {}
      BY <2>3, <2>4, <3>1 DEF OnPlayEffect, Crashed
    <3>2. CASE s.pending_cards = {}
      <4>1. /\ DOMAIN t = UiFields /\ t.pending_cards = i.ids
            /\ \A f \in UiFields \ Flags : t[f] = s[f]
        BY <2>4, <3>2, OnPlayEffectIs
      <4>2. q.hand = z.hand /\ q.lead = i.cards
        BY <1>1, <1>10, <2>1, <2>4, ApplyIs
      <4> HIDE DEF t, q
      <4>3. Good(t)
        BY <4>1, FlagsGood
      <4>4. t.id_set = s.id_set /\ t.seen = s.seen
        BY <4>1 DEF UiFields, Flags
      <4>5. \A A : Tally(t, A) = Tally(s, A)
        BY <4>4 DEF Tally
      <4>6. Shows(t, q, lost)
        BY <2>2, <4>1, <4>2, <4>4, <4>5 DEF Shows, Within, Flown
      <4> QED BY <2>3, <4>3, <4>6
    <3> QED BY <3>1, <3>2
  <2>5. CASE ~(i.kind = "lead_play" /\ i.big)
    <3>1. Good(t) /\ t.id_set = s.id_set \ i.ids /\ t.seen = s.seen
      BY <2>5, PlayedIs
    <3>2. q.hand = Minus(z.hand, i.cards) /\ q.phase # "FLY"
      <4>1. CASE i.kind = "lead_play"
        <5>1. q = Commit(z, i.cards) /\ z.leader = Me
          BY <1>1, <1>10, <2>1, <2>5, <4>1, ApplyIs
        <5> QED BY <1>1, <5>1, CommitIs
      <4>2. CASE i.kind # "lead_play"
        BY <1>1, <1>10, <2>1, <4>2, ApplyIs, ApplyTrickIs
      <4> QED BY <4>1, <4>2
    <3> HIDE DEF t, q
    <3>3. Shows(t, q, lost)
      BY <1>1, <2>1, <2>2, <3>1, <3>2, ShowsRemoved DEF FlyOpen
    <3> QED BY <2>3, <3>1, <3>3
  <2> QED BY <2>4, <2>5
<1> QED
  BY <1>6, <1>7, <1>9, <1>10, AttemptIs DEF waits

\* A fly that lands leaves the page and the hand together.
LEMMA ShowsLanded ==
  ASSUME NEW s, Good(s), NEW z, Sound(z), FlyOpen(z), NEW lost, Shows(s, z, lost),
         NEW cards \in [Faces -> Nat], NEW B \in SUBSET s.pending_cards,
         Tally(s, B) = cards, NEW q \in Rounds, q = Commit(z, cards)
  PROVE  Shows(Landed(s, B), q, lost)
<1>1. z \in Rounds /\ z.leader = Me /\ s.pending_cards \subseteq s.id_set
  BY DEF Sound, FlyOpen, Shows, Within, Flown
<1>2. q.phase = "FOLLOW" /\ q.hand = Minus(z.hand, cards)
  BY <1>1, CommitIs
<1>3. Landed(s, B).id_set = s.id_set \ B /\ Landed(s, B).seen = s.seen
  BY LandedIs
<1>4. B \in SUBSET s.id_set
  BY <1>1
<1> QED
  BY <1>1, <1>2, <1>3, <1>4, ShowsRemoved DEF FlyOpen

LEMMA ShowsContested ==
  ASSUME NEW s, Good(s), NEW z, Sound(z), FlyOpen(z), NEW lost, Shows(s, z, lost),
         NEW cards \in [Faces -> Nat], AtMost(cards, z.lead),
         NEW B \in Both(s, cards, s.pending_cards)
  PROVE  B \in SUBSET s.pending_cards /\ Tally(s, B) = cards
<1>1. /\ s.pending_cards \in SUBSET s.id_set /\ Tally(s, s.pending_cards) = z.lead
      /\ z.lead \in [Faces -> Nat] /\ cards \in [Faces -> Int]
  BY DEF Shows, Within, Flown, Sound, Rounds
<1>2. /\ B \in SUBSET s.pending_cards /\ Tally(s, B) \in [Faces -> Nat]
      /\ \A f \in Faces : Tally(s, B)[f] = Min({cards[f], z.lead[f]})
  BY <1>1, BothIs
<1>3. \A f \in Faces : Tally(s, B)[f] = cards[f]
  <2> SUFFICES ASSUME NEW f \in Faces PROVE Tally(s, B)[f] = cards[f]
    OBVIOUS
  <2>1. cards[f] \in Int /\ z.lead[f] \in Int /\ cards[f] <= z.lead[f]
    BY <1>1 DEF AtMost
  <2>2. Min({cards[f], z.lead[f]}) = cards[f]
    BY <2>1, MinPair
  <2> QED BY <1>2, <2>2
<1>4. Tally(s, B) = cards
  BY <1>2, <1>3
<1> QED
  BY <1>2, <1>4

\* What OnUpdate makes of each effect, z being the round after it.
LEMMA OnUpdateIs ==
  ASSUME NEW s, NEW z, NEW e, NEW t \in OnUpdate(s, z, e)
  PROVE  \/ e.kind = "install_host" /\ z.host = Me /\ Kitty # Nothing /\ t = WithCardsAdded(s, Kitty, 1)
         \/ /\ e.kind = "reject_fly" /\ z.leader = Me
            /\ \E B \in Both(s, e.cards, s.pending_cards) : t = Landed(s, B)
         \/ e.kind = "reject_fly" /\ z.leader # Me /\ t \in {s, ResetPlays(s)}
         \/ /\ e.kind = "pass_contest" /\ z.leader = Me /\ z.phase = "FOLLOW"
            /\ t = Landed(s, s.pending_cards)
         \/ /\ t = s /\ e.kind # "reject_fly"
            /\ e.kind = "install_host" => z.host # Me \/ Kitty = Nothing
            /\ e.kind = "pass_contest" => z.leader # Me \/ z.phase # "FOLLOW"
<1>1. CASE e.kind = "install_host"
  BY <1>1 DEF OnUpdate
<1>2. CASE e.kind = "reject_fly"
  <2>1. CASE z.leader = Me
    BY <1>2, <2>1 DEF OnUpdate
  <2>2. CASE z.leader # Me
    BY <1>2, <2>2 DEF OnUpdate
  <2> QED BY <2>1, <2>2
<1>3. CASE e.kind = "pass_contest"
  BY <1>3 DEF OnUpdate
<1>4. CASE e.kind \notin {"install_host", "reject_fly", "pass_contest"}
  BY <1>4 DEF OnUpdate
<1> QED
  BY <1>1, <1>2, <1>3, <1>4

\* Somebody's effect leaves the page with the hand, unless it brings cards that
\* only the answer does.
LEMMA ShowsUpdate ==
  ASSUME NEW s, Good(s), NEW z, Sound(z), NEW e, Told(e), Legal(z, e), ~Foretold(e), Modest(e),
         e.kind \notin {"add_to_hand", "undo_play"}, NEW lost, Shows(s, z, lost),
         NEW t \in OnUpdate(s, Apply(z, e), e)
  PROVE  Shows(t, Apply(z, e), lost)
<1> DEFINE q == Apply(z, e)
<1>1. /\ z \in Rounds /\ q \in Rounds /\ e.cards \in [Faces -> Nat] /\ z.hand \in [Faces -> Nat]
      /\ (z.phase = "LEAD" => z.cur = z.leader) /\ Kitty \in [Faces -> Nat]
  BY ApplyTyped, PlayAreaAssumption DEF Sound, Told
<1>2. Minus(z.hand, Nothing) = z.hand
  BY <1>1, TalliesKeep
<1>3. q = Commit(z, e.cards) \/ q = Commit(z, z.lead) =>
        q.phase = "FOLLOW" /\ q.leader = z.leader /\ (z.leader # Me => q.hand = z.hand)
  BY <1>1, CommitIs
<1>4. CASE e.kind = "install_host"
  <2>1. /\ q.phase = "KITTY" /\ q.host = z.host
        /\ q.hand = (IF z.host = Me THEN Plus(z.hand, Kitty) ELSE z.hand)
    BY <1>1, <1>4, ApplyIs
  <2>2. CASE q.host = Me /\ Kitty # Nothing
    <3>1. t = WithCardsAdded(s, Kitty, 1)
      BY <1>4, <2>2, OnUpdateIs
    <3> HIDE DEF q
    <3> QED BY <1>1, <2>1, <2>2, <3>1, ShowsAdded DEF FlyOpen, q
  <2>3. CASE q.host # Me \/ Kitty = Nothing
    <3>1. t = s
      BY <1>4, <2>3, OnUpdateIs
    <3>2. Plus(z.hand, Nothing) = z.hand
      <4>1. \A f \in Faces : z.hand[f] + Nothing[f] = z.hand[f]
        BY <1>1, NothingIs
      <4> QED BY <1>1, <4>1 DEF Plus
    <3> HIDE DEF q
    <3>3. q.hand = z.hand
      BY <2>1, <2>3, <3>2
    <3> QED BY <2>1, <3>1, <3>3, ShowsRound DEF FlyOpen, q
  <2> QED BY <2>2, <2>3
<1>5. CASE e.kind \in {"ready", "replace_kitty", "call_friends", "lead_play", "follow_lead",
                      "collect_trick"}
  <2>1. t = s
    BY <1>5, OnUpdateIs
  <2>2. e.who # Me \/ e.kind = "ready"
    BY <1>5 DEF Foretold, Predictable
  <2>3. e.kind \in {"replace_kitty", "follow_lead"} => e.cards = Nothing
    BY <2>2 DEF Modest
  <2> HIDE DEF q
  <2>4. q.hand = z.hand /\ ~FlyOpen(q)
    <3>1. CASE e.kind \in {"ready", "replace_kitty", "call_friends"}
      BY <1>1, <1>2, <2>3, <3>1, ApplyIs DEF FlyOpen, q
    <3>2. CASE e.kind = "lead_play"
      BY <1>1, <1>3, <2>2, <3>2, ApplyIs DEF FlyOpen, q
    <3>3. CASE e.kind \in {"follow_lead", "collect_trick"}
      BY <1>1, <1>2, <2>3, <3>3, ApplyTrickIs DEF FlyOpen, q
    <3> QED BY <1>5, <3>1, <3>2, <3>3
  <2> QED BY <2>1, <2>4, ShowsRound DEF q
<1>6. CASE e.kind = "reject_fly"
  <2>1. z.phase = "FLY" /\ AtMost(e.cards, z.lead) /\ q = Commit(z, e.cards)
    BY <1>1, <1>6, ApplyTrickIs
  <2>2. CASE z.leader = Me
    <3>1. PICK B \in Both(s, e.cards, s.pending_cards) : t = Landed(s, B)
      BY <1>3, <1>6, <2>1, <2>2, OnUpdateIs
    <3>2. FlyOpen(z)
      BY <2>1, <2>2 DEF FlyOpen
    <3>3. B \in SUBSET s.pending_cards /\ Tally(s, B) = e.cards
      BY <1>1, <2>1, <3>2, ShowsContested
    <3> HIDE DEF q
    <3> QED BY <1>1, <2>1, <3>1, <3>2, <3>3, ShowsLanded DEF q
  <2>3. CASE z.leader # Me
    <3>1. t = s \/ t = ResetPlays(s)
      BY <1>3, <1>6, <2>1, <2>3, OnUpdateIs
    <3>2. \A f \in UiFields \ Where : ResetPlays(s)[f] = s[f]
      BY ResetPlaysIs DEF Good
    <3>3. t.id_set = s.id_set /\ t.seen = s.seen /\ t.pending_cards = s.pending_cards
      BY <3>1, <3>2 DEF UiFields, Where
    <3>4. Shows(t, z, lost)
      BY <3>3, ShowsStill
    <3> HIDE DEF q
    <3>5. q.hand = z.hand /\ ~FlyOpen(q)
      BY <1>3, <2>1, <2>3 DEF FlyOpen
    <3> QED BY <3>4, <3>5, ShowsRound DEF q
  <2> QED BY <2>2, <2>3
<1>7. CASE e.kind = "pass_contest"
  <2>1. /\ z.phase = "FLY"
        /\ \/ q = Commit(z, z.lead)
           \/ /\ q.phase = "FLY" /\ q.leader = z.leader /\ q.lead = z.lead /\ q.hand = z.hand
    BY <1>1, <1>7, ApplyTrickIs
  <2>2. CASE z.leader = Me /\ q.phase = "FOLLOW"
    <3>1. t = Landed(s, s.pending_cards)
      BY <1>3, <1>7, <2>1, <2>2, OnUpdateIs
    <3>2. FlyOpen(z) /\ q = Commit(z, z.lead)
      BY <2>1, <2>2 DEF FlyOpen
    <3>3. Tally(s, s.pending_cards) = z.lead /\ z.lead \in [Faces -> Nat]
      BY <1>1, <3>2 DEF Shows, Within, Flown, Rounds
    <3> HIDE DEF q
    <3> QED BY <1>1, <3>1, <3>2, <3>3, ShowsLanded DEF q
  <2>3. CASE z.leader # Me \/ q.phase # "FOLLOW"
    <3>1. t = s
      BY <1>3, <1>7, <2>1, <2>3, OnUpdateIs
    <3> HIDE DEF q
    <3>2. q.hand = z.hand /\ (FlyOpen(q) => FlyOpen(z) /\ q.lead = z.lead)
      BY <1>3, <2>1, <2>3 DEF FlyOpen
    <3> QED BY <3>1, <3>2, ShowsRound DEF q
  <2> QED BY <2>2, <2>3
<1> QED
  BY <1>4, <1>5, <1>6, <1>7 DEF Told, EffectKinds, Predictable

LEMMA BringsIs ==
  ASSUME NEW s, NEW z, Sound(z), NEW e, Told(e), Legal(z, e), e.kind \in {"add_to_hand", "undo_play"},
         NEW t \in OnUpdate(s, Apply(z, e), e)
  PROVE  /\ t = s /\ ~FlyOpen(Apply(z, e))
         /\ e.kind = "add_to_hand" => Apply(z, e).hand = Plus(z.hand, e.cards)
         /\ e.kind = "undo_play" => Apply(z, e).hand = Plus(z.hand, z.play)
<1>1. t = s
  BY OnUpdateIs
<1>2. CASE e.kind = "add_to_hand"
  BY <1>1, <1>2, ApplyIs DEF Sound, FlyOpen
<1>3. CASE e.kind = "undo_play"
  BY <1>1, <1>3, ApplyTrickIs DEF Sound, FlyOpen
<1> QED
  BY <1>2, <1>3

LEMMA ShowsTheirs ==
  ASSUME NEW s, Good(s), NEW z, Sound(z), NEW e, Told(e), Legal(z, e), ~Foretold(e), Modest(e),
         Theirs(e), NEW lost, Shows(s, z, lost), NEW t \in OnUpdate(s, Apply(z, e), e)
  PROVE  Shows(t, Apply(z, e), lost)
<1>1. CASE e.kind = "add_to_hand"
  <2> DEFINE q == Apply(z, e)
  <2>1. t = s /\ ~FlyOpen(q) /\ q.hand = Plus(z.hand, Nothing)
    BY <1>1, BringsIs DEF Theirs
  <2>2. Plus(z.hand, Nothing) = z.hand
    <3>1. z.hand \in [Faces -> Nat]
      BY DEF Sound
    <3>2. \A f \in Faces : z.hand[f] + Nothing[f] = z.hand[f]
      BY <3>1, NothingIs
    <3> QED BY <3>1, <3>2 DEF Plus
  <2> HIDE DEF q
  <2> QED BY <2>1, <2>2, ShowsRound DEF q
<1>2. CASE e.kind # "add_to_hand"
  BY <1>2, ShowsUpdate DEF Theirs
<1> QED
  BY <1>1, <1>2

\* The orphans of a message for a component that is gone.
Lost(lost, tx) == IF tx.page = "former" THEN lost \union {"draw"} ELSE lost

LEMMA ShowsEffect ==
  ASSUME NEW s, Good(s), NEW r, NEW lost, Shows(s, r, lost)
  PROVE  Shows(OnEffect(s), r, lost)
<1>1. DOMAIN s = UiFields
  BY DEF Good
<1>2. \A f \in UiFields \ {"auto_play", "full_control", "action_pending"} : OnEffect(s)[f] = s[f]
  BY <1>1, OnEffectIs
<1> QED
  BY <1>2, ShowsFlags

LEMMA ShowsAnswer ==
  ASSUME NEW s, Good(s), NEW z, Sound(z), NEW e, Told(e), Legal(z, e), ~Foretold(e), Modest(e),
         NEW tx, Answers(z, e, tx), NEW lost, Shows(s, z, lost),
         NEW t \in OnUpdate(s, Apply(z, e), e)
  PROVE  Shows(OnAnswer(t, e, tx), Apply(z, e), Lost(lost, tx))
<1> DEFINE q == Apply(z, e)
<1>1. /\ z \in Rounds /\ q \in Rounds /\ z.hand \in [Faces -> Nat]
      /\ e.cards \in [Faces -> Nat] /\ z.play \in [Faces -> Nat]
  BY ApplyTyped DEF Sound, Told, Rounds
<1>2. CASE tx.page = "former"
  <2>1. e.kind = "add_to_hand" /\ OnAnswer(t, e, tx) = t
    BY <1>2 DEF Answers, OnAnswer
  <2>2. t = s /\ ~FlyOpen(q) /\ q.hand = Plus(z.hand, e.cards)
    BY <2>1, BringsIs
  <2>3. AtMost(Tally(s, s.id_set), q.hand)
    <3>1. AtMost(Tally(s, s.id_set), z.hand) /\ Tally(s, s.id_set) \in [Faces -> Nat]
      BY RemovedTally DEF Shows, Within
    <3>2. \A f \in Faces : Tally(s, s.id_set)[f] <= z.hand[f] + e.cards[f]
      BY <1>1, <3>1 DEF AtMost
    <3> QED BY <2>2, <3>2 DEF AtMost, Plus
  <2>4. "draw" \in Lost(lost, tx)
    BY <1>2 DEF Lost
  <2> HIDE DEF q
  <2>5. Shows(s, q, Lost(lost, tx))
    BY <2>2, <2>3, <2>4 DEF Shows, Within, Flown
  <2> QED BY <2>1, <2>2, <2>5 DEF q
<1>3. CASE tx.page # "former"
  <2>1. Lost(lost, tx) = lost
    BY <1>3 DEF Lost
  <2>2. CASE e.kind = "add_to_hand"
    <3> DEFINE u == WithCardsAdded(s, e.cards, 0)
    <3>1. t = s /\ ~FlyOpen(q) /\ q.hand = Plus(z.hand, e.cards)
      BY <2>2, BringsIs
    <3>2. OnAnswer(t, e, tx) = OnEffect(u)
      BY <1>3, <2>2, <3>1 DEF OnAnswer
    <3>3. Good(u)
      BY <1>1, AddedTally
    <3> HIDE DEF q
    <3>4. Shows(u, q, lost)
      BY <1>1, <3>1, ShowsAdded
    <3> HIDE DEF u
    <3> QED BY <2>1, <3>2, <3>3, <3>4, ShowsEffect DEF q
  <2>3. CASE e.kind = "undo_play"
    <3> DEFINE u == WithCardsAdded(s, z.play, 0)
    <3>1. t = s /\ ~FlyOpen(q) /\ q.hand = Plus(z.hand, z.play)
      BY <2>3, BringsIs
    <3>2. OnAnswer(t, e, tx) = OnEffect(u)
      BY <1>3, <2>3, <3>1 DEF OnAnswer, Answers
    <3>3. Good(u)
      BY <1>1, AddedTally
    <3> HIDE DEF q
    <3>4. Shows(u, q, lost)
      BY <1>1, <3>1, ShowsAdded
    <3> HIDE DEF u
    <3> QED BY <2>1, <3>2, <3>3, <3>4, ShowsEffect DEF q
  <2>4. CASE e.kind \notin {"add_to_hand", "undo_play"}
    <3>1. OnAnswer(t, e, tx) = OnEffect(t)
      BY <1>3, <2>4 DEF OnAnswer
    <3>2. Good(t) /\ Shows(t, q, lost)
      BY <2>4, OnUpdateGood, ShowsUpdate
    <3> QED BY <2>1, <3>1, <3>2, ShowsEffect
  <2> QED BY <2>2, <2>3, <2>4
<1> QED
  BY <1>2, <1>3

\* A new play area has the hand.
LEMMA ShowsMounted ==
  ASSUME NEW r, Sound(r)
  PROVE  LET t == Mounted(r)
         IN  Good(t) /\ Tally(t, t.id_set) = r.hand
<1> DEFINE t == Mounted(r)
<1>1. r.hand \in [Faces -> Nat] /\ Good(Blank) /\ Blank.id_set = {}
  BY BlankGood DEF Sound, Blank
<1>2. Good(t) /\ Tally(t, t.id_set) = Plus(Tally(Blank, {}), r.hand)
  <2>1. t = WithCardsAdded(Blank, r.hand, 0)
    BY DEF Mounted
  <2>2. /\ Good(WithCardsAdded(Blank, r.hand, 0))
        /\ Tally(WithCardsAdded(Blank, r.hand, 0), WithCardsAdded(Blank, r.hand, 0).id_set)
             = Plus(Tally(Blank, Blank.id_set), r.hand)
    BY <1>1, AddedTally
  <2> QED BY <1>1, <2>1, <2>2
<1>3. \A f \in Faces : Tally(Blank, {})[f] = 0
  <2>1. \A f \in Faces : Of(Blank, {}, f) = {}
    BY DEF Of
  <2>2. Cardinality({}) = 0 /\ IsFiniteSet({})
    BY FS_EmptySet
  <2> QED BY <2>1, <2>2, TallyIs
<1>4. Plus(Tally(Blank, {}), r.hand) = r.hand
  <2>1. \A f \in Faces : Tally(Blank, {})[f] + r.hand[f] = r.hand[f]
    BY <1>1, <1>3
  <2> QED BY <1>1, <2>1 DEF Plus
<1> QED
  BY <1>2, <1>4

\* A reset brings what the hand has more and takes what it has less; a fly of
\* Me's that is open stays as it is.
LEMMA ShowsReset ==
  ASSUME NEW s, Good(s), NEW r, Sound(r), NEW t \in OnReset(s, r)
  PROVE  /\ Good(t) /\ Tally(t, t.id_set) = r.hand
         /\ FlyOpen(r) /\ Within(s, r) => Flown(t, r)
<1> DEFINE here == s.id_set
           fixed(B) == WithCardsRemoved(
                         WithCardsAdded(s, Minus(r.hand, Tally(s, B)), 0), here \ B)
<1>1. OnPage(s) = here /\ IsFiniteSet(here) /\ DOMAIN s = UiFields
      /\ \A i \in here : s.seen[i] \in Faces
  BY OnPageIs DEF Good
<1>2. PICK B \in Both(s, r.hand, here) : t = OnEffect(fixed(B))
  BY <1>1 DEF OnReset
<1>3. r.hand \in [Faces -> Nat] /\ r \in Rounds
  BY DEF Sound
<1>4. /\ B \in SUBSET here /\ Tally(s, B) \in [Faces -> Nat] /\ Tally(s, here) \in [Faces -> Nat]
      /\ \A f \in Faces : Tally(s, B)[f] = Min({r.hand[f], Tally(s, here)[f]})
  <2>1. r.hand \in [Faces -> Int]
    BY <1>3
  <2> QED BY <2>1, BothIs
<1>5. \A f \in Faces : /\ Tally(s, B)[f] <= r.hand[f]
                       /\ Tally(s, here)[f] <= r.hand[f] => Tally(s, B)[f] = Tally(s, here)[f]
  <2> SUFFICES ASSUME NEW f \in Faces
               PROVE  /\ Tally(s, B)[f] <= r.hand[f]
                      /\ Tally(s, here)[f] <= r.hand[f] => Tally(s, B)[f] = Tally(s, here)[f]
    OBVIOUS
  <2>1. r.hand[f] \in Int /\ Tally(s, here)[f] \in Int
    BY <1>3, <1>4
  <2> DEFINE a == r.hand[f]
             b == Tally(s, here)[f]
  <2>2. a \in Int /\ b \in Int /\ Tally(s, B)[f] = Min({a, b})
    BY <1>4, <2>1
  <2> HIDE DEF a, b
  <2>3. Tally(s, B)[f] = IF a <= b THEN a ELSE b
    BY <2>2, MinPair
  <2> QED BY <2>2, <2>3 DEF a, b
<1> DEFINE more == Minus(r.hand, Tally(s, B))
           u == WithCardsAdded(s, more, 0)
           v == WithCardsRemoved(u, here \ B)
<1>6. more \in [Faces -> Nat]
  BY <1>3, <1>4, <1>5, TalliesKeep DEF AtMost
<1> HIDE DEF more
<1>7. /\ Good(u) /\ u.pending_cards = s.pending_cards /\ here \subseteq u.id_set
      /\ Tally(u, u.id_set) = Plus(Tally(s, here), more)
      /\ \A A \in SUBSET here : Tally(u, A) = Tally(s, A)
  BY <1>6, AddedTally
<1>8. /\ Good(v) /\ v.id_set = u.id_set \ (here \ B)
      /\ v.seen = u.seen /\ v.pending_cards = u.pending_cards
  <2> HIDE DEF u
  <2>1. /\ v.id_set = u.id_set \ (here \ B)
        /\ \A f \in UiFields \ (Where \cup {"id_set", "selected", "prev_start", "prev_stop"}) :
             v[f] = u[f]
    BY <1>7, RemovedIs DEF Good
  <2>2. Good(v)
    BY <1>7, RemovedGood
  <2> HIDE DEF v
  <2> QED BY <2>1, <2>2 DEF UiFields, Where
<1>9. t = OnEffect(v)
  BY <1>2 DEF v, u, more
<1>10. Good(t) /\ t.id_set = v.id_set /\ t.seen = v.seen /\ t.pending_cards = v.pending_cards
  <2> HIDE DEF v
  <2> QED BY <1>8, <1>9, OnEffectGood, OnEffectIs DEF UiFields, Good
<1>11. \A A : Tally(t, A) = Tally(u, A)
  <2> HIDE DEF u, v
  <2> QED BY <1>8, <1>10 DEF Tally
<1>12. here \ B \in SUBSET here /\ here \ B \in SUBSET u.id_set
  <2> HIDE DEF u
  <2> QED BY <1>7
<1>13. Tally(t, t.id_set) = Minus(Tally(u, u.id_set), Tally(s, here \ B))
  <2>1. Tally(u, u.id_set \ (here \ B)) = Minus(Tally(u, u.id_set), Tally(u, here \ B))
    <3> HIDE DEF u
    <3> QED BY <1>7, <1>12, RemovedTally
  <2> HIDE DEF u, v
  <2> QED BY <1>7, <1>8, <1>10, <1>11, <1>12, <2>1
<1>14. Tally(s, here \ B) = Minus(Tally(s, here), Tally(s, B))
  BY <1>4, RemovedTally
<1>15. Tally(t, t.id_set) = r.hand
  <2>1. \A f \in Faces : (Tally(s, here)[f] + (r.hand[f] - Tally(s, B)[f]))
                          - (Tally(s, here)[f] - Tally(s, B)[f]) = r.hand[f]
    BY <1>3, <1>4
  <2> HIDE DEF u, v, here
  <2>2. Tally(t, t.id_set)
          = Minus(Plus(Tally(s, here), more), Minus(Tally(s, here), Tally(s, B)))
    BY <1>7, <1>13, <1>14
  <2>3. Tally(t, t.id_set)
          = [f \in Faces |-> (Tally(s, here)[f] + (r.hand[f] - Tally(s, B)[f]))
                                - (Tally(s, here)[f] - Tally(s, B)[f])]
    BY <2>2 DEF Plus, Minus, more
  <2> QED BY <1>3, <2>1, <2>3
<1>16. ASSUME FlyOpen(r), Within(s, r) PROVE Flown(t, r)
  <2>1. B = here
    <3>1. \A f \in Faces : Tally(s, B)[f] = Tally(s, here)[f]
      BY <1>5, <1>16 DEF Within, AtMost
    <3> QED BY <1>1, <1>4, <3>1, TallyAll
  <2>2. s.pending_cards \in SUBSET here /\ Tally(s, s.pending_cards) = r.lead
    BY <1>16 DEF Within, Flown
  <2> HIDE DEF u, v
  <2>3. t.pending_cards = s.pending_cards /\ here \subseteq t.id_set
    BY <1>7, <1>8, <1>10, <2>1
  <2> QED BY <1>7, <1>11, <2>2, <2>3 DEF Flown
<1> QED
  BY <1>10, <1>15, <1>16

-----------------------------------------------------------------------------
(* The cards are the hand in every state *)

Words ==
  /\ Sound(game) /\ Sound(zpy)
  /\ conn = "sync" => Talks(game, zpy, outbox, inbox)
  /\ conn = "pending-reset" =>
       Sound(Head(inbox).state) /\ Leads(Hears, Tail(inbox), Head(inbox).state, game)

\* In sync the page shows the hand.  Without a state, a fly of Me's that the
\* state to come has open is the one the page waits for.
Holds ==
  Live /\ "fly" \notin orphans =>
    /\ conn = "sync" => Shows(ui, zpy, orphans)
    /\ conn = "closed" => (FlyOpen(game) => Within(ui, game))
    /\ conn = "pending-reset" => (FlyOpen(Head(inbox).state) => Within(ui, Head(inbox).state))

CardInv == PageInv /\ Words /\ Holds

LEMMA SyncedKeeps ==
  ASSUME PageInv', conn' = "sync", Talks(game', zpy', outbox', inbox'),
         Live' /\ "fly" \notin orphans' => Shows(ui', zpy', orphans')
  PROVE  CardInv'
<1>1. Sound(game') /\ Sound(zpy')
  BY DEF Talks
<1> QED
  BY <1>1 DEF CardInv, Words, Holds

LEMMA InitCards == Init => CardInv
<1> SUFFICES ASSUME Init PROVE CardInv
  OBVIOUS
<1>1. PageInv
  BY InitPage
<1>2. PICK start \in Starts : game = start.round
  BY DEF Init
<1>3. zpy = game /\ outbox = <<>> /\ inbox = <<>> /\ conn = "sync" /\ ui = Mounted(game)
  BY DEF Init
<1>4. Sound(game)
  <2>1. /\ game \in [phase : {"DRAW", "LEAD"}, host : Seats, leader : Seats,
                  cur : Seats, deck : Int, hand : [Faces -> Nat],
                  consensus : {{}}, winning : Seats, prior : Seats,
                  lead : {Nothing}, play : {Nothing}]
        /\ game.phase = "LEAD" => game.cur = game.leader
    BY <1>2, PlayAreaAssumption
  <2>2. game \in Rounds
    BY <1>1 DEF PageInv, Typed
  <2>3. game.phase # "FLY" /\ game.play = Nothing /\ game.hand \in [Faces -> Nat]
    BY <2>1
  <2> QED BY <2>1, <2>2, <2>3 DEF Sound, FlyOpenFits, FlyOpen
<1>5. Talks(game, game, <<>>, <<>>)
  <2>1. <<>> \in Seq(Messages) /\ Leads(Hears, <<>>, game, game)
    BY LeadsEmpty
  <2> QED BY <1>4, <2>1, TalksReset
<1>6. Shows(ui, game, orphans)
  <2>1. Tally(ui, ui.id_set) = game.hand
    BY <1>3, <1>4, ShowsMounted
  <2>2. AtMost(game.hand, game.hand) /\ ~FlyOpen(game)
    <3>1. game.hand \in [Faces -> Nat]
      BY <1>4 DEF Sound
    <3>2. game.phase # "FLY"
      BY <1>2, PlayAreaAssumption
    <3> QED BY <3>1, <3>2 DEF AtMost, FlyOpen
  <2> QED BY <2>1, <2>2 DEF Shows, Within, Flown
<1> QED
  BY <1>1, <1>3, <1>4, <1>5, <1>6 DEF CardInv, Words, Holds

\* A step of the page that moves no card and sends nothing.
LEMMA ClickHolds ==
  ASSUME CardInv, PageInv', Live, ui'.id_set = ui.id_set, ui'.seen = ui.seen,
         ui'.pending_cards = ui.pending_cards,
         UNCHANGED <<game, zpy, conn, outbox, inbox, orphans>>
  PROVE  CardInv'
<1>1. Words'
  BY DEF CardInv, Words
<1>2. \A r : Within(ui, r) => Within(ui', r)
  BY ShowsStill
<1>3. \A r, lost : Shows(ui, r, lost) => Shows(ui', r, lost)
  BY ShowsStill
<1>4. Holds'
  BY <1>2, <1>3 DEF CardInv, Holds, Live
<1> QED
  BY <1>1, <1>4 DEF CardInv

\* What clicks and keys leave of the page's state.
LEMMA ClickIs ==
  ASSUME PageInv,
         \/ SubmitOffline \/ ClickCard \/ DragCard \/ SelectAll \/ ClickOut \/ KeyReset
         \/ ToggleFullControl \/ ToggleAutoPlay
  PROVE  /\ Live /\ ui'.id_set = ui.id_set /\ ui'.seen = ui.seen
         /\ ui'.pending_cards = ui.pending_cards
         /\ UNCHANGED <<game, zpy, conn, outbox, inbox, orphans>>
<1> DEFINE held == {"id_set", "seen", "pending_cards"}
           Kept(s) == \A f \in held : s[f] = ui[f]
<1>1. Live /\ Good(ui) /\ DOMAIN ui = UiFields /\ OnPage(ui) = ui.id_set /\ Len(ui.staged) \in Nat
  <2>1. Live
    BY DEF SubmitOffline, ClickCard, DragCard, SelectAll, ClickOut, KeyReset, ToggleFullControl,
           ToggleAutoPlay
  <2>2. Good(ui)
    BY <2>1, LiveIs DEF PageInv
  <2> QED BY <2>1, <2>2, OnPageIs DEF Good, Placed
<1>2. held \subseteq UiFields \ Where /\ held \subseteq UiFields \ Marks
  BY DEF UiFields, Where, Marks
<1>3. Kept(ResetPlays(ui))
  BY <1>1, <1>2, ResetPlaysIs DEF Good
<1>4. ASSUME NEW dst \in 0..Len(ui.staged) + 1, NEW id \in ui.id_set
      PROVE  Kept(MoveCards(ui, zpy.phase, dst, id))
  <2>1. \A f \in UiFields \ Where : MoveCards(ui, zpy.phase, dst, id)[f] = ui[f]
    BY <1>1, MoveIs DEF Good
  <2> QED BY <1>2, <2>1
<1>5. Kept(DeselectAll(ui))
  BY <1>1, <1>2, DeselectIs
<1>6. PICK s : Arrange(s) /\ Kept(s)
  <2>1. CASE SubmitOffline
    <3>1. Arrange([ui EXCEPT !.action_pending = TRUE])
      BY <2>1 DEF SubmitOffline, Arrange
    <3>2. Kept([ui EXCEPT !.action_pending = TRUE])
      BY <1>1 DEF UiFields
    <3> QED BY <3>1, <3>2
  <2>2. CASE ClickCard
    <3>1. PICK id \in ui.id_set :
            \/ Arrange(MoveCards(ui, zpy.phase, IF ui.id_to_area[id] = 0 THEN 1 ELSE 0, id))
            \/ Arrange(Toggle(ui, id))
            \/ ui.prev_start # 0 /\ \E s \in Stretch(ui, id) : Arrange(s)
      BY <1>1, <2>2 DEF ClickCard
    <3>2. Kept(MoveCards(ui, zpy.phase, IF ui.id_to_area[id] = 0 THEN 1 ELSE 0, id))
      <4>1. (IF ui.id_to_area[id] = 0 THEN 1 ELSE 0) \in 0..Len(ui.staged) + 1
        BY <1>1
      <4> QED BY <1>4, <4>1
    <3>3. Kept(Toggle(ui, id))
      BY <1>1, <1>2, ToggleIs
    <3>4. ui.prev_start # 0 => \A s \in Stretch(ui, id) : Kept(s)
      BY <1>1, <1>2, StretchIs
    <3> QED BY <3>1, <3>2, <3>3, <3>4
  <2>3. CASE DragCard
    <3>1. PICK id \in ui.id_set, dst \in Shown :
            Arrange(MoveCards(IF id \in ui.selected THEN ui ELSE DeselectAll(ui),
                              zpy.phase, dst, id))
      BY <1>1, <2>3 DEF DragCard
    <3>2. dst \in 0..Len(ui.staged) + 1
      BY <1>1, ShownIs
    <3>3. CASE id \in ui.selected
      BY <1>4, <3>1, <3>2, <3>3
    <3>4. CASE id \notin ui.selected
      <4> DEFINE s == DeselectAll(ui)
      <4>1. Good(s) /\ \A f \in UiFields \ Marks : s[f] = ui[f]
        BY <1>1, DeselectIs
      <4>2. Arrange(MoveCards(s, zpy.phase, dst, id))
        BY <3>1, <3>4
      <4> HIDE DEF s
      <4>3. s.staged = ui.staged /\ s.id_set = ui.id_set
        BY <4>1 DEF UiFields, Marks
      <4>4. \A f \in UiFields \ Where : MoveCards(s, zpy.phase, dst, id)[f] = s[f]
        BY <3>2, <4>1, <4>3, MoveIs DEF Good
      <4>5. Kept(MoveCards(s, zpy.phase, dst, id))
        BY <1>2, <4>1, <4>4
      <4> QED BY <4>2, <4>5
    <3> QED BY <3>3, <3>4
  <2>4. CASE SelectAll
    <3>1. Arrange([ui EXCEPT !.selected = ui.id_set])
      BY <2>4 DEF SelectAll
    <3>2. Kept([ui EXCEPT !.selected = ui.id_set])
      BY <1>1 DEF UiFields
    <3> QED BY <3>1, <3>2
  <2>5. CASE ClickOut
    BY <1>5, <2>5 DEF ClickOut
  <2>6. CASE KeyReset
    BY <1>3, <2>6 DEF KeyReset
  <2>7. CASE ToggleFullControl
    <3> DEFINE u == ResetPlays(ui)
    <3>1. \/ Arrange([u EXCEPT !.full_control = FALSE])
          \/ Arrange([ui EXCEPT !.full_control = TRUE])
      BY <2>7 DEF ToggleFullControl
    <3>2. DOMAIN u = UiFields
      BY <1>1, ResetPlaysIs DEF Good
    <3> HIDE DEF u
    <3>3. \A f \in held : [u EXCEPT !.full_control = FALSE][f] = u[f]
      BY <3>2 DEF UiFields
    <3>4. Kept([u EXCEPT !.full_control = FALSE])
      BY <1>3, <3>3 DEF u
    <3>5. Kept([ui EXCEPT !.full_control = TRUE])
      BY <1>1 DEF UiFields
    <3> QED BY <3>1, <3>4, <3>5
  <2>8. CASE ToggleAutoPlay
    <3> DEFINE b == ~ui.auto_play /\ AllStaged(ui) # {}
    <3>1. Arrange([ui EXCEPT !.auto_play = b])
      BY <2>8 DEF ToggleAutoPlay
    <3> HIDE DEF b
    <3>2. Kept([ui EXCEPT !.auto_play = b])
      BY <1>1 DEF UiFields
    <3> QED BY <3>1, <3>2
  <2> HIDE DEF Kept
  <2> QED BY <2>1, <2>2, <2>3, <2>4, <2>5, <2>6, <2>7, <2>8
<1>7. ui' = s /\ UNCHANGED <<game, zpy, conn, outbox, inbox, orphans>>
  BY <1>6 DEF Arrange, network, timers
<1> QED
  BY <1>1, <1>6, <1>7

\* What an attempt of the user's or of auto-play comes to.
Moved(s, z, o) == o = Outcome(s, z, <<>>) \/ \E i : Planned(s, i) /\ o \in Attempt(s, z, i)

LEMMA SentOne ==
  ASSUME NEW d \in Seq(Intents), NEW i \in Intents
  PROVE  d \o <<>> = d /\ d \o <<i>> = Append(d, i)
  OBVIOUS

LEMMA MovedTalks ==
  ASSUME NEW g, NEW z, NEW out, NEW in, Talks(g, z, out, in), NEW s, NEW o, Moved(s, z, o)
  PROVE  Talks(g, o.zpy, out \o o.sent, in)
<1>1. out \in Seq(Intents)
  BY DEF Talks
<1>2. CASE o = Outcome(s, z, <<>>)
  <2>1. o.zpy = z /\ o.sent = <<>>
    BY <1>2, OutcomeIs
  <2>2. out \o <<>> = out
    BY <1>1
  <2> QED BY <2>1, <2>2
<1>3. ASSUME NEW i, Planned(s, i), o \in Attempt(s, z, i) PROVE Talks(g, o.zpy, out \o o.sent, in)
  <2>1. i \in Intents /\ i.kind # "undo_play"
    BY <1>3 DEF Planned
  <2>2. out \o <<>> = out /\ out \o <<i>> = Append(out, i)
    BY <1>1, <2>1, SentOne
  <2>3. \/ i.kind \notin Predictable /\ o.zpy = z /\ o.sent = <<i>>
        \/ o.zpy = z /\ o.sent = <<>>
        \/ i.kind \in Predictable /\ Legal(z, i) /\ o.zpy = Apply(z, i) /\ o.sent = <<i>>
    <3>1. \/ i.kind \notin Predictable /\ \E u : o = Outcome(u, z, <<i>>)
          \/ \E u : o = Outcome(u, z, <<>>)
          \/ i.kind \in Predictable /\ Legal(z, i) /\ \E u : o = Outcome(u, Apply(z, i), <<i>>)
      BY <1>3, AttemptIs DEF Predictable
    <3> QED BY <3>1, OutcomeIs
  <2> QED BY <2>1, <2>2, <2>3, TalksAsk, TalksPredict
<1> QED
  BY <1>2, <1>3 DEF Moved

LEMMA MovedShows ==
  ASSUME NEW s, Good(s), NEW z, Sound(z), NEW o, Moved(s, z, o), NEW lost, Shows(s, z, lost)
  PROVE  o.ui = Crashed \/ (Good(o.ui) /\ Shows(o.ui, o.zpy, lost))
<1>1. CASE o = Outcome(s, z, <<>>)
  BY <1>1, OutcomeIs
<1>2. CASE \E i : Planned(s, i) /\ o \in Attempt(s, z, i)
  BY <1>2, ShowsAttempt
<1> QED
  BY <1>1, <1>2 DEF Moved

\* The page attempts something in the state z, with s the page before.
LEMMA AttemptHolds ==
  ASSUME PageInv', conn' = "sync", NEW s, Good(s), NEW z, Talks(game', z, outbox, inbox'),
         "fly" \notin orphans' => Shows(s, z, orphans'),
         NEW o, Moved(s, z, o), ui' = o.ui, zpy' = o.zpy, outbox' = outbox \o o.sent
  PROVE  CardInv'
<1>1. Sound(z)
  BY DEF Talks
<1>2. Talks(game', zpy', outbox', inbox')
  BY MovedTalks
<1>3. Live' /\ "fly" \notin orphans' => Shows(ui', zpy', orphans')
  <2>1. Live' => ui' # Crashed
    BY PagesApart DEF Live
  <2> QED BY <1>1, <2>1, MovedShows
<1> QED
  BY <1>2, <1>3, SyncedKeeps

LEMMA UserHolds ==
  ASSUME CardInv, User
  PROVE  CardInv'
<1>1. PageInv' /\ PageInv
  BY UserKeeps DEF CardInv
<1>2. CASE Submit \/ ClickDeck \/ UndoPlay
  <2>1. /\ Live /\ conn = "sync"
        /\ game' = game /\ conn' = conn /\ inbox' = inbox /\ orphans' = orphans
    BY <1>2 DEF Submit, ClickDeck, UndoPlay, Synced, network, timers
  <2>2. Good(ui) /\ Talks(game, zpy, outbox, inbox) /\ zpy \in Rounds /\ DOMAIN ui = UiFields
    BY <1>1, <2>1, LiveIs DEF CardInv, PageInv, Typed, Words, Good
  <2>3. "fly" \notin orphans => Shows(ui, zpy, orphans)
    BY <2>1 DEF CardInv, Holds
  <2>4. ASSUME NEW o, Moved(ui, zpy, o), ui' = o.ui, zpy' = o.zpy, outbox' = outbox \o o.sent
        PROVE  CardInv'
    BY <1>1, <2>1, <2>2, <2>3, <2>4, AttemptHolds
  <2>5. CASE Submit
    <3>1. PICK o \in OnSubmit(ui, zpy) : ui' = o.ui /\ zpy' = o.zpy /\ outbox' = outbox \o o.sent
      BY <2>5 DEF Submit, Take
    <3> DEFINE waits == [ui EXCEPT !.auto_play = TRUE]
    <3>2. o = Outcome(waits, zpy, <<>>) \/ Moved(ui, zpy, o)
      BY <2>2, OnSubmitIs DEF Moved
    <3>3. CASE o = Outcome(waits, zpy, <<>>)
      <4>1. Good(waits)
        BY <2>2, FlagKeeps
      <4>2. \A f \in UiFields \ {"auto_play", "full_control", "action_pending"} : waits[f] = ui[f]
        BY <2>2 DEF UiFields
      <4> HIDE DEF waits
      <4>3. "fly" \notin orphans => Shows(waits, zpy, orphans)
        BY <2>3, <4>2, ShowsFlags
      <4>4. Moved(waits, zpy, o)
        BY <3>3 DEF Moved
      <4> QED BY <1>1, <2>1, <2>2, <3>1, <4>1, <4>3, <4>4, AttemptHolds
    <3> HIDE DEF waits
    <3> QED BY <2>4, <3>1, <3>2, <3>3
  <2>6. CASE ClickDeck
    <3> DEFINE i == Intent("draw_card", Nothing, FALSE, {})
    <3>1. PICK o \in Attempt(ui, zpy, i) : ui' = o.ui /\ zpy' = o.zpy /\ outbox' = outbox \o o.sent
      BY <2>6 DEF ClickDeck, Take
    <3>2. Planned(ui, i)
      BY PlainPlanned DEF Requests, Plays
    <3> HIDE DEF i
    <3>3. Moved(ui, zpy, o)
      BY <3>1, <3>2 DEF Moved
    <3> QED BY <2>4, <3>1, <3>3
  <2>7. CASE UndoPlay
    <3> DEFINE i == Intent("undo_play", zpy.play, FALSE, {})
               waits == [ui EXCEPT !.action_pending = TRUE]
    <3>1. PICK o \in Attempt(ui, zpy, i) : ui' = o.ui /\ zpy' = o.zpy /\ outbox' = outbox \o o.sent
      BY <2>7 DEF UndoPlay, Take
    <3>2. i \in Intents /\ i.kind = "undo_play" /\ i.cards = zpy.play
      <4>1. zpy.play \in [Faces -> Nat]
        BY <2>2 DEF Rounds
      <4> QED BY <4>1 DEF Intent, Intents, Requests
    <3> HIDE DEF i
    <3>3. o = Outcome(waits, zpy, <<i>>)
      BY <3>1, <3>2, AttemptIs DEF Predictable
    <3>4. \A f \in UiFields \ {"auto_play", "full_control", "action_pending"} : waits[f] = ui[f]
      BY <2>2 DEF UiFields
    <3> HIDE DEF waits
    <3>5. ui' = waits /\ zpy' = zpy /\ outbox' = Append(outbox, i)
      <4>1. outbox \in Seq(Intents)
        BY <2>2 DEF Talks
      <4>2. o.ui = waits /\ o.zpy = zpy /\ o.sent = <<i>>
        BY <3>3, OutcomeIs
      <4> QED BY <3>1, <3>2, <4>1, <4>2, SentOne
    <3>6. Talks(game, zpy, Append(outbox, i), inbox)
      BY <2>2, <3>2, TalksAsk DEF Predictable
    <3>7. "fly" \notin orphans => Shows(waits, zpy, orphans)
      BY <2>3, <3>4, ShowsFlags
    <3> QED BY <1>1, <2>1, <3>5, <3>6, <3>7, SyncedKeeps
  <2> QED BY <1>2, <2>5, <2>6, <2>7
<1>3. CASE \/ SubmitOffline \/ ClickCard \/ DragCard \/ SelectAll \/ ClickOut \/ KeyReset
           \/ ToggleFullControl \/ ToggleAutoPlay
  BY <1>1, <1>3, ClickIs, ClickHolds
<1> QED
  BY <1>2, <1>3 DEF User

LEMMA DrawHolds ==
  ASSUME CardInv, NEW page \in {"live", "former"}, Draw(page)
  PROVE  CardInv'
<1> DEFINE i == [Intent("draw_card", Nothing, FALSE, {}) EXCEPT !.page = page]
<1>1. i \in Intents /\ i.kind = "draw_card"
  BY NothingIs DEF Intent, Intents, Requests, Nothing
<1> HIDE DEF i
<1>2. /\ ui' = ui \/ (Live /\ ui' = [ui EXCEPT !.action_pending = TRUE])
      /\ outbox' = outbox \/ (conn = "sync" /\ outbox' = Append(outbox, i))
      /\ UNCHANGED <<game, zpy, conn, inbox, orphans>>
  BY DEF Draw, network, i
<1>3. PageInv' /\ PageInv
  BY DrawKeeps DEF CardInv
<1>4. /\ ui'.id_set = ui.id_set /\ ui'.seen = ui.seen /\ ui'.pending_cards = ui.pending_cards
      /\ Live' => Live
  <2>1. CASE ui' = ui
    BY <2>1 DEF Live
  <2>2. CASE Live /\ ui' = [ui EXCEPT !.action_pending = TRUE]
    <3>1. DOMAIN ui = UiFields
      BY <1>3, <2>2, LiveIs DEF PageInv, Good
    <3> QED BY <2>2, <3>1 DEF UiFields
  <2> QED BY <1>2, <2>1, <2>2
<1>5. conn = "sync" => Talks(game, zpy, outbox', inbox)
  <2>1. conn = "sync" => Talks(game, zpy, outbox, inbox)
    BY DEF CardInv, Words
  <2>2. i.kind \notin Predictable /\ i.kind # "undo_play"
    BY <1>1 DEF Predictable
  <2>3. conn = "sync" => Talks(game, zpy, Append(outbox, i), inbox)
    BY <1>1, <2>1, <2>2, TalksAsk
  <2> QED BY <1>2, <2>1, <2>3
<1>6. Words'
  BY <1>2, <1>5 DEF CardInv, Words
<1>7. \A r, lost : /\ Within(ui, r) => Within(ui', r)
                   /\ Shows(ui, r, lost) => Shows(ui', r, lost)
  BY <1>4, ShowsStill
<1>8. Holds'
  BY <1>2, <1>4, <1>7 DEF CardInv, Holds
<1> QED
  BY <1>3, <1>6, <1>8 DEF CardInv

LEMMA UnmountHolds ==
  ASSUME CardInv, Unmount
  PROVE  CardInv'
<1>1. PageInv'
  BY UnmountKeeps DEF CardInv
<1>2. ~Live' /\ UNCHANGED <<game, zpy, conn, outbox, inbox>>
  BY PagesApart DEF Unmount, network, Live
<1> QED
  BY <1>1, <1>2 DEF CardInv, Words, Holds

\* A fly that is open when the connection goes is open on the page.
LEMMA LoseHolds ==
  ASSUME CardInv, Lose
  PROVE  CardInv'
<1>1. PageInv' /\ PageInv
  BY LoseKeeps DEF CardInv
<1>2. /\ conn \in {"sync", "pending-reset"} /\ conn' = "closed"
      /\ UNCHANGED <<game, zpy, ui, orphans>>
  BY <1>1 DEF Lose, timers, PageInv, Wires
<1>3. Words'
  BY <1>2 DEF CardInv, Words
<1>4. ASSUME Live, "fly" \notin orphans, FlyOpen(game) PROVE Within(ui, game)
  <2>1. CASE conn = "sync"
    <3>1. Talks(game, zpy, outbox, inbox) /\ Shows(ui, zpy, orphans)
      BY <1>4, <2>1 DEF CardInv, Words, Holds
    <3>2. ~Bold(outbox)
      <4>1. ~MyTurn(game)
        BY <1>4 DEF FlyOpen, MyTurn
      <4> QED BY <3>1, <4>1, MakesTurn DEF Talks
    <3>3. Leads(Hears, inbox, zpy, game) /\ Sound(zpy) /\ inbox \in Seq(Messages)
      BY <3>1, <3>2 DEF Talks
    <3>4. FlyOpen(zpy) /\ game.lead = zpy.lead /\ game.hand = zpy.hand
      BY <1>4, <3>3, HearsBack
    <3> QED BY <3>1, <3>4, ShowsRound DEF Shows
  <2>2. CASE conn = "pending-reset"
    <3> DEFINE r == Head(inbox).state
    <3>1. /\ Sound(r) /\ Leads(Hears, Tail(inbox), r, game)
          /\ FlyOpen(r) => Within(ui, r)
      BY <1>4, <2>2 DEF CardInv, Words, Holds
    <3>2. Tail(inbox) \in Seq(Messages)
      BY <1>1, <2>2, TailIs DEF PageInv, Typed, Wires
    <3> HIDE DEF r
    <3>3. FlyOpen(r) /\ game.lead = r.lead /\ game.hand = r.hand
      BY <1>4, <3>1, <3>2, HearsBack
    <3> QED BY <3>1, <3>3, ShowsRound
  <2> QED BY <1>2, <2>1, <2>2
<1>5. Holds'
  BY <1>2, <1>4 DEF Holds, Live
<1> QED
  BY <1>1, <1>3, <1>5 DEF CardInv

LEMMA ReconnectHolds ==
  ASSUME CardInv, Reconnect
  PROVE  CardInv'
<1> DEFINE m == Reset(game)
<1>1. PageInv' /\ m.state = game
  BY ReconnectKeeps DEF CardInv, Reset
<1> HIDE DEF m
<1>2. /\ conn = "closed" /\ conn' = "pending-reset" /\ inbox' = <<m>>
      /\ UNCHANGED <<game, zpy, ui, orphans>>
  BY DEF Reconnect, timers, m
<1>3. Head(inbox') = m /\ Tail(inbox') = <<>>
  BY <1>2
<1>4. Leads(Hears, <<>>, game, game)
  BY LeadsEmpty
<1>5. Words'
  BY <1>1, <1>2, <1>3, <1>4 DEF CardInv, Words
<1>6. Holds'
  BY <1>1, <1>2, <1>3 DEF CardInv, Holds, Live
<1> QED
  BY <1>1, <1>5, <1>6 DEF CardInv

LEMMA ServeHolds ==
  ASSUME CardInv, Serve
  PROVE  CardInv'
<1> DEFINE i == Head(outbox)
<1>1. PageInv' /\ PageInv
  BY ServeKeeps DEF CardInv
<1>2. /\ outbox # <<>> /\ outbox' = Tail(outbox) /\ UNCHANGED <<zpy, conn, ui, orphans>>
      /\ conn = "sync"
  BY <1>1 DEF Serve, timers, PageInv, Wires
<1>3. Talks(game, zpy, outbox, inbox)
  BY <1>2 DEF CardInv, Words
<1>4. "fly" \notin orphans /\ Live => Shows(ui, zpy, orphans)
  BY <1>2 DEF CardInv, Holds
<1>5. \/ \E e \in Effects(game, i) :
           /\ game' = Apply(game, e)
           /\ inbox' = IF i.kind \in Predictable THEN inbox ELSE Append(inbox, Update(e, i))
      \/ /\ Effects(game, i) = {} \/ i.kind = "contest_fly"
         /\ game' = game /\ inbox' = Append(inbox, Reject(i))
  BY DEF Serve
<1>6. Talks(game', zpy, Tail(outbox), inbox')
  <2>1. ASSUME NEW e \in Effects(game, i), game' = Apply(game, e),
               inbox' = IF i.kind \in Predictable THEN inbox ELSE Append(inbox, Update(e, i))
        PROVE  Talks(game', zpy, Tail(outbox), inbox')
    <3>1. CASE i.kind \in Predictable
      BY <1>2, <1>3, <2>1, <3>1, TalksMade
    <3>2. CASE i.kind \notin Predictable
      BY <1>2, <1>3, <2>1, <3>2, TalksAnswer
    <3> QED BY <3>1, <3>2
  <2>2. CASE /\ Effects(game, i) = {} \/ i.kind = "contest_fly"
             /\ game' = game /\ inbox' = Append(inbox, Reject(i))
    BY <1>2, <1>3, <2>2, TalksRefuse
  <2> HIDE DEF i
  <2> QED BY <1>5, <2>1, <2>2
<1> HIDE DEF i
<1>7. Live' => Live
  BY <1>2 DEF Live
<1> QED
  BY <1>1, <1>2, <1>4, <1>6, <1>7, SyncedKeeps

LEMMA OtherSeatHolds ==
  ASSUME CardInv, OtherSeat
  PROVE  CardInv'
<1> DEFINE sent(e) == /\ game' = Apply(game, e)
                      /\ inbox' = IF conn = "closed" THEN inbox ELSE Append(inbox, Update(e, NoTx))
<1>1. PageInv' /\ PageInv
  BY OtherSeatKeeps DEF CardInv
<1>2. UNCHANGED <<zpy, conn, outbox, ui, orphans>>
  BY DEF OtherSeat, timers
<1>3. PICK p \in Seats \ {Me} : \E i \in Wishes(game, p) : \E e \in Effects(game, i) : sent(e)
  BY DEF OtherSeat
<1>4. PICK i \in Wishes(game, p) : \E e \in Effects(game, i) : sent(e)
  BY <1>3
<1>5. PICK e \in Effects(game, i) : sent(e)
  BY <1>4
<1> DEFINE m == Update(e, NoTx)
<1>6. Sound(game) /\ Sound(zpy)
  BY DEF CardInv, Words
<1>7. /\ Told(e) /\ Legal(game, e) /\ ~Foretold(e) /\ Sound(game') /\ m \in Messages
      /\ <<game, m, game'>> \in Hears
  BY <1>5, <1>6, TheirEffect
<1>8. Live' <=> Live
  BY <1>2 DEF Live
<1>9. conn \in {"sync", "pending-reset", "closed"} /\ inbox \in Seq(Messages)
  BY <1>1 DEF PageInv, Typed, Wires
<1>10. CASE conn = "sync"
  <2>1. Talks(game, zpy, outbox, inbox)
    BY <1>10 DEF CardInv, Words
  <2>2. game' = Apply(game, e) /\ inbox' = Append(inbox, m)
    BY <1>5, <1>10
  <2>3. Talks(game', zpy, outbox, inbox')
    BY <2>1, <2>2, TalksOther
  <2>4. Live /\ "fly" \notin orphans => Shows(ui, zpy, orphans)
    BY <1>10 DEF CardInv, Holds
  <2> QED BY <1>1, <1>2, <1>8, <1>10, <2>3, <2>4, SyncedKeeps
<1>11. CASE conn = "pending-reset"
  <2> DEFINE r == Head(inbox).state
  <2>1. /\ Sound(r) /\ Leads(Hears, Tail(inbox), r, game)
        /\ Live /\ "fly" \notin orphans => (FlyOpen(r) => Within(ui, r))
    BY <1>11 DEF CardInv, Words, Holds
  <2>2. inbox # <<>>
    BY <1>1, <1>11 DEF PageInv, Wires
  <2> HIDE DEF m
  <2>3. inbox' = Append(inbox, m)
    BY <1>5, <1>11 DEF m
  <2>4. /\ Tail(inbox') = Append(Tail(inbox), m) /\ Head(inbox') = Head(inbox)
        /\ Tail(inbox) \in Seq(Messages)
    <3>1. Tail(Append(inbox, m)) = Append(Tail(inbox), m) /\ Append(inbox, m)[1] = inbox[1]
      BY <1>7, <1>9, <2>2, TailAppend
    <3>2. /\ Head(inbox) = inbox[1] /\ Tail(inbox) \in Seq(Messages)
          /\ Append(inbox, m) \in Seq(Messages) /\ Append(inbox, m) # <<>>
      BY <1>7, <1>9, <2>2, TailIs, AppendIs
    <3>3. Head(Append(inbox, m)) = Append(inbox, m)[1]
      BY <3>2, TailIs
    <3> QED BY <2>3, <3>1, <3>2, <3>3
  <2> HIDE DEF r
  <2>5. Leads(Hears, Tail(inbox'), r, game')
    BY <1>7, <2>1, <2>4, LeadsAppend
  <2>6. Head(inbox').state = r
    BY <2>4 DEF r
  <2>7. Words'
    BY <1>2, <1>6, <1>7, <1>11, <2>1, <2>5, <2>6 DEF Words
  <2>8. Holds'
    BY <1>2, <1>8, <1>11, <2>1, <2>6 DEF Holds
  <2> QED BY <1>1, <2>7, <2>8 DEF CardInv
<1>12. CASE conn = "closed"
  <2>1. Words'
    BY <1>2, <1>6, <1>7, <1>12 DEF Words
  <2>2. ASSUME Live, "fly" \notin orphans, FlyOpen(game') PROVE Within(ui, game')
    <3>1. FlyOpen(game) /\ game'.lead = game.lead /\ game'.hand = game.hand
      BY <1>5, <1>6, <1>7, <2>2, FlyBack
    <3>2. Within(ui, game)
      BY <1>12, <2>2, <3>1 DEF CardInv, Holds
    <3> QED BY <3>1, <3>2, ShowsRound
  <2>3. Holds'
    BY <1>2, <1>8, <1>12, <2>2 DEF Holds
  <2> QED BY <1>1, <2>1, <2>3 DEF CardInv
<1> QED
  BY <1>9, <1>10, <1>11, <1>12

LEMMA DeliverHolds ==
  ASSUME CardInv, Deliver
  PROVE  CardInv'
<1> DEFINE m == Head(inbox)
<1>1. PageInv' /\ PageInv
  BY DeliverKeeps DEF CardInv
<1>2. /\ inbox # <<>> /\ inbox' = Tail(inbox) /\ game' = game /\ ui.page # "crashed"
      /\ TakeReset \/ TakeUpdate \/ TakeReject
  BY DEF Deliver
<1>3. (Live => Good(ui)) /\ (Live \/ ui = Unmounted)
  BY <1>1, <1>2, LiveIs DEF PageInv
<1>4. /\ Sound(game) /\ Sound(zpy) /\ inbox \in Seq(Messages)
      /\ conn = "closed" => inbox = <<>>
      /\ conn = "pending-reset" => m.verb = "reset"
      /\ conn \in {"sync", "closed", "pending-reset"}
  BY <1>1 DEF CardInv, Words, PageInv, Typed, Wires
<1>5. CASE conn = "pending-reset"
  <2> DEFINE r == m.state
  <2>1. TakeReset
    BY <1>2, <1>4, <1>5 DEF TakeUpdate, TakeReject
  <2>2. /\ Sound(r) /\ Leads(Hears, Tail(inbox), r, game)
        /\ Live /\ "fly" \notin orphans => (FlyOpen(r) => Within(ui, r))
    BY <1>5 DEF CardInv, Words, Holds
  <2>3. PICK s \in IF Live THEN OnReset(ui, r) ELSE {Mounted(r)} : Take(TryAutoPlay(s, r))
    BY <2>1 DEF TakeReset
  <2>4. conn' = "sync" /\ orphans' = (IF FlyOpen(r) /\ (~Live \/ "fly" \in orphans) THEN {"fly"} ELSE {})
    BY <2>1 DEF TakeReset
  <2>5. outbox = <<>> /\ Tail(inbox) \in Seq(Messages)
    BY <1>1, <1>2, <1>4, <1>5, TailIs DEF PageInv, Wires
  <2>6. Talks(game', r, outbox, inbox')
    BY <1>2, <1>4, <2>2, <2>5, TalksReset
  <2> HIDE DEF r
  <2>7. /\ Good(s) /\ Tally(s, s.id_set) = r.hand
        /\ Live /\ FlyOpen(r) /\ Within(ui, r) => Flown(s, r)
    <3>1. CASE Live
      BY <1>3, <2>2, <2>3, <3>1, ShowsReset
    <3>2. CASE ~Live
      BY <2>2, <2>3, <3>2, ShowsMounted
    <3> QED BY <3>1, <3>2
  <2>8. "fly" \notin orphans' => Shows(s, r, orphans')
    <3>1. SUFFICES ASSUME "fly" \notin orphans' PROVE Shows(s, r, orphans')
      OBVIOUS
    <3>2. AtMost(r.hand, r.hand)
      <4>1. r.hand \in [Faces -> Nat]
        BY <2>2 DEF Sound
      <4> QED BY <4>1 DEF AtMost
    <3>3. Flown(s, r)
      <4>1. CASE FlyOpen(r)
        BY <2>2, <2>4, <2>7, <3>1, <4>1
      <4>2. CASE ~FlyOpen(r)
        BY <4>2 DEF Flown
      <4> QED BY <4>1, <4>2
    <3> QED BY <2>7, <3>2, <3>3 DEF Shows, Within
  <2>9. PICK o \in TryAutoPlay(s, r) : ui' = o.ui /\ zpy' = o.zpy /\ outbox' = outbox \o o.sent
    BY <2>3 DEF Take
  <2>10. Moved(s, r, o)
    BY <2>7, TryAutoPlayIs DEF Moved
  <2> QED BY <1>1, <2>4, <2>6, <2>7, <2>8, <2>9, <2>10, AttemptHolds
<1>6. CASE conn = "sync"
  <2>1. Talks(game, zpy, outbox, inbox)
    BY <1>6 DEF CardInv, Words
  <2>2. Live /\ Good(ui)
    BY <1>1, <1>3, <1>6 DEF PageInv, Wires
  <2>3. "fly" \notin orphans => Shows(ui, zpy, orphans)
    BY <1>6, <2>2 DEF CardInv, Holds
  <2>4. \/ m.verb = "reject" /\ Talks(game, zpy, outbox, Tail(inbox))
        \/ /\ m.verb = "update" /\ Heard(zpy, m, Apply(zpy, m.effect))
           /\ m.effect \in Happenings /\ m.tx \in Intents \cup {NoTx}
           /\ Told(m.effect) /\ Legal(zpy, m.effect) /\ ~Foretold(m.effect) /\ Modest(m.effect)
           /\ Talks(game, Apply(zpy, m.effect), outbox, Tail(inbox))
    BY <1>2, <2>1, TalksHear
  <2>5. CASE m.verb = "reject" /\ Talks(game, zpy, outbox, Tail(inbox))
    <3> DEFINE s == IF m.tx.page = "live" THEN OnEffect(ui) ELSE ui
    <3>1. TakeReject
      BY <1>2, <2>5 DEF TakeReset, TakeUpdate
    <3>2. Take(Idle(s, zpy)) /\ UNCHANGED <<conn, orphans>>
      BY <3>1 DEF TakeReject
    <3>3. Good(s) /\ ("fly" \notin orphans => Shows(s, zpy, orphans))
      BY <2>2, <2>3, OnEffectGood, ShowsEffect
    <3> HIDE DEF s
    <3>4. PICK o \in Idle(s, zpy) : ui' = o.ui /\ zpy' = o.zpy /\ outbox' = outbox \o o.sent
      BY <3>2 DEF Take
    <3>5. Moved(s, zpy, o)
      BY <3>4 DEF Idle, Outcome, Moved
    <3> QED BY <1>1, <1>2, <1>6, <2>5, <3>2, <3>3, <3>4, <3>5, AttemptHolds
  <2>6. CASE m.verb = "update"
    <3> DEFINE e == m.effect
               z == Apply(zpy, e)
               lost == IF m.tx # NoTx /\ m.tx.page = "former"
                       THEN orphans \union {"draw"} ELSE orphans
    <3>1. TakeUpdate
      BY <1>2, <2>6 DEF TakeReset, TakeReject
    <3>2. conn' = conn /\ orphans' = lost
      BY <3>1 DEF TakeUpdate
    <3>3. PICK t \in OnUpdate(ui, z, e) :
            IF m.tx = NoTx
            THEN IF e.kind = "follow_lead" THEN Take(TryAutoPlay(t, z)) ELSE Take(Idle(t, z))
            ELSE Take(Idle(OnAnswer(t, e, m.tx), z))
      BY <3>1, Zenon DEF TakeUpdate
    <3>4. /\ Heard(zpy, m, z) /\ e \in Happenings /\ m.tx \in Intents \cup {NoTx}
          /\ Told(e) /\ Legal(zpy, e) /\ ~Foretold(e) /\ Modest(e)
          /\ Talks(game, z, outbox, Tail(inbox))
      BY <2>4, <2>6
    <3>5. /\ m.tx = NoTx => Theirs(e)
          /\ m.tx # NoTx => m.tx \in Intents /\ Answers(zpy, e, m.tx)
      BY <2>6, <3>4 DEF Heard
    <3> HIDE DEF e, m
    <3>6. Good(t)
      BY <2>2, <3>3, OnUpdateGood
    <3>7. CASE m.tx = NoTx
      <4>1. orphans' = orphans
        BY <3>2, <3>7
      <4>2. "fly" \notin orphans => Shows(t, z, orphans)
        BY <1>4, <2>2, <2>3, <3>3, <3>4, <3>5, <3>7, ShowsTheirs
      <4> HIDE DEF z
      <4>3. Take(TryAutoPlay(t, z)) \/ Take(Idle(t, z))
        BY <3>3, <3>7
      <4>4. PICK o \in TryAutoPlay(t, z) \cup Idle(t, z) :
              ui' = o.ui /\ zpy' = o.zpy /\ outbox' = outbox \o o.sent
        BY <4>3 DEF Take
      <4>5. Moved(t, z, o)
        <5>1. o \in Idle(t, z) => o = Outcome(t, z, <<>>)
          BY DEF Idle, Outcome
        <5> QED BY <3>6, <4>4, <5>1, TryAutoPlayIs DEF Moved
      <4> QED BY <1>1, <1>2, <1>6, <3>2, <3>4, <3>6, <4>1, <4>2, <4>4, <4>5, AttemptHolds
    <3>8. CASE m.tx # NoTx
      <4> DEFINE u == OnAnswer(t, e, m.tx)
      <4>1. orphans' = Lost(orphans, m.tx)
        BY <3>2, <3>8 DEF Lost
      <4>2. "fly" \notin orphans' => "fly" \notin orphans
        BY <4>1 DEF Lost
      <4>3. Good(u)
        BY <3>4, <3>5, <3>6, <3>8, OnAnswerGood
      <4>4. "fly" \notin orphans' => Shows(u, z, orphans')
        BY <1>4, <2>2, <2>3, <3>3, <3>4, <3>5, <3>8, <4>1, <4>2, ShowsAnswer
      <4>5. Take(Idle(u, z))
        BY <3>3, <3>8
      <4> HIDE DEF u, z
      <4>6. PICK o \in Idle(u, z) : ui' = o.ui /\ zpy' = o.zpy /\ outbox' = outbox \o o.sent
        BY <4>5 DEF Take
      <4>7. Moved(u, z, o)
        BY <4>6 DEF Idle, Outcome, Moved
      <4> QED BY <1>1, <1>2, <1>6, <3>2, <3>4, <4>3, <4>4, <4>6, <4>7, AttemptHolds
    <3> QED BY <3>7, <3>8
  <2> QED BY <2>4, <2>5, <2>6
<1> QED
  BY <1>2, <1>4, <1>5, <1>6

LEMMA NextHolds ==
  ASSUME CardInv, [Next]_vars
  PROVE  CardInv'
<1>1. CASE Next
  <2>1. CASE User
    BY <2>1, UserHolds
  <2>2. CASE \E page \in {"live", "former"} : Draw(page)
    BY <2>2, DrawHolds
  <2>3. CASE Unmount \/ Lose \/ Reconnect
    BY <2>3, UnmountHolds, LoseHolds, ReconnectHolds
  <2>4. CASE Serve \/ OtherSeat \/ Deliver
    BY <2>4, ServeHolds, OtherSeatHolds, DeliverHolds
  <2> QED BY <1>1, <2>1, <2>2, <2>3, <2>4 DEF Next
<1>2. CASE UNCHANGED vars
  <2>1. PageInv'
    BY <1>2, NextKeeps DEF CardInv
  <2>2. Words' /\ Holds'
    BY <1>2 DEF vars, CardInv, Words, Holds, Live
  <2> QED BY <2>1, <2>2 DEF CardInv
<1> QED
  BY <1>1, <1>2

LEMMA CardsAlways == Spec => []CardInv
<1> QED
  BY InitCards, NextHolds, PTL DEF Spec

LEMMA CardsAreHand == CardInv => AreasAreHand
<1> SUFFICES ASSUME CardInv, Synced, orphans = {} PROVE Tally(ui, OnPage(ui)) = zpy.hand
  BY DEF AreasAreHand
<1>1. conn = "sync" /\ Live
  BY DEF Synced
<1>2. OnPage(ui) = ui.id_set
  BY <1>1, LiveIs, OnPageIs DEF CardInv, PageInv, Good
<1>3. Shows(ui, zpy, orphans)
  BY <1>1 DEF CardInv, Holds
<1> QED
  BY <1>2, <1>3 DEF Shows

\* While the page is in sync its cards are, face by face, the hand of the round
\* it shows (PlayArea.tsx): draws and the kitty come, predicted plays go, a
\* fly's cards stay until the server's answer has decided it, an undo brings
\* back what was played, and the reset after a lost connection sets right
\* what the page has missed.
THEOREM AreasAreHandAlways == Spec => []AreasAreHand
<1> QED
  BY CardsAlways, CardsAreHand, PTL
=============================================================================
