------------------------------- MODULE Cards -------------------------------
(***************************************************************************)
(* The card algebra of src/lib/zpy/cards.ts: physical cards, the trump     *)
(* selection that virtualises them, and piles as counts per card.          *)
(*                                                                         *)
(* A card is a record [suit, rank]; a virtual card is one too, whose suit  *)
(* "T" also holds the trump suit and the natural trumps.  CardPile keeps   *)
(* an array of counts; here a pile is the function from cards to counts    *)
(* that array stands for, whatever the trump it is hashed under.           *)
(***************************************************************************)
EXTENDS Integers, Sequences, FiniteSets, Functions

CONSTANTS
  StdDeck,   \* the cards of one deck (gen_deck: each of them exactly once)
  NULL       \* the source's null / undefined

Suits == {"C", "D", "S", "H", "T"}
SuitIdx == [s \in Suits |-> CASE s = "C" -> 0 [] s = "D" -> 1 [] s = "S" -> 2
                              [] s = "H" -> 3 [] s = "T" -> 4]

\* enum Rank; 2..10 are themselves, the natural trumps are virtual ranks only
RankJ == 11
RankK == 13
RankA == 14
NOff  == 15
NOn   == 16
Small == 17
Big   == 18

\* CardBase.validate: suit "T" is for jokers and jokers only.
IsCard(c) == \/ c.suit \in Suits \ {"T"} /\ c.rank \in 2..RankA
             \/ c.suit = "T" /\ c.rank \in {Small, Big}

ASSUME StdDeckAssumption == IsFiniteSet(StdDeck) /\ \A c \in StdDeck : IsCard(c)

PointValue(c) == CASE c.rank = 5 -> 5 [] c.rank \in {10, RankK} -> 10 [] OTHER -> 0

\* Trump selections: a suit and a rank; suit "T" means natural trumps only,
\* rank Big means jokers only.
TrumpMeta == [suit : Suits, rank : (2..RankA) \cup {Big}]
JokersOnly == [suit |-> "T", rank |-> Big]

-----------------------------------------------------------------------------
(* TrumpMeta *)

Virt(tr, c) ==
  LET natural == c.rank = tr.rank /\ tr.rank <= RankA
  IN  [suit |-> IF c.suit = tr.suit \/ natural THEN "T" ELSE c.suit,
       rank |-> IF ~natural THEN c.rank ELSE IF c.suit = tr.suit THEN NOn ELSE NOff]

VSuit(tr, c) == Virt(tr, c).suit
VRank(tr, c) == Virt(tr, c).rank

Devirt(tr, suit, rank, osnt) ==
  CASE rank = NOff -> [suit |-> osnt, rank |-> tr.rank]
    [] rank = NOn  -> [suit |-> tr.suit, rank |-> tr.rank]
    [] OTHER -> [suit |-> IF suit = "T" /\ rank < Small THEN tr.suit ELSE suit,
                 rank |-> rank]

\* inc_rank iterated i times: the trump rank is stepped over once.
IncBy(tr, rank, i) ==
  IF tr.rank <= RankA /\ rank < tr.rank /\ rank + i >= tr.rank
  THEN rank + i + 1
  ELSE rank + i

\* Card.compare on virtual cards: NULL for two different plain suits.
Sign(n) == CASE n > 0 -> 1 [] n < 0 -> -1 [] OTHER -> 0
Compare(l, r) == CASE l.suit = r.suit -> Sign(l.rank - r.rank)
                   [] l.suit # r.suit /\ l.suit = "T" -> 1
                   [] l.suit # r.suit /\ r.suit = "T" -> -1
                   [] OTHER -> NULL

-----------------------------------------------------------------------------
(* CardPile *)

Piles == [StdDeck -> Nat]
EmptyPile == [c \in StdDeck |-> 0]

PileOf(seq) == [c \in StdDeck |-> Cardinality({i \in DOMAIN seq : seq[i] = c})]

Size(pile) == SumFunctionOnSet(pile, StdDeck)
SuitCount(tr, pile, suit) ==
  SumFunctionOnSet(pile, {c \in StdDeck : VSuit(tr, c) = suit})
PilePoints(pile) == SumFunction([c \in StdDeck |-> pile[c] * PointValue(c)])

Contains(pile, other) == \A c \in StdDeck : other[c] \in 0..pile[c]
AddPile(pile, other) == [c \in StdDeck |-> pile[c] + other[c]]
TakePile(pile, other) == [c \in StdDeck |-> pile[c] - other[c]]

\* Every sub-pile of exactly n cards; a token is one physical card.
Tokens(pile) == UNION {{c} \X (1..pile[c]) : c \in StdDeck}
TokenPile(T) == [c \in StdDeck |-> Cardinality({t \in T : t[1] = c})]
SubPiles(pile, n) ==
  {TokenPile(T) : T \in {U \in SUBSET Tokens(pile) : Cardinality(U) = n}}
=============================================================================
