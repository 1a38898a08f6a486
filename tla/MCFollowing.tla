---------------------------- MODULE MCFollowing ----------------------------
(* Instances of Following: small decks, and every hand of a size from some of
   their cards. *)
EXTENDS Following

Card(s, r) == [suit |-> s, rank |-> r]

\* The hands of `size` cards made from up to n copies of each of the cards.
HandsOf(cards, n, size) ==
  {p \in {[c \in StdDeck |-> IF c \in cards THEN q[c] ELSE 0] : q \in [cards -> 0..n]} :
     Size(p) = size}

\* Spades are led, hearts are trump on rank 2.
HeartsOnTwo == [suit |-> "H", rank |-> 2]
PlainCards == {Card("S", 3), Card("S", 4), Card("S", 5), Card("H", 3), Card("H", 4)}
SpadesPile(n) == [c \in StdDeck |-> IF c \in PlainCards /\ c.suit = "S" THEN n ELSE 0]
Plain ==
  [tr    |-> HeartsOnTwo,
   hands |-> HandsOf(PlainCards, 3, 5),
   leads |-> {f \in FlightsIn(HeartsOnTwo, SpadesPile(3), "S", 2) :
                Count(f) \in 2..5 /\ f.tractors[1].rank = 3}]

\* Spades are trump on rank ace, so that kings run through the off-suit
\* natural trumps of two suits to the ace of spades.
SpadesOnAces == [suit |-> "S", rank |-> 14]
OsntCards == {Card("S", 12), Card("S", 13), Card("C", 14), Card("D", 14), Card("S", 14)}
OsntPile == [c \in StdDeck |-> IF c \in OsntCards THEN 2 ELSE 0]
Osnt ==
  [tr    |-> SpadesOnAces,
   hands |-> HandsOf(OsntCards, 2, 5),
   leads |-> {f \in FlightsIn(SpadesOnAces, OsntPile, "T", 2) :
                Shapes(f) \in {<<<<2, 1>>>>, <<<<2, 2>>>>}}]

BothDeck == PlainCards \cup OsntCards
BothRounds == {Plain, Osnt}

\* Four decks: a (2,4)-tractor is led and the hand has five separate pairs.
QuadDeck == {Card("S", r) : r \in {3, 4, 6, 8, 10, 12, 14}}
QuadRounds ==
  {[tr    |-> HeartsOnTwo,
    hands |-> {[c \in QuadDeck |-> IF c.rank \in {3, 4} THEN 0 ELSE 2]},
    leads |-> {Flight(HeartsOnTwo, <<[len |-> 2, arity |-> 4, suit |-> "S", rank |-> 3,
                                      osnt |-> NULL]>>)}]}

\* Four decks: tens and jacks paired with threes are led, and the hand has
\* tens, jacks and queens in pairs.
TieDeck == {Card("S", r) : r \in {3, 10, 11, 12}}
TieRounds ==
  {[tr    |-> HeartsOnTwo,
    hands |-> HandsOf(TieDeck, 2, 6),
    leads |-> {f \in FlightsIn(HeartsOnTwo, [c \in StdDeck |-> 2], "S", 2) : Count(f) = 6}]}
=============================================================================
