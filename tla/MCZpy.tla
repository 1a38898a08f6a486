------------------------------- MODULE MCZpy -------------------------------
(***************************************************************************)
(* Small tables for Zpy: decks of a few cards, chosen shuffles, and the    *)
(* choices the users make.                                                 *)
(***************************************************************************)
EXTENDS ZpyProps

CONSTANTS u1, u2, u3, u4, u5, u6

Card(s, r) == [suit |-> s, rank |-> r]
ThreeSeated == <<u1, u2, u3>>
FourSeated == <<u1, u2, u3, u4>>
SixSeated == <<u1, u2, u3, u4, u5, u6>>
Nobody == <<>>
Anyone == Permutations(Users)

\* A shuffle of n decks of the cards of a sequence, each card's copies apart or
\* together.
Rounds(seq, n) == [i \in 1..(n * Len(seq)) |-> seq[((i - 1) % Len(seq)) + 1]]
Runs(seq, n)   == [i \in 1..(n * Len(seq)) |-> seq[((i - 1) \div n) + 1]]

\* Two decks of six cards for three players: a kitty of three, hands of three.
TrickDeck == {Card("S", 3), Card("S", 4), Card("S", 5), Card("H", 5), Card("H", 6), Card("H", 13)}
TrickSeq == <<Card("H", 6), Card("S", 3), Card("S", 4), Card("H", 5), Card("H", 13), Card("S", 5)>>
TrickShuffles == [n \in {2} |-> {Rounds(TrickSeq, 2), Runs(TrickSeq, 2)}]

\* Three decks of five cards for six players, two of them called as friends: a
\* kitty of three, hands of two.
FriendDeck == {Card("S", 3), Card("S", 4), Card("S", 5), Card("H", 6), Card("H", 7)}
FriendSeq == <<Card("S", 3), Card("H", 7), Card("S", 4), Card("H", 6), Card("S", 5)>>
FriendShuffles == [n \in {3} |-> {Rounds(FriendSeq, 3)}]

\* One deck of five cards for three or four players: hands of one.
LobbyDeck == {Card("S", r) : r \in 3..7}
LobbySeq == <<Card("S", 3), Card("S", 4), Card("S", 5), Card("S", 6), Card("S", 7)>>
LobbyShuffles == [n \in {1} |-> {Rounds(LobbySeq, 1)}]

\* One deck of seven cards for three players, hands of two, or four, hands of
\* one: flies of two singles.
FlyDeck == {Card("S", r) : r \in 2..6} \cup {Card("H", 3), Card("H", 4)}
FlySeq == <<Card("S", 3), Card("H", 3), Card("S", 4), Card("S", 6), Card("S", 5),
            Card("H", 4), Card("S", 2)>>
FlyShuffles == [n \in {1} |-> {Rounds(FlySeq, 1)}]

\* Two decks with two suits of the trump rank, a joker and points for three
\* players: a kitty of two, hands of two.
BidDeck == {Card("S", 2), Card("H", 2), Card("H", 5), Card("T", 17)}
BidSeq == <<Card("S", 2), Card("H", 2), Card("T", 17), Card("H", 5)>>
OneSided == <<Card("S", 2), Card("H", 2), Card("H", 5), Card("T", 17),
              Card("S", 2), Card("H", 5), Card("H", 2), Card("T", 17)>>
BidShuffles == [n \in {2} |-> {Rounds(BidSeq, 2), OneSided}]

\* One deck of point cards for three players: a kitty of two, hands of one.
ScoreDeck == {Card("H", 5), Card("H", 10), Card("H", 13), Card("S", 10), Card("S", 11)}
ScoreSeq == <<Card("H", 5), Card("S", 10), Card("H", 13), Card("S", 11), Card("H", 10)>>
ScoreShuffles == [n \in {1} |-> {Rounds(ScoreSeq, 1)}]
RankSkips == {[DefaultRules EXCEPT !.rank = r] : r \in {"NO_SKIP", "NO_PASS", "NO_RULE"}}
Reneges == {[DefaultRules EXCEPT !.renege = r] : r \in {"ACCUSE", "AUTOLOSE"}}
FixedTeams == {[DefaultRules EXCEPT !.team = "FIXED"]}

\* The runs about a single round stop when it is scored.
OneRound == phase # "WAIT"
=============================================================================
