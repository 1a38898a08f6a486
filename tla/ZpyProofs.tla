----------------------------- MODULE ZpyProofs -----------------------------
(***************************************************************************)
(* Proofs about the game state machine for tables of any size, any decks   *)
(* and any number of rounds: that everybody has a seat of their own (at    *)
(* tables where nobody who is seated asks to join again: the user with id  *)
(* 0 would get a second seat); from it type correctness, and from that,    *)
(* that the table's owner is one of its players.  TypeOK is not inductive: *)
(* that a play leaves a pile in a hand depends on who is seated in which   *)
(* phase, which TypeInv adds.                                              *)
(***************************************************************************)
EXTENDS ZpyProps, FiniteSetTheorems, SequenceTheorems, TLAPS

-----------------------------------------------------------------------------
(* Seats *)

OneSeatEach(ps) == \A i, j \in DOMAIN ps : ps[i] = ps[j] => i = j

SeatsInv ==
  /\ players \in Seq(Users)
  /\ order \in [Users -> Nat \cup {NULL}]
  /\ OneSeatEach(players)
  /\ phase # "INIT" => \A i \in DOMAIN players : order[players[i]] = i - 1

\* A set of one number is its own maximum and minimum.
LEMMA MaxOfOne == ASSUME NEW n \in Int PROVE Max({n}) = n /\ Min({n}) = n
  BY DEF Max, Min

\* Reseat gives everybody their index, and leaves those who are gone alone.
LEMMA ReseatSeats ==
  ASSUME NEW ps \in Seq(Users), OneSeatEach(ps), order \in [Users -> Nat \cup {NULL}]
  PROVE  /\ Reseat(ps) \in [Users -> Nat \cup {NULL}]
         /\ \A i \in DOMAIN ps : Reseat(ps)[ps[i]] = i - 1
<1>1. \A i \in DOMAIN ps : ps[i] \in Users /\ ps[i] \in Range(ps)
  BY DEF Range
<1>2. ASSUME NEW i \in DOMAIN ps
      PROVE  SeatIn(ps, ps[i]) = i - 1
  <2>1. {k \in DOMAIN ps : ps[k] = ps[i]} = {i}
    BY <1>2 DEF OneSeatEach
  <2>2. i \in Int
    BY <1>2
  <2> QED
    BY <2>1, <2>2, MaxOfOne DEF SeatIn
<1>3. \A i \in DOMAIN ps : i - 1 \in Nat
  OBVIOUS
<1>4. ASSUME NEW u \in Users
      PROVE  (IF u \in Range(ps) THEN SeatIn(ps, u) ELSE order[u]) \in Nat \cup {NULL}
  <2>1. CASE u \in Range(ps)
    BY <2>1, <1>2, <1>3 DEF Range
  <2>2. CASE u \notin Range(ps)
    BY <2>2
  <2> QED BY <2>1, <2>2
<1> QED
  BY <1>1, <1>2, <1>4 DEF Reseat

\* An arrangement of the players seats each of them once.
LEMMA ShuffleSeats ==
  ASSUME players \in Seq(Users), OneSeatEach(players), NEW ps \in Seatings
  PROVE  ps \in Seq(Users) /\ OneSeatEach(ps)
<1>1. CASE ps = players
  BY <1>1
<1>2. CASE ps \in [1..nplayers -> Seated] /\ Range(ps) = Seated
  <2> DEFINE S == 1..nplayers
  <2>1. nplayers \in Nat /\ S = DOMAIN players
    BY DEF nplayers
  <2>2. Seated \subseteq Users /\ players \in [S -> Seated]
    BY <2>1 DEF Seated, Range
  <2>3. players \in Bijection(S, Seated)
    BY <2>1, <2>2 DEF OneSeatEach, Seated, Range, Bijection, Injection, Surjection, IsInjective
  <2>4. IsFiniteSet(S) /\ Cardinality(S) = Cardinality(Seated)
    BY <2>1, <2>3, FS_Interval, FS_Bijection DEF ExistsBijection
  <2>5. ps \in Surjection(S, Seated)
    BY <1>2 DEF Surjection, Range
  <2>6. ps \in Injection(S, Seated)
    BY <2>4, <2>5, FS_SurjSameCardinalityImpliesInj
  <2>7. OneSeatEach(ps)
    BY <2>6 DEF Injection, IsInjective, OneSeatEach
  <2>8. ps \in Seq(Users)
    BY <1>2, <2>1, <2>2
  <2> QED BY <2>7, <2>8
<1> QED
  BY <1>1, <1>2 DEF Seatings
\* Everything but the lobby's own actions leaves the table as it is.
LEMMA PreparingKeepsTable ==
  ASSUME NEW p \in Users, Prepare(p), ~StartGame(p)
  PROVE  UNCHANGED <<players, order, owner>> /\ phase # "INIT"
<1>1. CASE DrawCard(p)
  BY <1>1 DEF DrawCard, lobbyVars
<1>2. CASE \E c \in StdDeck, n \in 1..ndecks : BidTrump(p, c, n)
  BY <1>2 DEF BidTrump, lobbyVars
<1>3. CASE RequestRedeal(p)
  BY <1>3 DEF RequestRedeal, lobbyVars
<1>4. CASE Ready(p)
  BY <1>4 DEF Ready
<1>5. CASE \E k \in SubPiles(draws[p], Size(kitty)) : ReplaceKitty(p, k)
  BY <1>5 DEF ReplaceKitty, lobbyVars
<1>6. CASE \E calls \in Calls : CallFriends(p, calls)
  BY <1>6 DEF CallFriends, lobbyVars
<1> QED
  BY <1>1, <1>2, <1>3, <1>4, <1>5, <1>6 DEF Prepare

LEMMA PlayingKeepsTable ==
  ASSUME NEW p \in Users, PlayTrick(p)
  PROVE  UNCHANGED <<players, order, owner>> /\ phase # "INIT"
<1>1. CASE \E play \in LeadsOf(p) : LeadPlay(p, play)
  BY <1>1 DEF LeadPlay, lobbyVars
<1>2. CASE \E t \in TractorsIn(tr, hands[p], FlightSuit(lead)) : ContestFly(p, t)
  BY <1>2 DEF ContestFly, lobbyVars
<1>3. CASE PassContest(p)
  BY <1>3 DEF PassContest, lobbyVars
<1>4. CASE \E play \in FollowsOf(p) : FollowLead(p, play)
  BY <1>4 DEF FollowLead, lobbyVars
<1>5. CASE UndoPlay(p)
  BY <1>5 DEF UndoPlay, lobbyVars
<1>6. CASE CollectTrick(p)
  BY <1>6 DEF CollectTrick, lobbyVars
<1> QED
  BY <1>1, <1>2, <1>3, <1>4, <1>5, <1>6 DEF PlayTrick

LEMMA ConcludingKeepsTable ==
  ASSUME NEW p \in Users, Conclude(p)
  PROVE  UNCHANGED <<players, order, owner>> /\ phase # "INIT"
<1>1. CASE EndRound(p)
  BY <1>1 DEF EndRound
<1>2. CASE NextReady(p)
  BY <1>2 DEF NextReady, lobbyVars
<1>3. CASE NextRound(p)
  BY <1>3 DEF NextRound, lobbyVars
<1> QED
  BY <1>1, <1>2, <1>3 DEF Conclude

LEMMA SeatsInit == Init => SeatsInv
<1> SUFFICES ASSUME Init PROVE SeatsInv
  OBVIOUS
<1>1. players \in Seq(Users) /\ OneSeatEach(players)
  BY ZpyAssumption DEF Init, OneSeatEach
<1> QED
  BY <1>1 DEF Init, SeatsInv

\* A newcomer takes the next seat.
LEMMA AddPlayerSeats ==
  ASSUME SeatsInv, NEW p \in Users, p \notin Seated, AddPlayer(p)
  PROVE  SeatsInv'
<1> USE DEF SeatsInv
<1>1. p \notin Seated
  OBVIOUS
<1>2. players' = Append(players, p) /\ players' \in Seq(Users)
  <2>1. players' = Append(players, p)
    BY DEF AddPlayer
  <2>2. players \in Seq(Users)
    OBVIOUS
  <2> QED
    BY <2>1, <2>2, AppendProperties
<1>3. DOMAIN players' = 1..(Len(players) + 1) /\ players'[Len(players) + 1] = p
  BY <1>2
<1>4. \A i \in DOMAIN players : players'[i] = players[i] /\ players'[i] # p
  BY <1>1, <1>2 DEF Seated, Range
<1>5. OneSeatEach(players')
  BY <1>3, <1>4 DEF OneSeatEach
<1>6. order' \in [Users -> Nat \cup {NULL}]
  <2>1. order' = [order EXCEPT ![p] = Len(players)] \/ order' = order
    BY DEF AddPlayer, nplayers
  <2>2. Len(players) \in Nat /\ order \in [Users -> Nat \cup {NULL}]
    OBVIOUS
  <2> QED
    BY <2>1, <2>2
<1>7. phase' # "INIT" => \A i \in DOMAIN players' : order'[players'[i]] = i - 1
  <2> SUFFICES ASSUME phase' # "INIT" PROVE \A i \in DOMAIN players' : order'[players'[i]] = i - 1
    OBVIOUS
  <2>1. phase = "WAIT" /\ order' = [order EXCEPT ![p] = Len(players)]
    BY DEF AddPlayer, roundVars, Lobby, nplayers
  <2>2. \A i \in DOMAIN players : order'[players'[i]] = i - 1
    BY <1>4, <2>1
  <2>3. order'[p] = Len(players)
    BY <2>1
  <2> QED
    BY <1>3, <2>2, <2>3
<1> QED
  BY <1>2, <1>5, <1>6, <1>7

\* Those behind a leaver move up.
LEMMA RmPlayerSeats ==
  ASSUME SeatsInv, NEW p \in Users, RmPlayer(p)
  PROVE  SeatsInv'
<1> USE DEF SeatsInv
<1>1. PICK k \in DOMAIN players : players[k] = p
  BY DEF RmPlayer, Seated, Range
<1>2. {i \in DOMAIN players : players[i] = p} = {k} /\ k \in Int
  BY <1>1 DEF OneSeatEach
<1>3. players' = SubSeq(players, 1, k - 1) \o SubSeq(players, k + 1, Len(players))
  BY <1>2, MaxOfOne DEF RmPlayer, nplayers
<1> DEFINE front == SubSeq(players, 1, k - 1)
           back  == SubSeq(players, k + 1, Len(players))
<1>4. /\ players' \in Seq(Users) /\ DOMAIN players' = 1..(Len(players) - 1)
      /\ \A i \in DOMAIN players' : players'[i] = IF i < k THEN players[i] ELSE players[i + 1]
  <2>1. k \in 1..Len(players) /\ Len(players) \in Nat
    BY <1>1
  <2>2. /\ front \in Seq(Users) /\ Len(front) = k - 1
        /\ \A i \in 1..(k - 1) : front[i] = players[i]
    BY <2>1
  <2>3. /\ back \in Seq(Users) /\ Len(back) = Len(players) - k
        /\ \A i \in 1..(Len(players) - k) : back[i] = players[k + i]
    BY <2>1
  <2>4. players' = front \o back
    BY <1>3
  <2> HIDE DEF front, back
  <2>5. players' \in Seq(Users) /\ Len(players') = Len(players) - 1
    BY <2>1, <2>2, <2>3, <2>4
  <2>6. ASSUME NEW i \in 1..(Len(players) - 1)
        PROVE  players'[i] = IF i < k THEN players[i] ELSE players[i + 1]
    <3>1. CASE i < k
      BY <3>1, <2>1, <2>2, <2>3, <2>4
    <3>2. CASE i >= k
      <4>1. i - (k - 1) \in 1..(Len(players) - k) /\ k + (i - (k - 1)) = i + 1
        BY <3>2, <2>1
      <4>2. players'[i] = back[i - (k - 1)]
        <5>1. i \in 1..(Len(front) + Len(back)) /\ ~(i <= Len(front))
          BY <3>2, <2>1, <2>2, <2>3
        <5>2. (front \o back)[i] = back[i - Len(front)]
          BY <5>1, <2>2, <2>3, ConcatProperties
        <5> QED
          BY <5>2, <2>2, <2>4
      <4>3. back[i - (k - 1)] = players[k + (i - (k - 1))]
        BY <4>1, <2>3
      <4> QED
        BY <4>1, <4>2, <4>3, <3>2, <2>1
    <3> QED BY <3>1, <3>2, <2>1
  <2> QED
    BY <2>1, <2>5, <2>6
<1>5. OneSeatEach(players')
  <2>1. k \in 1..Len(players) /\ Len(players) \in Nat
    BY <1>1
  <2> DEFINE from(i) == IF i < k THEN i ELSE i + 1
  <2>2. \A i \in DOMAIN players' : players'[i] = players[from(i)] /\ from(i) \in DOMAIN players
    BY <1>4, <2>1
  <2>3. \A i, j \in DOMAIN players' : from(i) = from(j) => i = j
    BY <1>4, <2>1
  <2> QED
    BY <2>2, <2>3 DEF OneSeatEach
<1>6. order' = Reseat(players')
  BY DEF RmPlayer
<1> QED
  BY <1>4, <1>5, <1>6, ReseatSeats

LEMMA StartGameSeats ==
  ASSUME SeatsInv, NEW p \in Users, StartGame(p)
  PROVE  SeatsInv'
<1>1. players' \in Seq(Users) /\ OneSeatEach(players')
  BY ShuffleSeats DEF StartGame, SeatsInv
<1> QED
  BY <1>1, ReseatSeats DEF StartGame, SeatsInv

LEMMA SeatsNext ==
  ASSUME "joins again" \notin Habits, SeatsInv, [Next]_vars
  PROVE  SeatsInv'
<1>1. CASE UNCHANGED vars
  BY <1>1 DEF vars, lobbyVars, SeatsInv, OneSeatEach
<1>2. ASSUME NEW p \in Users, Configure(p) PROVE SeatsInv'
  <2>1. CASE AddPlayer(p)
    <3>1. p \notin Seated
      BY <2>1 DEF AddPlayer
    <3> QED
      BY <2>1, <3>1, AddPlayerSeats
  <2>2. CASE RmPlayer(p)
    BY <2>2, RmPlayerSeats
  <2>3. CASE \/ \E n \in DeckChoices : SetDecks(p, n)
             \/ \E mods \in RuleSets : SetRuleMods(p, mods)
             \/ \E rank \in RankChoices : SetRank(p, rank)
    BY <2>3 DEF SetDecks, SetRuleMods, SetRank, roundVars, SeatsInv, OneSeatEach
  <2> QED
    BY <1>2, <2>1, <2>2, <2>3 DEF Configure
<1>3. ASSUME NEW p \in Users, Prepare(p) \/ PlayTrick(p) \/ Conclude(p) PROVE SeatsInv'
  <2>1. CASE StartGame(p)
    BY <2>1, StartGameSeats
  <2>2. CASE ~StartGame(p)
    BY <1>3, <2>2, PreparingKeepsTable, PlayingKeepsTable, ConcludingKeepsTable
    DEF SeatsInv, OneSeatEach
  <2> QED
    BY <2>1, <2>2
<1> QED
  BY <1>1, <1>2, <1>3 DEF Next

LEMMA SeatsInvariant == ASSUME "joins again" \notin Habits PROVE Spec => []SeatsInv
<1>1. SeatsInv /\ [Next]_vars => SeatsInv'
  BY SeatsNext
<1> QED
  BY <1>1, SeatsInit, PTL DEF Spec

\* add_player, rm_player and start_game keep `order` the inverse of `players`,
\* and nobody ever has two seats, however many come, go and are shuffled.
THEOREM SeatsCorrect == ASSUME "joins again" \notin Habits PROVE Spec => []SeatsOK
<1>1. SeatsInv => SeatsOK
  BY DEF SeatsInv, SeatsOK, OneSeatEach
<1> QED
  BY <1>1, SeatsInvariant, PTL

-----------------------------------------------------------------------------
(* The inductive invariant *)

\* While the cards are drawn, exactly those at the table have a pile.
DealtSeats ==
  phase \in {"DRAW", "PREPARE", "KITTY"} =>
    \A u \in Users : /\ u \in Seated => draws[u] \in Piles
                     /\ draws[u] # NULL => u \in Seated

\* From the discard to the score, the host and all hands are at the table.
PlaySeats ==
  phase \in Tricks \cup {"FRIEND", "FINISH"} =>
    host \in Seated /\ \A u \in Seated : hands[u] \in Piles

\* A trick is led, played and won by those at the table.
TrickSeats ==
  phase \in Tricks \cup {"FINISH"} =>
    /\ leader \in Seated /\ winning \in Seated \cup {NULL}
    /\ \A u \in Users : plays[u] # NULL => u \in Seated

\* Until the first lead nobody has played.
NoTrick ==
  phase \in {"DRAW", "PREPARE", "KITTY", "FRIEND"} => plays = NoPlays /\ winning = NULL

\* A fly has a lead and a leader whose turn it still is.
FlyTypes == phase = "FLY" => PlayOK(lead) /\ cur_idx \in Nat

SeatTypes == DealtSeats /\ PlaySeats /\ TrickSeats /\ NoTrick /\ FlyTypes

TypeInv == TypeOK /\ SeatsInv /\ SeatTypes

-----------------------------------------------------------------------------
(* What is assumed of the constants *)

LEMMA Numbers == MinPlayers \in Nat \ {0} /\ KittyLow \in Nat /\ KittyHigh \in Nat
  BY ZpyAssumption

LEMMA ArrivedType == Arrived \in Seq(Users)
  BY ZpyAssumption

LEMMA ShuffledType ==
  ASSUME NEW n \in DOMAIN Shuffles, NEW d \in Shuffles[n] PROVE d \in Seq(StdDeck)
  BY ZpyAssumption

-----------------------------------------------------------------------------
(* Piles *)

LEMMA PileOfType ==
  ASSUME NEW s, IsFiniteSet(DOMAIN s) PROVE PileOf(s) \in Piles
<1> SUFFICES ASSUME NEW c \in StdDeck
             PROVE  Cardinality({i \in DOMAIN s : s[i] = c}) \in Nat
  BY DEF PileOf, Piles
<1>1. IsFiniteSet({i \in DOMAIN s : s[i] = c})
  BY FS_Subset
<1> QED
  BY <1>1, FS_CardinalityType

LEMMA EmptyPileType == EmptyPile \in Piles
  BY DEF EmptyPile, Piles

LEMMA AddPileType ==
  ASSUME NEW pile \in Piles, NEW other \in Piles PROVE AddPile(pile, other) \in Piles
  BY DEF AddPile, Piles

\* What Contains makes sure of: the smaller pile is one, and so is the rest.
IsPile(other) == other = [c \in StdDeck |-> other[c]]
LEMMA ContainedType ==
  ASSUME NEW pile \in Piles, NEW other, IsPile(other), Contains(pile, other)
  PROVE  other \in Piles /\ TakePile(pile, other) \in Piles
<1>1. \A c \in StdDeck : pile[c] \in Nat /\ other[c] \in Nat /\ pile[c] - other[c] \in Nat
  BY DEF Contains, Piles
<1>2. other \in [StdDeck -> Nat]
  BY <1>1 DEF IsPile
<1> QED
  BY <1>1, <1>2 DEF Piles, TakePile

LEMMA TractorsPileIs == ASSUME NEW t, NEW ts PROVE IsPile(TractorsPile(t, ts))
  BY DEF IsPile, TractorsPile

LEMMA SubPileIs == ASSUME NEW pile, NEW n, NEW sub \in SubPiles(pile, n) PROVE IsPile(sub)
  BY DEF IsPile, SubPiles, TokenPile

LEMMA FlightsInIs ==
  ASSUME NEW t, NEW pile, NEW s, NEW most, NEW f \in FlightsIn(t, pile, s, most)
  PROVE  IsPile(f.cards)
<1>1. PICK ts : f = [tractors |-> ts, cards |-> TractorsPile(t, ts)]
  BY DEF FlightsIn
<1>2. f.cards = TractorsPile(t, ts)
  BY <1>1
<1> QED
  BY <1>2, TractorsPileIs

LEMMA LeadsOfIs == ASSUME NEW p, NEW play \in LeadsOf(p) PROVE IsPile(play.cards)
<1>1. PICK s \in Suits : play \in FlightsIn(tr, hands[p], s, MaxTractors)
  BY DEF LeadsOf
<1> QED
  BY <1>1, FlightsInIs

LEMMA FollowsOfIs == ASSUME NEW p, NEW play \in FollowsOf(p) PROVE IsPile(play.cards)
<1>1. PICK pile \in SubPiles(hands[p], Count(lead)) : play \in PlaysOf(tr, pile)
  BY DEF FollowsOf
<1>2. CASE play = Toss(pile)
  <2>1. play.cards = pile
    BY <1>2 DEF Toss
  <2> QED
    BY <2>1, SubPileIs
<1>3. CASE \E s, n : play \in FlightsIn(tr, pile, s, n)
  BY <1>3, FlightsInIs
<1> QED
  BY <1>1, <1>2, <1>3 DEF PlaysOf

\* The recorded play is made of the submitted cards.
LEMMA BestPlayCards ==
  ASSUME NEW t, NEW hand, NEW f, NEW play PROVE BestPlay(t, hand, f, play).cards = play.cards
<1>1. \A path : Parse(t, play.cards, path).cards = play.cards
  BY DEF Parse
<1> QED
  BY <1>1 DEF BestPlay

-----------------------------------------------------------------------------
(* Turns *)

LEMMA CurrentSeated ==
  ASSUME TypeInv, NEW p \in Users, p = current
  PROVE  p \in Seated /\ cur_idx \in Nat /\ next_player_idx(cur_idx) \in Nat
<1>1. cur_idx # NULL /\ cur_idx < nplayers /\ p = players[cur_idx + 1]
  BY ZpyAssumption DEF current
<1>2. cur_idx \in Nat /\ players \in Seq(Users)
  BY <1>1 DEF TypeInv, TypeOK, RoundTypes, TableTypes
<1>3. cur_idx + 1 \in DOMAIN players
  BY <1>1, <1>2 DEF nplayers
<1> QED
  BY <1>1, <1>2, <1>3 DEF Seated, Range, next_player_idx, nplayers

LEMMA NextIdxType ==
  ASSUME NEW i \in Nat PROVE next_player_idx(i) \in Nat
  BY DEF next_player_idx

\* Once the game has started, those at the table have an index in the seats.
LEMMA OrderOfSeated ==
  ASSUME TypeInv, phase # "INIT", NEW u \in Seated
  PROVE  order[u] \in 0..(nplayers - 1) /\ u = players[order[u] + 1] /\ u \in Users
<1>1. PICK i \in DOMAIN players : u = players[i]
  BY DEF Seated, Range
<1>2. i \in 1..Len(players) /\ order[u] = i - 1 /\ players \in Seq(Users)
  BY <1>1 DEF TypeInv, SeatsInv
<1> QED
  BY <1>1, <1>2 DEF nplayers

LEMMA TurnSeated ==
  ASSUME TypeInv, phase # "INIT", NEW h \in Seated, NEW k \in Nat
  PROVE  Turn(h, k) \in Seated
<1>1. order[h] \in 0..(nplayers - 1) /\ nplayers \in Nat
  BY OrderOfSeated DEF nplayers, TypeInv, SeatsInv
<1>2. nplayers \in Nat \ {0} /\ order[h] + k \in Nat
  BY <1>1
<1>3. (order[h] + k) % nplayers \in 0..(nplayers - 1)
  BY <1>2
<1>4. ((order[h] + k) % nplayers) + 1 \in DOMAIN players
  BY <1>2, <1>3 DEF nplayers, TypeInv, SeatsInv
<1> QED
  BY <1>4 DEF Turn, Seated, Range

LEMMA SeatedUsers == ASSUME TypeInv PROVE Seated \subseteq Users
  BY DEF TypeInv, SeatsInv, Seated, Range
-----------------------------------------------------------------------------
(* The lobby *)

LEMMA TypeInit == Init => TypeOK /\ SeatTypes
<1> SUFFICES ASSUME Init PROVE TypeOK /\ SeatTypes
  OBVIOUS
<1>1. TableTypes
  <2>1. DefaultRules \in Rules
    BY DEF DefaultRules, Rules
  <2>2. Arrived # <<>> => Arrived[1] \in Users
    BY ArrivedType
  <2> QED
    BY <2>1, <2>2, ArrivedType DEF Init, TableTypes
<1>2. RoundTypes
  BY DEF Init, RoundTypes, Phases
<1>3. DealTypes
  BY EmptyPileType DEF Init, DealTypes, NoPiles
<1>4. HandTypes
  BY DEF Init, HandTypes, NoPiles
<1>5. FriendTypes
  BY DEF Init, FriendTypes
<1>6. TrickTypes
  BY DEF Init, TrickTypes, NoPlays
<1>7. SeatTypes
  BY DEF Init, SeatTypes, DealtSeats, PlaySeats, TrickSeats, NoTrick, FlyTypes, Tricks
<1> QED
  BY <1>1, <1>2, <1>3, <1>4, <1>5, <1>6, <1>7 DEF TypeOK

\* What the lobby's actions leave alone keeps its type.
LEMMA RoundVarsTypes ==
  ASSUME TypeOK, Lobby, UNCHANGED roundVars
  PROVE  /\ RoundTypes' /\ DealTypes' /\ HandTypes' /\ FriendTypes' /\ TrickTypes'
         /\ SeatTypes'
<1>1. RoundTypes' /\ DealTypes'
  BY DEF TypeOK, RoundTypes, DealTypes, roundVars, dealVars
<1>2. HandTypes' /\ FriendTypes' /\ TrickTypes'
  BY DEF TypeOK, HandTypes, FriendTypes, TrickTypes, PlayOK, roundVars, friendVars, trickVars
<1>3. phase' \in {"INIT", "WAIT"}
  BY DEF Lobby, roundVars
<1> QED
  BY <1>1, <1>2, <1>3 DEF SeatTypes, DealtSeats, PlaySeats, TrickSeats, NoTrick, FlyTypes, Tricks

LEMMA ConfigureTypes ==
  ASSUME TypeInv, SeatsInv', NEW p \in Users, Configure(p)
  PROVE  TypeOK' /\ SeatTypes'
<1>1. Lobby /\ UNCHANGED roundVars
  BY DEF Configure, AddPlayer, RmPlayer, SetDecks, SetRuleMods, SetRank
<1> SUFFICES TableTypes'
  BY <1>1, RoundVarsTypes DEF TypeOK, TypeInv
<1> USE DEF TypeInv, TypeOK, TableTypes
<1>2. players' \in Seq(Users) /\ order' \in [Users -> Nat \cup {NULL}]
  BY DEF SeatsInv
<1>3. CASE AddPlayer(p)
  BY <1>2, <1>3 DEF AddPlayer
<1>4. CASE RmPlayer(p)
  <2>1. NewOwner(players') \in Users \cup {NULL}
    BY <1>2 DEF NewOwner, RoundTypes
  <2> QED
    BY <1>2, <1>4, <2>1 DEF RmPlayer
<1>5. CASE \E n \in DeckChoices : SetDecks(p, n)
  BY <1>2, <1>5, ZpyAssumption DEF SetDecks
<1>6. CASE \E mods \in RuleSets : SetRuleMods(p, mods)
  BY <1>2, <1>6, RuleSetsAssumption DEF SetRuleMods
<1>7. CASE \E rank \in RankChoices : SetRank(p, rank)
  BY <1>2, <1>7 DEF SetRank
<1> QED
  BY <1>3, <1>4, <1>5, <1>6, <1>7 DEF Configure

-----------------------------------------------------------------------------
(* Starting a round *)

\* The kitty is larger than KittyLow, whatever is left over.
LEMMA KittySize ==
  ASSUME NEW n \in Nat \ {0}, NEW nd \in Nat
  PROVE  kitty_sz(n, nd) \in Nat
<1> DEFINE rest  == (nd * Cardinality(StdDeck)) % n
           first == IF rest = 0 THEN n ELSE rest
           low   == IF first > KittyHigh THEN first - n ELSE first
<1>1. Cardinality(StdDeck) \in Nat /\ nd * Cardinality(StdDeck) \in Nat
  BY StdDeckAssumption, FS_CardinalityType
<1>2. rest \in Nat
  BY <1>1
<1>3. first \in Nat
  BY <1>2
<1> HIDE DEF rest
<1>4. low \in Int
  BY <1>3, Numbers
<1> HIDE DEF first, low
<1>5. CASE low > KittyLow
  BY <1>4, <1>5, Numbers DEF kitty_sz, low, first, rest
<1>6. CASE ~(low > KittyLow)
  <2>1. KittyLow \in Nat /\ KittyLow - low \in Nat
    BY <1>4, <1>6, Numbers
  <2> DEFINE more == n * ((KittyLow - low) \div n + 1)
  <2>2. more \in Int /\ more > KittyLow - low
    BY <2>1
  <2>3. kitty_sz(n, nd) = low + more
    BY <1>6 DEF kitty_sz, low, first, rest
  <2> HIDE DEF more
  <2> QED
    BY <1>4, <2>1, <2>2, <2>3
<1> QED
  BY <1>5, <1>6

LEMMA ResetRoundTypes ==
  ASSUME TypeInv, NEW starting \in Users, NEW is_host,
         NEW ps \in Seq(Users), ps # <<>>, NEW ord \in [Users -> Nat \cup {NULL}],
         NEW nd \in Nat, ResetRound(ps, ord, nd, starting, is_host),
         players' = ps, phase' = "DRAW"
  PROVE  /\ RoundTypes' /\ DealTypes' /\ HandTypes' /\ FriendTypes' /\ TrickTypes'
         /\ SeatTypes'
<1>1. RoundTypes'
  <2>1. /\ round' \in Nat /\ consensus' = {} /\ cur_idx' \in Nat \cup {NULL}
        /\ host' \in Users \cup {NULL}
    BY DEF ResetRound, TypeInv, TypeOK, RoundTypes
  <2>2. tr'.suit \in Suits
    BY DEF ResetRound, JokersOnly, Suits
  <2> QED
    BY <2>1, <2>2 DEF RoundTypes, Phases
<1>2. DealTypes'
  <2>1. PICK shuffled \in Shuffles[nd] :
          LET left == Len(shuffled) - kitty_sz(Len(ps), nd)
          IN  /\ deck' = SubSeq(shuffled, 1, left)
              /\ deck_sz' = left
              /\ kitty' = PileOf(SubSeq(shuffled, left + 1, Len(shuffled)))
    BY DEF ResetRound
  <2>2. shuffled \in Seq(StdDeck)
    BY ShuffledType DEF ResetRound
  <2>3. kitty_sz(Len(ps), nd) \in Nat
    BY KittySize
  <2> DEFINE left == Len(shuffled) - kitty_sz(Len(ps), nd)
  <2>4. left \in Int /\ left <= Len(shuffled)
    BY <2>2, <2>3
  <2> HIDE DEF left
  <2>5. deck' \in Seq(StdDeck) /\ deck_sz' \in Int
    BY <2>1, <2>2, <2>4 DEF left
  <2>6. DOMAIN SubSeq(shuffled, left + 1, Len(shuffled)) = 1..(Len(shuffled) - left)
    BY <2>2, <2>4
  <2>7. kitty' \in Piles
    <3>1. kitty' = PileOf(SubSeq(shuffled, left + 1, Len(shuffled)))
      BY <2>1 DEF left
    <3>2. IsFiniteSet(1..(Len(shuffled) - left))
      BY <2>2, <2>4, FS_Interval
    <3> QED
      BY <2>6, <3>1, <3>2, PileOfType
  <2>8. bids' = <<>> /\ draws' \in [Users -> Piles \cup {NULL}]
    BY EmptyPileType DEF ResetRound
  <2> QED
    BY <2>5, <2>7, <2>8 DEF DealTypes
<1>3. HandTypes'
  BY DEF ResetRound, HandTypes, NoPiles
<1>4. FriendTypes'
  BY DEF ResetRound, FriendTypes, TypeInv, TypeOK
<1>5. TrickTypes'
  BY DEF ResetRound, TrickTypes, NoPlays
<1>6. SeatTypes'
  <2>1. DealtSeats'
    BY EmptyPileType DEF ResetRound, DealtSeats, Seated
  <2> QED
    BY <2>1 DEF ResetRound, SeatTypes, PlaySeats, TrickSeats, NoTrick, FlyTypes, Tricks, NoPlays
<1> QED
  BY <1>1, <1>2, <1>3, <1>4, <1>5, <1>6

LEMMA StartGameTypes ==
  ASSUME TypeInv, SeatsInv', NEW p \in Users, StartGame(p)
  PROVE  TypeOK' /\ SeatTypes'
<1>1. players' \in Seq(Users) /\ order' \in [Users -> Nat \cup {NULL}]
  BY DEF SeatsInv
<1>2. nplayers \in Nat \ {0} /\ nplayers >= MinPlayers
  BY Numbers DEF StartGame, nplayers, TypeInv, SeatsInv
<1>3. ndecks' \in Nat
  <2>1. def_ndecks(nplayers) \in Nat
    BY <1>2, Numbers DEF def_ndecks, AtLeast
  <2> QED
    BY <2>1 DEF StartGame, TypeInv, TypeOK, TableTypes
<1>4. players' # <<>>
  <2>1. players # <<>> /\ players \in Seq(Users)
    BY <1>2 DEF nplayers, TypeInv, SeatsInv
  <2>2. CASE players' = players
    BY <2>1, <2>2
  <2>3. CASE players' \in [1..nplayers -> Seated]
    BY <1>2, <2>3
  <2> QED
    BY <2>2, <2>3 DEF StartGame, Seatings
<1>5. TableTypes'
  BY <1>1, <1>3 DEF StartGame, TypeInv, TypeOK, TableTypes
<1> QED
  BY <1>1, <1>3, <1>4, <1>5, ResetRoundTypes DEF StartGame, TypeOK

-----------------------------------------------------------------------------
(* Phase.DRAW to Phase.FRIEND *)

LEMMA TableStays == ASSUME TypeInv, UNCHANGED lobbyVars PROVE TableTypes' /\ Seated' = Seated
  BY DEF TypeInv, TypeOK, TableTypes, lobbyVars, Seated

LEMMA BidderType == ASSUME TypeInv, bids # <<>> PROVE winning_bid.player \in Users
<1> DEFINE Bids == [player : Users, card : StdDeck, n : Nat]
<1>1. bids \in Seq(Bids)
  BY DEF TypeInv, TypeOK, DealTypes
<1>2. bids[Len(bids)] \in Bids
  <2> HIDE DEF Bids
  <2> QED
    BY <1>1
<1>3. \A b \in Bids : b.player \in Users
  OBVIOUS
<1> QED
  BY <1>2, <1>3 DEF winning_bid

LEMMA DrawCardTypes ==
  ASSUME TypeInv, NEW p \in Users, DrawCard(p)
  PROVE  TypeOK' /\ SeatTypes'
<1>1. TableTypes' /\ Seated' = Seated
  BY TableStays DEF DrawCard
<1>2. p \in Seated /\ next_player_idx(cur_idx) \in Nat
  BY CurrentSeated DEF DrawCard
<1>3. phase = "DRAW" /\ phase' \in {"DRAW", "PREPARE"}
  BY DEF DrawCard
<1>4. RoundTypes'
  <2>1. consensus' \subseteq Users
    <3>1. bids # <<>> => winning_bid.player \in Users
      BY BidderType
    <3> QED
      BY <3>1 DEF DrawCard, TypeInv, TypeOK, RoundTypes
  <2> QED
    BY <1>2, <1>3, <2>1 DEF DrawCard, TypeInv, TypeOK, RoundTypes, Phases
<1>5. DealTypes' /\ \A u \in Users : draws'[u] # draws[u] => (u = p /\ draws'[u] \in Piles)
  <2> USE DEF TypeInv, TypeOK, DealTypes
  <2>1. draws[p] \in Piles /\ deck # <<>>
    BY DEF DrawCard
  <2>2. deck' \in Seq(StdDeck)
    BY <2>1 DEF DrawCard
  <2>3. PileOf(<<deck[Len(deck)]>>) \in Piles
    <3>1. DOMAIN <<deck[Len(deck)]>> = {1}
      OBVIOUS
    <3>2. IsFiniteSet({1})
      BY FS_Singleton
    <3> QED
      BY <3>1, <3>2, PileOfType
  <2>4. AddPile(draws[p], PileOf(<<deck[Len(deck)]>>)) \in Piles
    BY <2>1, <2>3, AddPileType
  <2>5. draws' = [draws EXCEPT ![p] = AddPile(draws[p], PileOf(<<deck[Len(deck)]>>))]
    BY DEF DrawCard
  <2>6. draws' \in [Users -> Piles \cup {NULL}]
    BY <2>4, <2>5
  <2> QED
    BY <2>2, <2>4, <2>5, <2>6 DEF DrawCard
<1>6. HandTypes' /\ FriendTypes' /\ TrickTypes'
  BY DEF DrawCard, TypeInv, TypeOK, HandTypes, FriendTypes, TrickTypes, PlayOK, friendVars,
         trickVars
<1>7. DealtSeats'
  BY <1>1, <1>2, <1>3, <1>5 DEF DealtSeats, TypeInv, SeatTypes
<1>8. NoTrick'
  BY <1>3 DEF DrawCard, trickVars, NoTrick, TypeInv, SeatTypes, NoPlays
<1> QED
  BY <1>1, <1>3, <1>4, <1>5, <1>6, <1>7, <1>8
  DEF TypeOK, SeatTypes, PlaySeats, TrickSeats, FlyTypes, Tricks

LEMMA BidTrumpTypes ==
  ASSUME TypeInv, NEW p \in Users, NEW c \in StdDeck, NEW n \in 1..ndecks, BidTrump(p, c, n)
  PROVE  TypeOK' /\ SeatTypes'
<1>1. TableTypes' /\ Seated' = Seated
  BY TableStays DEF BidTrump
<1>2. phase' = phase /\ phase \in {"DRAW", "PREPARE"}
  BY DEF BidTrump
<1>3. RoundTypes'
  <2>1. c.suit \in Suits
    BY StdDeckAssumption DEF IsCard, Suits
  <2>2. tr'.suit \in Suits
    BY <2>1 DEF BidTrump
  <2> QED
    BY <1>2, <2>2 DEF BidTrump, TypeInv, TypeOK, RoundTypes
<1>4. DealTypes'
  <2>1. [player |-> p, card |-> c, n |-> n] \in [player : Users, card : StdDeck, n : Nat]
    BY DEF TypeInv, TypeOK, TableTypes
  <2> QED
    BY <2>1 DEF BidTrump, TypeInv, TypeOK, DealTypes
<1>5. HandTypes' /\ FriendTypes' /\ TrickTypes'
  BY DEF BidTrump, TypeInv, TypeOK, HandTypes, FriendTypes, TrickTypes, PlayOK, friendVars,
         trickVars
<1>6. DealtSeats' /\ NoTrick'
  BY <1>1, <1>2 DEF BidTrump, trickVars, DealtSeats, NoTrick, TypeInv, SeatTypes, NoPlays
<1> QED
  BY <1>1, <1>2, <1>3, <1>4, <1>5, <1>6
  DEF TypeOK, SeatTypes, PlaySeats, TrickSeats, FlyTypes, Tricks

\* A round dealt anew to the same table: request_redeal and next_round.
LEMMA DealAgainTypes ==
  ASSUME TypeInv, NEW p \in Users, NEW is_host, players # <<>>,
         ResetRound(players, order, ndecks, p, is_host), phase' = "DRAW", UNCHANGED lobbyVars
  PROVE  TypeOK' /\ SeatTypes'
<1>1. players' = players /\ players \in Seq(Users)
  BY DEF lobbyVars, TypeInv, SeatsInv
<1>2. order \in [Users -> Nat \cup {NULL}] /\ ndecks \in Nat
  BY DEF TypeInv, TypeOK, TableTypes
<1> QED
  BY <1>1, <1>2, TableStays, ResetRoundTypes DEF TypeOK

LEMMA RequestRedealTypes ==
  ASSUME TypeInv, NEW p \in Users, RequestRedeal(p)
  PROVE  TypeOK' /\ SeatTypes'
<1>1. p \in Seated
  BY DEF RequestRedeal, TypeInv, SeatTypes, DealtSeats
<1>2. players # <<>>
  BY <1>1 DEF Seated, Range
<1> QED
  BY <1>2, DealAgainTypes DEF RequestRedeal

LEMMA ReadyTypes ==
  ASSUME TypeInv, NEW p \in Users, Ready(p)
  PROVE  TypeOK' /\ SeatTypes'
<1>1. phase = "PREPARE" /\ Seated' = Seated
  BY DEF Ready, Seated
<1>2. HandTypes' /\ FriendTypes' /\ TrickTypes'
  BY DEF Ready, TypeInv, TypeOK, HandTypes, FriendTypes, TrickTypes, PlayOK, friendVars,
         trickVars
<1>3. CASE InstallHost(DefaultHost)
  <2>1. DefaultHost \in Users
    <3>1. DefaultHost # NULL
      BY <1>3 DEF InstallHost
    <3>2. bids # <<>> => winning_bid.player \in Users
      BY BidderType
    <3>3. current # NULL => current \in Users
      <4> SUFFICES ASSUME cur_idx # NULL, cur_idx < nplayers PROVE players[cur_idx + 1] \in Users
        BY DEF current
      <4>1. cur_idx \in Nat /\ players \in Seq(Users)
        BY DEF TypeInv, TypeOK, RoundTypes, TableTypes
      <4> QED
        BY <4>1 DEF nplayers
    <3> QED
      BY <3>1, <3>2, <3>3 DEF DefaultHost, TypeInv, TypeOK, RoundTypes
  <2> DEFINE h == DefaultHost
  <2> HIDE DEF h
  <2>2. h \in Users /\ InstallHost(h)
    BY <1>3, <2>1 DEF h
  <2>3. TableTypes'
    BY <2>2 DEF Ready, InstallHost, TypeInv, TypeOK, TableTypes
  <2>4. RoundTypes'
    <3>1. tr' = tr \/ \E c \in Revealed(h) : tr' = [suit |-> c.suit, rank |-> ranks[h].rank]
      BY <2>2 DEF InstallHost
    <3>2. \A c \in Revealed(h) : c.suit \in Suits
      BY StdDeckAssumption DEF Revealed, IsCard, Suits
    <3>3. tr' = tr \/ tr'.suit \in Suits
      BY <3>1, <3>2
    <3> QED
      BY <2>2, <3>3 DEF Ready, InstallHost, TypeInv, TypeOK, RoundTypes, Phases
  <2>5. DealTypes' /\ \A u \in Users : draws'[u] = draws[u] \/ (draws[u] # NULL /\ draws'[u] \in Piles)
    <3> SUFFICES /\ draws' \in [Users -> Piles \cup {NULL}]
                 /\ \A u \in Users : draws'[u] = draws[u] \/ (draws[u] # NULL /\ draws'[u] \in Piles)
      BY DEF Ready, TypeInv, TypeOK, DealTypes
    <3>0. draws \in [Users -> Piles \cup {NULL}] /\ kitty \in Piles
      BY DEF TypeInv, TypeOK, DealTypes
    <3>1. CASE draws[h] = NULL
      <4>1. draws' = draws
        BY <2>2, <3>1 DEF InstallHost
      <4>2. \A u \in Users : draws'[u] = draws[u]
        BY <4>1
      <4> QED
        BY <3>0, <4>1, <4>2
    <3>2. CASE draws[h] # NULL
      <4>1. AddPile(draws[h], kitty) \in Piles
        BY <2>2, <3>0, <3>2, AddPileType
      <4>2. draws' = [draws EXCEPT ![h] = AddPile(draws[h], kitty)]
        BY <2>2, <3>2 DEF InstallHost
      <4>3. draws' \in [Users -> Piles \cup {NULL}]
        BY <2>2, <3>0, <4>1, <4>2
      <4>4. \A u \in Users : u # h => draws'[u] = draws[u]
        BY <3>0, <4>2
      <4>5. draws'[h] \in Piles
        BY <2>2, <3>0, <4>1, <4>2
      <4> QED
        BY <3>2, <4>3, <4>4, <4>5
    <3> QED
      BY <3>1, <3>2
  <2>6. phase' = "KITTY"
    BY <2>2 DEF InstallHost
  <2>7. DealtSeats' /\ NoTrick'
    BY <1>1, <2>5, <2>6 DEF Ready, trickVars, DealtSeats, NoTrick, TypeInv, SeatTypes, NoPlays
  <2> QED
    BY <1>2, <2>3, <2>4, <2>5, <2>6, <2>7
    DEF TypeOK, SeatTypes, PlaySeats, TrickSeats, FlyTypes, Tricks
<1>4. CASE consensus' = consensus \cup {p} /\ UNCHANGED <<phase, host, ranks, tr, draws>>
  <2>1. TableTypes'
    BY <1>4 DEF Ready, TypeInv, TypeOK, TableTypes
  <2>2. RoundTypes' /\ DealTypes'
    BY <1>4 DEF Ready, TypeInv, TypeOK, RoundTypes, DealTypes
  <2>3. DealtSeats' /\ NoTrick'
    BY <1>1, <1>4 DEF Ready, trickVars, DealtSeats, NoTrick, TypeInv, SeatTypes, NoPlays
  <2> QED
    BY <1>1, <1>2, <1>4, <2>1, <2>2, <2>3
    DEF TypeOK, SeatTypes, PlaySeats, TrickSeats, FlyTypes, Tricks
<1> QED
  BY <1>3, <1>4 DEF Ready

LEMMA ReplaceKittyTypes ==
  ASSUME TypeInv, NEW p \in Users, NEW k \in SubPiles(draws[p], Size(kitty)), ReplaceKitty(p, k)
  PROVE  TypeOK' /\ SeatTypes'
<1>1. TableTypes' /\ Seated' = Seated
  BY TableStays DEF ReplaceKitty
<1>2. phase = "KITTY" /\ p = host /\ draws[p] \in Piles
  BY DEF ReplaceKitty, TypeInv, TypeOK, DealTypes
<1>3. p \in Seated /\ \A u \in Seated : u \in Users /\ draws[u] \in Piles
  BY <1>2, SeatedUsers DEF ReplaceKitty, TypeInv, SeatTypes, DealtSeats
<1>4. k \in Piles /\ TakePile(draws[p], k) \in Piles
  BY <1>2, SubPileIs, ContainedType DEF ReplaceKitty
<1>5. DealTypes'
  BY <1>4 DEF ReplaceKitty, TypeInv, TypeOK, DealTypes, NoPiles
<1>6. HandTypes' /\ \A u \in Seated : hands'[u] \in Piles
  <2>1. draws \in [Users -> Piles \cup {NULL}] /\ points' = points
    BY DEF ReplaceKitty, TypeInv, TypeOK, DealTypes
  <2>2. hands' = [draws EXCEPT ![p] = TakePile(draws[p], k)]
    BY DEF ReplaceKitty
  <2>3. hands' \in [Users -> Piles \cup {NULL}]
    BY <1>4, <2>1, <2>2
  <2>4. \A u \in Seated : hands'[u] \in Piles
    BY <1>3, <1>4, <2>1, <2>2
  <2> QED
    BY <2>1, <2>3, <2>4 DEF TypeInv, TypeOK, HandTypes
<1>7. plays' = NoPlays /\ winning' = NULL /\ lead' = lead
  BY <1>2 DEF ReplaceKitty, TypeInv, SeatTypes, NoTrick
<1>8. /\ phase' \in {"LEAD", "FRIEND"} /\ RoundTypes' /\ FriendTypes' /\ TrickTypes'
      /\ phase' = "LEAD" => leader' \in Seated
  <2>1. host_team' \subseteq Users /\ atk_team' \subseteq Users
    <3>1. EvenSeats \subseteq Users
      BY <1>2, <1>3, TurnSeated, SeatedUsers DEF EvenSeats
    <3> QED
      BY <3>1, SeatedUsers DEF ReplaceKitty, TypeInv, TypeOK, FriendTypes
  <2>2. FriendTypes'
    BY <2>1 DEF ReplaceKitty, TypeInv, TypeOK, FriendTypes
  <2>3. phase' \in {"LEAD", "FRIEND"} /\ (phase' = "LEAD" => leader' \in Seated)
    BY <1>2, <1>3 DEF ReplaceKitty
  <2>4. RoundTypes'
    <3>1. order[host] \in Nat \cup {NULL}
      BY <1>2 DEF TypeInv, TypeOK, TableTypes
    <3> QED
      BY <2>3, <3>1 DEF ReplaceKitty, TypeInv, TypeOK, RoundTypes, Phases
  <2>5. TrickTypes'
    BY <1>2, <1>7 DEF ReplaceKitty, TypeInv, TypeOK, TrickTypes, NoPlays, PlayOK
  <2> QED
    BY <2>2, <2>3, <2>4, <2>5
<1>9. SeatTypes'
  <2>1. host' = host
    BY DEF ReplaceKitty
  <2> QED
    BY <1>1, <1>2, <1>3, <1>6, <1>7, <1>8, <2>1
    DEF SeatTypes, DealtSeats, PlaySeats, TrickSeats, NoTrick, FlyTypes, Tricks, NoPlays
<1> QED
  BY <1>1, <1>5, <1>6, <1>8, <1>9 DEF TypeOK

LEMMA CallFriendsTypes ==
  ASSUME TypeInv, NEW p \in Users, NEW calls \in Calls, CallFriends(p, calls)
  PROVE  TypeOK' /\ SeatTypes'
<1>1. TableTypes' /\ Seated' = Seated
  BY TableStays DEF CallFriends
<1>2. phase = "FRIEND" /\ p = host /\ phase' = "LEAD" /\ leader' = host
  BY DEF CallFriends
<1>3. RoundTypes'
  <2>1. order[host] \in Nat \cup {NULL}
    BY <1>2 DEF TypeInv, TypeOK, TableTypes
  <2> QED
    BY <1>2, <2>1 DEF CallFriends, TypeInv, TypeOK, RoundTypes, Phases
<1>4. DealTypes' /\ HandTypes'
  BY DEF CallFriends, dealVars, TypeInv, TypeOK, DealTypes, HandTypes
<1>5. FriendTypes'
  <2>1. nfriends \in Nat /\ ndecks \in Nat
    BY DEF nfriends, nplayers, TypeInv, TypeOK, TableTypes
  <2>2. calls \in [1..nfriends -> StdDeck \X (1..ndecks)]
    BY DEF Calls
  <2>3. \A i \in 1..nfriends : calls[i][1] \in StdDeck /\ calls[i][2] \in Nat
    BY <2>1, <2>2
  <2> DEFINE Friend == [card : StdDeck, nth : Nat, tally : Nat]
  <2>4. friends' \in [1..nfriends -> Friend]
    BY <2>2, <2>3 DEF CallFriends
  <2>5. friends' \in Seq(Friend)
    <3> HIDE DEF Friend
    <3> QED
      BY <2>1, <2>4
  <2>6. host_team' \subseteq Users
    BY <1>2 DEF CallFriends, TypeInv, TypeOK, FriendTypes
  <2> QED
    BY <2>5, <2>6 DEF CallFriends, TypeInv, TypeOK, FriendTypes
<1>6. TrickTypes'
  BY <1>2 DEF CallFriends, TypeInv, TypeOK, TrickTypes, PlayOK
<1>7. SeatTypes'
  <2>1. host' = host /\ hands' = hands /\ plays' = NoPlays /\ winning' = NULL
    BY <1>2 DEF CallFriends, TypeInv, SeatTypes, NoTrick
  <2> QED
    BY <1>1, <1>2, <2>1
    DEF TypeInv, SeatTypes, DealtSeats, PlaySeats, TrickSeats, NoTrick, FlyTypes, Tricks, NoPlays
<1> QED
  BY <1>1, <1>3, <1>4, <1>5, <1>6, <1>7 DEF TypeOK

-----------------------------------------------------------------------------
(* Tricks *)

LEMMA DetectFriendsTypes ==
  ASSUME TypeInv, NEW p \in Users, NEW cards \in Piles, DetectFriends(p, cards)
  PROVE  FriendTypes'
<1> DEFINE Friend == [card : StdDeck, nth : Nat, tally : Nat]
<1>0. friends \in Seq(Friend) /\ joins \in Nat
  BY DEF TypeInv, TypeOK, FriendTypes
<1>1. Tallied(cards) \in Seq(Friend)
  <2>1. \A i \in DOMAIN friends : Tallied(cards)[i] \in Friend
    <3> SUFFICES ASSUME NEW i \in DOMAIN friends PROVE Tallied(cards)[i] \in Friend
      OBVIOUS
    <3>1. friends[i] \in Friend
      <4> HIDE DEF Friend
      <4> QED
        BY <1>0
    <3>2. cards[friends[i].card] \in Nat
      BY <3>1 DEF Piles
    <3> QED
      BY <3>1, <3>2 DEF Tallied
  <2>2. DOMAIN Tallied(cards) = DOMAIN friends /\ Tallied(cards) = [i \in DOMAIN friends |-> Tallied(cards)[i]]
    BY DEF Tallied
  <2>3. DOMAIN friends = 1..Len(friends) /\ Len(friends) \in Nat
    BY <1>0
  <2> HIDE DEF Friend
  <2>4. Tallied(cards) \in [1..Len(friends) -> Friend]
    BY <2>1, <2>2, <2>3
  <2> QED
    BY <2>3, <2>4
<1>2. Cardinality(Found(cards)) \in Nat
  <2>1. DOMAIN friends = 1..Len(friends) /\ Len(friends) \in Nat
    BY <1>0
  <2>2. IsFiniteSet(DOMAIN friends)
    BY <2>1, FS_Interval
  <2>3. IsFiniteSet(Found(cards))
    BY <2>2, FS_Subset DEF Found
  <2> QED
    BY <2>3, FS_CardinalityType
<1>3. CASE fixed_teams
  BY <1>3 DEF DetectFriends, friendVars, TypeInv, TypeOK, FriendTypes
<1>4. CASE ~fixed_teams
  <2> DEFINE found == Found(cards)
  <2> HIDE DEF found
  <2>1. /\ friends' = Tallied(cards)
        /\ joins' = joins + Cardinality(found)
        /\ host_team' = (IF found = {} THEN host_team ELSE host_team \cup {p})
        /\ joiners' = (IF found = {} THEN joiners ELSE joiners \cup {p})
        /\ atk_team' = (IF found # {} /\ joins' = nfriends
                        THEN atk_team \cup (Seated \ host_team') ELSE atk_team)
    BY <1>4 DEF DetectFriends, found
  <2>2. host_team' \subseteq Users /\ joiners' \subseteq Users
    BY <2>1 DEF TypeInv, TypeOK, FriendTypes
  <2>3. atk_team' \subseteq Users
    BY <2>1, SeatedUsers DEF TypeInv, TypeOK, FriendTypes
  <2>4. joins' \in Nat
    BY <2>1, <1>0, <1>2 DEF found
  <2> QED
    BY <1>1, <2>1, <2>2, <2>3, <2>4 DEF FriendTypes
<1> QED
  BY <1>3, <1>4

\* A play by somebody at the table.
LEMMA CommitPlayTypes ==
  ASSUME TypeInv, phase \in Tricks, NEW p \in Seated, NEW play, PlayOK(play),
         CommitPlay(p, play)
  PROVE  /\ FriendTypes' /\ winning' \in Seated
         /\ DOMAIN plays' = Users /\ \A u \in Users : plays'[u] = NULL \/ PlayOK(plays'[u])
         /\ \A u \in Users : plays'[u] # NULL => u \in Seated
<1>1. p \in Users
  BY SeatedUsers
<1>2. FriendTypes'
  BY <1>1, DetectFriendsTypes DEF CommitPlay, PlayOK
<1>3. winning' \in Seated
  BY DEF CommitPlay, Winner, TypeInv, SeatTypes, TrickSeats
<1>4. DOMAIN plays = Users /\ plays' = [plays EXCEPT ![p] = play]
  BY DEF CommitPlay, TypeInv, TypeOK, TrickTypes
<1>5. \A u \in Users : plays'[u] = IF u = p THEN play ELSE plays[u]
  BY <1>1, <1>4
<1>6. \A u \in Users : plays'[u] = NULL \/ PlayOK(plays'[u])
  BY <1>5 DEF TypeInv, TypeOK, TrickTypes
<1>7. \A u \in Users : plays'[u] # NULL => u \in Seated
  BY <1>5 DEF TypeInv, SeatTypes, TrickSeats
<1> QED
  BY <1>2, <1>3, <1>4, <1>6, <1>7

\* Cards that leave a hand at the table.
LEMMA HandTaken ==
  ASSUME TypeInv, phase \in Tricks, NEW p \in Seated, NEW cards, IsPile(cards),
         Contains(hands[p], cards), hands' = [hands EXCEPT ![p] = TakePile(hands[p], cards)]
  PROVE  /\ cards \in Piles /\ hands' \in [Users -> Piles \cup {NULL}]
         /\ \A u \in Seated : hands'[u] \in Piles
<1>1. p \in Users /\ hands \in [Users -> Piles \cup {NULL}]
  BY SeatedUsers DEF TypeInv, TypeOK, HandTypes
<1>2. \A u \in Seated : u \in Users /\ hands[u] \in Piles
  BY SeatedUsers DEF TypeInv, SeatTypes, PlaySeats
<1>3. cards \in Piles /\ TakePile(hands[p], cards) \in Piles
  BY <1>2, ContainedType
<1>4. hands' \in [Users -> Piles \cup {NULL}]
  BY <1>1, <1>3
<1>5. \A u \in Seated : hands'[u] \in Piles
  BY <1>1, <1>2, <1>3
<1> QED
  BY <1>3, <1>4, <1>5

LEMMA CommitLeadTypes ==
  ASSUME TypeInv, phase \in {"LEAD", "FLY"}, cur_idx \in Nat,
         NEW p \in Seated, NEW play, IsPile(play.cards), CommitLead(p, play),
         UNCHANGED <<lobbyVars, round, dealVars, host, tr, points, leader>>,
         consensus' \subseteq Users
  PROVE  TypeOK' /\ SeatTypes'
<1>1. TableTypes' /\ Seated' = Seated
  BY TableStays
<1>2. phase \in Tricks /\ phase' = "FOLLOW" /\ lead' = play /\ CommitPlay(p, play)
  BY DEF CommitLead, Tricks
<1>3. /\ PlayOK(play) /\ hands' \in [Users -> Piles \cup {NULL}]
      /\ \A u \in Seated : hands'[u] \in Piles
  BY <1>2, HandTaken DEF CommitLead, PlayOK
<1>4. /\ FriendTypes' /\ winning' \in Seated
      /\ DOMAIN plays' = Users /\ \A u \in Users : plays'[u] = NULL \/ PlayOK(plays'[u])
      /\ \A u \in Users : plays'[u] # NULL => u \in Seated
  BY <1>2, <1>3, CommitPlayTypes
<1>5. RoundTypes'
  <2>1. cur_idx' \in Nat
    BY NextIdxType DEF CommitLead
  <2> QED
    BY <1>2, <2>1 DEF TypeInv, TypeOK, RoundTypes, Phases
<1>6. DealTypes' /\ HandTypes'
  BY <1>3 DEF dealVars, TypeInv, TypeOK, DealTypes, HandTypes
<1>7. TrickTypes'
  <2>1. leader' \in Users \cup {NULL} /\ winning' \in Users
    BY <1>4, SeatedUsers DEF TypeInv, TypeOK, TrickTypes
  <2> QED
    BY <1>2, <1>3, <1>4, <2>1 DEF TrickTypes, PlayOK
<1>8. SeatTypes'
  <2>1. host' = host /\ leader' = leader /\ host \in Seated /\ leader \in Seated
    BY <1>2 DEF TypeInv, SeatTypes, PlaySeats, TrickSeats
  <2> QED
    BY <1>1, <1>2, <1>3, <1>4, <2>1
    DEF SeatTypes, DealtSeats, PlaySeats, TrickSeats, NoTrick, FlyTypes
<1> QED
  BY <1>1, <1>4, <1>5, <1>6, <1>7, <1>8 DEF TypeOK

LEMMA LeadPlayTypes ==
  ASSUME TypeInv, NEW p \in Users, NEW play \in LeadsOf(p), LeadPlay(p, play)
  PROVE  TypeOK' /\ SeatTypes'
<1>1. phase = "LEAD" /\ p \in Seated /\ cur_idx \in Nat
  BY CurrentSeated DEF LeadPlay
<1>2. IsPile(play.cards)
  BY LeadsOfIs
<1>3. CASE CommitLead(p, play) /\ UNCHANGED consensus
  <2>1. consensus' \subseteq Users
    BY <1>3 DEF TypeInv, TypeOK, RoundTypes
  <2> QED
    BY <1>1, <1>2, <1>3, <2>1, CommitLeadTypes DEF LeadPlay
<1>4. CASE /\ lead' = play /\ consensus' = consensus \cup {p} /\ phase' = "FLY"
           /\ UNCHANGED <<hands, plays, winning, friendVars, cur_idx>>
  <2>1. TableTypes' /\ Seated' = Seated
    BY TableStays DEF LeadPlay
  <2>2. PlayOK(play)
    <3>1. hands[p] \in Piles /\ Contains(hands[p], play.cards)
      BY <1>1 DEF LeadPlay, TypeInv, SeatTypes, PlaySeats, Tricks
    <3> QED
      BY <1>2, <3>1, ContainedType DEF PlayOK
  <2>3. RoundTypes'
    BY <1>4 DEF LeadPlay, TypeInv, TypeOK, RoundTypes, Phases
  <2>4. DealTypes' /\ HandTypes' /\ FriendTypes'
    BY <1>4 DEF LeadPlay, dealVars, friendVars, TypeInv, TypeOK, DealTypes, HandTypes, FriendTypes
  <2>5. TrickTypes'
    BY <1>4, <2>2 DEF LeadPlay, TypeInv, TypeOK, TrickTypes, PlayOK
  <2>6. SeatTypes'
    <3>1. /\ host' = host /\ leader' = leader /\ winning' = winning /\ hands' = hands
          /\ plays' = plays /\ cur_idx' = cur_idx
      BY <1>4 DEF LeadPlay
    <3>2. PlayOK(lead')
      BY <1>4, <2>2
    <3>3. PlaySeats' /\ TrickSeats'
      BY <1>1, <1>4, <2>1, <3>1 DEF TypeInv, SeatTypes, PlaySeats, TrickSeats, Tricks
    <3>4. FlyTypes'
      BY <1>1, <3>1, <3>2 DEF FlyTypes, PlayOK
    <3> QED
      BY <1>4, <3>3, <3>4 DEF SeatTypes, DealtSeats, NoTrick
  <2> QED
    BY <2>1, <2>3, <2>4, <2>5, <2>6 DEF TypeOK
<1> QED
  BY <1>3, <1>4 DEF LeadPlay

LEMMA ContestFlyTypes ==
  ASSUME TypeInv, NEW p \in Users, NEW t, ContestFly(p, t)
  PROVE  TypeOK' /\ SeatTypes'
<1>1. phase = "FLY" /\ leader \in Seated /\ cur_idx \in Nat
  BY DEF ContestFly, TypeInv, SeatTypes, TrickSeats, FlyTypes, Tricks
<1> DEFINE forced == Flight(tr, <<Smallest(t)>>)
<1>2. IsPile(forced.cards)
  <2>1. forced.cards = TractorsPile(tr, <<Smallest(t)>>)
    BY DEF Flight
  <2> QED
    BY <2>1, TractorsPileIs
<1>3. CommitLead(leader, forced) /\ consensus' \subseteq Users
  BY DEF ContestFly
<1> HIDE DEF forced
<1> QED
  BY <1>1, <1>2, <1>3, CommitLeadTypes DEF ContestFly

LEMMA PassContestTypes ==
  ASSUME TypeInv, NEW p \in Users, PassContest(p)
  PROVE  TypeOK' /\ SeatTypes'
<1>1. phase = "FLY" /\ leader \in Seated /\ cur_idx \in Nat /\ PlayOK(lead)
  BY DEF PassContest, TypeInv, SeatTypes, TrickSeats, FlyTypes, Tricks
<1>2. CASE consensus' = {} /\ CommitLead(leader, lead)
  <2>1. IsPile(lead.cards)
    BY <1>1 DEF PlayOK, Piles, IsPile
  <2> QED
    BY <1>1, <1>2, <2>1, CommitLeadTypes DEF PassContest
<1>3. CASE /\ consensus' = consensus \cup {p}
           /\ UNCHANGED <<phase, cur_idx, hands, lead, plays, winning, friendVars>>
  <2>1. TableTypes' /\ Seated' = Seated
    BY TableStays DEF PassContest
  <2>2. RoundTypes' /\ DealTypes' /\ HandTypes' /\ FriendTypes'
    BY <1>3 DEF PassContest, dealVars, friendVars, TypeInv, TypeOK, RoundTypes, DealTypes,
                HandTypes, FriendTypes
  <2>3. TrickTypes'
    BY <1>3 DEF PassContest, TypeInv, TypeOK, TrickTypes, PlayOK
  <2>4. /\ host' = host /\ leader' = leader /\ winning' = winning /\ hands' = hands
        /\ plays' = plays /\ cur_idx' = cur_idx /\ lead' = lead /\ phase' = phase
    BY <1>3 DEF PassContest
  <2>5. SeatTypes'
    BY <1>1, <2>1, <2>4
    DEF TypeInv, SeatTypes, DealtSeats, PlaySeats, TrickSeats, NoTrick, FlyTypes, PlayOK, Tricks
  <2> QED
    BY <2>1, <2>2, <2>3, <2>5 DEF TypeOK
<1> QED
  BY <1>2, <1>3 DEF PassContest

LEMMA FollowLeadTypes ==
  ASSUME TypeInv, NEW p \in Users, NEW play \in FollowsOf(p), FollowLead(p, play)
  PROVE  TypeOK' /\ SeatTypes'
<1>1. phase = "FOLLOW" /\ phase \in Tricks /\ p \in Seated /\ next_player_idx(cur_idx) \in Nat
  BY CurrentSeated DEF FollowLead, Tricks
<1>2. TableTypes' /\ Seated' = Seated
  BY TableStays DEF FollowLead
<1>3. /\ play.cards \in Piles /\ hands' \in [Users -> Piles \cup {NULL}]
      /\ \A u \in Seated : hands'[u] \in Piles
  BY <1>1, FollowsOfIs, HandTaken DEF FollowLead
<1> DEFINE best == BestPlay(tr, hands[p], lead, play)
<1>4. PlayOK(best) /\ CommitPlay(p, best)
  <2>1. best.cards = play.cards
    BY BestPlayCards
  <2> QED
    BY <1>3, <2>1 DEF PlayOK, FollowLead
<1> HIDE DEF best
<1>5. /\ FriendTypes' /\ winning' \in Seated
      /\ DOMAIN plays' = Users /\ \A u \in Users : plays'[u] = NULL \/ PlayOK(plays'[u])
      /\ \A u \in Users : plays'[u] # NULL => u \in Seated
  BY <1>1, <1>4, CommitPlayTypes
<1>6. phase' \in {"FOLLOW", "FINISH"} /\ cur_idx' \in Nat \cup {NULL}
  BY <1>1 DEF FollowLead
<1>7. RoundTypes'
  BY <1>6 DEF FollowLead, TypeInv, TypeOK, RoundTypes, Phases
<1>8. DealTypes' /\ HandTypes'
  BY <1>3 DEF FollowLead, dealVars, TypeInv, TypeOK, DealTypes, HandTypes
<1>9. /\ host' = host /\ leader' = leader /\ lead' = lead /\ host \in Seated
      /\ leader \in Seated
  BY <1>1 DEF FollowLead, TypeInv, SeatTypes, PlaySeats, TrickSeats
<1>10. TrickTypes'
  <2>1. leader' \in Users \cup {NULL} /\ winning' \in Users
    BY <1>5, <1>9, SeatedUsers
  <2> QED
    BY <1>5, <1>9, <2>1 DEF TypeInv, TypeOK, TrickTypes, PlayOK
<1>11. SeatTypes'
  BY <1>2, <1>3, <1>5, <1>6, <1>9
  DEF SeatTypes, DealtSeats, PlaySeats, TrickSeats, NoTrick, FlyTypes
<1> QED
  BY <1>2, <1>5, <1>7, <1>8, <1>10, <1>11 DEF TypeOK

\* The way from one seat to another is not empty.
LEMMA WayRound ==
  ASSUME NEW n \in Nat \ {0}, NEW a \in 0..(n - 1), NEW b \in 0..(n - 1), a # b
  PROVE  (a - b + n) % n \in 1..(n - 1)
<1>1. CASE a > b
  <2>1. (a - b + n) % n = a - b
    BY <1>1
  <2> QED
    BY <1>1, <2>1
<1>2. CASE a < b
  <2>1. (a - b + n) % n = a - b + n
    BY <1>2
  <2> QED
    BY <1>2, <2>1
<1> QED
  BY <1>1, <1>2

LEMMA UndoPlayTypes ==
  ASSUME TypeInv, NEW p \in Users, UndoPlay(p)
  PROVE  TypeOK' /\ SeatTypes'
<1>1. /\ phase = "FOLLOW" /\ phase' = phase /\ plays[p] # NULL /\ p # leader
      /\ leader \in Seated /\ p \in Seated
  BY DEF UndoPlay, CheckUndo, TypeInv, SeatTypes, TrickSeats, Tricks
<1>2. TableTypes' /\ Seated' = Seated
  BY TableStays DEF UndoPlay
<1>3. hands' \in [Users -> Piles \cup {NULL}] /\ \A u \in Seated : hands'[u] \in Piles
  <2>1. hands \in [Users -> Piles \cup {NULL}]
    BY DEF TypeInv, TypeOK, HandTypes
  <2>2. \A u \in Seated : u \in Users /\ hands[u] \in Piles
    BY <1>1, SeatedUsers DEF TypeInv, SeatTypes, PlaySeats, Tricks
  <2>3. plays[p].cards \in Piles
    BY <1>1 DEF TypeInv, TypeOK, TrickTypes, PlayOK
  <2>4. AddPile(hands[p], plays[p].cards) \in Piles
    BY <1>1, <2>2, <2>3, AddPileType
  <2>5. hands' = [hands EXCEPT ![p] = AddPile(hands[p], plays[p].cards)]
    BY DEF UndoPlay
  <2>6. hands' \in [Users -> Piles \cup {NULL}]
    BY <2>1, <2>4, <2>5
  <2>7. \A u \in Seated : hands'[u] \in Piles
    BY <2>1, <2>2, <2>4, <2>5
  <2> QED
    BY <2>6, <2>7
<1>4. /\ DOMAIN plays' = Users /\ \A u \in Users : plays'[u] = NULL \/ PlayOK(plays'[u])
      /\ \A u \in Users : plays'[u] # NULL => u \in Seated
  <2>1. DOMAIN plays = Users /\ plays' = [plays EXCEPT ![p] = NULL]
    BY DEF UndoPlay, TypeInv, TypeOK, TrickTypes
  <2>2. \A u \in Users : plays'[u] = IF u = p THEN NULL ELSE plays[u]
    BY <2>1
  <2>3. \A u \in Users : plays'[u] = NULL \/ PlayOK(plays'[u])
    BY <2>2 DEF TypeInv, TypeOK, TrickTypes
  <2>4. \A u \in Users : plays'[u] # NULL => u \in Seated
    BY <1>1, <2>2 DEF TypeInv, SeatTypes, TrickSeats, Tricks
  <2> QED
    BY <2>1, <2>3, <2>4
<1>5. winning' \in Seated \cup {NULL}
  <2>1. CASE p = winning
    <3>1. nplayers \in Nat \ {0} /\ order[p] \in 0..(nplayers - 1) /\ order[leader] \in 0..(nplayers - 1)
      BY <1>1, OrderOfSeated DEF nplayers, TypeInv, SeatsInv
    <3>2. order[p] # order[leader]
      BY <1>1, OrderOfSeated
    <3>3. PlaysBefore(p) \in 1..(nplayers - 1)
      BY <3>1, <3>2, WayRound DEF PlaysBefore
    <3>4. PICK w \in Round(PlaysBefore(p)) : winning' = Turn(leader, w[PlaysBefore(p) - 1])
      BY <2>1 DEF UndoPlay
    <3> DEFINE n == PlaysBefore(p)
    <3> HIDE DEF n
    <3>5. n \in Nat \ {0} /\ w \in [0..(n - 1) -> 0..(n - 1)] /\ winning' = Turn(leader, w[n - 1])
      BY <3>1, <3>3, <3>4 DEF n, Round
    <3>6. w[n - 1] \in Nat
      BY <3>5
    <3> QED
      BY <1>1, <3>5, <3>6, TurnSeated
  <2>2. CASE p # winning
    BY <1>1, <2>2 DEF UndoPlay, TypeInv, SeatTypes, TrickSeats, Tricks
  <2> QED
    BY <2>1, <2>2
<1>6. RoundTypes'
  <2>1. cur_idx' \in Nat \cup {NULL}
    BY DEF UndoPlay, TypeInv, TypeOK, TableTypes
  <2> QED
    BY <2>1 DEF UndoPlay, TypeInv, TypeOK, RoundTypes
<1>7. DealTypes' /\ HandTypes' /\ FriendTypes'
  BY <1>3 DEF UndoPlay, dealVars, friendVars, TypeInv, TypeOK, DealTypes, HandTypes, FriendTypes
<1>8. /\ host' = host /\ leader' = leader /\ lead' = lead /\ host \in Seated
  BY <1>1 DEF UndoPlay, TypeInv, SeatTypes, PlaySeats, Tricks
<1>9. TrickTypes'
  BY <1>1, <1>4, <1>5, <1>8, SeatedUsers DEF TypeInv, TypeOK, TrickTypes, PlayOK
<1>10. SeatTypes'
  BY <1>1, <1>2, <1>3, <1>4, <1>5, <1>8
  DEF SeatTypes, DealtSeats, PlaySeats, TrickSeats, NoTrick, FlyTypes
<1> QED
  BY <1>2, <1>6, <1>7, <1>9, <1>10 DEF TypeOK

LEMMA CollectTrickTypes ==
  ASSUME TypeInv, NEW p \in Users, CollectTrick(p)
  PROVE  TypeOK' /\ SeatTypes'
<1>1. /\ phase = "FOLLOW" /\ phase \in Tricks /\ phase' \in {"FINISH", "LEAD"}
      /\ winning = p /\ winning \in Seated
  <2>1. phase = "FOLLOW" /\ phase' \in {"FINISH", "LEAD"} /\ winning = p
    BY DEF CollectTrick
  <2>2. p # NULL
    BY ZpyAssumption
  <2> QED
    BY <2>1, <2>2 DEF TypeInv, SeatTypes, TrickSeats, Tricks
<1>2. TableTypes' /\ Seated' = Seated
  BY TableStays DEF CollectTrick
<1>3. RoundTypes'
  <2>1. cur_idx' \in Nat \cup {NULL}
    BY <1>1 DEF CollectTrick, TypeInv, TypeOK, TableTypes, RoundTypes
  <2> QED
    BY <1>1, <2>1 DEF CollectTrick, TypeInv, TypeOK, RoundTypes, Phases
<1>4. DealTypes' /\ HandTypes'
  BY DEF CollectTrick, dealVars, TypeInv, TypeOK, DealTypes, HandTypes
<1>5. FriendTypes'
  BY DEF CollectTrick, TypeInv, TypeOK, FriendTypes
<1>6. /\ leader' \in Seated /\ winning' \in Seated \cup {NULL}
      /\ lead' = NULL \/ PlayOK(lead')
      /\ plays' = plays \/ plays' = NoPlays
  <2>1. leader \in Seated /\ (lead = NULL \/ PlayOK(lead))
    BY <1>1 DEF TypeInv, TypeOK, TrickTypes, SeatTypes, TrickSeats
  <2>2. \/ UNCHANGED trickVars
        \/ leader' = winning /\ winning' = NULL /\ lead' = NULL /\ plays' = NoPlays
    BY DEF CollectTrick
  <2> QED
    BY <1>1, <2>1, <2>2 DEF trickVars
<1>7. /\ DOMAIN plays' = Users /\ \A u \in Users : plays'[u] = NULL \/ PlayOK(plays'[u])
      /\ \A u \in Users : plays'[u] # NULL => u \in Seated
  BY <1>1, <1>6 DEF NoPlays, TypeInv, TypeOK, TrickTypes, SeatTypes, TrickSeats
<1>8. TrickTypes'
  BY <1>6, <1>7, SeatedUsers DEF TrickTypes, PlayOK
<1>9. SeatTypes'
  <2>1. host' = host /\ host \in Seated /\ hands' = hands /\ \A u \in Seated : hands[u] \in Piles
    BY <1>1 DEF CollectTrick, TypeInv, SeatTypes, PlaySeats
  <2> QED
    BY <1>1, <1>2, <1>6, <1>7, <2>1
    DEF SeatTypes, DealtSeats, PlaySeats, TrickSeats, NoTrick, FlyTypes
<1> QED
  BY <1>2, <1>3, <1>4, <1>5, <1>8, <1>9 DEF TypeOK

-----------------------------------------------------------------------------
(* Scoring and the next round *)

\* The next host is one of those at the table.
LEMMA NextHostSeated ==
  ASSUME TypeInv, NEW p \in Users, EndRound(p)
  PROVE  host' \in Seated
<1>1. phase = "FINISH" /\ host \in Seated
  BY DEF EndRound, TypeInv, SeatTypes, PlaySeats
<1>2. PICK k \in NextHosts : host' = Turn(host, k)
  BY DEF EndRound
<1>3. k \in Nat
  BY DEF NextHosts, nplayers, TypeInv, SeatsInv
<1> QED
  BY <1>1, <1>2, <1>3, TurnSeated

LEMMA EndRoundTypes ==
  ASSUME TypeInv, NEW p \in Users, EndRound(p)
  PROVE  TypeOK' /\ SeatTypes'
<1>1. DOMAIN ranks' = Users
  BY DEF EndRound, ScoredRanks, Fixup
<1>2. host' \in Users
  BY NextHostSeated, SeatedUsers
<1>3. TableTypes'
  BY <1>1 DEF EndRound, TypeInv, TypeOK, TableTypes
<1>4. RoundTypes'
  BY <1>2 DEF EndRound, TypeInv, TypeOK, RoundTypes, Phases
<1>5. DealTypes' /\ HandTypes' /\ FriendTypes'
  BY DEF EndRound, dealVars, friendVars, TypeInv, TypeOK, DealTypes, HandTypes, FriendTypes
<1>6. TrickTypes'
  BY DEF EndRound, trickVars, TypeInv, TypeOK, TrickTypes, PlayOK
<1>7. SeatTypes'
  BY DEF EndRound, SeatTypes, DealtSeats, PlaySeats, TrickSeats, NoTrick, FlyTypes, Tricks
<1> QED
  BY <1>3, <1>4, <1>5, <1>6, <1>7 DEF TypeOK

LEMMA NextReadyTypes ==
  ASSUME TypeInv, NEW p \in Users, NextReady(p)
  PROVE  TypeOK' /\ SeatTypes'
<1>1. TableTypes' /\ phase' = "WAIT"
  BY TableStays DEF NextReady
<1>2. RoundTypes'
  BY DEF NextReady, TypeInv, TypeOK, RoundTypes
<1>3. DealTypes' /\ HandTypes' /\ FriendTypes'
  BY DEF NextReady, dealVars, friendVars, TypeInv, TypeOK, DealTypes, HandTypes, FriendTypes
<1>4. TrickTypes'
  BY DEF NextReady, trickVars, TypeInv, TypeOK, TrickTypes, PlayOK
<1>5. SeatTypes'
  BY <1>1 DEF SeatTypes, DealtSeats, PlaySeats, TrickSeats, NoTrick, FlyTypes, Tricks
<1> QED
  BY <1>1, <1>2, <1>3, <1>4, <1>5 DEF TypeOK

LEMMA NextRoundTypes ==
  ASSUME TypeInv, NEW p \in Users, NextRound(p)
  PROVE  TypeOK' /\ SeatTypes'
<1>1. players # <<>>
  BY Numbers DEF NextRound, nplayers
<1> QED
  BY <1>1, DealAgainTypes DEF NextRound

-----------------------------------------------------------------------------
(* Type correctness *)

LEMMA TypeNext ==
  ASSUME "joins again" \notin Habits, TypeInv, [Next]_vars
  PROVE  TypeInv'
<1>1. SeatsInv'
  BY SeatsNext DEF TypeInv
<1>2. CASE UNCHANGED vars
  <2>1. TableTypes' /\ RoundTypes' /\ DealTypes'
    BY <1>2 DEF vars, lobbyVars, dealVars, TypeInv, TypeOK, TableTypes, RoundTypes, DealTypes
  <2>2. HandTypes' /\ FriendTypes' /\ TrickTypes'
    BY <1>2 DEF vars, friendVars, trickVars, TypeInv, TypeOK, HandTypes, FriendTypes,
                TrickTypes, PlayOK
  <2>3. SeatTypes'
    <3>1. /\ phase' = phase /\ players' = players /\ draws' = draws /\ host' = host
          /\ hands' = hands /\ leader' = leader /\ winning' = winning /\ plays' = plays
          /\ lead' = lead /\ cur_idx' = cur_idx
      BY <1>2 DEF vars, lobbyVars, dealVars, trickVars
    <3> QED
      BY <3>1 DEF TypeInv, SeatTypes, DealtSeats, PlaySeats, TrickSeats, NoTrick, FlyTypes,
                  Seated, PlayOK, NoPlays
  <2> QED
    BY <1>1, <2>1, <2>2, <2>3 DEF TypeInv, TypeOK
<1>3. ASSUME NEW p \in Users, Configure(p) PROVE TypeOK' /\ SeatTypes'
  BY <1>1, <1>3, ConfigureTypes
<1>4. ASSUME NEW p \in Users, Prepare(p) PROVE TypeOK' /\ SeatTypes'
  <2>1. CASE StartGame(p)
    BY <1>1, <2>1, StartGameTypes
  <2>2. CASE DrawCard(p)
    BY <2>2, DrawCardTypes
  <2>3. CASE \E c \in StdDeck, n \in 1..ndecks : BidTrump(p, c, n)
    BY <2>3, BidTrumpTypes
  <2>4. CASE RequestRedeal(p)
    BY <2>4, RequestRedealTypes
  <2>5. CASE Ready(p)
    BY <2>5, ReadyTypes
  <2>6. CASE \E k \in SubPiles(draws[p], Size(kitty)) : ReplaceKitty(p, k)
    BY <2>6, ReplaceKittyTypes
  <2>7. CASE \E calls \in Calls : CallFriends(p, calls)
    BY <2>7, CallFriendsTypes
  <2> QED
    BY <1>4, <2>1, <2>2, <2>3, <2>4, <2>5, <2>6, <2>7 DEF Prepare
<1>5. ASSUME NEW p \in Users, PlayTrick(p) PROVE TypeOK' /\ SeatTypes'
  <2>1. CASE \E play \in LeadsOf(p) : LeadPlay(p, play)
    BY <2>1, LeadPlayTypes
  <2>2. CASE \E t \in TractorsIn(tr, hands[p], FlightSuit(lead)) : ContestFly(p, t)
    BY <2>2, ContestFlyTypes
  <2>3. CASE PassContest(p)
    BY <2>3, PassContestTypes
  <2>4. CASE \E play \in FollowsOf(p) : FollowLead(p, play)
    BY <2>4, FollowLeadTypes
  <2>5. CASE UndoPlay(p)
    BY <2>5, UndoPlayTypes
  <2>6. CASE CollectTrick(p)
    BY <2>6, CollectTrickTypes
  <2> QED
    BY <1>5, <2>1, <2>2, <2>3, <2>4, <2>5, <2>6 DEF PlayTrick
<1>6. ASSUME NEW p \in Users, Conclude(p) PROVE TypeOK' /\ SeatTypes'
  BY <1>6, EndRoundTypes, NextReadyTypes, NextRoundTypes DEF Conclude
<1> QED
  BY <1>1, <1>2, <1>3, <1>4, <1>5, <1>6 DEF Next, TypeInv

LEMMA TypeInvariant == ASSUME "joins again" \notin Habits PROVE Spec => []TypeInv
<1>1. Init => TypeInv
  BY TypeInit, SeatsInit DEF TypeInv
<1>2. TypeInv /\ [Next]_vars => TypeInv'
  BY TypeNext
<1> QED
  BY <1>1, <1>2, PTL DEF Spec

\* Every field of Data keeps the type it is declared with: no method of ZPY puts
\* an unknown player, a negative count or a missing pile where cards or players
\* are expected, in any phase of any game.
THEOREM TypeCorrect == ASSUME "joins again" \notin Habits PROVE Spec => []TypeOK
<1>1. TypeInv => TypeOK
  BY DEF TypeInv
<1> QED
  BY <1>1, TypeInvariant, PTL

-----------------------------------------------------------------------------
(* The owner *)

\* Between rounds the next host, who would inherit the table, is at it.
OwnerInv ==
  /\ OwnerSeated
  /\ phase = "INIT" => host = NULL
  /\ phase = "WAIT" => host \in Seated

LEMMA FirstSeat == ASSUME NEW ps \in Seq(Users), ps # <<>> PROVE ps[1] \in Range(ps)
<1>1. 1 \in DOMAIN ps
  OBVIOUS
<1> QED
  BY <1>1 DEF Range

\* Nobody but the one in the seat taken away loses theirs.
LEMMA KeptSeat ==
  ASSUME NEW ps \in Seq(Users), NEW k \in DOMAIN ps, NEW i \in DOMAIN ps, ps[i] # ps[k]
  PROVE  ps[i] \in Range(SubSeq(ps, 1, k - 1) \o SubSeq(ps, k + 1, Len(ps)))
<1> DEFINE front == SubSeq(ps, 1, k - 1)
           back  == SubSeq(ps, k + 1, Len(ps))
<1>1. k \in 1..Len(ps) /\ i \in 1..Len(ps) /\ i # k /\ Len(ps) \in Nat
  OBVIOUS
<1>2. front \in Seq(Users) /\ Len(front) = k - 1 /\ \A j \in 1..(k - 1) : front[j] = ps[j]
  BY <1>1
<1>3. /\ back \in Seq(Users) /\ Len(back) = Len(ps) - k
      /\ \A j \in 1..(Len(ps) - k) : back[j] = ps[k + j]
  BY <1>1
<1> HIDE DEF front, back
<1>4. front \o back \in Seq(Users) /\ Len(front \o back) = Len(ps) - 1
  BY <1>1, <1>2, <1>3
<1>5. CASE i < k
  <2>1. (front \o back)[i] = ps[i] /\ i \in DOMAIN (front \o back)
    BY <1>1, <1>2, <1>3, <1>4, <1>5
  <2> QED
    BY <2>1 DEF Range, front, back
<1>6. CASE i > k
  <2>1. i - k \in 1..(Len(ps) - k) /\ k + (i - k) = i
    BY <1>1, <1>6
  <2>2. i - 1 \in 1..(Len(front) + Len(back)) /\ ~(i - 1 <= Len(front))
    BY <1>1, <1>2, <1>3, <1>6
  <2>3. (front \o back)[i - 1] = back[(i - 1) - Len(front)]
    BY <1>2, <1>3, <2>2, ConcatProperties
  <2>4. (i - 1) - Len(front) = i - k
    BY <1>1, <1>2
  <2>5. (front \o back)[i - 1] = ps[i]
    BY <1>3, <2>1, <2>3, <2>4
  <2>6. i - 1 \in DOMAIN (front \o back)
    BY <1>1, <1>4, <1>6
  <2> QED
    BY <2>5, <2>6 DEF Range, front, back
<1> QED
  BY <1>1, <1>5, <1>6

\* No step of a round but the last ends it.
LEMMA RoundGoesOn ==
  ASSUME NEW p \in Users, Prepare(p) \/ PlayTrick(p)
  PROVE  phase' \notin {"INIT", "WAIT"}
<1>1. CASE Prepare(p)
  BY <1>1 DEF Prepare, StartGame, DrawCard, BidTrump, RequestRedeal, Ready, InstallHost,
              ReplaceKitty, CallFriends
<1>2. CASE PlayTrick(p)
  BY <1>2 DEF PlayTrick, LeadPlay, ContestFly, PassContest, FollowLead, UndoPlay,
              CollectTrick, CommitLead
<1> QED
  BY <1>1, <1>2

LEMMA AppendSeat ==
  ASSUME NEW ps \in Seq(Users), NEW p \in Users
  PROVE  Range(Append(ps, p)) = Range(ps) \cup {p}
<1>1. /\ Append(ps, p) \in Seq(Users) /\ Len(Append(ps, p)) = Len(ps) + 1
      /\ Append(ps, p)[Len(ps) + 1] = p
      /\ \A i \in 1..Len(ps) : Append(ps, p)[i] = ps[i]
  BY AppendProperties
<1>2. /\ DOMAIN Append(ps, p) = 1..(Len(ps) + 1) /\ DOMAIN ps = 1..Len(ps) /\ Len(ps) \in Nat
  BY <1>1
<1>3. DOMAIN Append(ps, p) = DOMAIN ps \cup {Len(ps) + 1}
  BY <1>2
<1> QED
  BY <1>1, <1>2, <1>3 DEF Range

LEMMA EmptyTable == Seated # {} => players # <<>>
  BY DEF Seated, Range

LEMMA RmPlayerKeeps ==
  ASSUME SeatsInv, NEW p \in Users, RmPlayer(p)
  PROVE  \A u \in Seated : u # p => u \in Seated'
<1> SUFFICES ASSUME NEW i \in DOMAIN players, players[i] # p PROVE players[i] \in Seated'
  BY DEF Seated, Range
<1>1. PICK k \in DOMAIN players : players[k] = p
  BY DEF RmPlayer, Seated, Range
<1>2. {m \in DOMAIN players : players[m] = p} = {k} /\ k \in Int
  BY <1>1 DEF SeatsInv, OneSeatEach
<1>3. players' = SubSeq(players, 1, k - 1) \o SubSeq(players, k + 1, Len(players))
  BY <1>2, MaxOfOne DEF RmPlayer, nplayers
<1> QED
  BY <1>1, <1>3, KeptSeat DEF Seated, SeatsInv

LEMMA ConfigureOwner ==
  ASSUME "host leaves" \notin Habits, TypeInv, SeatsInv', OwnerInv, NEW p \in Users,
         Configure(p)
  PROVE  OwnerInv'
<1>1. players \in Seq(Users) /\ players' \in Seq(Users)
  BY DEF TypeInv, SeatsInv
<1>2. CASE AddPlayer(p)
  <2>1. players' = Append(players, p) /\ phase' = phase /\ host' = host
    BY <1>2 DEF AddPlayer, roundVars
  <2>2. Seated' = Seated \cup {p}
    BY <1>1, <2>1, AppendSeat DEF Seated
  <2>3. owner' \in Seated'
    BY <1>2, <2>2 DEF AddPlayer, OwnerInv, OwnerSeated
  <2> QED
    BY <2>1, <2>2, <2>3 DEF OwnerInv, OwnerSeated
<1>3. CASE RmPlayer(p)
  <2>1. Lobby /\ phase' = phase /\ host' = host /\ p \in Seated /\ p # host
    BY <1>3 DEF RmPlayer, roundVars
  <2>2. \A u \in Seated : u # p => u \in Seated'
    BY <1>3, RmPlayerKeeps DEF TypeInv
  <2>3. host # NULL => host \in Seated'
    BY <2>1, <2>2 DEF Lobby, OwnerInv
  <2>4. players' # <<>> => owner' \in Seated'
    <3>1. CASE p = owner
      <4>1. players' # <<>> => players'[1] \in Seated'
        BY <1>1, FirstSeat DEF Seated
      <4> QED
        BY <1>3, <2>3, <3>1, <4>1 DEF RmPlayer, NewOwner
    <3>2. CASE p # owner
      <4>1. owner' = owner
        BY <1>3, <3>2 DEF RmPlayer
      <4>2. players # <<>>
        BY <2>1, EmptyTable
      <4> QED
        BY <2>2, <3>2, <4>1, <4>2 DEF OwnerInv, OwnerSeated
    <3> QED
      BY <3>1, <3>2
  <2>5. phase' = "WAIT" => host' \in Seated'
    BY <2>1, <2>2 DEF OwnerInv
  <2> QED
    BY <2>1, <2>4, <2>5 DEF OwnerInv, OwnerSeated
<1>4. CASE \/ \E n \in DeckChoices : SetDecks(p, n)
           \/ \E mods \in RuleSets : SetRuleMods(p, mods)
           \/ \E rank \in RankChoices : SetRank(p, rank)
  BY <1>4 DEF SetDecks, SetRuleMods, SetRank, roundVars, OwnerInv, OwnerSeated, Seated
<1> QED
  BY <1>2, <1>3, <1>4 DEF Configure

LEMMA StartGameOwner ==
  ASSUME TypeInv, OwnerInv, NEW p \in Users, StartGame(p)
  PROVE  OwnerInv'
<1>1. players' \in Seatings /\ phase' = "DRAW" /\ owner' = owner /\ nplayers > 0
  BY Numbers DEF StartGame, nplayers, TypeInv, SeatsInv
<1>2. Seated' = Seated
  BY <1>1 DEF Seatings, Seated
<1> QED
  BY <1>1, <1>2 DEF OwnerInv, OwnerSeated, nplayers

LEMMA OwnerNext ==
  ASSUME "joins again" \notin Habits, "host leaves" \notin Habits,
         TypeInv, OwnerInv, [Next]_vars
  PROVE  OwnerInv'
<1>1. SeatsInv'
  BY SeatsNext DEF TypeInv
<1>2. CASE UNCHANGED vars
  BY <1>2 DEF vars, lobbyVars, OwnerInv, OwnerSeated, Seated
<1>3. ASSUME NEW p \in Users, Configure(p) PROVE OwnerInv'
  BY <1>1, <1>3, ConfigureOwner
<1>4. ASSUME NEW p \in Users, Prepare(p) \/ PlayTrick(p) PROVE OwnerInv'
  <2>1. CASE StartGame(p)
    BY <2>1, StartGameOwner
  <2>2. CASE ~StartGame(p)
    <3>1. players' = players /\ owner' = owner
      BY <1>4, <2>2, PreparingKeepsTable, PlayingKeepsTable
    <3>2. phase' \notin {"INIT", "WAIT"}
      BY <1>4, <2>2, RoundGoesOn
    <3> QED
      BY <3>1, <3>2 DEF OwnerInv, OwnerSeated, Seated
  <2> QED
    BY <2>1, <2>2
<1>5. ASSUME NEW p \in Users, Conclude(p) PROVE OwnerInv'
  <2>1. players' = players /\ owner' = owner /\ phase' # "INIT"
    BY <1>5, ConcludingKeepsTable DEF Conclude, EndRound, NextReady, NextRound
  <2>2. phase' = "WAIT" => host' \in Seated'
    <3>1. CASE EndRound(p)
      BY <2>1, <3>1, NextHostSeated DEF Seated
    <3>2. CASE NextReady(p)
      BY <2>1, <3>2 DEF NextReady, OwnerInv, Seated
    <3>3. CASE NextRound(p)
      BY <3>3 DEF NextRound
    <3> QED
      BY <1>5, <3>1, <3>2, <3>3 DEF Conclude
  <2> QED
    BY <2>1, <2>2 DEF OwnerInv, OwnerSeated, Seated
<1> QED
  BY <1>2, <1>3, <1>4, <1>5 DEF Next

LEMMA OwnerAlways ==
  ASSUME "joins again" \notin Habits, "host leaves" \notin Habits
  PROVE  Spec => []OwnerInv
<1>1. Init => OwnerInv
  <2> SUFFICES ASSUME Init PROVE OwnerInv
    OBVIOUS
  <2>1. Arrived # <<>> => Arrived[1] \in Range(Arrived)
    BY ArrivedType, FirstSeat
  <2> QED
    BY <2>1 DEF Init, OwnerInv, OwnerSeated, Seated
<1>2. TypeInv /\ OwnerInv /\ [Next]_vars => OwnerInv'
  BY OwnerNext
<1>3. Spec => []TypeInv
  BY TypeInvariant
<1> QED
  BY <1>1, <1>2, <1>3, PTL DEF Spec

\* rm_player hands an abandoned table to somebody who is still there, through
\* any number of rounds and departures, as long as hosts stay between rounds.
THEOREM OwnerCorrect ==
  ASSUME "joins again" \notin Habits, "host leaves" \notin Habits
  PROVE  Spec => []OwnerSeated
<1>1. OwnerInv => OwnerSeated
  BY DEF OwnerInv
<1> QED
  BY <1>1, OwnerAlways, PTL

=============================================================================
