-------------------------------- MODULE Zpy --------------------------------
(***************************************************************************)
(* The game state machine of src/lib/zpy/zpy.ts, as the server runs it     *)
(* (identity = null): the variables are the fields of class Data, and      *)
(* there is one action per method of class ZPY that a session can call,    *)
(* with the effect it commits (draw_card with add_to_hand, and so on).  A  *)
(* call that returns a ZPY.Error changes nothing and is no step; nor is    *)
(* one that throws, for want of a draw (zpy.ts:579, 658) or a hand (979)   *)
(* of whoever calls.                                                       *)
(*                                                                         *)
(* Piles are counts per card (see Cards), each player's point cards are    *)
(* their total, and Hand's search indexes are left to Trick.               *)
(*                                                                         *)
(* A definition marked "Slip" is no part of the specification: it is what  *)
(* the definition after it would be under a plausible bug, and there to    *)
(* see which property notices.                                             *)
(***************************************************************************)
EXTENDS Trick

CONSTANTS
  Users,        \* everybody connected to the game, players or not
  Arrived,      \* those who have joined already, in order
  ZeroUser,     \* the user whose id is 0, or NULL if not at this table
  MinPlayers,   \* ZPY.min_players, 4
  MaxPlayers,   \* options.max_players, 14
  KittyLow,     \* a kitty has more cards than this, 4
  KittyHigh,    \* and not more than this before players are added, 10
  Shuffles,     \* Shuffles[n]: the orders n decks may come out of a shuffle in
  Debug,        \* set_debug(): the seating is not shuffled
  Habits,       \* which of the optional things below the users do
  RuleSets,     \* the rule modifiers the owner may pick
  RankChoices,  \* the ranks a player may pick
  DeckChoices,  \* the numbers of decks the owner may pick
  MaxRound,     \* bound on the round counter
  MaxTractors   \* bound on the tractors in a lead

\* A player's ranks: the current one, the latest starting one and the last hosted
\* one.
RankMetas == [rank : 2..Big, start : 2..RankA, last_host : (2..Big) \cup {NULL}]

ASSUME ZpyAssumption ==
  /\ IsFiniteSet(Users) /\ NULL \notin Users \cup Nat \cup Piles \cup RankMetas
  /\ Arrived \in Seq(Users) /\ \A i, j \in DOMAIN Arrived : Arrived[i] = Arrived[j] => i = j
  /\ MinPlayers \in Nat \ {0} /\ MaxPlayers \in Nat
  /\ KittyLow \in Nat /\ KittyHigh \in Nat
  /\ \A n \in DOMAIN Shuffles : \A d \in Shuffles[n] :
       d \in Seq(StdDeck) /\ \A c \in StdDeck : PileOf(d)[c] = n
  /\ Debug \in BOOLEAN
  /\ Habits \subseteq {"undo", "redeal", "guest leaves", "host leaves", "joins again",
                      "spectator votes"}
  /\ RankChoices \subseteq (2..RankA) \cup {Big}
  /\ DeckChoices \subseteq Nat /\ MaxTractors \in Nat

VARIABLES
  phase, rules, owner, players, ranks, ndecks,       \* the lobby
  round, order, consensus,
  deck, deck_sz, kitty, bids, draws, cur_idx,        \* drawing and bidding
  host, tr, hands, points,                           \* the round
  friends, joins, host_team, atk_team,               \* friends and teams
  leader, lead, plays, winning, joiners              \* the trick

lobbyVars  == <<rules, owner, players, ranks, ndecks, order>>
dealVars   == <<deck, deck_sz, kitty, bids, draws>>
friendVars == <<friends, joins, host_team, atk_team, joiners>>
trickVars  == <<leader, lead, plays, winning>>

vars == <<phase, lobbyVars, round, consensus, dealVars, cur_idx, host, tr,
          hands, points, friendVars, trickVars>>

Phases == {"INIT", "DRAW", "PREPARE", "KITTY", "FRIEND", "LEAD", "FLY", "FOLLOW",
           "FINISH", "WAIT"}
Lobby == phase \in {"INIT", "WAIT"}

Rules == [renege : {"FORBID", "ACCUSE", "AUTOLOSE"},
          rank   : {"HOST_ONCE", "NO_SKIP", "NO_PASS", "NO_RULE"},
          kitty  : {"EXP", "MULT"},
          hook   : {"WIN_HOOK", "NO_HOOK"},
          undo   : {"NO_UNDO", "UNDO_ONE"},
          team   : {"FRIEND", "FIXED"}]
ASSUME RuleSetsAssumption == RuleSets \subseteq Rules

DefaultRules == [renege |-> "FORBID", rank |-> "HOST_ONCE", kitty |-> "EXP",
                 hook |-> "WIN_HOOK", undo |-> "NO_UNDO", team |-> "FRIEND"]

NoPiles == [u \in Users |-> NULL]
NoPlays == [u \in Users |-> NULL]

-----------------------------------------------------------------------------
(* Config and convenience getters *)

nplayers == Len(players)
Seated == Range(players)

AtLeast(n) == IF n > MinPlayers THEN n ELSE MinPlayers
min_ndecks(n) == (4 * AtLeast(n)) \div 10
max_ndecks(n) == (8 * AtLeast(n)) \div 10
def_ndecks(n) == (AtLeast(n) + 1) \div 2

nfriends == (35 * nplayers) \div 100

\* Slip: the kitty is as small as may be, whatever the deal leaves over.
kitty_sz_least(n, nd) == KittyLow + 1

\* kitty_sz for n players and nd decks, its two loops in closed form.
kitty_sz(n, nd) ==
  LET rest  == (nd * Cardinality(StdDeck)) % n
      first == IF rest = 0 THEN n ELSE rest
      low   == IF first > KittyHigh THEN first - n ELSE first
  IN  IF low > KittyLow THEN low ELSE low + n * ((KittyLow - low) \div n + 1)

fixed_teams == rules.team = "FIXED" /\ nplayers % 2 = 0

\* current(): undefined when the index is out of range.
current == IF cur_idx # NULL /\ cur_idx < nplayers THEN players[cur_idx + 1] ELSE NULL

next_player_idx(i) == IF i + 1 < nplayers THEN i + 1 ELSE 0

\* Slips: off by one either way.
has_consensus_early(c) == Cardinality(c) >= nplayers - 1
has_consensus_late(c) == Cardinality(c) > nplayers

\* has_consensus compares sizes only.
has_consensus(c) == Cardinality(c) = nplayers

winning_bid == bids[Len(bids)]

trick_over(ps) == Cardinality({u \in Users : ps[u] # NULL}) = nplayers

\* Who votes in ready, pass_contest and next_ready: the code does not ask
\* whether the sender is a player.
Voters == IF "spectator votes" \in Habits THEN Users ELSE Seated

\* The k-th player from p on, in turn order.
Turn(p, k) == players[((order[p] + k) % nplayers) + 1]

-----------------------------------------------------------------------------
(* The lobby: Phase.INIT and Phase.WAIT *)

\* What add_player gives a newcomer.
NewRank == [rank |-> 2, start |-> 2, last_host |-> NULL]

Init ==
  /\ phase = "INIT" /\ rules = DefaultRules
  /\ players = Arrived /\ owner = IF Arrived = <<>> THEN NULL ELSE Arrived[1]
  /\ ranks = [u \in Users |-> IF u \in Range(Arrived) THEN NewRank ELSE NULL]
  /\ ndecks = 0 /\ order = [u \in Users |-> NULL]
  /\ round = 0 /\ consensus = {}
  /\ deck = <<>> /\ deck_sz = 0 /\ kitty = EmptyPile /\ bids = <<>>
  /\ draws = NoPiles /\ cur_idx = NULL
  /\ host = NULL /\ tr = NULL /\ hands = NoPiles /\ points = [u \in Users |-> 0]
  /\ friends = <<>> /\ joins = 0 /\ host_team = {} /\ atk_team = {}
  /\ leader = NULL /\ lead = NULL /\ plays = NoPlays /\ winning = NULL
  /\ joiners = {}

roundVars == <<phase, round, consensus, dealVars, cur_idx, host, tr, hands, points,
               friendVars, trickVars>>

\* The duplicate check is find()'s result, which is falsy for the user id 0.
AddPlayer(p) ==
  /\ Lobby
  /\ p \in Seated => p = ZeroUser /\ "joins again" \in Habits
  /\ nplayers < MaxPlayers
  /\ owner' = IF players = <<>> THEN p ELSE owner
  /\ players' = Append(players, p)
  /\ ranks' = IF ranks[p] = NULL THEN [ranks EXCEPT ![p] = NewRank] ELSE ranks
  /\ order' = IF phase = "WAIT" THEN [order EXCEPT ![p] = nplayers] ELSE order
  /\ UNCHANGED <<rules, ndecks, roundVars>>

\* Where a player sits; the last seat wins if there are several.
SeatIn(ps, p) == Max({i \in DOMAIN ps : ps[i] = p}) - 1

\* Slip: those who move up keep their old index.
Reseat_stale(ps) == order
Reseat(ps) == [u \in Users |-> IF u \in Range(ps) THEN SeatIn(ps, u) ELSE order[u]]

\* Slip: there is always a host to take over.
NewOwner_host(ps) == host

NewOwner(ps) == IF host # NULL THEN host ELSE IF ps # <<>> THEN ps[1] ELSE NULL

RmPlayer(p) ==
  /\ Lobby
  /\ p \in Seated
  /\ (IF p = host THEN "host leaves" ELSE "guest leaves") \in Habits
  /\ LET idx == Min({i \in DOMAIN players : players[i] = p})
     IN  players' = SubSeq(players, 1, idx - 1) \o SubSeq(players, idx + 1, nplayers)
  /\ order' = Reseat(players')
  /\ owner' = IF p = owner THEN NewOwner(players') ELSE owner
  /\ UNCHANGED <<rules, ranks, ndecks, roundVars>>

SetDecks(p, n) ==
  /\ Lobby
  /\ p = owner
  /\ n > 0 /\ n \in min_ndecks(nplayers)..max_ndecks(nplayers)
  /\ ndecks' = n
  /\ UNCHANGED <<rules, owner, players, ranks, order, roundVars>>

SetRuleMods(p, mods) ==
  /\ Lobby
  /\ p = owner
  /\ rules' = mods
  /\ UNCHANGED <<owner, players, ranks, ndecks, order, roundVars>>

SetRank(p, rank) ==
  /\ Lobby
  /\ ranks[p] # NULL
  /\ ranks' = [ranks EXCEPT ![p].rank = rank]
  /\ UNCHANGED <<rules, owner, players, ndecks, order, roundVars>>

-----------------------------------------------------------------------------
(* Starting a round *)

\* reset_round for the table ps seated by ord with nd decks.  `joiners` is the
\* one field of the trick that the source does not reset.
ResetRound(ps, ord, nd, starting, is_host) ==
  /\ round < MaxRound /\ round' = round + 1
  /\ consensus' = {}
  /\ nd \in DOMAIN Shuffles
  /\ \E shuffled \in Shuffles[nd] :
       LET left == Len(shuffled) - kitty_sz(Len(ps), nd)
       IN  /\ deck' = SubSeq(shuffled, 1, left)
           /\ deck_sz' = left
           /\ kitty' = PileOf(SubSeq(shuffled, left + 1, Len(shuffled)))
  /\ bids' = <<>>
  /\ draws' = [u \in Users |-> IF u \in Range(ps) THEN EmptyPile ELSE NULL]
  /\ cur_idx' = ord[starting]
  /\ host' = IF is_host THEN starting ELSE NULL
  /\ tr' = IF is_host THEN [suit |-> "T", rank |-> ranks[starting].rank] ELSE JokersOnly
  /\ hands' = NoPiles
  /\ points' = [u \in Users |-> 0]
  /\ friends' = <<>> /\ joins' = 0 /\ host_team' = {} /\ atk_team' = {}
  /\ leader' = NULL /\ lead' = NULL /\ plays' = NoPlays /\ winning' = NULL
  /\ UNCHANGED joiners

\* array_shuffle seats the players anew, unless teams are fixed by the seats.
Seatings ==
  IF Debug \/ fixed_teams THEN {players}
  ELSE {ps \in [1..nplayers -> Seated] : Range(ps) = Seated}

StartGame(p) ==
  /\ phase = "INIT"
  /\ p = owner
  /\ nplayers >= MinPlayers
  /\ players' \in Seatings
  /\ order' = Reseat(players')
  /\ ndecks' = IF ndecks = 0 THEN def_ndecks(nplayers) ELSE ndecks
  /\ ResetRound(players', order', ndecks', owner, FALSE)
  /\ phase' = "DRAW"
  /\ UNCHANGED <<rules, owner, ranks>>

-----------------------------------------------------------------------------
(* Phase.DRAW and Phase.PREPARE *)

\* draw_card, add_to_hand.
DrawCard(p) ==
  /\ phase = "DRAW"
  /\ p = current
  /\ deck # <<>> /\ draws[p] # NULL
  /\ deck' = SubSeq(deck, 1, Len(deck) - 1)
  /\ draws' = [draws EXCEPT ![p] = AddPile(draws[p], PileOf(<<deck[Len(deck)]>>))]
  /\ deck_sz' = deck_sz - 1
  /\ phase' = IF deck_sz' = 0 THEN "PREPARE" ELSE "DRAW"
  /\ consensus' = IF deck_sz' = 0 /\ bids # <<>> THEN {winning_bid.player} ELSE consensus
  /\ cur_idx' = next_player_idx(cur_idx)
  /\ UNCHANGED <<lobbyVars, round, kitty, bids, host, tr, hands, points, friendVars,
                 trickVars>>

trump_rank(p) == ranks[IF host # NULL THEN host ELSE p].rank

\* Slip: an equal bid by another player goes over.
Overturns_equal(p, card, n, prev) ==
  IF p = prev.player THEN card.suit = prev.card.suit /\ n > prev.n ELSE n >= prev.n

\* Whether (card, n) by p goes over the bid prev.
Overturns(p, card, n, prev) ==
  IF p = prev.player THEN card.suit = prev.card.suit /\ n > prev.n
  ELSE \/ n > prev.n
       \/ n = prev.n /\ prev.card.rank <= RankA /\ card.rank >= Small

\* bid_trump, secure_bid.
BidTrump(p, card, n) ==
  /\ phase \in {"DRAW", "PREPARE"}
  /\ n >= 1
  /\ draws[p] # NULL /\ draws[p][card] >= n
  /\ card.rank <= RankA => card.rank = trump_rank(p)
  /\ card.rank > RankA => bids # <<>> /\ n >= 2
  /\ bids # <<>> => Overturns(p, card, n, winning_bid)
  /\ consensus' = IF phase = "PREPARE" THEN {p} ELSE consensus
  /\ bids' = Append(bids, [player |-> p, card |-> card, n |-> n])
  /\ tr' = [suit |-> card.suit, rank |-> trump_rank(p)]
  /\ UNCHANGED <<phase, lobbyVars, round, deck, deck_sz, kitty, draws, cur_idx, host,
                 hands, points, friendVars, trickVars>>

\* request_redeal, redeal: at most ndecks * 5 points in hand.
RequestRedeal(p) ==
  /\ "redeal" \in Habits
  /\ phase = "PREPARE"
  /\ draws[p] # NULL /\ PilePoints(draws[p]) <= ndecks * 5
  /\ ResetRound(players, order, ndecks, p, FALSE)
  /\ phase' = "DRAW"
  /\ UNCHANGED lobbyVars

\* reveal_highest: the best card of the kitty by virtual rank under the host's
\* rank; among equals the source takes the first one turned over.
Revealed(h) ==
  LET ctx == [suit |-> "T", rank |-> ranks[h].rank]
      up  == {c \in StdDeck : kitty[c] > 0}
  IN  {c \in up : \A d \in up : VRank(ctx, d) <= VRank(ctx, c)}

\* install_host with reveal_kitty and receive_kitty.
InstallHost(h) ==
  /\ h # NULL
  /\ consensus' = {}
  /\ host' = h
  /\ ranks' = [ranks EXCEPT ![h].last_host = ranks[h].rank]
  /\ IF bids # <<>> THEN UNCHANGED tr
     ELSE \E c \in Revealed(h) : tr' = [suit |-> c.suit, rank |-> ranks[h].rank]
  /\ draws' = IF draws[h] = NULL THEN draws
              ELSE [draws EXCEPT ![h] = AddPile(draws[h], kitty)]
  /\ phase' = "KITTY"

DefaultHost == IF host # NULL THEN host
               ELSE IF bids # <<>> THEN winning_bid.player ELSE current

Ready(p) ==
  /\ phase = "PREPARE"
  /\ IF has_consensus(consensus \cup {p})
     THEN InstallHost(DefaultHost)
     ELSE /\ consensus' = consensus \cup {p}
          /\ UNCHANGED <<phase, host, ranks, tr, draws>>
  /\ UNCHANGED <<rules, owner, players, ndecks, order, round, deck, deck_sz, kitty, bids,
                 cur_idx, hands, points, friendVars, trickVars>>

-----------------------------------------------------------------------------
(* Phase.KITTY and Phase.FRIEND *)

\* Slip: alternating seats from the host's neighbour on.
EvenSeats_next == {Turn(host, k) : k \in {i \in 1..nplayers : i % 2 = 1}}

\* Alternating seats from the host on.
EvenSeats == {Turn(host, k) : k \in {i \in 0..(nplayers - 1) : i % 2 = 0}}

\* replace_kitty, seal_hand.
ReplaceKitty(p, discard) ==
  /\ phase = "KITTY"
  /\ p = host
  /\ draws[p] # NULL
  /\ Size(discard) = Size(kitty) /\ Contains(draws[p], discard)
  /\ kitty' = discard
  /\ hands' = [draws EXCEPT ![p] = TakePile(draws[p], discard)]
  /\ draws' = NoPiles
  /\ IF fixed_teams
     THEN /\ host_team' = EvenSeats /\ atk_team' = Seated \ EvenSeats
          /\ leader' = host /\ cur_idx' = order[host]
          /\ phase' = "LEAD"
     ELSE /\ phase' = "FRIEND"
          /\ UNCHANGED <<host_team, atk_team, leader, cur_idx>>
  /\ UNCHANGED <<lobbyVars, round, consensus, deck, deck_sz, bids, host, tr, points,
                 friends, joins, joiners, lead, plays, winning>>

\* call_friends: calls is a sequence of <<card, nth>>.
CallFriends(p, calls) ==
  /\ phase = "FRIEND"
  /\ p = host
  /\ Len(calls) = nfriends
  /\ \A i \in DOMAIN calls : calls[i][2] \in 1..ndecks /\ VRank(tr, calls[i][1]) <= RankA
  /\ friends' = [i \in DOMAIN calls |->
                   [card |-> calls[i][1], nth |-> calls[i][2], tally |-> calls[i][2]]]
  /\ host_team' = host_team \cup {host}
  /\ leader' = host /\ cur_idx' = order[host]
  /\ phase' = "LEAD"
  /\ UNCHANGED <<lobbyVars, round, consensus, dealVars, host, tr, hands, points, joins,
                 atk_team, joiners, lead, plays, winning>>

-----------------------------------------------------------------------------
(* Playing a trick *)

\* Slip: more copies than are left to count go below zero.
Tallied_below(cards) ==
  [i \in DOMAIN friends |->
     [friends[i] EXCEPT !.tally = @ - cards[friends[i].card]]]

\* The tallies once `cards` have been played.
Tallied(cards) ==
  [i \in DOMAIN friends |->
     [friends[i] EXCEPT !.tally = IF @ > cards[friends[i].card]
                                  THEN @ - cards[friends[i].card] ELSE 0]]

\* Slip: a friend who has been found is found again.
Found_again(cards) == {i \in DOMAIN friends : Tallied(cards)[i].tally = 0}

\* The friends whose last awaited copy is among the cards.
Found(cards) == {i \in DOMAIN friends : friends[i].tally > 0 /\ Tallied(cards)[i].tally = 0}

\* The friend detection of commit_play.
DetectFriends(p, cards) ==
  IF fixed_teams THEN UNCHANGED friendVars
  ELSE LET found == Found(cards)
       IN  /\ friends' = Tallied(cards)
           /\ joins' = joins + Cardinality(found)
           /\ host_team' = IF found = {} THEN host_team ELSE host_team \cup {p}
           /\ joiners' = IF found = {} THEN joiners ELSE joiners \cup {p}
           /\ atk_team' = IF found # {} /\ joins' = nfriends
                          THEN atk_team \cup (Seated \ host_team') ELSE atk_team

\* Slip: a tie goes to the later play.
Winner_tie(p, play) ==
  IF winning = NULL \/ Beats(play, plays[winning]) THEN p ELSE winning

\* Who wins if p adds `play` to the trick.
Winner(p, play) ==
  IF winning = NULL \/ ~Beats(plays[winning], play) THEN p ELSE winning

\* commit_play, without the move of cur_idx.
CommitPlay(p, play) ==
  /\ plays' = [plays EXCEPT ![p] = play]
  /\ winning' = Winner(p, play)
  /\ DetectFriends(p, play.cards)

\* commit_lead; CardPile.remove asserts that the hand has the cards.
CommitLead(p, play) ==
  /\ Contains(hands[p], play.cards)
  /\ hands' = [hands EXCEPT ![p] = TakePile(hands[p], play.cards)]
  /\ CommitPlay(p, play)
  /\ lead' = play
  /\ cur_idx' = next_player_idx(cur_idx)
  /\ phase' = "FOLLOW"

\* lead_play, observe_lead: a lead of several tractors must fly first.
LeadPlay(p, play) ==
  /\ phase = "LEAD"
  /\ p = current
  /\ hands[p] # NULL /\ Contains(hands[p], play.cards)
  /\ IF Len(play.tractors) > 1
     THEN /\ lead' = play
          /\ consensus' = consensus \cup {p}
          /\ phase' = "FLY"
          /\ UNCHANGED <<hands, plays, winning, friendVars, cur_idx>>
     ELSE CommitLead(p, play) /\ UNCHANGED consensus
  /\ UNCHANGED <<lobbyVars, round, dealVars, host, tr, points, leader>>

\* The weakest tractor of the lead that has t's shape; NULL if none has.
Smallest(t) ==
  LET compat == {i \in DOMAIN lead.tractors : ShapeOf(lead.tractors[i]) = ShapeOf(t)}
  IN  IF compat = {} THEN NULL ELSE lead.tractors[Max(compat)]

\* contest_fly, reject_fly: p reveals a tractor that beats a part of the fly,
\* and that part alone is forced on the leader.
ContestFly(p, t) ==
  /\ phase = "FLY"
  /\ p # leader
  /\ hands[p] # NULL /\ Holds(tr, hands[p], t)
  /\ t.suit = FlightSuit(lead)
  /\ Smallest(t) # NULL /\ TractorCompare(t, Smallest(t)) > 0
  /\ consensus' = {}
  /\ CommitLead(leader, Flight(tr, <<Smallest(t)>>))
  /\ UNCHANGED <<lobbyVars, round, dealVars, host, tr, points, leader>>

PassContest(p) ==
  /\ phase = "FLY"
  /\ IF has_consensus(consensus \cup {p})
     THEN consensus' = {} /\ CommitLead(leader, lead)
     ELSE /\ consensus' = consensus \cup {p}
          /\ UNCHANGED <<phase, cur_idx, hands, lead, plays, winning, friendVars>>
  /\ UNCHANGED <<lobbyVars, round, dealVars, host, tr, points, leader>>

\* follow_lead, observe_follow.
FollowLead(p, play) ==
  /\ phase = "FOLLOW"
  /\ p = current
  /\ hands[p] # NULL /\ Contains(hands[p], play.cards)
  /\ Count(play) = Count(lead)
  /\ LET follows == Follows(tr, hands[p], lead, play.cards)
     IN  /\ follows \/ rules.renege # "FORBID"
         /\ phase' = IF follows \/ rules.renege = "ACCUSE" THEN "FOLLOW" ELSE "FINISH"
  /\ hands' = [hands EXCEPT ![p] = TakePile(hands[p], play.cards)]
  /\ \E best \in {BestPlay(tr, hands[p], lead, play)} : CommitPlay(p, best)
  /\ cur_idx' = IF trick_over(plays') THEN NULL ELSE next_player_idx(cur_idx)
  /\ UNCHANGED <<lobbyVars, round, consensus, dealVars, host, tr, points, leader, lead>>

\* Going round the first n players of the trick from the leader on, w[k] is how
\* far from the leader the winner among the first k + 1 of them sits.
Round(n) ==
  {w \in [0..(n - 1) -> 0..(n - 1)] :
     /\ w[0] = 0
     /\ \A k \in 1..(n - 1) :
          w[k] = IF Beats(plays[Turn(leader, w[k - 1])], plays[Turn(leader, k)])
                 THEN w[k - 1] ELSE k}

\* How many players play before p does.
PlaysBefore(p) == (order[p] - order[leader] + nplayers) % nplayers

\* Slip: whoever has followed may take it back.
CheckUndo_anyone(p) == plays[p] # NULL /\ p # leader /\ p \notin joiners

\* check_undo: only the latest play, by neither the leader nor a new friend.
CheckUndo(p) ==
  /\ plays[p] # NULL
  /\ p # leader
  /\ next_player_idx(order[p]) = cur_idx
  /\ p \notin joiners

\* undo_play, observe_undo.  The tallies of commit_play stay.
UndoPlay(p) ==
  /\ "undo" \in Habits
  /\ phase = "FOLLOW"
  /\ CheckUndo(p)
  /\ hands' = [hands EXCEPT ![p] = AddPile(hands[p], plays[p].cards)]
  /\ plays' = [plays EXCEPT ![p] = NULL]
  /\ IF p = winning
     THEN LET n == PlaysBefore(p)
          IN  \E w \in Round(n) : winning' = Turn(leader, w[n - 1])
     ELSE UNCHANGED winning
  /\ cur_idx' = order[p]
  /\ UNCHANGED <<phase, lobbyVars, round, consensus, dealVars, host, tr, points,
                 friendVars, leader, lead>>

\* Slip: the winner's own cards are left out.
TrickPoints_others ==
  SumFunction([u \in Users |-> IF plays[u] = NULL \/ u = winning THEN 0
                              ELSE PilePoints(plays[u].cards)])

TrickPoints ==
  SumFunction([u \in Users |-> IF plays[u] = NULL THEN 0 ELSE PilePoints(plays[u].cards)])

CollectTrick(p) ==
  /\ phase = "FOLLOW"
  /\ trick_over(plays)
  /\ p = winning
  /\ points' = [points EXCEPT ![winning] = @ + TrickPoints]
  /\ IF Size(hands[leader]) = 0
     THEN phase' = "FINISH" /\ UNCHANGED <<cur_idx, trickVars, joiners>>
     ELSE /\ phase' = "LEAD"
          /\ leader' = winning /\ cur_idx' = order[winning]
          /\ winning' = NULL /\ lead' = NULL /\ plays' = NoPlays
          /\ joiners' = {}
  /\ UNCHANGED <<lobbyVars, round, consensus, dealVars, host, tr, hands, friends, joins,
                 host_team, atk_team>>

-----------------------------------------------------------------------------
(* Scoring: Phase.FINISH *)

TractorCount(t) == t.len * t.arity

\* Slip: the kitty counts whenever the host's team misses the last trick.
KittyPoints_notHost ==
  IF winning \in host_team THEN 0 ELSE 2 * PilePoints(kitty) * Count(plays[winning])

\* The kitty counts for the attackers when one of them takes the last trick.
KittyPoints ==
  LET flight == plays[winning]
  IN  IF winning \notin atk_team THEN 0
      ELSE PilePoints(kitty) *
             (IF rules.kitty = "EXP"
              THEN 2 ^ Max({TractorCount(flight.tractors[i]) : i \in 1..Len(flight.tractors)})
              ELSE 2 * Count(flight))

\* compute_round_outcome: the signed number of ranks the attackers go up.
AtkPoints == SumFunctionOnSet(points, atk_team \cap Seated) + KittyPoints
Delta == AtkPoints \div (ndecks * 20) - 2 - (IF AtkPoints = 0 THEN 1 ELSE 0)
WinnerTeam == IF Delta >= 0 THEN atk_team ELSE host_team
Abs(n) == IF n < 0 THEN -n ELSE n

Special == IF rules.hook = "NO_HOOK" THEN {5, 10, RankK, Big} ELSE {5, 10, RankJ, RankK, Big}

\* Slip: ranks simply go up.
Bump_past(m) == [m EXCEPT !.rank = @ + 1]

\* One rank up; past the big joker the starting rank goes up instead.
Bump(m) ==
  LET start == IF m.start + 1 > RankA THEN 2 ELSE m.start + 1
  IN  CASE m.rank = Big   -> [m EXCEPT !.start = start, !.rank = start]
        [] m.rank = RankA -> [m EXCEPT !.rank = Big]
        [] OTHER          -> [m EXCEPT !.rank = m.rank + 1]

\* Slip: NO_PASS holds back the host and nobody else.
Blocked_host(m, is_host) ==
  /\ m.rank \in Special
  /\ \/ rules.rank = "NO_PASS" /\ is_host
     \/ rules.rank = "HOST_ONCE" /\ m.rank # m.last_host

Blocked(m, is_host) ==
  /\ m.rank \in Special
  /\ \/ rules.rank = "NO_PASS" /\ ~is_host
     \/ rules.rank = "HOST_ONCE" /\ m.rank # m.last_host

\* Slip: what holds a player back is looked at before the first rank only.
RankUp_first(meta, is_host, delta) ==
  LET up[i \in 0..delta] ==
        IF i = 0 THEN [meta |-> meta, stop |-> Blocked(meta, is_host)]
        ELSE IF up[i - 1].stop THEN up[i - 1]
        ELSE LET m == Bump(up[i - 1].meta)
             IN  [meta |-> m, stop |-> m.rank \in Special /\ rules.rank = "NO_SKIP"]
  IN  up[delta].meta

\* rank_up(player, delta); `stop` is the early return.
RankUp(meta, is_host, delta) ==
  LET up[i \in 0..delta] ==
        IF i = 0 THEN [meta |-> meta, stop |-> FALSE]
        ELSE IF up[i - 1].stop \/ Blocked(up[i - 1].meta, is_host)
        THEN [up[i - 1] EXCEPT !.stop = TRUE]
        ELSE LET m == Bump(up[i - 1].meta)
             IN  [meta |-> m, stop |-> m.rank \in Special /\ rules.rank = "NO_SKIP"]
  IN  up[delta].meta

\* With fixed teams the whole team takes its best start, and the best rank
\* among those who are there.
Fixup(rs, team) ==
  LET start == Max({rs[u].start : u \in team})
      rank  == Max({rs[u].rank : u \in {v \in team : rs[v].start = start}})
  IN  [u \in Users |-> IF u \in team THEN [rs[u] EXCEPT !.start = start, !.rank = rank]
                       ELSE rs[u]]

\* The J-to-bottom rule: the biggest card of the winning flight's first
\* tractor is a jack of the trump rank.
Hooked ==
  /\ rules.hook # "NO_HOOK" /\ tr.rank = RankJ /\ Delta >= 0
  /\ LET t == plays[winning].tractors[1]
     IN  IncBy(tr, t.rank, t.len - 1) \in {NOff, NOn}
HookRank(m) ==
  LET t == plays[winning].tractors[1]
  IN  IF IncBy(tr, t.rank, t.len - 1) = NOn THEN m.start ELSE (m.rank + m.start) \div 2

ScoredRanks ==
  LET up    == [u \in Users |-> IF u \in WinnerTeam
                                THEN RankUp(ranks[u], u = host, Abs(Delta)) ELSE ranks[u]]
      fixed == IF fixed_teams THEN Fixup(Fixup(up, host_team), atk_team) ELSE up
  IN  IF Hooked THEN [u \in Users |-> IF u \in host_team
                                      THEN [fixed[u] EXCEPT !.rank = HookRank(fixed[u])]
                                      ELSE fixed[u]]
      ELSE fixed

\* Slip: the search starts with the host.
NextHosts_host == {k \in 0..(nplayers - 1) : Turn(host, k) \in WinnerTeam}

\* The seats after the host's that belong to the winning team; the source
\* loops until it meets the first.
NextHosts == {k \in 1..nplayers : Turn(host, k) \in WinnerTeam}

\* end_round, finish.
EndRound(p) ==
  /\ phase = "FINISH"
  /\ p = host
  /\ ranks' = ScoredRanks
  /\ \E k \in NextHosts : (\A j \in NextHosts : k <= j) /\ host' = Turn(host, k)
  /\ consensus' = {host'}
  /\ phase' = "WAIT"
  /\ UNCHANGED <<rules, owner, players, ndecks, order, round, dealVars, cur_idx, tr, hands,
                 points, friendVars, trickVars>>

NextReady(p) ==
  /\ phase = "WAIT"
  /\ consensus' = consensus \cup {p}
  /\ UNCHANGED <<phase, lobbyVars, round, dealVars, cur_idx, host, tr, hands, points,
                 friendVars, trickVars>>

NextRound(p) ==
  /\ phase = "WAIT"
  /\ p = host
  /\ nplayers >= MinPlayers
  /\ has_consensus(consensus)
  /\ ResetRound(players, order, ndecks, host, TRUE)
  /\ phase' = "DRAW"
  /\ UNCHANGED lobbyVars

-----------------------------------------------------------------------------
(* The specification *)

LeadsOf(p) == UNION {FlightsIn(tr, hands[p], s, MaxTractors) : s \in Suits}
FollowsOf(p) == UNION {PlaysOf(tr, pile) : pile \in SubPiles(hands[p], Count(lead))}
Calls == [1..nfriends -> StdDeck \X (1..ndecks)]

Configure(p) ==
  \/ AddPlayer(p)
  \/ RmPlayer(p)
  \/ \E n \in DeckChoices : SetDecks(p, n)
  \/ \E mods \in RuleSets : SetRuleMods(p, mods)
  \/ \E rank \in RankChoices : SetRank(p, rank)

Prepare(p) ==
  \/ StartGame(p)
  \/ DrawCard(p)
  \/ phase \in {"DRAW", "PREPARE"} /\ \E c \in StdDeck, n \in 1..ndecks : BidTrump(p, c, n)
  \/ RequestRedeal(p)
  \/ p \in Voters /\ Ready(p)
  \/ phase = "KITTY" /\ p = host /\ draws[p] # NULL
       /\ \E k \in SubPiles(draws[p], Size(kitty)) : ReplaceKitty(p, k)
  \/ phase = "FRIEND" /\ p = host /\ \E calls \in Calls : CallFriends(p, calls)

PlayTrick(p) ==
  \/ phase = "LEAD" /\ p = current /\ \E play \in LeadsOf(p) : LeadPlay(p, play)
  \/ phase = "FLY" /\ hands[p] # NULL
       /\ \E t \in TractorsIn(tr, hands[p], FlightSuit(lead)) : ContestFly(p, t)
  \/ p \in Voters /\ PassContest(p)
  \/ phase = "FOLLOW" /\ p = current /\ \E play \in FollowsOf(p) : FollowLead(p, play)
  \/ UndoPlay(p)
  \/ CollectTrick(p)

Conclude(p) ==
  \/ EndRound(p)
  \/ p \in Voters /\ NextReady(p)
  \/ NextRound(p)

Next == \E p \in Users : Configure(p) \/ Prepare(p) \/ PlayTrick(p) \/ Conclude(p)

Spec == Init /\ [][Next]_vars

\* Everybody at the table keeps playing: some step of the round in progress is
\* taken as long as one can be.  Nobody has to join, leave or configure.
Progress == \E p \in Users : Prepare(p) \/ PlayTrick(p) \/ EndRound(p)
FairSpec == Spec /\ WF_vars(Progress)
=============================================================================
