------------------------------ MODULE ZpyProps ------------------------------
(***************************************************************************)
(* What the game state machine of Zpy promises.                            *)
(***************************************************************************)
EXTENDS Zpy

Tricks == {"LEAD", "FLY", "FOLLOW"}
CardCount(pile) == IF pile = NULL THEN 0 ELSE Size(pile)
Played == {u \in Users : plays[u] # NULL}

PlayOK(play) == play.cards \in Piles

TableTypes ==
  /\ rules \in Rules
  /\ owner \in Users \cup {NULL}
  /\ players \in Seq(Users)
  /\ DOMAIN ranks = Users
  /\ ndecks \in Nat
  /\ order \in [Users -> Nat \cup {NULL}]
RoundTypes ==
  /\ phase \in Phases
  /\ round \in Nat
  /\ consensus \subseteq Users
  /\ cur_idx \in Nat \cup {NULL}
  /\ host \in Users \cup {NULL}
  /\ tr = NULL \/ tr.suit \in Suits
DealTypes ==
  /\ deck \in Seq(StdDeck)
  /\ deck_sz \in Int
  /\ kitty \in Piles
  /\ bids \in Seq([player : Users, card : StdDeck, n : Nat])
  /\ draws \in [Users -> Piles \cup {NULL}]
HandTypes ==
  /\ hands \in [Users -> Piles \cup {NULL}]
  /\ DOMAIN points = Users
FriendTypes ==
  /\ friends \in Seq([card : StdDeck, nth : Nat, tally : Nat])
  /\ joins \in Nat
  /\ host_team \subseteq Users /\ atk_team \subseteq Users /\ joiners \subseteq Users
TrickTypes ==
  /\ leader \in Users \cup {NULL}
  /\ lead = NULL \/ PlayOK(lead)
  /\ DOMAIN plays = Users /\ \A u \in Users : plays[u] = NULL \/ PlayOK(plays[u])
  /\ winning \in Users \cup {NULL}

\* The type invariant: every field of Data holds what its comment says.  (What
\* ranks there are is RanksPlayable's matter.)
TypeOK == TableTypes /\ RoundTypes /\ DealTypes /\ HandTypes /\ FriendTypes /\ TrickTypes

-----------------------------------------------------------------------------
(* The table *)

\* Whoever joins or leaves, nobody has two seats and `order` is the inverse of
\* `players` once the game has started (Data: "valid iff phase > INIT").
SeatsOK ==
  /\ \A i, j \in DOMAIN players : players[i] = players[j] => i = j
  /\ phase # "INIT" => \A i \in DOMAIN players : order[players[i]] = i - 1

\* rm_player: "need a new owner" -- a table with players has an owner who can
\* configure it, that is, one of them.
OwnerSeated == players # <<>> => owner \in Seated

\* has_consensus, "whether every player is in this.consensus", only compares
\* numbers: whoever left after agreeing and whoever watches counts as well.  A
\* round begins, a kitty is taken up and a fly goes through only when no more
\* players had still to agree than there were such strangers among those who did,
\* not counting the one who speaks last.
Outstanding == Cardinality(Seated \ consensus)
Strangers == Cardinality(consensus \ Seated)
ConsentToPlay ==
  [][/\ phase = "WAIT" /\ phase' = "DRAW" => Outstanding <= Strangers
     /\ phase = "PREPARE" /\ phase' = "KITTY" => Outstanding <= Strangers + 1
     /\ phase = "FLY" /\ phase' = "FOLLOW" /\ lead' = lead => Outstanding <= Strangers + 1]_vars

-----------------------------------------------------------------------------
(* Dealing and bidding *)

\* The deal comes out even: everybody has as many cards as everybody else and
\* the draw is back at the player it started from, which is what makes
\* current() the default host in ready() ("starting player defaults to host").
DealEven ==
  phase = "PREPARE" =>
    /\ \A p, q \in Seated : CardCount(draws[p]) = CardCount(draws[q])
    /\ host # NULL => current = host
    /\ current # NULL

\* Bids only ever go up: each has at least as many cards as the one before,
\* ties go to jokers over a suit only, nobody overturns their own suit, the
\* last one sets the trump, and every bidder still holds what they showed.
BidsEscalate ==
  phase \in {"DRAW", "PREPARE"} =>
    /\ \A i \in 1..(Len(bids) - 1) :
         LET b == bids[i]  c == bids[i + 1]
         IN  \/ b.n < c.n /\ (b.player = c.player => b.card.suit = c.card.suit)
             \/ b.n = c.n /\ b.player # c.player /\ b.card.rank <= RankA /\ c.card.suit = "T"
    /\ \A i \in DOMAIN bids : draws[bids[i].player][bids[i].card] >= bids[i].n
    /\ bids # <<>> => /\ tr.suit = winning_bid.card.suit
                      /\ bids[1].card.rank = ranks[IF host # NULL THEN host
                                                   ELSE bids[1].player].rank

-----------------------------------------------------------------------------
(* Tricks *)

\* Through leads, rejected flies, follows and undos, those who have played are
\* the leader and the next players in turn, and it is the next one's turn.
TurnOrder ==
  phase \in Tricks =>
    LET n == Cardinality(Played)
    IN  /\ phase = "FOLLOW" <=> n > 0
        /\ Played = {Turn(leader, k) : k \in 0..(n - 1)}
        /\ cur_idx = IF n = nplayers THEN NULL ELSE order[Turn(leader, n)]

\* Nobody ever holds more cards than another, counting what they have on the
\* table, and the round ends with all hands empty unless a renege lost it.
HandsEven ==
  /\ phase \in Tricks =>
       \A p, q \in Seated :
         CardCount(hands[p]) + (IF plays[p] = NULL THEN 0 ELSE Count(plays[p])) =
         CardCount(hands[q]) + (IF plays[q] = NULL THEN 0 ELSE Count(plays[q]))
  /\ phase = "FINISH" /\ rules.renege # "AUTOLOSE" =>
       \A p \in Seated : CardCount(hands[p]) = 0

\* Points are neither lost nor counted twice between the kitty, the hands, the
\* table and the players' tricks; only a renege under AUTOLOSE, which ends the
\* round at once, leaves the points of its trick to nobody.
DeckPoints == ndecks * PilePoints([c \in StdDeck |-> 1])
HandPoints == SumFunction([u \in Users |-> IF hands[u] = NULL THEN 0 ELSE PilePoints(hands[u])])
PointsConserved ==
  LET away == DeckPoints - (SumFunction(points) + HandPoints + PilePoints(kitty))
  IN  /\ phase \in {"FRIEND", "LEAD", "FLY"} => away = 0
      /\ phase = "FOLLOW" => away = TrickPoints
      /\ phase = "FINISH" => \/ away = 0
                             \/ rules.renege = "AUTOLOSE" /\ away = TrickPoints

\* The incremental winner of commit_play, also after observe_undo recomputes
\* it, is the player whose play holds against the whole trick in turn order;
\* it is a flight with the lead's structure, as the scoring relies on
\* (`winning_fl!` in finish and compute_round_outcome).
WinnerOK ==
  phase = "FOLLOW" \/ phase = "FINISH" =>
    LET best == plays[winning]
        n    == Cardinality(Played)
    IN  /\ \E w \in Round(n) : winning = Turn(leader, w[n - 1])
        /\ IsFlight(best)
        /\ Len(best.tractors) = Len(lead.tractors)
        /\ \A i \in 1..Len(lead.tractors) :
             ShapeOf(best.tractors[i]) = ShapeOf(lead.tractors[i])

\* check_undo's purpose: a follow can be taken back only while nobody has
\* played over it, so what is on the table only shrinks by its latest play.
UndoIsLast ==
  [][\A u \in Users : plays[u] # NULL /\ plays'[u] = NULL /\ phase' = "FOLLOW" =>
       /\ \A k \in 1..(nplayers - 1) :
            (\E j \in 1..k : Turn(leader, j) = u) => plays'[Turn(leader, k)] = NULL
       /\ hands'[u] = AddPile(hands[u], plays[u].cards)]_vars

-----------------------------------------------------------------------------
(* Friends and teams *)

\* Copies of a card that are neither in a hand nor in the kitty.
Seen(c) == ndecks - kitty[c]
             - SumFunction([u \in Users |-> IF hands[u] = NULL THEN 0 ELSE hands[u][c]])

\* Friend#tally counts down the copies of the card that have been played: no
\* friend is found too late, although plays are taken back (observe_undo leaves
\* the tallies as they are), nor too early where nothing is ever taken back.
TallyExact ==
  phase \in Tricks \cup {"FINISH"} =>
    \A i \in DOMAIN friends :
      LET f     == friends[i]
          exact == IF f.nth > Seen(f.card) THEN f.nth - Seen(f.card) ELSE 0
      IN  f.tally <= exact /\ ("undo" \notin Habits => f.tally = exact)

\* The teams are disjoint; `joins` counts the friends that were found; and once
\* all were, and not before, everybody else is an attacker.
TeamsOK ==
  phase \in Tricks \cup {"FINISH"} =>
    /\ host \in host_team /\ host_team \subseteq Seated
    /\ host_team \cap atk_team = {}
    /\ joins = Cardinality({i \in DOMAIN friends : friends[i].tally = 0})
    /\ atk_team = IF fixed_teams \/ joins = nfriends THEN Seated \ host_team ELSE {}

-----------------------------------------------------------------------------
(* Scoring *)

\* finish() can choose a next host: the loop over the seats meets a member of
\* the winning team.
NextHostExists == phase = "FINISH" => NextHosts # {}

\* rank_up under each RankSkipRule, at every step of a round's delta: only winners
\* go up (or losers who had picked a rank below their start, whom the hook returns
\* to it); of the special ranks there are on the way, under NO_SKIP nobody leaves
\* any but the one they began on, under HOST_ONCE any but the one they last hosted,
\* and under NO_PASS only the host leaves any.
Climbed(u) == ranks'[u].start # ranks[u].start \/ ranks'[u].rank > ranks[u].rank
HookedUp(u) == Hooked /\ u \in host_team /\ ranks[u].rank < ranks[u].start

\* The special ranks left on the way from m to n.  Past the big joker the way goes
\* on from the next start, and laps are the starts of whole laps.
LeftBehind(m, n) ==
  LET laps == {k \in 2..RankA : IF m.start < n.start THEN m.start < k /\ k < n.start
                                ELSE m.start < k \/ k < n.start}
  IN  {s \in Special :
         IF m.start = n.start THEN m.rank <= s /\ s < n.rank
         ELSE m.rank <= s \/ (n.start <= s /\ s < n.rank) \/ \E k \in laps : k <= s}

RankRules ==
  [][phase = "FINISH" /\ phase' = "WAIT" /\ ~fixed_teams =>
       \A u \in {v \in Seated : Climbed(v) /\ ~HookedUp(v)} :
         LET left == LeftBehind(ranks[u], ranks'[u])
         IN  /\ u \in WinnerTeam
             /\ rules.rank = "NO_SKIP" => left \subseteq {ranks[u].rank}
             /\ rules.rank = "HOST_ONCE" => left \subseteq {ranks[u].last_host}
             /\ rules.rank = "NO_PASS" => left = {} \/ u = host]_vars

\* Whatever the rank rules, the hook and the cycle past the big joker do, every
\* rank is one a round can be played on, no virtual rank, unless the player starts
\* so high that the hook's average with the big joker is one; and a round is played
\* on its host's rank, whoever was host when it was bid for.
RanksPlayable ==
  /\ \A u \in Users : ranks[u] # NULL =>
       /\ ranks[u].rank \in 2..Big /\ ranks[u].start \in 2..RankA
       /\ (Big + ranks[u].start) \div 2 <= RankA => ranks[u].rank \in (2..RankA) \cup {Big}
  /\ phase \in {"KITTY", "FRIEND", "FINISH"} \cup Tricks => tr.rank = ranks[host].rank

\* The next host won the round and sits at the table, and the old host keeps
\* the deal exactly when alone in winning.
NextHostWon ==
  [][phase = "FINISH" /\ phase' = "WAIT" =>
       /\ host' \in Seated \cap WinnerTeam
       /\ host' = host => WinnerTeam \cap Seated = {host}]_vars

-----------------------------------------------------------------------------
(* Liveness *)

\* A round that has been dealt comes to its end: no phase, hand or play leaves
\* the players without a legal step, and no cycle of steps avoids the end.
RoundEnds == phase = "DRAW" ~> phase = "WAIT"
=============================================================================
