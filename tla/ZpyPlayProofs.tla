-------------------------- MODULE ZpyPlayProofs ---------------------------
(***************************************************************************)
(* Proofs about turns, teams, bids and consent, for tables of any size of  *)
(* three players or more, any decks and any number of rounds: whose turn   *)
(* it is through flies, follows and undos, who is on which team, that      *)
(* every round has a next host, and that bids go up.                       *)
(***************************************************************************)
EXTENDS ZpyProofs

-----------------------------------------------------------------------------
(* What is assumed *)

\* ZPY.min_players is 4: with fewer than three players nobody calls a friend, and
\* a trick is over with its lead if there is but one.
EnoughPlayers == MinPlayers >= 3

\* `undefined` is no play.
NoPlayIsNull == \A ts, pile : [tractors |-> ts, cards |-> pile] # NULL

-----------------------------------------------------------------------------
(* The seats as a ring *)

LEMMA ModOf ==
  ASSUME NEW n \in Nat \ {0}, NEW a \in 0..(n - 1), NEW k \in 0..n
  PROVE  (a + k) % n = IF a + k < n THEN a + k ELSE a + k - n
<1>1. CASE a + k < n
  BY <1>1
<1>2. CASE ~(a + k < n)
  BY <1>2
<1> QED
  BY <1>1, <1>2

\* Turn(h, k) is the k-th seat after h: who sits there, in what order, and that
\* going round meets everybody once before it is back.
LEMMA Ring ==
  ASSUME TypeInv, phase # "INIT", NEW h \in Seated
  PROVE  /\ nplayers \in Nat \ {0} /\ order[h] \in 0..(nplayers - 1)
         /\ Turn(h, 0) = h /\ Turn(h, nplayers) = h
         /\ \A k \in 0..nplayers :
              /\ Turn(h, k) \in Seated
              /\ order[Turn(h, k)] = IF order[h] + k < nplayers THEN order[h] + k
                                     ELSE order[h] + k - nplayers
<1>1. /\ nplayers \in Nat \ {0} /\ order[h] \in 0..(nplayers - 1)
      /\ h = players[order[h] + 1]
  BY OrderOfSeated DEF nplayers, TypeInv, SeatsInv
<1>2. ASSUME NEW k \in 0..nplayers
      PROVE  LET o == IF order[h] + k < nplayers THEN order[h] + k
                      ELSE order[h] + k - nplayers
             IN  o \in 0..(nplayers - 1) /\ Turn(h, k) = players[o + 1]
  <2>1. (order[h] + k) % nplayers = IF order[h] + k < nplayers THEN order[h] + k
                                    ELSE order[h] + k - nplayers
    BY <1>1, ModOf
  <2> QED BY <1>1, <2>1 DEF Turn
<1>3. ASSUME NEW o \in 0..(nplayers - 1)
      PROVE  players[o + 1] \in Seated /\ order[players[o + 1]] = o
  <2>1. o + 1 \in DOMAIN players
    BY <1>1 DEF nplayers, TypeInv, SeatsInv
  <2> QED BY <1>1, <2>1 DEF Seated, Range, TypeInv, SeatsInv
<1>4. Turn(h, 0) = h
  <2>1. 0 \in 0..nplayers /\ order[h] + 0 < nplayers /\ order[h] + 0 = order[h]
    BY <1>1
  <2> QED BY <1>1, <1>2, <2>1
<1>5. Turn(h, nplayers) = h
  <2>1. nplayers \in 0..nplayers /\ ~(order[h] + nplayers < nplayers)
        /\ order[h] + nplayers - nplayers = order[h]
    BY <1>1
  <2> QED BY <1>1, <1>2, <2>1
<1> QED
  BY <1>1, <1>2, <1>3, <1>4, <1>5

LEMMA RingOnce ==
  ASSUME TypeInv, phase # "INIT", NEW h \in Seated,
         NEW j \in 0..(nplayers - 1), NEW k \in 0..(nplayers - 1),
         Turn(h, j) = Turn(h, k) \/ order[Turn(h, j)] = order[Turn(h, k)]
  PROVE  j = k
<1>1. order[Turn(h, j)] = order[Turn(h, k)]
  OBVIOUS
<1>2. /\ nplayers \in Nat \ {0} /\ order[h] \in 0..(nplayers - 1)
      /\ order[Turn(h, j)] = IF order[h] + j < nplayers THEN order[h] + j
                             ELSE order[h] + j - nplayers
      /\ order[Turn(h, k)] = IF order[h] + k < nplayers THEN order[h] + k
                             ELSE order[h] + k - nplayers
  <2>1. j \in 0..nplayers /\ k \in 0..nplayers /\ nplayers \in Nat \ {0}
    BY Ring
  <2> QED BY <2>1, Ring
<1>3. (IF order[h] + j < nplayers THEN order[h] + j ELSE order[h] + j - nplayers) =
      (IF order[h] + k < nplayers THEN order[h] + k ELSE order[h] + k - nplayers)
  BY <1>1, <1>2
<1> HIDE <1>1
<1> QED
  BY <1>2, <1>3

LEMMA RingAll ==
  ASSUME TypeInv, phase # "INIT", NEW h \in Seated, NEW u \in Seated
  PROVE  /\ \E k \in 0..(nplayers - 1) : u = Turn(h, k)
         /\ \E k \in 1..nplayers : u = Turn(h, k)
<1>1. /\ nplayers \in Nat \ {0} /\ order[h] \in 0..(nplayers - 1)
      /\ order[u] \in 0..(nplayers - 1)
  BY Ring
<1> DEFINE k == IF order[u] >= order[h] THEN order[u] - order[h]
                ELSE order[u] - order[h] + nplayers
<1>2. k \in 0..(nplayers - 1) /\ k \in 0..nplayers
  BY <1>1
<1>3. order[Turn(h, k)] = order[u] /\ Turn(h, k) \in Seated
  <2>1. /\ Turn(h, k) \in Seated
        /\ order[Turn(h, k)] = IF order[h] + k < nplayers THEN order[h] + k
                               ELSE order[h] + k - nplayers
    BY <1>2, Ring
  <2>2. (IF order[h] + k < nplayers THEN order[h] + k ELSE order[h] + k - nplayers) = order[u]
    BY <1>1
  <2> QED BY <2>1, <2>2
<1> HIDE DEF k
<1>4. Turn(h, k) = u
  BY <1>3, OrderOfSeated
<1>5. k = 0 => u = Turn(h, nplayers) /\ nplayers \in 1..nplayers
  BY <1>1, <1>4, Ring
<1>6. k # 0 => k \in 1..nplayers
  BY <1>1, <1>2
<1> QED
  BY <1>2, <1>4, <1>5, <1>6

LEMMA RingNext ==
  ASSUME TypeInv, phase # "INIT", NEW h \in Seated, NEW k \in 0..(nplayers - 1)
  PROVE  next_player_idx(order[Turn(h, k)]) = order[Turn(h, k + 1)]
<1>1. /\ nplayers \in Nat \ {0} /\ order[h] \in 0..(nplayers - 1)
      /\ k \in 0..nplayers /\ k + 1 \in 0..nplayers
  BY Ring
<1>2. /\ order[Turn(h, k)] = IF order[h] + k < nplayers THEN order[h] + k
                             ELSE order[h] + k - nplayers
      /\ order[Turn(h, k + 1)] = IF order[h] + (k + 1) < nplayers THEN order[h] + (k + 1)
                                 ELSE order[h] + (k + 1) - nplayers
  BY <1>1, Ring
<1> QED
  BY <1>1, <1>2 DEF next_player_idx

\* The first n seats from h on are n players.
LEMMA RingSize ==
  ASSUME TypeInv, phase # "INIT", NEW h \in Seated, NEW n \in 0..nplayers
  PROVE  Cardinality({Turn(h, k) : k \in 0..(n - 1)}) = n
<1> DEFINE S == 0..(n - 1)
           T == {Turn(h, k) : k \in S}
           f == [k \in S |-> Turn(h, k)]
<1>1. nplayers \in Nat \ {0}
  BY Ring
<1>2. IsFiniteSet(S) /\ Cardinality(S) = n
  BY <1>1, FS_Interval
<1>3. \A j, k \in S : Turn(h, j) = Turn(h, k) => j = k
  <2>1. S \subseteq 0..(nplayers - 1)
    BY <1>1
  <2> QED BY <2>1, RingOnce
<1>4. f \in Bijection(S, T)
  <2>1. f \in [S -> T]
    OBVIOUS
  <2>2. \A a, b \in S : f[a] = f[b] => a = b
    BY <1>3
  <2>3. \A t \in T : \E s \in S : f[s] = t
    OBVIOUS
  <2> HIDE DEF f, S, T
  <2> QED BY <2>1, <2>2, <2>3 DEF Bijection, Injection, Surjection, IsInjective
<1>5. ExistsBijection(S, T)
  BY <1>4 DEF ExistsBijection
<1> QED
  BY <1>2, <1>5, FS_Bijection

-----------------------------------------------------------------------------
(* The size of the table *)

\* A round has enough players for as long as it lasts.
TableInv == ~Lobby => nplayers >= MinPlayers

LEMMA TableInit == Init => TableInv
  BY DEF Init, TableInv, Lobby

LEMMA StartGameSize ==
  ASSUME TypeInv, NEW p \in Users, StartGame(p)
  PROVE  Len(players') = nplayers /\ nplayers >= MinPlayers
<1>1. players' \in Seatings /\ nplayers >= MinPlayers
  BY DEF StartGame
<1>2. CASE players' = players
  BY <1>1, <1>2 DEF nplayers
<1>3. CASE players' \in [1..nplayers -> Seated]
  <2>1. nplayers \in Nat
    BY DEF nplayers, TypeInv, SeatsInv
  <2>2. DOMAIN players' = 1..nplayers /\ players' \in Seq(Seated)
    BY <1>3, <2>1
  <2> QED BY <1>1, <2>1, <2>2
<1> QED
  BY <1>1, <1>2, <1>3 DEF Seatings

LEMMA TableNext ==
  ASSUME TypeInv, TableInv, [Next]_vars
  PROVE  TableInv'
<1>1. CASE UNCHANGED vars
  BY <1>1 DEF vars, lobbyVars, TableInv, Lobby, nplayers
<1>2. ASSUME NEW p \in Users, Configure(p) PROVE TableInv'
  BY <1>2 DEF Configure, AddPlayer, RmPlayer, SetDecks, SetRuleMods, SetRank, roundVars,
              TableInv, Lobby
<1>3. ASSUME NEW p \in Users, Prepare(p) PROVE TableInv'
  <2>1. CASE StartGame(p)
    BY <2>1, StartGameSize DEF TableInv, nplayers
  <2>2. CASE ~StartGame(p)
    <3>1. UNCHANGED players
      BY <1>3, <2>2, PreparingKeepsTable
    <3>2. phase # "INIT" /\ phase # "WAIT"
      BY <1>3, <2>2 DEF Prepare, StartGame, DrawCard, BidTrump, RequestRedeal, Ready
    <3> QED BY <3>1, <3>2 DEF TableInv, Lobby, nplayers
  <2> QED BY <2>1, <2>2
<1>4. ASSUME NEW p \in Users, PlayTrick(p) PROVE TableInv'
  <2>1. UNCHANGED players
    BY <1>4, PlayingKeepsTable
  <2>2. phase # "INIT" /\ phase # "WAIT"
    BY <1>4 DEF PlayTrick, PassContest, UndoPlay, CollectTrick
  <2> QED BY <2>1, <2>2 DEF TableInv, Lobby, nplayers
<1>5. ASSUME NEW p \in Users, Conclude(p) PROVE TableInv'
  <2>1. UNCHANGED players
    BY <1>5, ConcludingKeepsTable
  <2>2. CASE EndRound(p)
    BY <2>2 DEF EndRound, TableInv, Lobby
  <2>3. CASE NextReady(p)
    BY <2>3 DEF NextReady, TableInv, Lobby
  <2>4. CASE NextRound(p)
    BY <2>1, <2>4 DEF NextRound, TableInv, nplayers
  <2> QED BY <1>5, <2>2, <2>3, <2>4 DEF Conclude
<1> QED
  BY <1>1, <1>2, <1>3, <1>4, <1>5 DEF Next

\* What every later proof may use.
LEMMA TableSize ==
  ASSUME EnoughPlayers, TypeInv, TableInv, ~Lobby
  PROVE  nplayers \in Nat /\ nplayers >= 3
  BY Numbers DEF EnoughPlayers, TableInv, nplayers, TypeInv, SeatsInv

-----------------------------------------------------------------------------
(* Turns *)

\* The first n players from the leader on have played, and it is the next one's
\* turn.
PlayedFrom(h, n) ==
  \A u \in Users : plays[u] # NULL <=> \E k \in 0..(n - 1) : u = Turn(h, k)
At(n) ==
  /\ PlayedFrom(leader, n)
  /\ cur_idx = IF n = nplayers THEN NULL ELSE order[Turn(leader, n)]
  /\ phase = "FOLLOW" <=> n > 0

Turns == phase \in Tricks => \E n \in 0..nplayers : At(n)

\* A step that leaves the table alone: the places are those of before.
Gone(n) ==
  /\ \A u \in Users : plays'[u] # NULL <=> \E k \in 0..(n - 1) : u = Turn(leader', k)
  /\ cur_idx' = IF n = nplayers THEN NULL ELSE order[Turn(leader', n)]
  /\ phase' = "FOLLOW" <=> n > 0

LEMMA TurnsStay ==
  ASSUME UNCHANGED <<players, order>>, NEW n \in 0..nplayers, Gone(n)
  PROVE  Turns'
<1>1. At(n)'
  BY DEF Gone, At, PlayedFrom, Turn, nplayers
<1>2. n \in (0..nplayers)'
  BY DEF nplayers
<1> QED BY <1>1, <1>2 DEF Turns

LEMMA SeatedAt ==
  ASSUME EnoughPlayers, TypeInv, TableInv, Turns, phase \in Tricks
  PROVE  /\ phase # "INIT" /\ leader \in Seated /\ nplayers \in Nat /\ nplayers >= 3
         /\ \E n \in 0..nplayers : At(n)
<1>1. ~Lobby /\ phase # "INIT"
  BY DEF Lobby, Tricks
<1> QED
  BY <1>1, TableSize DEF Turns, TypeInv, SeatTypes, TrickSeats

\* Whoever may play is the next in turn.
LEMMA CurrentIs ==
  ASSUME EnoughPlayers, TypeInv, TableInv, phase \in Tricks,
         NEW n \in 0..nplayers, At(n), NEW p \in Users, p = current
  PROVE  n \in 0..(nplayers - 1) /\ p = Turn(leader, n) /\ cur_idx = order[Turn(leader, n)]
<1>1. ~Lobby /\ phase # "INIT" /\ leader \in Seated
  BY DEF Lobby, Tricks, TypeInv, SeatTypes, TrickSeats
<1>2. cur_idx # NULL /\ p = players[cur_idx + 1]
  BY ZpyAssumption DEF current
<1>3. nplayers \in Nat /\ nplayers >= 3
  BY <1>1, TableSize
<1>4. n \in 0..(nplayers - 1) /\ cur_idx = order[Turn(leader, n)]
  BY <1>2, <1>3 DEF At
<1>5. Turn(leader, n) \in Seated
  BY <1>1, <1>3, Ring
<1> QED
  BY <1>1, <1>2, <1>4, <1>5, OrderOfSeated

\* The next in turn plays.
LEMMA OneMore ==
  ASSUME TypeInv, phase # "INIT", leader \in Seated, NEW n \in 0..(nplayers - 1),
         PlayedFrom(leader, n), NEW play, play # NULL,
         plays' = [plays EXCEPT ![Turn(leader, n)] = play]
  PROVE  \A u \in Users : plays'[u] # NULL <=> \E k \in 0..n : u = Turn(leader, k)
<1>1. DOMAIN plays = Users /\ nplayers \in Nat \ {0}
  BY Ring DEF TypeInv, TypeOK, TrickTypes
<1>2. Turn(leader, n) \in Users
  BY <1>1, Ring, SeatedUsers
<1> TAKE u \in Users
<1>3. plays'[u] = IF u = Turn(leader, n) THEN play ELSE plays[u]
  BY <1>1, <1>2
<1>4. plays[u] # NULL <=> \E k \in 0..(n - 1) : u = Turn(leader, k)
  BY DEF PlayedFrom
<1>5. 0..n = (0..(n - 1)) \cup {n}
  OBVIOUS
<1> QED
  BY <1>3, <1>4, <1>5

\* No play is null: flights, tosses and parses are plays.
LEMMA FlightIs == ASSUME NoPlayIsNull, NEW t, NEW ts PROVE Flight(t, ts) # NULL
  BY DEF NoPlayIsNull, Flight

LEMMA LeadIs ==
  ASSUME NoPlayIsNull, NEW p, NEW play \in LeadsOf(p) PROVE play # NULL
<1>1. PICK s \in Suits : play \in FlightsIn(tr, hands[p], s, MaxTractors)
  BY DEF LeadsOf
<1>2. \E ts, pile : play = [tractors |-> ts, cards |-> pile]
  BY <1>1 DEF FlightsIn
<1> QED
  BY <1>2 DEF NoPlayIsNull

LEMMA FollowIs ==
  ASSUME NoPlayIsNull, NEW p, NEW play \in FollowsOf(p) PROVE play # NULL
<1>1. PICK pile \in SubPiles(hands[p], Count(lead)) : play \in PlaysOf(tr, pile)
  BY DEF FollowsOf
<1>2. CASE play = Toss(pile)
  BY <1>2 DEF Toss, NoPlayIsNull
<1>3. CASE \E s, n : play \in FlightsIn(tr, pile, s, n)
  <2>1. \E ts, cards : play = [tractors |-> ts, cards |-> cards]
    BY <1>3 DEF FlightsIn
  <2> QED BY <2>1 DEF NoPlayIsNull
<1> QED
  BY <1>1, <1>2, <1>3 DEF PlaysOf

LEMMA BestPlayIs ==
  ASSUME NoPlayIsNull, NEW t, NEW hand, NEW f, NEW play, play # NULL
  PROVE  BestPlay(t, hand, f, play) # NULL
<1>1. \A path : Parse(t, play.cards, path) # NULL
  BY DEF Parse, NoPlayIsNull
<1> QED
  BY <1>1 DEF BestPlay

\* The leader begins a trick.
LEMMA BeginTurns ==
  ASSUME EnoughPlayers, TypeInv, TableInv, UNCHANGED <<players, order>>, ~Lobby,
         leader' \in Seated, cur_idx' = order[leader'], plays' = NoPlays, phase' # "FOLLOW"
  PROVE  Turns'
<1>1. /\ nplayers \in Nat /\ nplayers >= 3 /\ phase # "INIT"
      /\ Turn(leader', 0) = leader'
  BY TableSize, Ring DEF Lobby
<1>2. Gone(0)
  BY <1>1 DEF Gone, NoPlays
<1>3. 0 \in 0..nplayers
  BY <1>1
<1> QED
  BY <1>2, <1>3, TurnsStay

\* A lead is the leader's: by lead_play itself, or the outcome of a fly.
LEMMA CommitLeadTurns ==
  ASSUME EnoughPlayers, TypeInv, TableInv, Turns, UNCHANGED <<players, order, leader>>,
         phase \in {"LEAD", "FLY"}, NEW play, play # NULL, CommitLead(leader, play)
  PROVE  Turns'
<1>1. /\ phase # "INIT" /\ leader \in Seated /\ nplayers \in Nat /\ nplayers >= 3
  BY SeatedAt DEF Tricks
<1>2. PICK n \in 0..nplayers : At(n)
  BY SeatedAt DEF Tricks
<1>3. n = 0 /\ PlayedFrom(leader, 0) /\ cur_idx = order[Turn(leader, 0)]
  BY <1>1, <1>2 DEF At
<1>4. Turn(leader, 0) = leader
  BY <1>1, Ring
<1>5. plays' = [plays EXCEPT ![Turn(leader, 0)] = play]
  BY <1>4 DEF CommitLead, CommitPlay
<1>6. \A u \in Users : plays'[u] # NULL <=> \E k \in 0..0 : u = Turn(leader, k)
  <2>1. 0 \in 0..(nplayers - 1)
    BY <1>1
  <2> QED BY <1>1, <1>3, <1>5, <2>1, OneMore
<1>7. cur_idx' = order[Turn(leader, 1)]
  <2>1. cur_idx' = next_player_idx(cur_idx)
    BY DEF CommitLead
  <2>2. 0 \in 0..(nplayers - 1) /\ 0 + 1 = 1
    BY <1>1
  <2> QED BY <1>1, <1>3, <2>1, <2>2, RingNext
<1>8. Gone(1)
  <2>1. 1 # nplayers /\ 1 - 1 = 0 /\ phase' = "FOLLOW" /\ leader' = leader
    BY <1>1 DEF CommitLead
  <2> QED BY <1>6, <1>7, <2>1 DEF Gone
<1>9. 1 \in 0..nplayers
  BY <1>1
<1> QED
  BY <1>8, <1>9, TurnsStay

LEMMA LeadPlayTurns ==
  ASSUME EnoughPlayers, TypeInv, TableInv, Turns, NEW p \in Users, NEW play, play # NULL,
         LeadPlay(p, play)
  PROVE  Turns'
<1>1. /\ phase = "LEAD" /\ p = current /\ UNCHANGED <<players, order, leader>>
  BY DEF LeadPlay, lobbyVars
<1>2. /\ phase # "INIT" /\ leader \in Seated /\ nplayers \in Nat /\ nplayers >= 3
  BY <1>1, SeatedAt DEF Tricks
<1>3. PICK n \in 0..nplayers : At(n)
  BY <1>1, SeatedAt DEF Tricks
<1>4. n = 0
  BY <1>1, <1>2, <1>3 DEF At
<1>5. CASE phase' = "FLY"
  <2>1. UNCHANGED <<plays, cur_idx>>
    BY <1>1, <1>5 DEF LeadPlay, CommitLead
  <2>2. Gone(0)
    BY <1>1, <1>3, <1>4, <1>5, <2>1 DEF At, PlayedFrom, Gone
  <2> QED BY <1>1, <1>3, <1>4, <2>2, TurnsStay
<1>6. CASE CommitLead(p, play)
  <2>1. p = leader
    <3>1. p = Turn(leader, 0)
      BY <1>1, <1>3, <1>4, CurrentIs DEF Tricks
    <3> QED BY <1>2, <3>1, Ring
  <2> QED BY <1>1, <1>6, <2>1, CommitLeadTurns
<1> QED
  BY <1>5, <1>6 DEF LeadPlay

LEMMA FlyTurns ==
  ASSUME EnoughPlayers, NoPlayIsNull, TypeInv, TableInv, Turns, NEW p \in Users,
         (\E t : ContestFly(p, t)) \/ PassContest(p), lead # NULL
  PROVE  Turns'
<1>1. phase = "FLY" /\ UNCHANGED <<players, order, leader>>
  BY DEF ContestFly, PassContest, lobbyVars
<1>2. CASE \E t : ContestFly(p, t)
  <2>1. PICK t : ContestFly(p, t)
    BY <1>2
  <2>2. CommitLead(leader, Flight(tr, <<Smallest(t)>>))
    BY <2>1 DEF ContestFly
  <2> QED BY <1>1, <2>2, FlightIs, CommitLeadTurns
<1>3. CASE CommitLead(leader, lead)
  BY <1>1, <1>3, CommitLeadTurns
<1>4. CASE UNCHANGED <<phase, cur_idx, plays>>
  <2>1. PICK n \in 0..nplayers : At(n)
    BY <1>1, SeatedAt DEF Tricks
  <2>2. Gone(n)
    BY <1>1, <1>4, <2>1 DEF At, PlayedFrom, Gone
  <2> QED BY <1>1, <2>2, TurnsStay
<1> QED
  BY <1>2, <1>3, <1>4 DEF PassContest

LEMMA FollowLeadTurns ==
  ASSUME EnoughPlayers, NoPlayIsNull, TypeInv, TableInv, Turns, NEW p \in Users,
         NEW play, play # NULL, FollowLead(p, play)
  PROVE  Turns'
<1>1. /\ phase = "FOLLOW" /\ p = current /\ UNCHANGED <<players, order, leader>>
  BY DEF FollowLead, lobbyVars
<1>2. /\ phase # "INIT" /\ leader \in Seated /\ nplayers \in Nat /\ nplayers >= 3
  BY <1>1, SeatedAt DEF Tricks
<1>3. PICK n \in 0..nplayers : At(n)
  BY <1>1, SeatedAt DEF Tricks
<1>4. /\ n \in 0..(nplayers - 1) /\ p = Turn(leader, n) /\ cur_idx = order[Turn(leader, n)]
      /\ n > 0 /\ PlayedFrom(leader, n)
  BY <1>1, <1>3, CurrentIs DEF Tricks, At
<1>5. PICK best : best # NULL /\ plays' = [plays EXCEPT ![Turn(leader, n)] = best]
  BY <1>4, BestPlayIs DEF FollowLead, CommitPlay
<1>6. \A u \in Users : plays'[u] # NULL <=> \E k \in 0..n : u = Turn(leader, k)
  BY <1>2, <1>4, <1>5, OneMore
<1>7. trick_over(plays') <=> n + 1 = nplayers
  <2>1. {u \in Users : plays'[u] # NULL} = {Turn(leader, k) : k \in 0..n}
    <3>1. \A k \in 0..n : Turn(leader, k) \in Users
      <4>1. \A k \in 0..n : k \in 0..nplayers
        BY <1>2, <1>4
      <4> QED BY <1>2, <4>1, Ring, SeatedUsers
    <3> QED BY <1>6, <3>1
  <2>2. n + 1 \in 0..nplayers /\ (n + 1) - 1 = n
    BY <1>2, <1>4
  <2>3. Cardinality({Turn(leader, k) : k \in 0..n}) = n + 1
    BY <1>2, <2>2, RingSize
  <2> QED BY <2>1, <2>3 DEF trick_over
<1>8. cur_idx' = IF n + 1 = nplayers THEN NULL ELSE order[Turn(leader, n + 1)]
  BY <1>2, <1>4, <1>7, RingNext DEF FollowLead
<1>9. CASE phase' = "FOLLOW"
  <2>1. (n + 1) - 1 = n /\ n + 1 > 0 /\ n + 1 \in 0..nplayers
    BY <1>2, <1>4
  <2>2. Gone(n + 1)
    BY <1>1, <1>6, <1>8, <1>9, <2>1 DEF Gone
  <2> QED BY <1>1, <2>1, <2>2, TurnsStay
<1>10. CASE phase' = "FINISH"
  BY <1>10 DEF Turns, Tricks
<1> QED
  BY <1>9, <1>10 DEF FollowLead

\* Who can take their play back was the last to play, and did not lead.
LEMMA UndoneIs ==
  ASSUME EnoughPlayers, TypeInv, TableInv, Turns, NEW p \in Users, UndoPlay(p)
  PROVE  \E n \in 1..(nplayers - 1) :
           /\ PlayedFrom(leader, n + 1) /\ n + 1 < nplayers
           /\ p = Turn(leader, n)
<1>1. /\ phase = "FOLLOW" /\ plays[p] # NULL /\ p # leader
      /\ next_player_idx(order[p]) = cur_idx
  BY DEF UndoPlay, CheckUndo
<1>2. /\ phase # "INIT" /\ leader \in Seated /\ nplayers \in Nat /\ nplayers >= 3
  BY <1>1, SeatedAt DEF Tricks
<1>3. PICK n \in 0..nplayers : At(n)
  BY <1>1, SeatedAt DEF Tricks
<1>4. PICK j \in 0..(n - 1) : p = Turn(leader, j)
  BY <1>1, <1>3 DEF At, PlayedFrom
<1>5. j \in 0..(nplayers - 1) /\ j + 1 \in 0..nplayers
  BY <1>2, <1>3, <1>4
<1>6. j # 0
  BY <1>1, <1>2, <1>4, Ring
<1>7. next_player_idx(order[p]) = order[Turn(leader, j + 1)]
  BY <1>2, <1>4, <1>5, RingNext
<1>8. order[Turn(leader, j + 1)] \in Nat
  <2>1. Turn(leader, j + 1) \in Seated
    BY <1>2, <1>5, Ring
  <2> QED BY <1>2, <2>1, OrderOfSeated
<1>9. n # nplayers /\ order[Turn(leader, j + 1)] = order[Turn(leader, n)]
  <2>1. cur_idx = order[Turn(leader, j + 1)]
    BY <1>1, <1>7
  <2>2. cur_idx # NULL
    BY <1>8, <2>1, ZpyAssumption
  <2>3. cur_idx = IF n = nplayers THEN NULL ELSE order[Turn(leader, n)]
    BY <1>3 DEF At
  <2> QED BY <2>1, <2>2, <2>3
<1>10. n \in 0..(nplayers - 1) /\ j + 1 \in 0..(nplayers - 1)
  BY <1>2, <1>3, <1>4, <1>9
<1>11. j + 1 = n
  BY <1>2, <1>9, <1>10, RingOnce
<1>12. j \in 1..(nplayers - 1) /\ j + 1 < nplayers /\ PlayedFrom(leader, j + 1)
  BY <1>2, <1>3, <1>5, <1>6, <1>9, <1>10, <1>11 DEF At
<1> QED
  BY <1>4, <1>12

LEMMA UndonePlays ==
  ASSUME EnoughPlayers, TypeInv, TableInv, Turns, NEW p \in Users, UndoPlay(p),
         NEW n \in 1..(nplayers - 1), PlayedFrom(leader, n + 1), p = Turn(leader, n)
  PROVE  \A u \in Users : plays'[u] # NULL <=> \E k \in 0..(n - 1) : u = Turn(leader, k)
<1>1. phase # "INIT" /\ leader \in Seated /\ nplayers \in Nat
  BY SeatedAt DEF Tricks, UndoPlay
<1>2. DOMAIN plays = Users /\ plays' = [plays EXCEPT ![p] = NULL]
  BY DEF UndoPlay, TypeInv, TypeOK, TrickTypes
<1> TAKE u \in Users
<1>3. plays'[u] = IF u = p THEN NULL ELSE plays[u]
  BY <1>2
<1>4. plays[u] # NULL <=> \E k \in 0..n : u = Turn(leader, k)
  <2>1. (n + 1) - 1 = n
    BY <1>1
  <2> QED BY <2>1 DEF PlayedFrom
<1>5. \A k \in 0..n : Turn(leader, k) = p <=> k = n
  <2>1. \A k \in 0..n : k \in 0..(nplayers - 1) /\ n \in 0..(nplayers - 1)
    BY <1>1
  <2> QED BY <1>1, <2>1, RingOnce
<1>6. 0..(n - 1) \subseteq 0..n /\ \A k \in 0..n : k # n => k \in 0..(n - 1)
  BY <1>1
<1>7. \A k \in 0..(n - 1) : k # n
  BY <1>1
<1> QED
  BY <1>3, <1>4, <1>5, <1>6, <1>7

LEMMA UndoPlayTurns ==
  ASSUME EnoughPlayers, TypeInv, TableInv, Turns, NEW p \in Users, UndoPlay(p)
  PROVE  Turns'
<1>1. PICK n \in 1..(nplayers - 1) :
        PlayedFrom(leader, n + 1) /\ n + 1 < nplayers /\ p = Turn(leader, n)
  BY UndoneIs
<1>2. phase' = "FOLLOW" /\ UNCHANGED <<players, order, leader>> /\ cur_idx' = order[p]
  BY DEF UndoPlay, lobbyVars
<1>3. nplayers \in Nat /\ nplayers >= 3
  BY SeatedAt DEF UndoPlay, Tricks
<1>4. n > 0 /\ n # nplayers /\ n \in 0..nplayers
  BY <1>1, <1>3
<1>5. Gone(n)
  BY <1>1, <1>2, <1>4, UndonePlays DEF Gone
<1> QED
  BY <1>2, <1>4, <1>5, TurnsStay

LEMMA CollectTrickTurns ==
  ASSUME EnoughPlayers, TypeInv, TableInv, Turns, NEW p \in Users, CollectTrick(p)
  PROVE  Turns'
<1>1. phase = "FOLLOW" /\ p = winning /\ UNCHANGED <<players, order>>
  BY DEF CollectTrick, lobbyVars
<1>2. winning \in Seated /\ ~Lobby
  BY <1>1, ZpyAssumption DEF TypeInv, SeatTypes, TrickSeats, Tricks, Lobby
<1>3. CASE phase' = "FINISH"
  BY <1>3 DEF Turns, Tricks
<1>4. CASE phase' = "LEAD" /\ leader' = winning /\ cur_idx' = order[winning] /\ plays' = NoPlays
  BY <1>1, <1>2, <1>4, BeginTurns
<1> QED
  BY <1>3, <1>4 DEF CollectTrick

LEMMA PrepareTurns ==
  ASSUME EnoughPlayers, TypeInv, TypeInv', TableInv, NEW p \in Users, Prepare(p)
  PROVE  Turns'
<1>1. CASE \E k \in SubPiles(draws[p], Size(kitty)) : ReplaceKitty(p, k)
  <2>1. CASE phase' = "FRIEND"
    BY <2>1 DEF Turns, Tricks
  <2>2. CASE phase' = "LEAD"
    <3>1. /\ phase = "KITTY" /\ UNCHANGED <<players, order, plays>>
          /\ leader' = host /\ cur_idx' = order[host]
      BY <1>1, <2>2 DEF ReplaceKitty, lobbyVars
    <3>2. plays = NoPlays
      BY <3>1 DEF TypeInv, SeatTypes, NoTrick
    <3>3. leader' \in Seated
      <4>1. leader' \in Seated'
        BY <2>2 DEF TypeInv, SeatTypes, TrickSeats, Tricks
      <4> QED BY <3>1, <4>1 DEF Seated
    <3> QED BY <2>2, <3>1, <3>2, <3>3, BeginTurns DEF Lobby, NoPlays
  <2> QED BY <1>1, <2>1, <2>2 DEF ReplaceKitty
<1>2. CASE \E calls \in Calls : CallFriends(p, calls)
  <2>1. /\ phase = "FRIEND" /\ phase' = "LEAD" /\ UNCHANGED <<players, order, plays>>
        /\ leader' = host /\ cur_idx' = order[host]
    BY <1>2 DEF CallFriends, lobbyVars
  <2>2. plays = NoPlays
    BY <2>1 DEF TypeInv, SeatTypes, NoTrick
  <2>3. leader' \in Seated
    BY <2>1 DEF TypeInv, SeatTypes, PlaySeats
  <2> QED BY <2>1, <2>2, <2>3, BeginTurns DEF Lobby, NoPlays
<1>3. CASE StartGame(p) \/ DrawCard(p) \/ RequestRedeal(p) \/ Ready(p)
  BY <1>3 DEF StartGame, DrawCard, RequestRedeal, Ready, InstallHost, Turns, Tricks
<1>4. CASE phase \in {"DRAW", "PREPARE"} /\ \E c \in StdDeck, n \in 1..ndecks : BidTrump(p, c, n)
  BY <1>4 DEF BidTrump, Turns, Tricks
<1> QED
  BY <1>1, <1>2, <1>3, <1>4 DEF Prepare

\* A fly is a lead of several tractors.
FlyInv == phase = "FLY" => lead # NULL /\ Len(lead.tractors) > 1

LEMMA FlyNext ==
  ASSUME NoPlayIsNull, FlyInv, [Next]_vars PROVE FlyInv'
<1> SUFFICES ASSUME phase' = "FLY" PROVE lead' # NULL /\ Len(lead'.tractors) > 1
  BY DEF FlyInv
<1>1. CASE UNCHANGED vars
  BY <1>1 DEF vars, trickVars, FlyInv
<1>2. ASSUME NEW p \in Users, Configure(p) PROVE lead' # NULL /\ Len(lead'.tractors) > 1
  BY <1>2 DEF Configure, AddPlayer, RmPlayer, SetDecks, SetRuleMods, SetRank, roundVars,
              trickVars, FlyInv
<1>3. ASSUME NEW p \in Users PROVE ~Prepare(p)
  BY DEF Prepare, StartGame, DrawCard, BidTrump, RequestRedeal, Ready, InstallHost,
         ReplaceKitty, CallFriends
<1>4. ASSUME NEW p \in Users, PlayTrick(p) PROVE lead' # NULL /\ Len(lead'.tractors) > 1
  <2>1. CASE \E play \in LeadsOf(p) : LeadPlay(p, play)
    BY <2>1, LeadIs DEF LeadPlay, CommitLead
  <2>2. CASE PassContest(p)
    BY <2>2 DEF PassContest, CommitLead, FlyInv
  <2> QED
    BY <1>4, <2>1, <2>2 DEF PlayTrick, ContestFly, CommitLead, FollowLead, UndoPlay, CollectTrick
<1>5. ASSUME NEW p \in Users PROVE ~Conclude(p)
  BY DEF Conclude, EndRound, NextReady, NextRound
<1> QED
  BY <1>1, <1>2, <1>3, <1>4, <1>5 DEF Next

LEMMA TurnsNext ==
  ASSUME EnoughPlayers, NoPlayIsNull, TypeInv, TypeInv', TableInv, FlyInv, Turns, [Next]_vars
  PROVE  Turns'
<1>1. CASE UNCHANGED vars
  BY <1>1 DEF vars, lobbyVars, trickVars, Turns, At, PlayedFrom, Turn, nplayers
<1>2. ASSUME NEW p \in Users, Configure(p) PROVE Turns'
  BY <1>2 DEF Configure, AddPlayer, RmPlayer, SetDecks, SetRuleMods, SetRank, roundVars,
              Turns, Lobby, Tricks
<1>3. ASSUME NEW p \in Users, Prepare(p) PROVE Turns'
  BY <1>3, PrepareTurns
<1>4. ASSUME NEW p \in Users, PlayTrick(p) PROVE Turns'
  <2>1. CASE \E play \in LeadsOf(p) : LeadPlay(p, play)
    BY <2>1, LeadIs, LeadPlayTurns
  <2>2. CASE \E t \in TractorsIn(tr, hands[p], FlightSuit(lead)) : ContestFly(p, t)
    BY <2>2, FlyTurns DEF FlyInv, ContestFly
  <2>3. CASE PassContest(p)
    BY <2>3, FlyTurns DEF FlyInv, PassContest
  <2>4. CASE \E play \in FollowsOf(p) : FollowLead(p, play)
    BY <2>4, FollowIs, FollowLeadTurns
  <2>5. CASE UndoPlay(p) \/ CollectTrick(p)
    BY <2>5, UndoPlayTurns, CollectTrickTurns
  <2> QED BY <1>4, <2>1, <2>2, <2>3, <2>4, <2>5 DEF PlayTrick
<1>5. ASSUME NEW p \in Users, Conclude(p) PROVE Turns'
  BY <1>5 DEF Conclude, EndRound, NextReady, NextRound, Turns, Tricks
<1> QED
  BY <1>1, <1>2, <1>3, <1>4, <1>5 DEF Next

\* What the tables of this module are like.
Regular == EnoughPlayers /\ NoPlayIsNull /\ "joins again" \notin Habits

PlayInv == TypeInv /\ TableInv /\ FlyInv /\ Turns

LEMMA PlayAlways == ASSUME Regular PROVE Spec => []PlayInv
<1>1. Init => TableInv /\ FlyInv /\ Turns
  BY TableInit DEF Init, FlyInv, Turns, Tricks
<1>2. TypeInv /\ TypeInv' /\ TableInv /\ FlyInv /\ Turns /\ [Next]_vars
        => TableInv' /\ FlyInv' /\ Turns'
  BY TableNext, FlyNext, TurnsNext DEF Regular
<1>3. Spec => []TypeInv
  BY TypeInvariant DEF Regular
<1> QED
  BY <1>1, <1>2, <1>3, PTL DEF Spec, PlayInv

\* Turns come round the table: in every trick those who have played are the leader
\* and the players next to him, and cur_idx is of the next one, through flies that
\* are contested (observe_lead, reject_fly), follows and undos.
THEOREM TurnOrderAlways == ASSUME Regular PROVE Spec => []TurnOrder
<1>1. PlayInv => TurnOrder
  <2> SUFFICES ASSUME PlayInv, phase \in Tricks
               PROVE  LET n == Cardinality(Played)
                      IN  /\ phase = "FOLLOW" <=> n > 0
                          /\ Played = {Turn(leader, k) : k \in 0..(n - 1)}
                          /\ cur_idx = IF n = nplayers THEN NULL ELSE order[Turn(leader, n)]
    BY DEF TurnOrder
  <2>1. phase # "INIT" /\ leader \in Seated /\ nplayers \in Nat
    BY SeatedAt DEF Regular, PlayInv
  <2>2. PICK n \in 0..nplayers : At(n)
    BY SeatedAt DEF Regular, PlayInv
  <2>3. Played = {Turn(leader, k) : k \in 0..(n - 1)}
    <3>1. \A k \in 0..(n - 1) : Turn(leader, k) \in Users
      <4>1. \A k \in 0..(n - 1) : k \in 0..nplayers
        BY <2>1
      <4> QED BY <2>1, <4>1, Ring, SeatedUsers DEF PlayInv
    <3> QED BY <2>2, <3>1 DEF At, PlayedFrom, Played
  <2>4. Cardinality(Played) = n
    BY <2>1, <2>3, RingSize DEF PlayInv
  <2> QED BY <2>2, <2>3, <2>4 DEF At
<1> QED
  BY <1>1, PlayAlways, PTL

LEMMA PlaysKept ==
  ASSUME NEW q, NEW play, play # NULL, NEW u \in Users, plays[u] # NULL,
         DOMAIN plays = Users, plays' = [plays EXCEPT ![q] = play]
  PROVE  plays'[u] # NULL
  BY Zenon

\* Only undo_play takes a play off the table in the middle of a trick.
LEMMA PlayGone ==
  ASSUME NoPlayIsNull, TypeInv, FlyInv, Next, NEW u \in Users, plays[u] # NULL,
         plays'[u] = NULL, phase' = "FOLLOW"
  PROVE  UndoPlay(u)
<1>1. DOMAIN plays = Users
  BY DEF TypeInv, TypeOK, TrickTypes
<1>2. PICK p \in Users : Configure(p) \/ Prepare(p) \/ PlayTrick(p) \/ Conclude(p)
  BY DEF Next
<1>3. ~Configure(p)
  BY DEF Configure, AddPlayer, RmPlayer, SetDecks, SetRuleMods, SetRank, roundVars, trickVars
<1>4. ~Prepare(p)
  BY DEF Prepare, StartGame, DrawCard, BidTrump, RequestRedeal, Ready, InstallHost,
         ReplaceKitty, CallFriends
<1>5. ~Conclude(p)
  BY DEF Conclude, EndRound, NextReady, NextRound
<1>6. ASSUME NEW q, NEW play, play # NULL PROVE ~CommitLead(q, play)
  BY <1>1, <1>6, PlaysKept DEF CommitLead, CommitPlay
<1>7. ~\E play \in LeadsOf(p) : LeadPlay(p, play)
  BY <1>6, LeadIs DEF LeadPlay
<1>8. ~\E t \in TractorsIn(tr, hands[p], FlightSuit(lead)) : ContestFly(p, t)
  BY <1>6, FlightIs DEF ContestFly
<1>9. ~PassContest(p)
  BY <1>6 DEF PassContest, FlyInv
<1>10. ~\E play \in FollowsOf(p) : FollowLead(p, play)
  BY <1>1, FollowIs, BestPlayIs, PlaysKept DEF FollowLead, CommitPlay
<1>11. ~CollectTrick(p)
  BY DEF CollectTrick
<1>12. UndoPlay(p)
  BY <1>2, <1>3, <1>4, <1>5, <1>7, <1>8, <1>9, <1>10, <1>11 DEF PlayTrick
<1>13. plays' = [plays EXCEPT ![p] = NULL]
  BY <1>12 DEF UndoPlay
<1>14. p = u
  BY <1>1, <1>13
<1> QED
  BY <1>12, <1>14

\* A play is taken back only by the last to have played: nobody's play stays on
\* the table behind one that is gone, and the cards are back in the hand.
THEOREM UndoIsLastAlways == ASSUME Regular PROVE Spec => UndoIsLast
<1> DEFINE Last ==
      \A u \in Users : plays[u] # NULL /\ plays'[u] = NULL /\ phase' = "FOLLOW" =>
       /\ \A k \in 1..(nplayers - 1) :
            (\E j \in 1..k : Turn(leader, j) = u) => plays'[Turn(leader, k)] = NULL
       /\ hands'[u] = AddPile(hands[u], plays[u].cards)
<1>1. ASSUME PlayInv, [Next]_vars PROVE [Last]_vars
  <2> SUFFICES ASSUME Next, NEW u \in Users, plays[u] # NULL, plays'[u] = NULL,
                      phase' = "FOLLOW"
               PROVE  /\ \A k \in 1..(nplayers - 1) :
                           (\E j \in 1..k : Turn(leader, j) = u) =>
                              plays'[Turn(leader, k)] = NULL
                      /\ hands'[u] = AddPile(hands[u], plays[u].cards)
    BY <1>1
  <2>1. UndoPlay(u)
    BY <1>1, PlayGone DEF Regular, PlayInv
  <2>2. PICK n \in 1..(nplayers - 1) : PlayedFrom(leader, n + 1) /\ u = Turn(leader, n)
    BY <1>1, <2>1, UndoneIs DEF Regular, PlayInv
  <2>3. \A v \in Users : plays'[v] # NULL <=> \E k \in 0..(n - 1) : v = Turn(leader, k)
    BY <1>1, <2>1, <2>2, UndonePlays DEF Regular, PlayInv
  <2>4. phase # "INIT" /\ leader \in Seated /\ nplayers \in Nat
    BY <1>1, <2>1, SeatedAt DEF Regular, PlayInv, UndoPlay, Tricks
  <2>5. ASSUME NEW k \in 1..(nplayers - 1), NEW j \in 1..k, Turn(leader, j) = u
        PROVE  plays'[Turn(leader, k)] = NULL
    <3>1. j \in 0..(nplayers - 1) /\ n \in 0..(nplayers - 1) /\ k \in 0..(nplayers - 1)
      BY <2>4
    <3>2. j = n
      BY <1>1, <2>2, <2>4, <2>5, <3>1, RingOnce DEF PlayInv
    <3>3. k \in 0..nplayers /\ \A i \in 0..(n - 1) : i \in 0..(nplayers - 1) /\ i # k
      BY <2>4, <3>1, <3>2
    <3>4. \A i \in 0..(n - 1) : Turn(leader, k) # Turn(leader, i)
      BY <1>1, <2>4, <3>1, <3>3, RingOnce DEF PlayInv
    <3>5. Turn(leader, k) \in Users
      BY <1>1, <2>4, <3>3, Ring, SeatedUsers DEF PlayInv
    <3> QED BY <2>3, <3>4, <3>5
  <2>6. hands'[u] = AddPile(hands[u], plays[u].cards)
    <3>1. DOMAIN hands = Users
      BY <1>1 DEF PlayInv, TypeInv, TypeOK, HandTypes
    <3> QED BY <2>1, <3>1 DEF UndoPlay
  <2> QED BY <2>5, <2>6
<1>2. UndoIsLast <=> [][Last]_vars
  BY PTL DEF UndoIsLast
<1> QED
  BY <1>1, <1>2, PlayAlways, PTL DEF Spec

-----------------------------------------------------------------------------
(* Teams *)

NoTeams == host_team = {} /\ atk_team = {} /\ joins = 0 /\ friends = <<>>
NotYet(fs) == {i \in DOMAIN fs : fs[i].tally # 0}
Already(fs) == {i \in DOMAIN fs : fs[i].tally = 0}

\* Friends are called one for each place on the host's team, or not at all.
Teamed ==
  /\ host \in host_team /\ host_team \subseteq Seated
  /\ host_team \cap atk_team = {}
  /\ joins = Cardinality(Already(friends))
  /\ atk_team = IF fixed_teams \/ joins = nfriends THEN Seated \ host_team ELSE {}
  /\ ~fixed_teams => Len(friends) = nfriends

TeamsInv ==
  /\ phase \in {"DRAW", "PREPARE", "KITTY", "FRIEND"} => NoTeams
  /\ phase = "FRIEND" => ~fixed_teams
  /\ phase \in Tricks \cup {"FINISH"} => Teamed

\* What a play does to the teams is friend detection for somebody at the table.
LEMMA PlaysDetect ==
  ASSUME TypeInv, NEW p \in Users, PlayTrick(p)
  PROVE  /\ UNCHANGED <<rules, players, order, host>>
         /\ phase \in Tricks /\ phase' \in Tricks \cup {"FINISH"}
         /\ \/ UNCHANGED <<friends, joins, host_team, atk_team>>
            \/ \E q \in Seated, cards \in Piles : DetectFriends(q, cards)
<1>0. ASSUME phase \in Tricks, NEW q \in Seated, NEW play, IsPile(play.cards), CommitLead(q, play)
      PROVE  \E r \in Seated, cards \in Piles : DetectFriends(r, cards)
  <2>1. Contains(hands[q], play.cards) /\ hands' = [hands EXCEPT ![q] = TakePile(hands[q], play.cards)]
        /\ DetectFriends(q, play.cards)
    BY <1>0 DEF CommitLead, CommitPlay
  <2>2. play.cards \in Piles
    BY <1>0, <2>1, HandTaken
  <2> QED BY <2>1, <2>2
<1>1. CASE \E play \in LeadsOf(p) : LeadPlay(p, play)
  <2>1. PICK play \in LeadsOf(p) : LeadPlay(p, play)
    BY <1>1
  <2>2. p \in Seated /\ IsPile(play.cards) /\ phase = "LEAD"
    BY <2>1, LeadsOfIs, CurrentSeated DEF LeadPlay
  <2> QED BY <1>0, <2>1, <2>2 DEF LeadPlay, lobbyVars, friendVars, Tricks, CommitLead
<1>2. CASE \E t \in TractorsIn(tr, hands[p], FlightSuit(lead)) : ContestFly(p, t)
  <2>1. PICK t : ContestFly(p, t)
    BY <1>2
  <2>2. phase = "FLY" /\ leader \in Seated
    BY <2>1 DEF ContestFly, TypeInv, SeatTypes, TrickSeats, Tricks
  <2>3. IsPile(Flight(tr, <<Smallest(t)>>).cards)
    BY TractorsPileIs DEF Flight
  <2>4. CommitLead(leader, Flight(tr, <<Smallest(t)>>))
    BY <2>1 DEF ContestFly
  <2>5. \E q \in Seated, cards \in Piles : DetectFriends(q, cards)
    BY <1>0, <2>2, <2>3, <2>4 DEF Tricks
  <2>6. phase' = "FOLLOW"
    BY <2>4 DEF CommitLead
  <2> QED BY <2>1, <2>2, <2>5, <2>6 DEF ContestFly, lobbyVars, Tricks
<1>3. CASE PassContest(p)
  <2>1. phase = "FLY" /\ leader \in Seated /\ lead.cards \in Piles
    BY <1>3 DEF PassContest, TypeInv, SeatTypes, TrickSeats, FlyTypes, PlayOK, Tricks
  <2>2. CommitLead(leader, lead) => DetectFriends(leader, lead.cards) /\ phase' = "FOLLOW"
    BY DEF CommitLead, CommitPlay
  <2> QED BY <1>3, <2>1, <2>2 DEF PassContest, lobbyVars, friendVars, Tricks
<1>4. CASE \E play \in FollowsOf(p) : FollowLead(p, play)
  <2>1. PICK play \in FollowsOf(p) : FollowLead(p, play)
    BY <1>4
  <2>2. p \in Seated /\ IsPile(play.cards) /\ phase = "FOLLOW"
    BY <2>1, FollowsOfIs, CurrentSeated DEF FollowLead
  <2>3. play.cards \in Piles
    BY <2>1, <2>2, HandTaken DEF FollowLead, Tricks
  <2>4. DetectFriends(p, play.cards)
    BY <2>1, BestPlayCards DEF FollowLead, CommitPlay
  <2> QED BY <2>1, <2>2, <2>3, <2>4 DEF FollowLead, lobbyVars, Tricks
<1>5. CASE UndoPlay(p)
  BY <1>5 DEF UndoPlay, lobbyVars, friendVars, Tricks
<1>6. CASE CollectTrick(p)
  BY <1>6 DEF CollectTrick, lobbyVars, Tricks
<1> QED
  BY <1>1, <1>2, <1>3, <1>4, <1>5, <1>6 DEF PlayTrick

\* The team a play finds friends for grows, and the others become attackers when
\* it has all its friends.
LEMMA DetectTeams ==
  ASSUME TypeInv, NEW p \in Seated, NEW cards \in Piles, DetectFriends(p, cards), Teamed,
         UNCHANGED <<rules, players, host>>
  PROVE  Teamed'
<1>1. /\ nfriends' = nfriends /\ fixed_teams' = fixed_teams /\ Seated' = Seated
  BY DEF nfriends, fixed_teams, nplayers, Seated
<1>2. CASE fixed_teams
  BY <1>1, <1>2 DEF DetectFriends, friendVars, Teamed, Already
<1>3. CASE ~fixed_teams
  <2> DEFINE Friend == [card : StdDeck, nth : Nat, tally : Nat]
             found  == Found(cards)
  <2>1. friends \in Seq(Friend)
    BY DEF TypeInv, TypeOK, FriendTypes
  <2>2. DOMAIN friends = 1..Len(friends) /\ Len(friends) \in Nat
    BY <2>1
  <2>3. IsFiniteSet(DOMAIN friends) /\ Cardinality(DOMAIN friends) = Len(friends)
    <3> DEFINE n == Len(friends)
    <3>1. n \in Nat /\ DOMAIN friends = 1..n
      BY <2>2
    <3> HIDE DEF n
    <3>2. IsFiniteSet(1..n) /\ Cardinality(1..n) = n
      BY <3>1, FS_Interval
    <3> QED BY <3>1, <3>2 DEF n
  <2>4. /\ IsFiniteSet(found) /\ IsFiniteSet(Already(friends))
        /\ Cardinality(found) \in Nat /\ Cardinality(Already(friends)) \in Nat
    BY <2>3, FS_Subset, FS_CardinalityType DEF Found, Already
  <2>5. friends' = Tallied(cards)
    BY <1>3 DEF DetectFriends
  <2>6. \A i \in DOMAIN friends :
          /\ friends[i].tally \in Nat /\ cards[friends[i].card] \in Nat
          /\ Tallied(cards)[i].tally = IF friends[i].tally > cards[friends[i].card]
                                       THEN friends[i].tally - cards[friends[i].card] ELSE 0
    <3> SUFFICES ASSUME NEW i \in DOMAIN friends
                 PROVE  /\ friends[i].tally \in Nat /\ cards[friends[i].card] \in Nat
                        /\ Tallied(cards)[i].tally = IF friends[i].tally > cards[friends[i].card]
                                       THEN friends[i].tally - cards[friends[i].card] ELSE 0
      OBVIOUS
    <3>1. friends[i] \in Friend
      <4> HIDE DEF Friend
      <4> QED BY <2>1
    <3>2. cards[friends[i].card] \in Nat
      BY <3>1 DEF Piles
    <3> QED BY <3>1, <3>2 DEF Tallied
  <2>7. DOMAIN friends' = DOMAIN friends /\ Len(friends') = Len(friends)
    <3>1. DOMAIN friends' = DOMAIN friends
      BY <2>5 DEF Tallied
    <3>2. friends' \in Seq(Friend)
      <4>1. p \in Users
        BY SeatedUsers
      <4> QED BY <4>1, DetectFriendsTypes DEF FriendTypes
    <3> HIDE DEF Friend
    <3> QED BY <2>2, <3>1, <3>2
  <2>8. Already(friends') = Already(friends) \cup found /\ Already(friends) \cap found = {}
    BY <2>5, <2>6, <2>7 DEF Already, Found
  <2>9. Cardinality(Already(friends')) = joins + Cardinality(found)
    <3>1. Cardinality({}) = 0
      BY FS_EmptySet
    <3>2. Cardinality(Already(friends) \cup found) =
            Cardinality(Already(friends)) + Cardinality(found) - Cardinality({})
      BY <2>4, <2>8, FS_Union
    <3> QED BY <2>4, <2>8, <3>1, <3>2 DEF Teamed
  <2>10. found # {} => joins # nfriends
    <3> SUFFICES ASSUME found # {}, joins = nfriends PROVE FALSE
      OBVIOUS
    <3>1. Cardinality(Already(friends)) = Cardinality(DOMAIN friends)
      BY <1>3, <2>3 DEF Teamed
    <3>2. Already(friends) = DOMAIN friends
      BY <2>3, <3>1, FS_Subset DEF Already
    <3> QED BY <2>8, <3>2 DEF Found
  <2>11. /\ joins' = joins + Cardinality(found)
         /\ host_team' = (IF found = {} THEN host_team ELSE host_team \cup {p})
         /\ atk_team' = (IF found # {} /\ joins' = nfriends
                         THEN atk_team \cup (Seated \ host_team') ELSE atk_team)
    BY <1>3 DEF DetectFriends
  <2> HIDE DEF found
  <2>12. CASE found = {}
    <3>1. joins' = joins /\ host_team' = host_team /\ atk_team' = atk_team
      BY <2>4, <2>11, <2>12, FS_EmptySet DEF TypeInv, TypeOK, FriendTypes
    <3> QED BY <1>1, <1>3, <2>7, <2>9, <2>11, <3>1 DEF Teamed
  <2>13. CASE found # {}
    <3>1. atk_team = {}
      BY <1>3, <2>10, <2>13 DEF Teamed
    <3>2. atk_team' = IF joins' = nfriends THEN Seated \ host_team' ELSE {}
      BY <2>11, <2>13, <3>1
    <3>3. host \in host_team' /\ host_team' \subseteq Seated
      BY <2>11, <2>13 DEF Teamed
    <3> QED BY <1>1, <1>3, <2>7, <2>9, <2>11, <3>2, <3>3 DEF Teamed
  <2> QED BY <2>12, <2>13
<1> QED
  BY <1>2, <1>3

LEMMA PrepareTeams ==
  ASSUME EnoughPlayers, TypeInv, TypeInv', TableInv, TeamsInv, NEW p \in Users, Prepare(p)
  PROVE  TeamsInv'
<1>1. CASE StartGame(p) \/ RequestRedeal(p)
  BY <1>1 DEF StartGame, RequestRedeal, ResetRound, TeamsInv, NoTeams, Tricks
<1>2. CASE DrawCard(p)
  BY <1>2 DEF DrawCard, friendVars, TeamsInv, NoTeams, Tricks
<1>3. CASE phase \in {"DRAW", "PREPARE"} /\ \E c \in StdDeck, n \in 1..ndecks : BidTrump(p, c, n)
  BY <1>3 DEF BidTrump, friendVars, TeamsInv, NoTeams, Tricks
<1>4. CASE Ready(p)
  <2>1. phase = "PREPARE" /\ phase' \in {"PREPARE", "KITTY"} /\ UNCHANGED friendVars
    BY <1>4 DEF Ready, InstallHost
  <2> QED BY <2>1 DEF friendVars, TeamsInv, NoTeams, Tricks
<1>5. CASE \E k \in SubPiles(draws[p], Size(kitty)) : ReplaceKitty(p, k)
  <2>1. /\ phase = "KITTY" /\ NoTeams /\ UNCHANGED <<host, rules, players, order, friends, joins>>
    BY <1>5 DEF ReplaceKitty, lobbyVars, TeamsInv
  <2>2. Seated' = Seated /\ fixed_teams' = fixed_teams
    BY <2>1 DEF Seated, fixed_teams, nplayers
  <2>3. CASE fixed_teams
    <3>1. host_team' = EvenSeats /\ atk_team' = Seated \ EvenSeats /\ phase' = "LEAD"
      BY <1>5, <2>3 DEF ReplaceKitty
    <3>2. host \in Seated /\ nplayers \in Nat /\ nplayers >= 3
      <4>1. host' \in Seated'
        BY <3>1 DEF TypeInv, SeatTypes, PlaySeats, Tricks
      <4> QED BY <2>1, <2>2, <4>1, TableSize DEF Lobby
    <3>3. EvenSeats \subseteq Seated /\ host \in EvenSeats
      <4>1. \A k \in 0..(nplayers - 1) : k \in 0..nplayers
        BY <3>2
      <4>2. Turn(host, 0) = host /\ \A k \in 0..(nplayers - 1) : Turn(host, k) \in Seated
        BY <2>1, <3>2, <4>1, Ring
      <4>3. 0 \in {i \in 0..(nplayers - 1) : i % 2 = 0}
        BY <3>2
      <4> QED BY <4>2, <4>3 DEF EvenSeats
    <3>4. joins' = Cardinality(Already(friends'))
      <4>1. Already(<<>>) = {}
        BY DEF Already
      <4> QED BY <2>1, <4>1, FS_EmptySet DEF NoTeams
    <3>5. Teamed'
      BY <2>1, <2>2, <2>3, <3>1, <3>3, <3>4 DEF Teamed
    <3> QED BY <3>1, <3>5 DEF TeamsInv
  <2>4. CASE ~fixed_teams
    <3>1. phase' = "FRIEND" /\ UNCHANGED <<host_team, atk_team>>
      BY <1>5, <2>4 DEF ReplaceKitty
    <3> QED BY <2>1, <2>2, <2>4, <3>1 DEF TeamsInv, NoTeams, Tricks
  <2> QED BY <2>3, <2>4
<1>6. CASE \E calls \in Calls : CallFriends(p, calls)
  <2>1. PICK calls \in Calls : CallFriends(p, calls)
    BY <1>6
  <2>2. /\ phase = "FRIEND" /\ NoTeams /\ ~fixed_teams /\ phase' = "LEAD"
        /\ UNCHANGED <<host, rules, players, order, joins, atk_team>>
        /\ host_team' = host_team \cup {host} /\ host \in Seated
    BY <2>1 DEF CallFriends, lobbyVars, dealVars, TeamsInv, TypeInv, SeatTypes, PlaySeats
  <2>3. Seated' = Seated /\ fixed_teams' = fixed_teams /\ nfriends' = nfriends
    BY <2>2 DEF Seated, fixed_teams, nplayers, nfriends
  <2>4. nplayers \in Nat /\ nplayers >= 3
    BY <2>2, TableSize DEF Lobby
  <2>5. nfriends \in Nat /\ nfriends >= 1
    BY <2>4 DEF nfriends
  <2>6. DOMAIN friends' = 1..nfriends /\ \A i \in 1..nfriends : friends'[i].tally >= 1
    <3>1. DOMAIN calls = 1..nfriends /\ \A i \in DOMAIN calls : calls[i][2] \in 1..ndecks
      BY <2>1 DEF Calls, CallFriends
    <3>2. friends' = [i \in DOMAIN calls |->
                       [card |-> calls[i][1], nth |-> calls[i][2], tally |-> calls[i][2]]]
      BY <2>1 DEF CallFriends
    <3>3. ndecks \in Nat
      BY DEF TypeInv, TypeOK, TableTypes
    <3> QED BY <3>1, <3>2, <3>3
  <2>7. Already(friends') = {} /\ joins' = 0 /\ Cardinality(Already(friends')) = 0
    <3>1. Already(friends') = {}
      BY <2>6 DEF Already
    <3> QED BY <2>2, <3>1, FS_EmptySet DEF NoTeams
  <2>8. Len(friends') = nfriends
    <3> DEFINE Friend == [card : StdDeck, nth : Nat, tally : Nat]
    <3>1. friends' \in Seq(Friend)
      BY DEF TypeInv, TypeOK, FriendTypes
    <3> HIDE DEF Friend
    <3> QED BY <2>5, <2>6, <3>1
  <2>9. Teamed'
    BY <2>2, <2>3, <2>5, <2>7, <2>8 DEF Teamed, NoTeams
  <2> QED BY <2>2, <2>9 DEF TeamsInv
<1> QED
  BY <1>1, <1>2, <1>3, <1>4, <1>5, <1>6 DEF Prepare

LEMMA TeamsNext ==
  ASSUME EnoughPlayers, TypeInv, TypeInv', TableInv, TeamsInv, [Next]_vars
  PROVE  TeamsInv'
<1>1. CASE UNCHANGED vars
  BY <1>1 DEF vars, lobbyVars, friendVars, TeamsInv, NoTeams, Teamed, fixed_teams, nplayers,
              nfriends, Seated, Already
<1>2. ASSUME NEW p \in Users, Configure(p) PROVE TeamsInv'
  <2>1. Lobby /\ phase' = phase
    BY <1>2 DEF Configure, AddPlayer, RmPlayer, SetDecks, SetRuleMods, SetRank, roundVars
  <2> QED BY <2>1 DEF Lobby, TeamsInv, Tricks
<1>3. ASSUME NEW p \in Users, PlayTrick(p) PROVE TeamsInv'
  <2>1. /\ UNCHANGED <<rules, players, order, host>>
        /\ phase \in Tricks /\ phase' \in Tricks \cup {"FINISH"}
        /\ \/ UNCHANGED <<friends, joins, host_team, atk_team>>
           \/ \E q \in Seated, cards \in Piles : DetectFriends(q, cards)
    BY <1>3, PlaysDetect
  <2>2. Teamed
    BY <2>1 DEF TeamsInv
  <2>3. Teamed'
    <3>1. CASE UNCHANGED <<friends, joins, host_team, atk_team>>
      BY <2>1, <2>2, <3>1 DEF Teamed, fixed_teams, nplayers, nfriends, Seated, Already
    <3>2. CASE \E q \in Seated, cards \in Piles : DetectFriends(q, cards)
      BY <2>1, <2>2, <3>2, DetectTeams
    <3> QED BY <2>1, <3>1, <3>2
  <2> QED BY <2>1, <2>3 DEF TeamsInv, Tricks
<1>4. ASSUME NEW p \in Users, Conclude(p) PROVE TeamsInv'
  BY <1>4 DEF Conclude, EndRound, NextReady, NextRound, ResetRound, TeamsInv, NoTeams, Tricks
<1> QED
  BY <1>1, <1>2, <1>3, <1>4, PrepareTeams DEF Next

LEMMA TeamsAlways == ASSUME Regular PROVE Spec => []TeamsInv
<1>1. Init => TeamsInv
  BY DEF Init, TeamsInv, Tricks
<1>2. PlayInv /\ PlayInv' /\ TeamsInv /\ [Next]_vars => TeamsInv'
  BY TeamsNext DEF Regular, PlayInv
<1> QED
  BY <1>1, <1>2, PlayAlways, PTL DEF Spec

\* commit_play's friend detection: the teams are disjoint and of people at the
\* table, `joins` counts the friends that were found, by one play or several, and
\* the attackers are named when all were and not before.
THEOREM TeamsAgree == ASSUME Regular PROVE Spec => []TeamsOK
<1>1. TeamsInv => TeamsOK
  BY DEF TeamsInv, TeamsOK, Teamed, Already
<1> QED
  BY <1>1, TeamsAlways, PTL

-----------------------------------------------------------------------------
(* The next host *)

\* A round is played with at least one deck.
DecksInv == phase # "INIT" => ndecks # 0

LEMMA DecksNext ==
  ASSUME TypeInv, TypeInv', DecksInv, [Next]_vars PROVE DecksInv'
<1>1. CASE UNCHANGED vars
  BY <1>1 DEF vars, lobbyVars, DecksInv
<1>2. ASSUME NEW p \in Users, Configure(p) PROVE DecksInv'
  <2>1. CASE \E n \in DeckChoices : SetDecks(p, n)
    <3>1. PICK n \in DeckChoices : SetDecks(p, n)
      BY <2>1
    <3>2. n \in Nat /\ n > 0 /\ ndecks' = n
      BY <3>1, ZpyAssumption DEF SetDecks
    <3> QED BY <3>2 DEF DecksInv
  <2>2. CASE ~\E n \in DeckChoices : SetDecks(p, n)
    <3>1. UNCHANGED <<phase, ndecks>>
      BY <1>2, <2>2 DEF Configure, AddPlayer, RmPlayer, SetRuleMods, SetRank, roundVars
    <3> QED BY <3>1 DEF DecksInv
  <2> QED BY <2>1, <2>2
<1>3. ASSUME NEW p \in Users, StartGame(p) PROVE DecksInv'
  <2>1. nplayers \in Nat
    BY DEF nplayers, TypeInv, SeatsInv
  <2>2. AtLeast(nplayers) \in Nat /\ AtLeast(nplayers) >= 1
    BY <2>1, Numbers DEF AtLeast
  <2>3. def_ndecks(nplayers) # 0
    BY <2>2 DEF def_ndecks
  <2> QED BY <1>3, <2>3 DEF StartGame, DecksInv
<1>4. ASSUME NEW p \in Users, Prepare(p), ~StartGame(p) PROVE DecksInv'
  <2>1. phase # "INIT"
    BY <1>4, PreparingKeepsTable
  <2> QED BY <1>4, <2>1 DEF Prepare, DrawCard, BidTrump, RequestRedeal, Ready, ReplaceKitty,
              CallFriends, lobbyVars, DecksInv
<1>5. ASSUME NEW p \in Users, PlayTrick(p) PROVE DecksInv'
  <2>1. phase # "INIT"
    BY <1>5, PlayingKeepsTable
  <2> QED BY <1>5, <2>1 DEF PlayTrick, LeadPlay, ContestFly, PassContest, FollowLead, UndoPlay,
              CollectTrick, lobbyVars, DecksInv
<1>6. ASSUME NEW p \in Users, Conclude(p) PROVE DecksInv'
  <2>1. phase # "INIT"
    BY <1>6, ConcludingKeepsTable
  <2> QED BY <1>6, <2>1 DEF Conclude, EndRound, NextReady, NextRound, lobbyVars, DecksInv
<1> QED
  BY <1>1, <1>2, <1>3, <1>4, <1>5, <1>6 DEF Next

\* Nobody's points are none.
LEMMA NoSum == ASSUME NEW f PROVE SumFunctionOnSet(f, {}) = 0
<1> DEFINE Change(g, s) ==
             IF s = {} THEN 0
             ELSE LET x == CHOOSE y \in s : TRUE IN f[x] + g[s \ {x}]
           g0 == [s \in SUBSET {} |-> 0]
<1>1. g0 = [s \in SUBSET {} |-> Change(g0, s)]
  OBVIOUS
<1> QED
  BY <1>1 DEF SumFunctionOnSet, FoldFunctionOnSet, MapThenFoldSet

\* Attackers who won are there: an empty team has no points, and then they lose.
LEMMA WinnersSeated ==
  ASSUME TypeInv, TeamsInv, DecksInv, phase = "FINISH"
  PROVE  WinnerTeam \cap Seated # {}
<1>1. Teamed
  BY DEF TeamsInv
<1>2. CASE WinnerTeam = host_team
  BY <1>1, <1>2 DEF Teamed
<1>3. CASE WinnerTeam = atk_team /\ Delta >= 0
  <2> SUFFICES ASSUME atk_team = {} PROVE FALSE
    BY <1>1, <1>3 DEF Teamed
  <2>1. SumFunctionOnSet(points, atk_team \cap Seated) = 0
    BY NoSum
  <2>2. KittyPoints = 0
    BY DEF KittyPoints
  <2>3. AtkPoints = 0
    BY <2>1, <2>2 DEF AtkPoints
  <2>4. ndecks * 20 \in Nat \ {0}
    BY DEF DecksInv, TypeInv, TypeOK, TableTypes
  <2>5. 0 \div (ndecks * 20) = 0
    <3> DEFINE d == ndecks * 20
    <3> HIDE DEF d
    <3>1. d \in Nat \ {0} => 0 \div d = 0
      OBVIOUS
    <3> QED BY <2>4, <3>1 DEF d
  <2>6. Delta = -3
    BY <2>3, <2>5 DEF Delta
  <2> QED BY <1>3, <2>6
<1> QED
  BY <1>2, <1>3 DEF WinnerTeam

\* finish() finds its next host: somebody at the table is on the team that won,
\* whatever was played, also after a renege under AUTOLOSE.
THEOREM NextHostAlways == ASSUME Regular PROVE Spec => []NextHostExists
<1>1. ASSUME TypeInv, TeamsInv, DecksInv PROVE NextHostExists
  <2> SUFFICES ASSUME phase = "FINISH" PROVE NextHosts # {}
    BY DEF NextHostExists
  <2>1. PICK u \in Seated : u \in WinnerTeam
    BY <1>1, WinnersSeated
  <2>2. host \in Seated
    BY <1>1 DEF TypeInv, SeatTypes, PlaySeats
  <2>3. PICK k \in 1..nplayers : u = Turn(host, k)
    BY <1>1, <2>2, RingAll
  <2> QED BY <2>1, <2>3 DEF NextHosts
<1>2. Init => DecksInv
  BY DEF Init, DecksInv
<1>3. TypeInv /\ TypeInv' /\ DecksInv /\ [Next]_vars => DecksInv'
  BY DecksNext
<1>4. Spec => []TypeInv
  BY PlayAlways, PTL DEF PlayInv
<1> QED
  BY <1>1, <1>2, <1>3, <1>4, TeamsAlways, PTL DEF Spec

\* The next host is the first after the old one who won, who keeps the deal only
\* when nobody else at the table did.
THEOREM NextHostWonAlways == ASSUME Regular PROVE Spec => NextHostWon
<1> DEFINE Won == phase = "FINISH" /\ phase' = "WAIT" =>
                    /\ host' \in Seated \cap WinnerTeam
                    /\ host' = host => WinnerTeam \cap Seated = {host}
<1>1. ASSUME TypeInv, [Next]_vars PROVE [Won]_vars
  <2> SUFFICES ASSUME Next, phase = "FINISH", phase' = "WAIT"
               PROVE  /\ host' \in Seated \cap WinnerTeam
                      /\ host' = host => WinnerTeam \cap Seated = {host}
    BY <1>1
  <2>1. PICK p \in Users : EndRound(p)
    BY <1>1 DEF Next, Configure, AddPlayer, RmPlayer, SetDecks, SetRuleMods, SetRank, roundVars,
      Prepare, StartGame, DrawCard, BidTrump, RequestRedeal, Ready, ReplaceKitty, CallFriends,
      PlayTrick, LeadPlay, ContestFly, PassContest, FollowLead, UndoPlay, CollectTrick,
      Conclude, NextReady, NextRound
  <2>2. PICK k \in NextHosts : (\A j \in NextHosts : k <= j) /\ host' = Turn(host, k)
    BY <2>1 DEF EndRound
  <2>3. host \in Seated
    BY <1>1 DEF TypeInv, SeatTypes, PlaySeats
  <2>4. nplayers \in Nat \ {0} /\ Turn(host, 0) = host /\ Turn(host, nplayers) = host
    BY <1>1, <2>3, Ring
  <2>5. k \in 1..nplayers /\ host' \in Seated /\ host' \in WinnerTeam
    BY <1>1, <2>1, <2>2, NextHostSeated DEF NextHosts
  <2>6. ASSUME host' = host, NEW u \in WinnerTeam \cap Seated PROVE u = host
    <3>1. k = nplayers
      <4> SUFFICES ASSUME k # nplayers PROVE FALSE
        OBVIOUS
      <4>1. k \in 0..(nplayers - 1) /\ 0 \in 0..(nplayers - 1)
        BY <2>4, <2>5
      <4>2. k = 0
        BY <1>1, <2>2, <2>3, <2>4, <2>6, <4>1, RingOnce
      <4> QED BY <2>5, <4>2
    <3>2. PICK j \in 1..nplayers : u = Turn(host, j)
      BY <1>1, <2>3, <2>6, RingAll
    <3>3. j \in NextHosts
      BY <2>6, <3>2 DEF NextHosts
    <3>4. j = nplayers
      BY <2>2, <2>4, <3>1, <3>2, <3>3
    <3> QED BY <2>4, <3>2, <3>4
  <2> QED BY <2>5, <2>6
<1>2. NextHostWon <=> [][Won]_vars
  BY PTL DEF NextHostWon
<1>3. Spec => []TypeInv
  BY PlayAlways, PTL DEF PlayInv
<1> QED
  BY <1>1, <1>2, <1>3, PTL DEF Spec

-----------------------------------------------------------------------------
(* Bids *)

Bidding == phase \in {"DRAW", "PREPARE"}

\* Bids go up, and bidders are at the table.
BidsInv == BidsEscalate /\ (Bidding => \A i \in DOMAIN bids : bids[i].player \in Seated)

\* One bid after another.
Goes(b, c) ==
  \/ b.n < c.n /\ (b.player = c.player => b.card.suit = c.card.suit)
  \/ b.n = c.n /\ b.player # c.player /\ b.card.rank <= RankA /\ c.card.suit = "T"

LEMMA BidIs ==
  ASSUME TypeInv, NEW i \in DOMAIN bids
  PROVE  bids[i].player \in Users /\ bids[i].card \in StdDeck /\ bids[i].n \in Nat
<1> DEFINE Bids == [player : Users, card : StdDeck, n : Nat]
<1>1. bids \in Seq(Bids)
  BY DEF TypeInv, TypeOK, DealTypes
<1>2. bids[i] \in Bids
  <2> HIDE DEF Bids
  <2> QED BY <1>1
<1> QED
  BY <1>2

LEMMA BidLast == ASSUME TypeInv, bids # <<>> PROVE Len(bids) \in DOMAIN bids
  BY DEF TypeInv, TypeOK, DealTypes

\* A round begins without a bid.
LEMMA NoBids == ASSUME bids' = <<>> PROVE BidsInv'
  BY DEF BidsInv, BidsEscalate

LEMMA DrawCardBids ==
  ASSUME TypeInv, BidsInv, NEW p \in Users, DrawCard(p)
  PROVE  BidsInv'
<1>1. /\ Bidding /\ Bidding' /\ UNCHANGED <<bids, tr, host, ranks, players>>
  BY DEF DrawCard, Bidding, lobbyVars
<1> DEFINE card == PileOf(<<deck[Len(deck)]>>)
<1>2. /\ draws[p] \in Piles /\ draws \in [Users -> Piles \cup {NULL}]
      /\ draws' = [draws EXCEPT ![p] = AddPile(draws[p], card)]
  BY DEF DrawCard, TypeInv, TypeOK, DealTypes
<1>3. card \in Piles
  <2>1. DOMAIN <<deck[Len(deck)]>> = {1}
    OBVIOUS
  <2>2. IsFiniteSet({1})
    BY FS_Singleton
  <2> QED BY <2>1, <2>2, PileOfType
<1> HIDE DEF card
<1>4. ASSUME NEW i \in DOMAIN bids
      PROVE  draws'[bids[i].player][bids[i].card] >= bids[i].n
  <2>1. bids[i].player \in Users /\ bids[i].card \in StdDeck /\ bids[i].n \in Nat
    BY BidIs
  <2>2. draws[bids[i].player][bids[i].card] >= bids[i].n
    BY <1>1 DEF BidsInv, BidsEscalate, Bidding
  <2>3. CASE bids[i].player # p
    BY <1>2, <2>1, <2>2, <2>3
  <2>4. CASE bids[i].player = p
    <3>1. draws'[p][bids[i].card] = draws[p][bids[i].card] + card[bids[i].card]
      BY <1>2, <2>1 DEF AddPile
    <3>2. draws[p][bids[i].card] \in Nat /\ card[bids[i].card] \in Nat
      BY <1>2, <1>3, <2>1 DEF Piles
    <3> QED BY <2>1, <2>2, <2>4, <3>1, <3>2
  <2> QED BY <2>3, <2>4
<1> QED
  BY <1>1, <1>4 DEF BidsInv, BidsEscalate, Bidding, Seated, winning_bid

\* A bid that goes over the last one goes up; of a suit only jokers are level.
LEMMA OverturnsGoes ==
  ASSUME NEW b, b.n \in Nat, NEW p, NEW c \in StdDeck, NEW n \in Nat, Overturns(p, c, n, b)
  PROVE  Goes(b, [player |-> p, card |-> c, n |-> n])
<1>1. c.rank >= Small => c.suit = "T"
  BY StdDeckAssumption DEF IsCard, Small, RankA, Big
<1> QED
  BY <1>1 DEF Overturns, Goes

LEMMA BidTrumpBids ==
  ASSUME TypeInv, BidsInv, NEW p \in Users, NEW c \in StdDeck, NEW n \in 1..ndecks,
         BidTrump(p, c, n)
  PROVE  BidsInv'
<1> DEFINE b == [player |-> p, card |-> c, n |-> n]
           m == Len(bids)
           Bids == [player : Users, card : StdDeck, n : Nat]
<1>1. /\ Bidding /\ UNCHANGED <<draws, host, ranks, players>>
      /\ bids' = Append(bids, b)
      /\ tr' = [suit |-> c.suit, rank |-> trump_rank(p)]
  BY DEF BidTrump, Bidding, lobbyVars
<1>2. n \in Nat
  BY DEF TypeInv, TypeOK, TableTypes
<1>3. /\ m \in Nat /\ DOMAIN bids = 1..m /\ DOMAIN bids' = 1..(m + 1) /\ Len(bids') = m + 1
      /\ bids'[m + 1] = b /\ \A i \in 1..m : bids'[i] = bids[i]
  <2>1. bids \in Seq(Bids)
    BY DEF TypeInv, TypeOK, DealTypes
  <2>2. b \in Bids
    BY <1>2
  <2> HIDE DEF b, Bids
  <2>3. /\ Append(bids, b) \in Seq(Bids) /\ Len(Append(bids, b)) = Len(bids) + 1
        /\ Append(bids, b)[Len(bids) + 1] = b
        /\ \A i \in 1..Len(bids) : Append(bids, b)[i] = bids[i]
    BY <2>1, <2>2, AppendProperties
  <2> QED BY <1>1, <2>1, <2>3
<1>m. m = Len(bids)
  OBVIOUS
<1> HIDE DEF m
<1>4. draws[p] # NULL /\ draws[p][c] >= n /\ p \in Seated
  BY <1>1 DEF BidTrump, Bidding, TypeInv, SeatTypes, DealtSeats
<1>5. ASSUME NEW i \in 1..((m + 1) - 1) PROVE Goes(bids'[i], bids'[i + 1])
  <2>1. i \in 1..m /\ bids # <<>>
    BY <1>3
  <2>2. CASE i = m
    <3>1. Overturns(p, c, n, bids[m]) /\ bids[m].n \in Nat
      BY <1>m, <2>1, BidIs, BidLast DEF BidTrump, winning_bid
    <3>2. Goes(bids[m], b)
      BY <1>2, <3>1, OverturnsGoes
    <3> QED BY <1>3, <2>1, <2>2, <3>2
  <2>3. CASE i # m
    <3>1. i \in 1..(m - 1) /\ i + 1 \in 1..m
      BY <1>3, <2>1, <2>3
    <3>2. Goes(bids[i], bids[i + 1])
      BY <1>1, <1>m, <3>1 DEF BidsInv, BidsEscalate, Bidding, Goes
    <3> QED BY <1>3, <2>1, <3>1, <3>2
  <2> QED BY <2>2, <2>3
<1>6. ASSUME NEW i \in 1..(m + 1)
      PROVE  /\ draws[bids'[i].player][bids'[i].card] >= bids'[i].n
             /\ bids'[i].player \in Seated
  <2>1. CASE i = m + 1
    BY <1>3, <1>4, <2>1
  <2>2. CASE i # m + 1
    <3>1. i \in 1..m
      BY <1>3, <2>2
    <3> QED BY <1>1, <1>3, <3>1 DEF BidsInv, BidsEscalate, Bidding
  <2> QED BY <2>1, <2>2
<1>7. bids'[1].card.rank = ranks[IF host # NULL THEN host ELSE bids'[1].player].rank
  <2>1. CASE bids = <<>>
    <3>1. m = 0 /\ bids'[1] = b
      BY <1>3, <1>m, <2>1
    <3>2. c.rank <= RankA \/ c.rank > RankA
      BY StdDeckAssumption DEF IsCard, RankA, Small, Big
    <3>3. c.rank = trump_rank(p)
      BY <2>1, <3>2 DEF BidTrump
    <3> QED BY <3>1, <3>3 DEF trump_rank
  <2>2. CASE bids # <<>>
    <3>1. 1 \in 1..m /\ bids'[1] = bids[1]
      BY <1>3, <1>m, <2>2, BidLast
    <3> QED BY <1>1, <2>2, <3>1 DEF BidsInv, BidsEscalate, Bidding
  <2> QED BY <2>1, <2>2
<1>8. tr'.suit = bids'[Len(bids')].card.suit
  BY <1>1, <1>3
<1>9. BidsEscalate'
  BY <1>1, <1>3, <1>5, <1>6, <1>7, <1>8 DEF BidsEscalate, winning_bid, Goes
<1> QED
  BY <1>1, <1>3, <1>6, <1>9 DEF BidsInv, Bidding, Seated

LEMMA BidsNext ==
  ASSUME TypeInv, BidsInv, [Next]_vars PROVE BidsInv'
<1>1. CASE UNCHANGED vars
  BY <1>1 DEF vars, lobbyVars, dealVars, BidsInv, BidsEscalate, Bidding, Seated, winning_bid
<1>2. CASE phase' \notin {"DRAW", "PREPARE"}
  BY <1>2 DEF BidsInv, BidsEscalate, Bidding
<1>3. ASSUME NEW p \in Users, Configure(p) PROVE phase' \notin {"DRAW", "PREPARE"}
  BY <1>3 DEF Configure, AddPlayer, RmPlayer, SetDecks, SetRuleMods, SetRank, roundVars, Lobby
<1>4. ASSUME NEW p \in Users, Prepare(p) PROVE BidsInv'
  <2>1. CASE StartGame(p) \/ RequestRedeal(p)
    BY <2>1, NoBids DEF StartGame, RequestRedeal, ResetRound
  <2>2. CASE DrawCard(p)
    BY <2>2, DrawCardBids
  <2>3. CASE \E c \in StdDeck, n \in 1..ndecks : BidTrump(p, c, n)
    BY <2>3, BidTrumpBids
  <2>4. CASE Ready(p)
    <3>1. CASE phase' = "PREPARE"
      <4>1. phase = "PREPARE" /\ UNCHANGED <<bids, tr, host, ranks, players, draws>>
        BY <2>4, <3>1 DEF Ready, InstallHost
      <4> QED
        BY <3>1, <4>1 DEF BidsInv, BidsEscalate, Bidding, Seated, winning_bid
    <3>2. CASE phase' = "KITTY"
      BY <1>2, <3>2
    <3> QED BY <2>4, <3>1, <3>2 DEF Ready, InstallHost
  <2>5. CASE phase' \in {"LEAD", "FRIEND"}
    BY <1>2, <2>5
  <2> QED
    BY <1>4, <2>1, <2>2, <2>3, <2>4, <2>5 DEF Prepare, ReplaceKitty, CallFriends
<1>5. ASSUME NEW p \in Users, PlayTrick(p) PROVE phase' \notin {"DRAW", "PREPARE"}
  BY <1>5 DEF PlayTrick, LeadPlay, ContestFly, PassContest, FollowLead, UndoPlay,
              CollectTrick, CommitLead
<1>6. ASSUME NEW p \in Users, Conclude(p) PROVE BidsInv'
  <2>1. CASE NextRound(p)
    BY <2>1, NoBids DEF NextRound, ResetRound
  <2>2. CASE ~NextRound(p)
    <3>1. phase' = "WAIT"
      BY <1>6, <2>2 DEF Conclude, EndRound, NextReady
    <3> QED BY <1>2, <3>1
  <2> QED BY <2>1, <2>2
<1> QED
  BY <1>1, <1>2, <1>3, <1>4, <1>5, <1>6 DEF Next

LEMMA BidsAlways == ASSUME "joins again" \notin Habits PROVE Spec => []BidsInv
<1>1. Init => BidsInv
  BY DEF Init, BidsInv, BidsEscalate, Bidding
<1>2. TypeInv /\ BidsInv /\ [Next]_vars => BidsInv'
  BY BidsNext
<1> QED
  BY <1>1, <1>2, TypeInvariant, PTL DEF Spec

\* Whatever is bid and by whom, at any table: each bid goes over the one before
\* it, and every bidder still holds what they showed.
THEOREM BidsAlwaysEscalate == ASSUME "joins again" \notin Habits PROVE Spec => []BidsEscalate
<1>1. BidsInv => BidsEscalate
  BY DEF BidsInv
<1> QED
  BY <1>1, BidsAlways, PTL

-----------------------------------------------------------------------------
(* Consent *)

\* Sorting leaves a single tractor as it is.  (SortSeq is the TLC module's, whose
\* definition the prover does not have.)
SortKeepsOne == \A x : SortSeq(<<x>>, Precedes) = <<x>>

LEMMA SeatedSize == ASSUME TypeInv PROVE IsFiniteSet(Seated) /\ Cardinality(Seated) = nplayers
<1> DEFINE S == 1..nplayers
<1>1. players \in Seq(Users) /\ OneSeatEach(players)
  BY DEF TypeInv, SeatsInv
<1>2. nplayers \in Nat /\ S = DOMAIN players
  BY <1>1 DEF nplayers
<1>3. players \in [S -> Seated]
  BY <1>1, <1>2 DEF Seated, Range
<1>4. players \in Bijection(S, Seated)
  BY <1>1, <1>2, <1>3
  DEF OneSeatEach, Seated, Range, Bijection, Injection, Surjection, IsInjective
<1>5. IsFiniteSet(S) /\ Cardinality(S) = nplayers
  BY <1>2, FS_Interval
<1> QED
  BY <1>4, <1>5, FS_Bijection DEF ExistsBijection

LEMMA ConsensusType == ASSUME TypeInv PROVE consensus \subseteq Users
  BY DEF TypeInv, TypeOK, RoundTypes

\* has_consensus compares sizes: then as many players are missing among those who
\* agreed as there are others among them.
LEMMA AsManyOthers ==
  ASSUME TypeInv, NEW c \in SUBSET Users, has_consensus(c)
  PROVE  /\ Cardinality(Seated \ c) = Cardinality(c \ Seated)
         /\ IsFiniteSet(Seated \ c) /\ IsFiniteSet(c \ Seated)
         /\ Cardinality(Seated \ c) \in Nat
<1>1. IsFiniteSet(Seated) /\ Cardinality(Seated) = nplayers /\ Cardinality(c) = nplayers
  BY SeatedSize DEF has_consensus
<1>2. IsFiniteSet(c)
  BY ZpyAssumption, FS_Subset
<1>3. /\ IsFiniteSet(Seated \ c) /\ Cardinality(Seated \ c) = nplayers - Cardinality(Seated \cap c)
      /\ IsFiniteSet(c \ Seated) /\ Cardinality(c \ Seated) = nplayers - Cardinality(c \cap Seated)
  BY <1>1, <1>2, FS_Difference
<1>4. Seated \cap c = c \cap Seated
  OBVIOUS
<1>5. Cardinality(Seated \ c) \in Nat
  BY <1>3, FS_CardinalityType
<1> QED
  BY <1>3, <1>4, <1>5

\* The one who speaks last is a player who was still to be asked, or somebody else.
LEMMA AllButOne ==
  ASSUME TypeInv, NEW p \in Users, has_consensus(consensus \cup {p})
  PROVE  Outstanding <= Strangers + 1
<1> DEFINE c == consensus \cup {p}
<1>1. c \in SUBSET Users /\ consensus \in SUBSET Users
  BY ConsensusType
<1>2. /\ Cardinality(Seated \ c) = Cardinality(c \ Seated)
      /\ IsFiniteSet(Seated \ c) /\ IsFiniteSet(c \ Seated) /\ Cardinality(Seated \ c) \in Nat
  BY <1>1, AsManyOthers
<1>3. IsFiniteSet(consensus \ Seated) /\ Cardinality(consensus \ Seated) \in Nat
  BY <1>1, ZpyAssumption, FS_Subset, FS_CardinalityType
<1>4. CASE p \in Seated
  <2>1. c \ Seated = consensus \ Seated
    BY <1>4
  <2>2. Seated \ consensus \subseteq (Seated \ c) \cup {p}
    OBVIOUS
  <2>3. /\ IsFiniteSet((Seated \ c) \cup {p})
        /\ Cardinality((Seated \ c) \cup {p}) = Cardinality(Seated \ c)
             \/ Cardinality((Seated \ c) \cup {p}) = Cardinality(Seated \ c) + 1
    BY <1>2, FS_AddElement
  <2>4. /\ Cardinality(Seated \ consensus) <= Cardinality((Seated \ c) \cup {p})
        /\ Cardinality(Seated \ consensus) \in Nat
    BY <2>2, <2>3, FS_Subset, FS_CardinalityType
  <2> QED BY <1>2, <1>3, <2>1, <2>3, <2>4 DEF Outstanding, Strangers
<1>5. CASE p \notin Seated
  <2>1. Seated \ consensus = Seated \ c /\ c \ Seated = (consensus \ Seated) \cup {p}
    BY <1>5
  <2>2. \/ Cardinality((consensus \ Seated) \cup {p}) = Cardinality(consensus \ Seated)
        \/ Cardinality((consensus \ Seated) \cup {p}) = Cardinality(consensus \ Seated) + 1
    BY <1>3, FS_AddElement
  <2> QED BY <1>2, <1>3, <2>1, <2>2 DEF Outstanding, Strangers
<1> QED
  BY <1>4, <1>5

\* What a contested fly leaves is a single tractor.
LEMMA FlightLen ==
  ASSUME SortKeepsOne, NEW t, NEW x PROVE Len(Flight(t, <<x>>).tractors) = 1
<1>1. Flight(t, <<x>>).tractors = <<x>>
  BY DEF Flight, SortKeepsOne
<1> QED
  BY <1>1

\* Nothing that needs everybody's consent happens while more players have still to
\* agree than there are others among those who did: has_consensus only counts, and
\* whoever comes, leaves or votes without a seat, no more than that goes wrong.
THEOREM ConsentAlwaysAsked == ASSUME Regular, SortKeepsOne PROVE Spec => ConsentToPlay
<1> DEFINE Asked ==
      /\ phase = "WAIT" /\ phase' = "DRAW" => Outstanding <= Strangers
      /\ phase = "PREPARE" /\ phase' = "KITTY" => Outstanding <= Strangers + 1
      /\ phase = "FLY" /\ phase' = "FOLLOW" /\ lead' = lead => Outstanding <= Strangers + 1
<1>1. ASSUME TypeInv, FlyInv, [Next]_vars PROVE [Asked]_vars
  <2> SUFFICES ASSUME Next PROVE Asked
    BY <1>1
  <2>2. ASSUME phase = "WAIT", phase' = "DRAW" PROVE Outstanding <= Strangers
    <3>1. PICK p \in Users : NextRound(p)
      BY <2>2 DEF Next, Configure, AddPlayer, RmPlayer, SetDecks, SetRuleMods, SetRank,
        roundVars, Prepare, StartGame, DrawCard, BidTrump, RequestRedeal, Ready, ReplaceKitty,
        CallFriends, PlayTrick, LeadPlay, ContestFly, PassContest, FollowLead, UndoPlay,
        CollectTrick, Conclude, EndRound, NextReady
    <3>2. has_consensus(consensus) /\ consensus \in SUBSET Users
      BY <1>1, <3>1, ConsensusType DEF NextRound
    <3> QED BY <1>1, <3>2, AsManyOthers DEF Outstanding, Strangers
  <2>3. ASSUME phase = "PREPARE", phase' = "KITTY" PROVE Outstanding <= Strangers + 1
    <3>1. PICK p \in Users : p \in Voters /\ Ready(p)
      BY <2>3 DEF Next, Configure, AddPlayer, RmPlayer, SetDecks, SetRuleMods, SetRank,
        roundVars, Prepare, StartGame, DrawCard, BidTrump, RequestRedeal, ReplaceKitty,
        CallFriends, PlayTrick, LeadPlay, ContestFly, PassContest, FollowLead, UndoPlay,
        CollectTrick, Conclude, EndRound, NextReady, NextRound
    <3>2. has_consensus(consensus \cup {p})
      BY <2>3, <3>1 DEF Ready
    <3> QED BY <1>1, <3>1, <3>2, AllButOne
  <2>4. ASSUME phase = "FLY", phase' = "FOLLOW", lead' = lead PROVE Outstanding <= Strangers + 1
    <3>1. ASSUME NEW p \in Users, NEW t, ContestFly(p, t) PROVE FALSE
      <4>1. lead' = Flight(tr, <<Smallest(t)>>)
        BY <3>1 DEF ContestFly, CommitLead
      <4>2. Len(lead.tractors) = 1
        BY <2>4, <4>1, FlightLen
      <4> QED BY <1>1, <2>4, <4>2 DEF FlyInv
    <3>2. PICK p \in Users : p \in Voters /\ PassContest(p)
      BY <2>4, <3>1 DEF Next, Configure, AddPlayer, RmPlayer, SetDecks, SetRuleMods, SetRank,
        roundVars, Prepare, StartGame, DrawCard, BidTrump, RequestRedeal, Ready, ReplaceKitty,
        CallFriends, PlayTrick, LeadPlay, FollowLead, UndoPlay, CollectTrick, Conclude,
        EndRound, NextReady, NextRound
    <3>3. has_consensus(consensus \cup {p})
      BY <2>4, <3>2 DEF PassContest
    <3> QED BY <1>1, <3>2, <3>3, AllButOne
  <2> QED BY <2>2, <2>3, <2>4
<1>2. ConsentToPlay <=> [][Asked]_vars
  BY PTL DEF ConsentToPlay
<1>3. Spec => [](TypeInv /\ FlyInv)
  BY PlayAlways, PTL DEF PlayInv
<1> QED
  BY <1>1, <1>2, <1>3, PTL DEF Spec
=============================================================================
