# A verification development for zpy

zpy is a server and a web client for *zhao pengyou* (找朋友), a trick-taking card
game with several decks, a trump rank that follows the host, friends called
during the round, and ranks that the winners climb. This directory holds TLA+
models of its core, the TLC runs that check them on small tables, and TLAPS
proofs. Paths below are relative to the repository (`src/` here).

## 1. Inventory

| Part | State | Operations | What is hard, and what makes it correct |
|---|---|---|---|
| `src/lib/zpy/cards.ts` | `CardPile`: counts by virtual index under a trump | `insert`, `remove`, `contains`, `rehash` | a trump change re-indexes the pile in place; every card must stay counted once |
| `src/lib/zpy/trick.ts` | `Hand`: a pile plus indexes `K`, `I` of tractors | `follow_with`, `undo`, `remove` | a search over overlapping tractors decides what is a renege; somebody must always be able to follow, and the parse chosen must be the winning one |
| `src/lib/zpy/zpy.ts` | class `Data`: phase, lobby, deal, bids, hands, friends, teams, trick | one method per user action and one per effect | ten phases, undo, flies with contests, friends found by counting, ranks; any order of legal calls |
| `src/lib/zpy/engine.ts` | none | `larp` (server), `translate`, `predict`/`apply_client` (client), `redact` | dispatch; the client predicts effects, and its copy must come to the server's state all the same |
| `src/protocol/client.ts` | `state`, `status`, `pending`, `users` | `attempt`, `update`, `connect`, `close` | prediction, rejects, reconnects and resets in flight; a page in sync shows the server's state, and reads one history without gaps |
| `src/server/server.ts` | games, clients, users, participation, timers | `hello`, `update`, `reset`, `dispose`, `snapshot`, `fetch_game`, `delete_game` | connections come and go, games expire, are saved and restored around `await`s; one object per game, one user per principal, nothing deleted that is in use |
| `src/server/session.ts`, `db.ts` | `active` sessions; tables | `make`, `get`, middleware; queries | the database is slower than the browser |
| `src/components/zpy/PlayArea.tsx` | cards with ids in areas, selection, pending action and cards | click, drag, submit, `onUpdate`, `onReset` | updates arrive while a play is laid out, and components come and go; the cards on the page must stay the player's hand |
| `src/components/zpy/Game.tsx` | the client, subscriptions | `onReset`, `onUpdate`, `attempt`, the door | a component that is gone still hears |
| codecs, pages, styles, utilities | -- | -- | no shared state |

Parts interact like this. A browser turns a gesture into an intent;
`GameClient.attempt` predicts its effect and sends it; `Game.update` runs
`engine.larp` on the one authoritative `ZPY`; each client gets the effect as far
as it may see it. JavaScript runs one handler at a time, so a `ZPY` method is
atomic. The interleaving that matters in `zpy.ts` is which player's call comes
next; from `server.ts` outwards it is what happens between two `await`s and between
two messages; on a page, between a request and its answer. A user who is not a player may send any intent as well.

## 2. Modules

| Module | Models |
|---|---|
| `Cards` | cards, `TrumpMeta`, virtual suit and rank, piles as counts per card |
| `Trick` | tractors, flights, `beats`, blueprints and `Hand.follow_with` as operators |
| `Following` | one `Hand` through leads, follows and undos |
| `MCFollowing` | its instances |
| `Zpy` | the game: the fields of `Data` as variables, one action per method |
| `ZpyProps` | the type invariant and the properties of `Zpy` |
| `MCZpy` | small tables for it |
| `ZpyProofs` | the proofs about the seats of the table, types, and the owner |
| `ZpyPlayProofs` | the proofs about turns, undo, teams, the next host, bids and consent |
| `ZpyCardProofs` | the proofs about the deal, hands, points, tallies, the winner of a trick, and ranks |
| `Basics` | for all proofs: induction over numbers and finite sets, sums, queues, and what a queue of messages leads to |
| `Table` | the engine as the protocol sees it: seats, turns, who may do what, prediction |
| `OneHistory` | abstract: one history of a game, and readers who miss nothing of it |
| `GameSync` | a `Game`, its clients, the pages' `GameClient`s and the wires between them |
| `GameSyncProofs` | what the engine's operators return, and that prediction commutes with the server; the proofs about handshake, answers, lists of users and the one history |
| `GameCopyProofs` | the proofs that copies are right and that no request is lost |
| `GameServer` | `GameServer` and its games: requests, queries, expiry, snapshots, crashes |
| `GameServerProofs` | the proofs about the life of games on the server |
| `PlayArea` | the cards of one player on their page |
| `PlayAreaProofs` | the proofs that the page's cards are in order and are the player's hand |
| `MCGameSync`, `MCGameServer`, `MCPlayArea` | their instances |

**Correspondence.** A variable of `Zpy` has the name of the field of `Data`. An
action is an Action method together with the Effect method it commits, for
example `ReplaceKitty` is `replace_kitty` and `seal_hand`; a call that returns an
error changes nothing and is not a step, and neither is one that throws for want of a draw or a
hand (zpy.ts:579, 658, 979). `undefined` and `null` are `NULL`.
A pile is a function from cards to counts, a hand too: a tractor is available
when its cards are in the pile, which is what a valid `Hand.Node` stands for.
`points` holds totals in place of lists of point cards. `undo_chains` are left
out because undoing one restores the pile. `reveal_highest` picks the first best
card in the kitty's order; the model may pick any of the best. `kitty_sz`'s loops
are in closed form. `rank_up`'s loop, the running winner and the search for
parses are recursive functions.

**The protocol.** `GameSync` composes the server's side of one game with any
number of pages. `server` is a `Game` with the wires out of it, `up` the wires into
it, `page[b]` a `GameClient`. A wire is a queue per connection; a connection that
breaks loses what was on its way to the page, while the server may hear any part of
what was on its way to it before it hears of the end. A handler is one action
(`HearHello` is `hello` with the broadcast it ends in, `HearClose` is `dispose` with
the `rm_player` that `translate` makes of it, `PageReset` is the reset with
`Game.onReset`'s attempt to sit down). The engine is `Table`: the fields of `ZPY` that
replication can get wrong, with operators for both sides. Its `Habits` are `"undo"` and
`"stand up"` (the door of `Game.tsx`, by which a player leaves the table). `overtaken` and `seen` are
history variables.

`OneHistory` is the abstract specification and `OneHistorySpec` the refinement:
`committed` counts the updates a `Game` publishes and `seen[b]` how many of them the
copy of page `b` includes. A page that subscribes starts at the entry of its reset,
reads entry by entry without gap or repetition, never reads ahead, and under the
fairness below reads all there is.

**The server.** `mem` is what the process holds (the `Game` objects, `games`,
`participation`, deletions and snapshots that wait for a query), `rows` and `prtc` the
tables, `conns` the upgrade requests in their stages and the connections they become.
An action runs up to the next `await`. An exception that nobody catches ends the
process: `Crashed` boots a new one with the tables as they are. `dispose` of somebody
who has no entry in `participation` is such an exception, and so are the rows of a
failed query; an operator gives `NULL` for it. `bye` (for `req:bye`, and for the kick
after a message that does not decode) disposes of a client whose messages and end are
still heard: the field `bye` of a connection says whether it was told bye (`"told"`) and then
disposed of `"again"`, when `Spliced` takes the last client off the list, as
`splice(-1, 1)` does. `Risen` are the games that a
shutdown saved while `delete_game` waited for its query: they are in the table again,
and until the process exits a fetch may make them a second object.

**The play area.** `ui` is `PlayArea.state` with ids as numbers and areas as sets;
`zpy` is the page's copy of the round and `game` the server's, both cut down to what
the cards of one player depend on (`Apply`, `Legal`). An attempt is applied at once
or refused if it can be predicted, and waits for its answer otherwise, as in
`GameSync`; its callback closes over the cards or ids of the moment. A lost connection
leaves a component in place or unmounts it, and an unmounted one stays subscribed
(`haunted`, and `armed` for its timer). `orphans` records which kinds of change no
mounted component was told of.

**What users may do** in `Zpy` is in the constant `Habits`: `"undo"`, `"redeal"`,
`"guest leaves"` and `"host leaves"` (in the lobby phases), `"joins again"` (one
who is seated calls `add_player`) and `"spectator votes"` (a user without a seat
says ready or passes). A run leaves out what it is not about, and the sections
below say what that hides.

Definitions marked `Slip` are not used by any specification: each is what its
neighbour would be under a plausible bug, and shows that a property has teeth.

## 3. Runs

The decks of `MCZpy` have five to seven cards, in one to three copies, under the
real ranking rules: the rules depend on suits, ranks and numbers of copies, not
on there being 54 cards. `KittyLow` is 0 in place of 4, and `MinPlayers` 3, so
that small decks leave hands to play. `Shuffles` lists the orders a deck may come
out of a shuffle in.

| Run | Shows |
|---|---|
| `follow_both` | `CanFollow`: whatever is led, some cards follow. `PairsHonoured`, `TractorHonoured`: what a follow in suit must give up, it gives up. `ParseFound`: the arrangements the search finds are those with the lead's structure, all of them, and the play is recorded as one of them if and only if one of them beats the lead (else as it was submitted, zpy.ts:1097). `BestPlayWins`: a play that can win is recorded so that it does. All hands of five from plain cards in three copies and from off-suit trumps in two |
| `tricks` | One round, three players, hands of three in pairs and singles, every renege rule. `TurnOrder` relates `plays`, `leader`, `cur_idx` and `phase`; `HandsEven` the hands to the table; `PointsConserved` all places points can be in; `WinnerOK` the incremental winner to the whole trick, after undos and reneges; `UndoIsLast` |
| `friends` | Six players and three decks: `TallyExact` (a friend's tally is at most the number of copies still awaited, and that number as nobody takes a play back here) and `TeamsOK`, for every pair of calls and for fixed teams |
| `lobby` | Four users sit down and leave before and between two rounds, with shuffled seats: `SeatsOK`, `OwnerSeated`, `NextHostWon` |
| `bids` | `BidsEscalate` through draws, overbids, jokers and redeals; `DealEven`; `ConsentToPlay` with a newcomer between rounds and votes of users who have no seat: no more players are passed over than such votes count for |
| `score` | The rank rules. `RankRules` looks at every step of a delta: `LeftBehind` are the special ranks on the way from the old rank to the new, and each rule bounds which of them may be left; `RanksPlayable`, `NextHostExists` |
| `live` | `RoundEnds` under fairness |
| `sync` | Two pages, two requests each (the seat a page asks for by itself is one), one event out of broken connections, pages left, renames and the end of the game, from the lobby and from the middle of a trick. `NothingBeforeReset`: the client's assertions on updates and rejects hold. `SyncUnlessOvertaken`: when all has arrived, a page shows the server's state, unless a prediction of its own was overtaken. `TurnsKeepPredictions`: only joining, leaving, the start, an undo, or an own request from a lost connection can overtake one. `UsersAgree`, `RequestsAnswered`; `OneHistorySpec`, the refinement |
| `server` | Two sessions, one game, two connections, one bye or kick, two of shutdowns, crashes and failed queries. `OneObject`: who is connected to a game is connected to the one object new connections get. `ParticipationExact`, `PlayersKnown`, `SameUser` relate the record of participation, the players, the users and the tables through restarts. `OthersStay`: nobody is thrown off the list by the end of another's connection, but by a second `dispose`. `GamesEnd`: every game leaves the memory, under fairness |
| `page` | Five rounds to open the page on: the last draws and the kitty with auto-draw; leading and following with undo, each with one lost connection; following with selections and drags; leading with flies laid out in several areas. `Coherent`: what `validate` and the click handler assert. `AreasAreHand`: the cards on the page are the hand. `ActionReturns`: no action stays pending |

Two runs show where the code does not do what its comments or assertions say:

| Run | Disagreement |
|---|---|
| `follow_quads` | `diff_shapes` leaves more shape than there was, so that a hand of pairs cannot follow a (2,4)-tractor |
| `fly` | `onReset` keeps `pending_cards`: after a connection was lost during a fly, the next fly fails "lead_play already in flight" and takes the page down |

**Seen without a run of its own.** Each of these was found by the run it names with
the change it names, and the passing runs above avoid it by theirs.

| Seen in | By | What |
|---|---|---|
| `bids` | `"guest leaves"` among the habits | `ConsentToPlay` with `Seated \ consensus = {}` in place of `Outstanding <= Strangers` fails: `has_consensus` compares sizes, and the vote of a player who left, or of a spectator, counts for one who has not agreed (zpy.ts:195, against its comment at 192) |
| `lobby` | `"joins again"` with one of the users as `ZeroUser`, without symmetry | `SeatsOK` fails: the user with id 0 may join twice (zpy.ts:295) |
| `friends` | `"undo"` as a habit | `TallyExact` with `f.tally = exact` in place of its last conjunct fails: an undo does not restore the friends' tallies (zpy.ts:1142), and a friend is found too early |
| `follow_both` | `TieDeck` and `TieRounds`: leads of six cards | `BestPlayWins` fails: a parse that ties is preferred to one that wins (zpy.ts:1097) |
| `sync` | `UpToDate` in place of the properties | a prediction that was overtaken leaves a page behind for good: the echo is dropped, a reject takes nothing back (client.ts:231, 212). Two who sit down at once disagree on the owner and on the seats |
| `server` | `OwnUser` | after a restart the first newcomer gets uid 0, which somebody has already (server.ts:114) |
| `server` | `VictimOnly` | a client who is told bye, and then loses the connection with another code than `DONE` or is told bye again, is disposed of twice, and the last client of the list goes in their place (server.ts:305, against "remove the victim client" at 302) |
| `server` | `HangUpHarmless` | a connection that ends before its hello, of a session that takes part in no game since the start, ends the process (server.ts:315) |

Two things came out in proofs, and take more rounds than a run has. A rank may become a
virtual one: the hook averages the rank and the start of a loser (zpy.ts:1318), and that of the
big joker, 18, with a start of 12 or more is 15 or more; one gets that start by passing the
big joker ten times. And a loser may go up: whoever set a rank below their start (`set_rank`
accepts it) is taken back towards it by the hook. `RanksPlayable` and `RankRules` name both as
exceptions.

Read from the code while modelling, and not run: `reset_round` leaves `joiners`;
`rules.undo` is never read; `request_redeal` accepts `ndecks * 5` points where its
comment says fewer; nobody can go on when the host leaves in `WAIT`; `connect` of a
zombie leaves the websocket open and silent (server.ts:405); a page that is left
closes with `DONE`, which the server takes for its own doing, so that the client
stays on its list, and the game's timer alone ends it (server.ts:444); `dispose`
of one of two tabs takes the player off the table (server.ts:323); a nickname set
while a page reconnects is undone by its `hello` (server.ts:187); a spectator's copy
throws on `collect_trick` (zpy.ts:1203); `withHandSorted` reads the rank of `me`,
which a spectator does not have, when sorting is on during the first draw
(PlayArea.tsx:1007); `SubmitOffline` in `PlayArea`: a key pressed while the connection
is away marks an action as pending that was refused, until the next reset.

`CanFollow` and `BestPlayWins` therefore hold in the passing run only because of
its bounds: three copies of a card (the overlap needs arity 4) and leads of up to
five cards (six are needed). `SeatsOK` passes without `"joins again"`.
`ConsentToPlay`, `TallyExact` and `OthersStay` say how far the code goes wrong where
it does, and no further: a stranger's vote replaces that of one player, a tally
that an undo left behind is low and never high, and a second `dispose` takes one
client from its own game only. `OwnerSeated` passes because the host stays: when
an owner who is the host leaves, `rm_player` gives the ownership to the leaver.
`AreasAreHand` exempts what `orphans` holds: a fly that was open when the component
was mounted anew stays on the page after it is decided, and a card drawn by an
unmounted component is missing from it.

**Bounds.** `MaxRound` caps the rounds, `MaxTractors` the tractors of a lead
(`LeadPlay` treats two and more alike). `CONSTRAINT OneRound` stops the runs about
one round at its score, because after it only the lobby moves. `lobby` is checked
up to permutations of the users, whom nothing distinguishes there.
In `sync`, `MaxAttempts` bounds the requests of a page and `MaxEvents` the events;
the run is without `"stand up"`, with which all its properties hold in four times as many
states; two pages with a seat and one more request each are what a race needs, and the third player, whose
connection is gone, keeps the table from being the pages' alone. In `server`,
`MaxConns = 2` lets two requests restore a game at once, or one connection be taken
off for the other, `MaxByes = 1` lets one of them be told bye as often as they like, and
`MaxTroubles = 2` bounds shutdowns, crashes and failed queries together; the theorems
hold for any bounds. In `page`, `MaxSeen` and `MaxSelect` bound ids and the cards
a user selects among, `MaxAreas` the areas, `MaxQueue` the messages under way; three
seats and two faces give hands with equal and with different cards.
`CHECK_DEADLOCK FALSE`: at `MaxRound` the game has nothing left to do, and a hand
that is played out ends `Following`.

**Fairness.** `FairSpec` asks for `WF_vars(Progress)`: as long as some call would
take the round further, one is made. The server schedules nothing by itself; this
is the assumption that the people at the table keep playing, and in no particular
way. Joining, leaving, configuring and starting the next round are not
in it. Undo is, as part of `PlayTrick`, so the `live` run is without the habit:
two players could undo and follow for ever.

`GameSync`'s `FairSpec` has each page take what is on its wire and reconnect, and the
server hear what each page has sent: a websocket delivers or breaks. `GameServer`'s
has the event loop do what is due without anybody's coming: a query returns or
fails, a timer goes off, the exit follows the last snapshot. Nobody has to connect,
speak or hang up; `GamesEnd` needs none of it, because the timer of a game with
clients sends them away. It excepts runs in which somebody plays for ever, because every
update starts the timer anew. `Expire` has the one assumption about time: no query
takes as long as `options.game_expiry`, so that no fetch that began before an object
was made, and no deletion of an earlier expiry, is still under way when its timer goes off. `PlayArea`'s has the connection deliver, the server answer
and the client reconnect, and nothing of the users.

## 4. Proofs

About `Zpy`, proved for every set of users, deck, shuffles, rule and number of
rounds, from the assumptions of `Zpy` on its constants and on tables where nobody
who is seated asks to join again:

* `SeatsCorrect` (`ZpyProofs`): `Spec => []SeatsOK`.
  The inductive invariant `SeatsInv` adds that `players` is a sequence of users
  and that `order` is a function; without them nothing can be said of
  `players'[i]`. `AddPlayer` needs that the newcomer is not seated (and this is
  where user 0 breaks it), `RmPlayer` that the seats behind a leaver shift by one
  and `Reseat` numbers them again, `StartGame` that a surjection of the seats onto
  the players is injective (`ShuffleSeats`). The other actions leave the table
  alone, one lemma per group.
* `TypeCorrect` (`ZpyProofs`): `Spec => []TypeOK`. `TypeOK` is not inductive: taking
  cards from a hand gives a pile only if there is a hand, and that depends on the
  phase. `TypeInv` adds `SeatsInv` and `SeatTypes`: who is dealt cards
  (`DealtSeats`), who has a hand from the discard on and that the host is at the
  table (`PlaySeats`), who leads, plays and wins (`TrickSeats`), that nothing is
  played before the first lead (`NoTrick`) and that a fly has a lead (`FlyTypes`).
  One lemma per action shows that it keeps all of it. The steps that need
  arithmetic are stated on their own: `KittySize` (a kitty is never negative, so
  that the deal and the kitty are parts of the deck), `TurnSeated` (counting
  seats modulo the table meets a player) and `WayRound` (whoever takes a play
  back did not lead, so somebody played before them).
* `OwnerCorrect` (`ZpyProofs`): `Spec => []OwnerSeated` if hosts do not leave between
  rounds either. `OwnerInv` adds that before the first round there is no host to
  inherit the table and that between rounds the next host sits at it, which comes
  from `TypeInv` through `NextHostSeated`.

`ZpyPlayProofs` proves six more of the round, with hypotheses that name what they need:
`EnoughPlayers` (three or more; `ZPY.min_players` is 4, the runs have tables of three),
`NoPlayIsNull` (`undefined` is no play), nobody joins twice; and for consent `SortKeepsOne` (a list of one is sorted; the prover does not have the definition of
`SortSeq`). The seats are a ring: `Ring`, `RingOnce`, `RingAll` and `RingNext` say that
counting seats from anybody meets everybody once before it is back. On them rests
`PlayInv`, which adds to `TypeInv` that the table is large enough (`TableInv`), that a fly is
a lead of several tractors which nobody has followed yet (`FlyInv`), and `Turns`: there is an
`n` such that the leader and the next `n - 1` have played and it is the turn of the one after.

* `TurnOrderAlways` and `UndoIsLastAlways`: `UndoneIs` says that who takes a play back is the
  last of the arc.
* `TeamsAgree`: `TeamsInv` adds to the teams that nobody is on one before the first lead, and
  that there are as many calls as friends to be called. All a play does to the teams is
  `DetectFriends` (`PlaysDetect`; an undo does nothing to them), which finds only friends
  not found before, so that `joins` counts them once.
* `NextHostAlways` and `NextHostWonAlways`, from `TeamsInv`: the host is on the host's team,
  and if everybody is, they won.
* `BidsAlwaysEscalate`: `BidsInv`. What was shown is still in the draw because draws only grow,
  and bidders stay seated.
* `ConsentAlwaysAsked`, whoever comes, leaves or votes without a seat: `has_consensus` only
  counts, so that as many players are missing among those who agreed as there are others
  among them (`AsManyOthers`), and before the last word at most one more (`AllButOne`).
  That a contested fly is not let through in this way is `FlyInv`.

`ZpyCardProofs` proves seven more, about cards, points, who wins, and ranks. What they say is a matter
of sums, so it begins with what a sum does: sizes, points and the copies of one card are all a
pile weighed with a number per card (`Weigh`), `WeighAdd` and `WeighTake` say what inserting and
removing cards does to the weight, and `Held` is the weight of all hands. A play moves weight
from a hand to the table and an undo moves it back (`PutsKeeps`, `UndoKeeps`). Every step of a
trick is one of four kinds (`PlayMoves`): a play by somebody who has none on the table (a lead,
a fly that goes through, what a contest forces, a follow), a play taken back, the end of the
trick, or another word about a fly.

* `DealEvenAlways`, if hosts stay: `DealtInv` says that the deck, the draws and the kitty weigh
  what the decks do, under every weight, so no card is lost or made. `LapsInv` says how far the
  draw has come round the table: those the lap has reached have a card more than the others.
  With a kitty of `KittySize`, the rest is a multiple of the number of players.
* `HandsEvenAlways`: `HandsInv` gives each player's hand and play together one size.
* `PointsConservedAlways`: `PointsInv` has the weight of hands, table, kitty and what is won.
* `TallyExactAlways`: a play takes as many copies of a called card from the hands as it takes
  off the tallies that are still open (`CountDown`); an undo gives them back to the hand, and
  more is awaited than the tally says (`UndoTally`).
* `WinnerStands`, which needs `SortKeepsOne` for contested flies: `WinInv` says that, of the
  leader and the next `n - 1` who have played, going round them all gives the winner that is
  kept up play by play. A follow adds a place to the round (`RoundGrows`); an undo takes the last
  away, and either its player was not winning (`RoundShrinks`) or the code goes round the others
  anew, as far as his place (`BeforeIs`). `LeadInv` says that the lead is a flight; what beats
  nothing that wins has its structure (`BeatenBy`, `RoundStructured`).
* `RanksAlwaysPlayable` and `RankRulesAlways`, with the same hypotheses. That `rank_up` goes up
  by a number takes most of the above: the multiplier of the kitty is a power of the longest
  tractor of the winner's play, so that play has a tractor (`FormedInv`, with `WinInv`), points
  are numbers (`PointsInv`), and a round has decks to divide by (`DecksInv`); `DeltaCounts` is
  the sum of this. `RankUpIs` gets the recursive function of `RankUp` from the one that
  `StepsExist` (`Basics`) says is there; `Rung` is what holds after any number of its steps,
  `RuleKept` for the special ranks that were left behind so far, and `ClimbUp` takes it one
  up: a step leaves the rank it is made from and no other special one (`LeavesOne`). `RanksInv` says that everybody at the table and the host have a rank
  and that every rank is `Sound`; the fixup and the hook keep that (`FixupSound`, `HookSound`).
  `TrumpInv` says that the trump is of the rank of the winning bidder, or of the host if there
  is one, so that the default host of `ready` plays on his own.

About `GameServer`, proved for every set of sessions and games, any limit on games
and any number of connections, byes, shutdowns, crashes and failed queries, from
`GameServerAssumption` (the bounds are numbers; `NULL` is no session, no set of games
and no snapshot). One inductive invariant, `Inv`, carries the first five theorems of
`GameServerProofs`, and `Record`, inductive on top of it, the sixth:

* `OneObjectAlways`: whoever is connected to a game is connected to the object the
  registry has. Requests hold an object across the wait for their session, so
  `Connections` says that the object a request or connection has is of the game it
  asked for, and `Lives` that of the objects made for a game all but the registered
  one are zombies without clients. `Risen` games are not among those: a shutdown
  saves a game whose deletion waits, and a fetch may make it anew beside the zombie. A zombie's game is being deleted with no fetch
  under way (`Leaving`), or is deleted, without a row from which a fetch could make
  it anew (`Gone`): this is where `fetch_game`'s second look at the registry is used.
* `PlayersKnownAlways` and `SameUserAlways`: what a restart finds goes together.
  `Saving` follows a snapshot between its queries (it is of the registered object,
  and its users are still users of it), `Users` has the table's users among the
  object's with the same numbers, and `Restorable` that a row, and a row that a
  fetch has read, have their players among the users in the table.
* `OthersStayAlways`: an action property, from the same invariant. `Lists` has
  a client in a list at most once and none of somebody who still waits for a
  session, and `Connections` whoever is heard at a live game in its list, or told
  bye, or somebody of that game was disposed of twice; so `splice(indexOf(...))`
  finds its client (`SplicedList`) every time but the second for the same client
  (`DisposeStays`, for `Lose` and `Bye` alike).
* `ServerTypes`: `TypeOK`.
* `ParticipationAlways`: `Spec => []ParticipationExact`. `Record` is the property as a step
  can keep it: a client in the list of an object is connected to that object
  (`Members`), whoever said hello and is in a list has the entry (`Counted`), and for
  each entry there is a connection that shows why (`Accounted`, `Shows`). `Dispose` and `Byes` look for other clients of the principal
  only in the one object; that this is enough, although a game may have had several,
  is `Alone`: unless a failure has torn a game, it has no other object while one of its objects has
  clients, which follows from `Lives` with `Leaving` and `Gone`. Hello at a
  zombie makes an entry for somebody who is in no list, and the second case of
  `Shows` is there for it: the entry stays until that connection is lost, a
  `delete_game` that is still to come, or a restart. Its third case is for somebody
  whose place went to a client that was disposed of twice. `Dismissed` has only those
  who said hello told bye, so that their second `dispose` finds an entry. The steps come down to three
  lemmas: nobody comes or goes (`RecordKept`), one client does (`RecordChanged`,
  over the bundle `Changes`), or a new start (`RecordBoot`).

`Saving` and `Restorable` leave out the games in `torn`, where a failure left half a
snapshot or half a deletion, and `Lives`, `OneObject`, `PlayersKnown` and
`ParticipationExact` those in `Spoilt`, which are `torn` and `Risen`. `SameUser` needs to
leave out `Risen` only, and `OthersStay` neither. What is spoilt stays so while the
process lives (`StillSpoilt`), and nothing is risen in a new one (`RisenAtTheEnd`). One
lemma per action shows that it keeps `Inv`. They share the bundles that say what an
action does at most, with one lemma each that this keeps `Inv`: `Touched` (one
object and one connection change), `Advanced` (a request), `Made` (a new object),
`Snapped` (a snapshot's query) and a restart (`Rebooted`).

About `GameSync`, proved for every set of users and pages, any openings of the table,
table size, deck size and habits, and any number of requests and events, from
`TableAssumption`, `StatesAssumption` (`NULL` is no state) and `GameSyncAssumption`.
The inductive invariant `Inv` of `GameSyncProofs` says of every connection (`Talk`):

* `Handshake`: where the page, the wires and the server are between connect, hello,
  reset, sync and bye. A page whose connection the server does not know of has its
  hello on the way; what is on the way to a page before its reset is no update and no
  reject. `NothingBeforeResetAlways` is read off it.
* `Answers`: the requests on the wire are of this connection, each once, each pending,
  with numbers below the next; a reply's number is of one that is no longer on its way.
* `Informed`: what is on the way to a page takes its view (its place in the history and
  its list of users) to the server's. A view and a queue relate through
  `Leads(R, d, a, b)` of `Basics`: there are views from `a` to `b`, one per message, each
  of which `R` takes to the next by its message. That a queue grows at one end and
  shrinks at the other is then two lemmas, `LeadsAppend` and `LeadsTail`, and needs no
  recursion over messages. `UsersAgreeAlways` is the case of the empty queue.

`Listed`, `Asked` and `Fresh` relate the server's list of clients, `greeted` and
`synced`, and the connections nobody has opened yet. A step of a page has one lemma; the
handlers of the server are composed of `Send`, `Publish`, `Broadcast` and `Dispose`, with
one lemma each, and `destroy`'s loop is a function over the number of clients that are gone,
which `Induct` (`Basics`) takes step by step.

* `SyncTypes`: `Spec => []TypeOK`, which rests on all of `Inv`: an effect is of its type
  if the request was allowed, and a page can only take what its stage expects.
* `OneHistorySafety`: `Spec => History!Init /\ [][History!Next]_(History!vars)`. Every
  step is one of `OneHistory` or a stutter: `Informed` says that the next entry a page
  reads is the one after its last.

`GameCopyProofs` needs a hypothesis more, `NobodyWatches`: whoever has a page open on a
table in the middle of a trick plays there. It is about the openings only, and joins and
departures keep it because seats do not change while a trick is played. A spectator's copy
throws in `collect_trick` (zpy.ts:1203), so the theorems are false without it; the openings
of the `sync` run satisfy it, which an `ASSUME` of `MCGameSync` has TLC check. `CopyInv`
adds to `Inv`, for a page in sync that nothing overtook:

* the server's state is what the copy becomes by what is on its way to it
  (`Leads(Shows(o), ...)`), as long as the page predicts nothing; and if it does, the copy
  is what the server's state becomes when it hears the requests that are on their way
  (`Leads(Foresees(o), ...)`), while nothing of others' is on the way to the page. The two meet
  in `Commutes` (`GameSyncProofs`): when a prediction is allowed, to commit it and to apply it
  to the copy give the same.
* `Answered`: what is pending on the present connection is on its way, or its update, its
  reject or a bye is. `Dated`: a page counts its connections, so that a request of an old
  one is never taken for one of the present.

* `CopiesAgree`: `Spec => []SyncUnlessOvertaken`, the central promise of the protocol.
* `AnsweredAlways`: `Spec => []RequestsAnswered`.

* `TurnsAlways`: `Spec => TurnsKeepPredictions`, under one hypothesis more, `OpenInTurn`:
  an opening is a state that turns lead to (a trick begins with nothing on the table, only
  the seated have played, and when all have it is nobody's turn but the winner's). TLC
  checks it of the openings of `sync`. Every effect keeps it (`TurnsGoOn`), so whenever somebody
  draws, leads, follows or collects there is nothing that others could predict
  (`TurnWaits`). `Shows(o)` carries this along the wire: whatever is on its way to the page of
  `o` finds `o` waiting, if it is none of the lobby's, an undo, or `o`'s own. A page whose
  copy waits predicts nothing, so that a prediction and something foreign are on
  their ways at once only with such an excuse (`Excused`, the third clause of `Copy`). It
  bounds what the other two theorems leave out: once a page was reset in play, an undo, or a
  request of its own user that was heard on a connection they had lost, is all that
  can take it from them.

`overtaken` is about a server that still hears: what a page predicts between the end
of a game and the `bye` it will get is heard by nobody.

About `PlayArea`, proved for any faces and kitty, two seats or more, any number of areas,
requests and messages, from `PlayAreaAssumption`: a page is opened while cards are drawn or
before a trick is led, in a round whose seats exist and whose counts are numbers. Neither the
other seats' play nor the point at which a connection breaks is restricted. Two inductive
invariants, the second on top of the first:

* `CoherentAlways`: `Spec => []Coherent`. `PageInv` has the types of rounds and messages
  (`Typed`), that a page which has a connection is on the screen and that a connection
  begins with the state (`Wires`), and of the page that it is unmounted, crashed or `Good`:
  each area holds the ids that `id_to_area` gives it (`Placed`), and the selection is of cards
  on the page (`Chosen`). `Numbered` is what `reapAreas` rests on: to leave out the empty
  areas numbers those that are kept from 1 on, each once. Each helper of the page keeps
  `Good`, whatever cards it is given; an attempt, an update and an answer are composed of them.
* `AreasAreHandAlways`: `Spec => []AreasAreHand`. The page's cards follow its own round, and that
  round runs ahead of the server's by what it predicts and lags by what it has not
  heard, so the invariant needs both. `Words` is about the rounds: while predictions are on
  their way they lead from the server's round to the page's and nothing but rejects comes
  back; otherwise what is on its way to the page leads from the page's to the server's
  (`Talks`; after a lost connection, from the state that the reset carries). An undo takes
  what it will give back from the moment it was asked for (PlayArea.tsx:579); `Keeps` says that this is
  still the player's play when it is answered: nobody else's step touches it, and an undo
  that the page has followed up with a prediction comes when it is the player's turn, and
  is refused (`MineIsTurn`, `KeepsStep`). `Holds` is about the cards:
  in sync they are the hand (`Shows`), a fly that is open is of the pending cards, and
  across a lost connection those stay below the hand of the state to come. `orphans` is what
  `AreasAreHand` exempts: with a draw behind the page's back there is still "no more
  than the hand" (`Within`), which the later steps need.

Model-checked only: `Following`'s properties, which rest on `SortSeq` and on a search
through the tractors of a pile, whose results for any pile are inductions over data.
All liveness (`RoundEnds`, `GamesEnd`, `ActionReturns`, the fairness in
`OneHistorySpec`) is out of the prover's reach, and so is what the recursive functions
over data (`Paths`) compute for every input: the induction theorems of the library
cannot be instantiated here. `Basics` has induction for a set of numbers (`Induct`, from
the library's well-founded order) or of finite sets (`InductFinite`), which serves where
a claim is the members of a set: the numbers of clients in `destroy`, the places in a
round, the domains of a sum, the steps of a recursive function over numbers
(`StepsExist`). `MapThenFoldSet` chooses the order in which it goes through a set;
`Basics` shows that addition makes them all alike.

## 5. Not modelled

* `CardPile`'s storage by virtual index and `rehash`, and the nodes `K` and `I` of
  `Hand`: the models hold a pile as counts and a tractor as available when its cards
  are in the pile. Whether the indexes always say so is unchecked; it is the next
  thing to do (a module each, refining `Cards` and `Trick`).
* `redact_for`: the client's copy in `GameSync` is the server's, without the piles of
  others, which no guard of `Table` reads.
* In `GameSync`, `req:bye` and the kick after a message that does not decode: no page of
  this repository sends either. What they do to the server's lists is in `GameServer`.
* In `Trick`, that a shape which matches nothing stays popped for the branches that the search
  tries afterwards (trick.ts:775, 792, 971): with fewer than four copies of a card that is the same.
* Calls on `ZPY` that throw (zpy.ts:579, 658, 979), by users who cannot bid, ask for a
  redeal or contest: an exception in a handler ends the process, as a `Crash` of `GameServer`.
* In `Table`: decks, rules, ranks, bids, kitty, friends, flies, and the phase `WAIT`.
  In `PlayArea`: order within an area, sorting, bids, the forms, and undos by others.
* `Session.make` and the middleware: a session is in memory before its insert is
  awaited and stays there, so that nothing of the kind the other modules look for can
  go wrong in one process.
* Codecs, rendering, logs, pings, the delay of reconnects, the database driver,
  styles, help pages and deployment files.
