------------------------------ MODULE PlayArea ------------------------------
(***************************************************************************)
(* The part of the page where one player, Me, keeps the hand and stages    *)
(* plays (components/zpy/PlayArea.tsx).  The page has its own copy of the  *)
(* hand, as cards with ids spread over areas, and has to keep it equal to  *)
(* the hand of the game state through predictions, answers, flies that are *)
(* decided later, lost connections and re-mounts of the component.         *)
(*                                                                         *)
(* The game is one round as Me sees it: cards are faces, the other seats   *)
(* play anything, bids and suits are left out (a lead or a follow may      *)
(* always be refused on the page).  Seats other than Me do not undo; what  *)
(* that does to a prediction is the module GameSync's.  The order within   *)
(* an area is left out: it decides only what lies between two clicks.      *)
(***************************************************************************)
EXTENDS Integers, Sequences, FiniteSets, FiniteSetsExt, SequencesExt

CONSTANTS
  Faces,        \* the faces a card may have
  N,            \* how many seats there are
  Starts,       \* the rounds the page may be opened on, each with what its
                \* user does besides playing and how often the connection is
                \* lost: [round, habits, losses]
  Kitty,        \* the kitty, as a tally of faces
  MaxSeen,      \* bound: ids given out when Me undoes
  MaxSelect,    \* bound: cards on the page while the user selects
  MaxAreas,     \* bound: staging areas
  MaxQueue      \* bound: messages under way in each direction

Me == 0
Seats == 0 .. N - 1
Nobody == N

VARIABLES
  game,      \* the server's round
  zpy,       \* the page's round (props.zpy)
  conn,      \* "sync", "pending-reset" or "closed"
  outbox,    \* Me's requests under way
  inbox,     \* the server's messages under way
  ui,        \* PlayArea.state, and whether the component is mounted
  armed,     \* whose 250 ms timer for a draw is running
  haunted,   \* does an unmounted component still draw?
  orphans,   \* cards of these kinds changed with no component to know
  habits,    \* what the user does
  losses     \* how often the connection may yet be lost

vars == <<game, zpy, conn, outbox, inbox, ui, armed, haunted, orphans,
          habits, losses>>

-----------------------------------------------------------------------------
(* Tallies of faces.                                                       *)

Nothing == [f \in Faces |-> 0]
One(f) == [Nothing EXCEPT ![f] = 1]
Plus(b, c) == [f \in Faces |-> b[f] + c[f]]
Minus(b, c) == [f \in Faces |-> b[f] - c[f]]
AtMost(b, c) == \A f \in Faces : b[f] <= c[f]
Size(b) == SumFunctionOnSet(b, Faces)

\* The page is opened while cards are drawn or before a trick is led.
ASSUME PlayAreaAssumption ==
  /\ IsFiniteSet(Faces) /\ N \in Nat \ {0, 1} /\ Kitty \in [Faces -> Nat]
  /\ MaxAreas \in Nat
  /\ \A start \in Starts :
       LET r == start.round
       IN /\ r \in [phase : {"DRAW", "LEAD"}, host : Seats, leader : Seats,
                    cur : Seats, deck : Int, hand : [Faces -> Nat],
                    consensus : {{}}, winning : Seats, prior : Seats,
                    lead : {Nothing}, play : {Nothing}]
          /\ r.phase = "LEAD" => r.cur = r.leader

-----------------------------------------------------------------------------
(* The round, server's and page's alike (lib/zpy/zpy.ts).                  *)

After(r, p) == LET q == (p + 1) % N IN IF q = r.leader THEN Nobody ELSE q

Commit(r, cards) ==
  [r EXCEPT !.phase = "FOLLOW", !.lead = cards, !.consensus = {},
            !.cur = After(r, r.leader), !.winning = r.leader,
            !.hand = IF r.leader = Me THEN Minus(@, cards) ELSE @,
            !.play = IF r.leader = Me THEN cards ELSE @]

\* What an effect does to the round.  A lead is "big" when it is a fly, and
\* a follow when it beats the plays before it.
Apply(r, e) ==
  CASE e.kind = "add_to_hand" ->
         [r EXCEPT !.hand = Plus(@, e.cards), !.deck = @ - 1,
                   !.cur = (@ + 1) % N,
                   !.phase = IF r.deck = 1 THEN "PREPARE" ELSE @]
    [] e.kind = "ready" -> [r EXCEPT !.consensus = @ \union {e.who}]
    [] e.kind = "install_host" ->
         [r EXCEPT !.phase = "KITTY", !.consensus = {},
                   !.hand = IF r.host = Me THEN Plus(@, Kitty) ELSE @]
    [] e.kind = "replace_kitty" ->
         [r EXCEPT !.phase = "FRIEND", !.hand = Minus(@, e.cards)]
    [] e.kind = "call_friends" ->
         [r EXCEPT !.phase = "LEAD", !.leader = r.host, !.cur = r.host]
    [] e.kind = "lead_play" ->
         IF e.big
         THEN [r EXCEPT !.phase = "FLY", !.lead = e.cards,
                        !.consensus = {r.leader}]
         ELSE Commit(r, e.cards)
    [] e.kind = "reject_fly" -> Commit(r, e.cards)
    [] e.kind = "pass_contest" ->
         IF r.consensus \union {e.who} = Seats
         THEN Commit(r, r.lead)
         ELSE [r EXCEPT !.consensus = @ \union {e.who}]
    [] e.kind = "follow_lead" ->
         [r EXCEPT !.cur = After(r, e.who), !.hand = Minus(@, e.cards),
                   !.play = IF e.who = Me THEN e.cards ELSE @,
                   !.winning = IF e.big THEN e.who ELSE @,
                   !.prior = IF e.who = Me THEN r.winning ELSE @]
    [] e.kind = "undo_play" ->
         [r EXCEPT !.cur = Me, !.hand = Plus(@, r.play), !.play = Nothing,
                   !.winning = IF @ = Me THEN r.prior ELSE @]
    [] e.kind = "collect_trick" ->
         [r EXCEPT !.phase = IF r.hand = Nothing THEN "FINISH" ELSE "LEAD",
                   !.leader = e.who, !.cur = e.who,
                   !.lead = Nothing, !.play = Nothing]

\* May this player do this now?  Of Me's cards only that they are held.
Legal(r, e) ==
  CASE e.kind = "add_to_hand" -> r.phase = "DRAW" /\ r.cur = e.who
    [] e.kind = "ready" ->
         r.phase = "PREPARE" /\ r.consensus \union {e.who} # Seats
    [] e.kind = "install_host" ->
         r.phase = "PREPARE" /\ r.consensus \union {e.who} = Seats
    [] e.kind = "replace_kitty" ->
         /\ r.phase = "KITTY" /\ r.host = e.who
         /\ e.who = Me => AtMost(e.cards, r.hand) /\ Size(e.cards) = Size(Kitty)
    [] e.kind = "call_friends" -> r.phase = "FRIEND" /\ r.host = e.who
    [] e.kind = "lead_play" ->
         /\ r.phase = "LEAD" /\ r.cur = e.who
         /\ Size(e.cards) >= (IF e.big THEN 2 ELSE 1)
         /\ e.who = Me => AtMost(e.cards, r.hand)
    [] e.kind = "reject_fly" ->
         /\ r.phase = "FLY" /\ r.leader # e.who
         /\ AtMost(e.cards, r.lead) /\ e.cards \notin {Nothing, r.lead}
    [] e.kind = "pass_contest" -> r.phase = "FLY"
    [] e.kind = "follow_lead" ->
         /\ r.phase = "FOLLOW" /\ r.cur = e.who
         /\ e.who = Me => AtMost(e.cards, r.hand) /\ Size(e.cards) = Size(r.lead)
    [] e.kind = "undo_play" ->
         /\ r.phase = "FOLLOW" /\ r.play # Nothing /\ r.leader # Me
         /\ r.cur = After(r, Me) /\ r.cur # Nobody
    [] e.kind = "collect_trick" -> r.phase = "FOLLOW" /\ r.cur = Nobody
                                   /\ r.winning = e.who

-----------------------------------------------------------------------------
(* The cards on the page.  Area 0 is the hand and area k is staged[k].     *)

Unmounted == [page |-> "unmounted"]

Blank ==
  [page |-> "mounted", seen |-> <<>>, id_set |-> {}, hand |-> {},
   staged |-> <<>>, id_to_area |-> <<>>,
   selected |-> {}, prev_start |-> 0, prev_stop |-> 0,
   auto_draw |-> "auto_draw" \in habits, auto_play |-> FALSE,
   full_control |-> FALSE, action_pending |-> FALSE, pending_cards |-> {}]

Tally(s, ids) == [f \in Faces |-> Cardinality({i \in ids : s.seen[i] = f})]
OnPage(s) == s.hand \union UNION ToSet(s.staged)
AllStaged(s) == UNION ToSet(s.staged)
Area1(s) == IF s.staged = <<>> THEN {} ELSE s.staged[1]

\* Discard empty staging areas, and renumber those behind them.
ReapAreas(s) ==
  LET kept == {k \in DOMAIN s.staged : s.staged[k] # {}}
      number == [k \in kept |-> Cardinality({j \in kept : j <= k})]
  IN [s EXCEPT !.staged = [n \in 1 .. Cardinality(kept) |->
                 s.staged[CHOOSE k \in kept : number[k] = n]],
               !.id_to_area = [i \in DOMAIN @ |->
                 IF \E k \in kept : i \in s.staged[k]
                 THEN number[CHOOSE k \in kept : i \in s.staged[k]]
                 ELSE @[i]]]

\* New cards, with new ids, go to the hand or, the kitty, to area 1.
WithCardsAdded(s, cards, adx) ==
  LET copies == UNION {{f} \X (1 .. cards[f]) : f \in Faces}
      order == SetToSeq(copies)
      fresh == Len(s.seen) + 1 .. Len(s.seen) + Len(order)
      shunted == IF adx = 1 THEN Area1(s) ELSE {}
      hand == s.hand \union shunted \union (IF adx = 0 THEN fresh ELSE {})
  IN [s EXCEPT
        !.seen = @ \o [k \in DOMAIN order |-> order[k][1]],
        !.id_set = @ \union fresh,
        !.hand = hand,
        !.staged = IF adx = 0 THEN @
                   ELSE IF @ = <<>> THEN <<fresh>> ELSE [@ EXCEPT ![1] = fresh],
        !.id_to_area = [i \in DOMAIN @ \union fresh |->
          IF i \in fresh THEN adx ELSE IF i \in shunted THEN 0 ELSE @[i]]]

\* Slip: cards that go stay selected.
WithCardsRemoved_selected(s, to_rm) ==
  ReapAreas([s EXCEPT
    !.id_set = @ \ to_rm, !.hand = @ \ to_rm,
    !.staged = [k \in DOMAIN @ |-> @[k] \ to_rm]])

WithCardsRemoved(s, to_rm) ==
  ReapAreas([s EXCEPT
    !.id_set = @ \ to_rm,
    !.selected = @ \ to_rm,
    !.id_to_area = [i \in DOMAIN @ \ to_rm |-> @[i]],
    !.prev_start = IF @ \in to_rm THEN 0 ELSE @,
    !.prev_stop = IF @ \in to_rm \/ s.prev_start \in to_rm THEN 0 ELSE @,
    !.hand = @ \ to_rm,
    !.staged = [k \in DOMAIN @ |-> @[k] \ to_rm]])

\* The cards of ids that a tally has too; which of equal ones, the order
\* within the areas decides.
Both(s, cards, ids) ==
  {B \in SUBSET ids : \A f \in Faces :
     Tally(s, B)[f] = Min({cards[f], Tally(s, ids)[f]})}

Mounted(r) == WithCardsAdded(Blank, r.hand, 0)

ResetPlays(s) ==
  IF AllStaged(s) = {} THEN s
  ELSE [s EXCEPT !.hand = OnPage(s), !.staged = <<>>,
                 !.id_to_area = [i \in OnPage(s) |-> 0]]

\* Move the selection, or the card src if nothing is selected, to area dst.
MoveCards(s, phase, dst, src) ==
  LET moving == IF s.selected # {} THEN s.selected ELSE {src}
      made == dst = Len(s.staged) + 1
      staged == IF made THEN Append(s.staged, {}) ELSE s.staged
  IN IF made /\ phase = "FRIEND" THEN s
     ELSE ReapAreas([s EXCEPT
            !.hand = IF dst = 0 THEN @ \union moving ELSE @ \ moving,
            !.staged = [k \in DOMAIN staged |->
              IF k = dst THEN staged[k] \union moving ELSE staged[k] \ moving],
            !.id_to_area = [i \in DOMAIN @ \union moving |->
              IF i \in moving THEN dst ELSE @[i]]])

\* A click that adds a card to the selection or takes it out.
Toggle(s, id) ==
  IF id \in s.selected
  THEN [s EXCEPT !.selected = @ \ {id}, !.prev_start = 0]
  ELSE [s EXCEPT !.selected = @ \union {id}, !.prev_start = id]

WithRange(s, S, id) == [s EXCEPT !.selected = S, !.prev_stop = id]

\* The possible cards between two clicks in one area.
Between(area, i, j) == {R \in SUBSET area : {i, j} \subseteq R}

\* A click that moves the end of the selected range to id.
Stretch(s, id) ==
  LET area == IF s.id_to_area[id] = 0 THEN s.hand
              ELSE s.staged[s.id_to_area[id]]
      old == IF s.prev_stop \in area
             THEN Between(area, s.prev_stop, id) ELSE {{}}
      selections == {(s.selected \ w[1]) \union w[2] :
                       w \in old \X Between(area, s.prev_start, id)}
  IN IF s.prev_start \notin area THEN {s}
     ELSE {WithRange(s, S, id) : S \in selections}

DeselectAll(s) ==
  IF s.selected = {} THEN s
  ELSE [s EXCEPT !.selected = {}, !.prev_start = 0, !.prev_stop = 0]

-----------------------------------------------------------------------------
(* Attempts.  An intent carries what its callback closes over: the cards   *)
(* to give back (undo) or the ids to take away, and the component's page.  *)

Intent(kind, cards, big, ids) ==
  [kind |-> kind, who |-> Me, cards |-> cards, big |-> big,
   ids |-> ids, page |-> "live"]

Predictable == {"replace_kitty", "call_friends", "lead_play", "follow_lead",
                "collect_trick"}

\* The page's cards when a play of Me's has been made.  A fly's cards stay
\* until the fly is decided, and a second fly before that is an assertion
\* failure, on which React takes down the page.
OnPlayEffect(s, i) ==
  IF i.kind = "lead_play" /\ i.big
  THEN IF s.pending_cards # {} THEN [page |-> "crashed"]
       ELSE [s EXCEPT !.auto_play = FALSE, !.pending_cards = i.ids,
                      !.action_pending = FALSE]
  ELSE [WithCardsRemoved(s, i.ids) EXCEPT !.auto_play = FALSE,
                                          !.action_pending = FALSE]

OnEffect(s) == [s EXCEPT !.action_pending = FALSE]

\* The outcomes of an attempt on a page in sync: what can be predicted is
\* applied or refused at once, the rest waits for the answer.
Attempt(s, z, i) ==
  IF i.kind \notin Predictable
  THEN {[ui |-> [s EXCEPT !.action_pending = TRUE], zpy |-> z, sent |-> <<i>>]}
  ELSE {[ui |-> OnEffect(s), zpy |-> z, sent |-> <<>>]} \union
       (IF ~Legal(z, i) THEN {}
        ELSE {[ui |-> IF i.kind \in {"call_friends", "collect_trick"}
                      THEN OnEffect(s) ELSE OnPlayEffect(s, i),
               zpy |-> Apply(z, i), sent |-> <<i>>]})

Idle(s, z) == {[ui |-> s, zpy |-> z, sent |-> <<>>]}

SubmitPlay(s, z, kind, ids) ==
  IF ids = {} THEN Idle(s, z)
  ELSE UNION {Attempt(s, z, Intent(kind, Tally(s, ids), big, ids)) :
                big \in IF kind = "replace_kitty" THEN {FALSE} ELSE BOOLEAN}

\* Enter.
OnSubmit(s, z) ==
  CASE z.phase = "PREPARE" ->
         IF Area1(s) # {} THEN Idle(s, z)                   \* a bid
         ELSE Attempt(s, z, Intent("ready", Nothing, FALSE, {}))
    [] z.phase = "KITTY" -> SubmitPlay(s, z, "replace_kitty", Area1(s))
    [] z.phase = "FRIEND" ->
         Attempt(s, z, Intent("call_friends", Nothing, FALSE, {}))
    [] z.phase = "LEAD" -> SubmitPlay(s, z, "lead_play", AllStaged(s))
    [] z.phase = "FLY" ->
         Attempt(s, z, Intent(IF Area1(s) = {} THEN "pass_contest"
                              ELSE "contest_fly", Nothing, FALSE, {}))
    [] z.phase = "FOLLOW" /\ z.cur = Nobody /\ z.winning = Me ->
         Attempt(s, z, Intent("collect_trick", Nothing, FALSE, {}))
    [] z.phase = "FOLLOW" /\ z.cur \notin {Me, Nobody} ->
         Idle([s EXCEPT !.auto_play = TRUE], z)
    [] z.phase = "FOLLOW" /\ z.cur = Me ->
         SubmitPlay(s, z, "follow_lead", AllStaged(s))
    [] OTHER -> Idle(s, z)

TryAutoPlay(s, z) ==
  IF s.auto_play /\ z.phase = "FOLLOW" /\ z.cur = Me
  THEN SubmitPlay(s, z, "follow_lead", AllStaged(s))
  ELSE Idle(s, z)

\* The components whose timer starts: the mounted one if it is to draw, and
\* those unmounted when it was their turn, which see that turn for ever.
TryAutoDraw(s, z) ==
  (IF s.auto_draw /\ z.phase = "DRAW" /\ z.cur = Me THEN {"live"} ELSE {})
    \union (IF haunted THEN {"former"} ELSE {})

-----------------------------------------------------------------------------
(* What the server sends.                                                  *)

\* Slip: the action that was pending stays so.
OnReset_pending(s, z) ==
  LET here == OnPage(s)
      kept == Both(s, z.hand, here)
  IN {WithCardsRemoved(
        WithCardsAdded(s, Minus(z.hand, Tally(s, B)), 0), here \ B) : B \in kept}

\* The round and the page agree on the cards again.
OnReset(s, z) ==
  LET here == OnPage(s)
      kept == Both(s, z.hand, here)
  IN {OnEffect(WithCardsRemoved(
        WithCardsAdded(s, Minus(z.hand, Tally(s, B)), 0), here \ B)) : B \in kept}

\* A fly is decided, and these of its cards are played.
Landed(s, B) == [WithCardsRemoved(s, B) EXCEPT !.pending_cards = {}]

\* Slip: a contested fly leaves the hand as one that passed does.
OnUpdate_all(s, z, e) ==
  CASE e.kind = "install_host" /\ z.host = Me -> {WithCardsAdded(s, Kitty, 1)}
    [] z.leader = Me /\ z.phase = "FOLLOW"
         /\ e.kind \in {"reject_fly", "pass_contest"} ->
         {Landed(s, s.pending_cards)}
    [] OTHER -> {s}

\* Somebody's effect, z being the round after it.
OnUpdate(s, z, e) ==
  CASE e.kind = "install_host" /\ z.host = Me /\ Kitty # Nothing ->
         {WithCardsAdded(s, Kitty, 1)}
    [] e.kind = "reject_fly" /\ z.leader = Me ->
         {Landed(s, B) : B \in Both(s, e.cards, s.pending_cards)}
    [] e.kind = "reject_fly" /\ z.leader # Me /\ e.who = Me -> {ResetPlays(s)}
    [] e.kind = "pass_contest" /\ z.leader = Me /\ z.phase = "FOLLOW" ->
         {Landed(s, s.pending_cards)}
    [] OTHER -> {s}

\* The callback of Me's own intent, which waited for this answer.
OnAnswer(s, e, tx) ==
  IF tx.page = "former" THEN s
  ELSE CASE e.kind = "add_to_hand" -> OnEffect(WithCardsAdded(s, e.cards, 0))
         [] e.kind = "undo_play" -> OnEffect(WithCardsAdded(s, tx.cards, 0))
         [] OTHER -> OnEffect(s)

Update(e, tx) == [verb |-> "update", effect |-> e, tx |-> tx]
Reject(tx) == [verb |-> "reject", tx |-> tx]
Reset(r) == [verb |-> "reset", state |-> r]
NoTx == [kind |-> "none"]

-----------------------------------------------------------------------------
Init ==
  /\ \E start \in Starts :
       game = start.round /\ habits = start.habits /\ losses = start.losses
  /\ zpy = game /\ conn = "sync"
  /\ ui = Mounted(game)
  /\ armed = {} /\ haunted = FALSE
  /\ outbox = <<>> /\ inbox = <<>>
  /\ orphans = {}

Live == ui.page = "mounted"
Synced == conn = "sync" /\ Live

network == <<game, conn, inbox, losses, habits>>
timers == <<armed, haunted, orphans>>

\* Take one of the outcomes of an attempt.
Take(outcomes) ==
  \E o \in outcomes :
    /\ ui' = o.ui /\ zpy' = o.zpy /\ outbox' = outbox \o o.sent

-----------------------------------------------------------------------------
(* The user.                                                               *)

Submit ==
  /\ Synced /\ ~ui.action_pending /\ Len(outbox) < MaxQueue
  /\ Take(OnSubmit(ui, zpy))
  /\ UNCHANGED <<network, timers>>

\* The client refuses to attempt anything until it is in sync, but the page
\* has said that an action is pending by then.
SubmitOffline ==
  /\ Live /\ conn # "sync" /\ ~ui.action_pending
  /\ ui' = [ui EXCEPT !.action_pending = TRUE]
  /\ UNCHANGED <<zpy, outbox, network, timers>>

ClickDeck ==
  /\ Synced /\ zpy.phase = "DRAW" /\ zpy.cur = Me /\ Len(outbox) < MaxQueue
  /\ Take(Attempt(ui, zpy, Intent("draw_card", Nothing, FALSE, {})))
  /\ UNCHANGED <<network, timers>>

UndoPlay ==
  /\ "undo" \in habits /\ Synced /\ ~ui.action_pending
  /\ Len(outbox) < MaxQueue
  /\ zpy.play # Nothing /\ Len(ui.seen) + Size(zpy.play) <= MaxSeen
  /\ Take(Attempt(ui, zpy, Intent("undo_play", zpy.play, FALSE, {})))
  /\ UNCHANGED <<network, timers>>

\* Which areas are shown: the hand, area 1 and, for a player who lays out a
\* fly in pieces, all of them and an empty one.
Variadic == ui.full_control /\ zpy.phase \in {"LEAD", "FOLLOW"}
Shown ==
  (IF zpy.phase = "FINISH" THEN {} ELSE {0}) \union
  (IF Variadic THEN 1 .. Min({Len(ui.staged) + 1, MaxAreas})
   ELSE IF zpy.phase \in {"FRIEND", "FINISH"} THEN {} ELSE {1})

Arrange(s) == ui' = s /\ UNCHANGED <<zpy, outbox, network, timers>>
Selecting == Cardinality(ui.id_set) <= MaxSelect

ClickCard ==
  /\ Live
  /\ \E id \in OnPage(ui) :
       /\ ui.id_to_area[id] \in Shown
       /\ \/ Arrange(MoveCards(ui, zpy.phase,
                               IF ui.id_to_area[id] = 0 THEN 1 ELSE 0, id))
          \/ /\ "select" \in habits /\ Selecting
             /\ \/ Arrange(Toggle(ui, id))
                \/ /\ ui.prev_start # 0
                   /\ \E s \in Stretch(ui, id) : Arrange(s)

DragCard ==
  /\ Live /\ "drag" \in habits
  /\ \E id \in OnPage(ui), dst \in Shown :
       /\ ui.id_to_area[id] \in Shown
       /\ Arrange(MoveCards(IF id \in ui.selected THEN ui ELSE DeselectAll(ui),
                            zpy.phase, dst, id))

SelectAll ==
  /\ Live /\ "select" \in habits /\ Selecting
  /\ Arrange([ui EXCEPT !.selected = ui.id_set])

ClickOut == Live /\ Arrange(DeselectAll(ui))

ToggleFullControl ==
  /\ Live /\ "chunk" \in habits /\ zpy.phase \in {"LEAD", "FOLLOW"}
  /\ IF ui.full_control
     THEN Arrange([ResetPlays(ui) EXCEPT !.full_control = FALSE])
     ELSE Arrange([ui EXCEPT !.full_control = TRUE])

ToggleAutoPlay ==
  /\ Live /\ zpy.phase = "FOLLOW" /\ zpy.leader # Me
  /\ Arrange([ui EXCEPT !.auto_play = ~@ /\ AllStaged(ui) # {}])

KeyReset == Live /\ Arrange(ResetPlays(ui))

-----------------------------------------------------------------------------
(* Timers, the connection and what leaves or enters the screen.            *)

\* A timer for a draw runs out.  A former component sees the turn it left in.
Draw(page) ==
  /\ page \in armed /\ Len(outbox) < MaxQueue
  /\ armed' = armed \ {page}
  /\ IF page = "live" /\ zpy.cur # Me
     THEN UNCHANGED <<ui, outbox>>
     ELSE /\ ui' = IF page = "live" /\ Live
                   THEN [ui EXCEPT !.action_pending = TRUE] ELSE ui
          /\ IF conn = "sync"
             THEN outbox' = Append(outbox,
                    [Intent("draw_card", Nothing, FALSE, {}) EXCEPT !.page = page])
             ELSE outbox' = outbox
  /\ UNCHANGED <<zpy, network, haunted, orphans>>

\* While there is no state anything that renders the game takes the play area
\* off the screen, and its subscriptions and its timer stay.
Unmount ==
  /\ Live /\ conn # "sync"
  /\ ui' = Unmounted
  /\ haunted' = (haunted \/ (ui.auto_draw /\ zpy.phase = "DRAW" /\ zpy.cur = Me))
  /\ armed' = (armed \ {"live"}) \union
                (IF "live" \in armed /\ zpy.cur = Me THEN {"former"} ELSE {})
  /\ UNCHANGED <<zpy, outbox, network, orphans>>

Lose ==
  /\ losses > 0 /\ conn # "closed" /\ ui.page # "crashed"
  /\ conn' = "closed" /\ losses' = losses - 1
  /\ inbox' = <<>> /\ outbox' = <<>>
  /\ UNCHANGED <<game, zpy, ui, timers, habits>>

Reconnect ==
  /\ conn = "closed"
  /\ conn' = "pending-reset" /\ inbox' = <<Reset(game)>>
  /\ UNCHANGED <<game, zpy, outbox, ui, timers, losses, habits>>

-----------------------------------------------------------------------------
(* The server.                                                             *)

\* What the server may make of an intent.
Effects(r, i) ==
  LET kind == CASE i.kind = "draw_card" -> "add_to_hand"
                [] i.kind = "contest_fly" -> "reject_fly"
                [] i.kind = "ready" /\ r.consensus \union {i.who} = Seats ->
                     "install_host"
                [] OTHER -> i.kind
      cards == CASE kind = "add_to_hand" ->
                      IF i.who = Me THEN {One(f) : f \in Faces} ELSE {Nothing}
                 [] kind = "reject_fly" ->
                      {c \in [Faces -> 0 .. Size(r.lead)] : AtMost(c, r.lead)}
                 [] OTHER -> {i.cards}
  IN {e \in {[kind |-> kind, who |-> i.who, cards |-> c, big |-> i.big] :
               c \in cards} : Legal(r, e)}

\* A request of Me's.  A contest may always fail, and what answers a
\* prediction the client drops.
Serve ==
  /\ outbox # <<>> /\ Len(inbox) <= MaxQueue
  /\ LET i == Head(outbox)
     IN \/ \E e \in Effects(game, i) :
             /\ game' = Apply(game, e)
             /\ inbox' = IF i.kind \in Predictable THEN inbox
                         ELSE Append(inbox, Update(e, i))
        \/ /\ Effects(game, i) = {} \/ i.kind = "contest_fly"
           /\ game' = game
           /\ inbox' = Append(inbox, Reject(i))
  /\ outbox' = Tail(outbox)
  /\ UNCHANGED <<zpy, conn, ui, timers, losses, habits>>

\* What another seat may want, Me's cards apart: its own are all of one face.
Wish(kind, p, n, big) ==
  LET some == CHOOSE f \in Faces : TRUE
  IN [kind |-> kind, who |-> p, big |-> big,
      cards |-> [f \in Faces |-> IF f = some THEN n ELSE 0]]

Wishes(r, p) ==
  {Wish(k, p, 0, FALSE) : k \in {"draw_card", "ready", "replace_kitty",
     "call_friends", "contest_fly", "pass_contest", "collect_trick"}}
  \union (UNION {{Wish("lead_play", p, n, big) : big \in BOOLEAN} :
                   n \in 1 .. Min({2, Size(r.hand)})})
  \union {Wish("follow_lead", p, 0, big) : big \in BOOLEAN}

OtherSeat ==
  /\ Len(inbox) < MaxQueue
  /\ \E p \in Seats \ {Me} : \E i \in Wishes(game, p) :
       \E e \in Effects(game, i) :
         /\ game' = Apply(game, e) /\ game' # game
         /\ inbox' = IF conn = "closed" THEN inbox
                     ELSE Append(inbox, Update(e, NoTx))
  /\ UNCHANGED <<zpy, conn, outbox, ui, timers, losses, habits>>

-----------------------------------------------------------------------------
(* The page takes the server's next message.                               *)

\* The kinds of card change that no mounted component was told of.
FlyOpen(r) == r.phase = "FLY" /\ r.leader = Me

TakeReset ==
  LET m == Head(inbox)
  IN /\ m.verb = "reset"
     /\ conn' = "sync"
     /\ \E s \in IF Live THEN OnReset(ui, m.state) ELSE {Mounted(m.state)} :
          /\ Take(TryAutoPlay(s, m.state))
          /\ armed' = armed \union TryAutoDraw(s, m.state)
     /\ orphans' = IF FlyOpen(m.state) /\ (~Live \/ "fly" \in orphans)
                   THEN {"fly"} ELSE {}

TakeUpdate ==
  LET m == Head(inbox)
      e == m.effect
      z == Apply(zpy, e)
  IN /\ m.verb = "update"
     /\ \E s \in OnUpdate(ui, z, e) :
          IF m.tx = NoTx
          THEN IF e.kind = "follow_lead" THEN Take(TryAutoPlay(s, z))
               ELSE Take(Idle(s, z))
          ELSE Take(Idle(OnAnswer(s, e, m.tx), z))
     /\ armed' = IF e.kind = "add_to_hand"
                 THEN armed \union TryAutoDraw(ui, z) ELSE armed
     /\ orphans' = IF m.tx # NoTx /\ m.tx.page = "former"
                   THEN orphans \union {"draw"} ELSE orphans
     /\ UNCHANGED conn

TakeReject ==
  LET m == Head(inbox)
  IN /\ m.verb = "reject"
     /\ Take(Idle(IF m.tx.page = "live" THEN OnEffect(ui) ELSE ui, zpy))
     /\ UNCHANGED <<conn, armed, orphans>>

Deliver ==
  /\ inbox # <<>> /\ ui.page # "crashed"
  /\ TakeReset \/ TakeUpdate \/ TakeReject
  /\ inbox' = Tail(inbox)
  /\ UNCHANGED <<game, losses, habits, haunted>>

User ==
  \/ Submit \/ SubmitOffline \/ ClickDeck \/ UndoPlay
  \/ ClickCard \/ DragCard \/ SelectAll \/ ClickOut \/ KeyReset
  \/ ToggleFullControl \/ ToggleAutoPlay

Next ==
  \/ User
  \/ \E page \in {"live", "former"} : Draw(page)
  \/ Unmount \/ Lose \/ Reconnect
  \/ Serve \/ OtherSeat \/ Deliver

Spec == Init /\ [][Next]_vars

\* The connection delivers, the server serves and the client reconnects; the
\* user, the other players and the timers need not do anything.
FairSpec == Spec /\ WF_vars(Deliver) /\ WF_vars(Serve) /\ WF_vars(Reconnect)

-----------------------------------------------------------------------------
(* What the page is to keep.                                               *)

\* What validate() and the selection's handler assert of the page's state: a
\* card is in one area, which id_to_area knows; the selection is of cards on
\* the page, and where it started is selected.
Coherent ==
  Live =>
    /\ ui.id_set = OnPage(ui)
    /\ \A i \in ui.hand : ui.id_to_area[i] = 0
    /\ \A k \in DOMAIN ui.staged : \A i \in ui.staged[k] : ui.id_to_area[i] = k
    /\ ui.selected \subseteq ui.id_set
    /\ ui.prev_start # 0 => ui.prev_start \in ui.selected
    /\ ui.prev_stop # 0 => ui.prev_stop \in ui.id_set

\* While the page is in sync its cards are, face by face, the hand of the
\* round it shows: through draws, the kitty, predicted plays, flies decided
\* later, undos, lost connections and lost requests.  Two kinds of change
\* pass a component by and are exempt: a fly that was open when it mounted,
\* and a draw made by one that is no longer mounted.
AreasAreHand ==
  Synced /\ orphans = {} => Tally(ui, OnPage(ui)) = zpy.hand

\* An action never stays pending: it is answered, or the reset after a lost
\* connection clears it.
ActionReturns ==
  (Live /\ ui.action_pending) ~> ~(Live /\ ui.action_pending)

\* What onPlayEffect() asserts: no fly is led while one is in flight.
FlyLandsFirst == ui.page # "crashed"
=============================================================================
