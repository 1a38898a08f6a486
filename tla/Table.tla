------------------------------- MODULE Table -------------------------------
(***************************************************************************)
(* The engine as the protocol sees it (src/protocol/engine.ts, implemented *)
(* by src/lib/zpy/engine.ts): operators from a state and an intent or an   *)
(* effect to a state, for the server's copy and for every client's copy of *)
(* the game.                                                               *)
(*                                                                         *)
(* The game itself is in Zpy.  Here it is cut down to what replication can *)
(* get wrong, who sits where and whose turn it is: sitting down and        *)
(* leaving, the start, the deal, and tricks with leads, follows and undos. *)
(* No card is named: a follow only says whether it beats the lead.         *)
(***************************************************************************)
EXTENDS Integers, SequencesExt

CONSTANTS
  Users,        \* everybody who may be at the table
  NULL,
  MinPlayers,   \* ZPY.min_players
  MaxPlayers,   \* options.max_players
  DeckSize      \* cards to deal

ASSUME TableAssumption ==
  /\ IsFiniteSet(Users) /\ NULL \notin Users /\ NULL \notin Nat
  /\ MinPlayers \in Nat \ {0} /\ MaxPlayers \in Nat /\ DeckSize \in Nat \ {0}

\* How good a play is: a lead, and a follow that does not or does beat it.
Lead == 1
Follows == {0, 2}

\* The states of the engine.  cur is cur_idx, left is deck_sz and tricks is the
\* number of cards everybody holds; the fields of play are 0, NULL or empty in
\* the lobby.
Phases == {"INIT", "DRAW", "PREPARE", "LEAD", "FOLLOW", "FINISH"}
States == [phase : Phases, owner : Users \cup {NULL}, players : Seq(Users), left : Int,
           cur : Nat \cup {NULL}, leader : Users \cup {NULL}, tricks : Int,
           plays : [Users -> Follows \cup {Lead, NULL}], winning : Users \cup {NULL}]
NoPlays == [u \in Users |-> NULL]
Empty == [phase |-> "INIT", owner |-> NULL, players |-> <<>>, left |-> 0, cur |-> NULL,
          leader |-> NULL, tricks |-> 0, plays |-> NoPlays, winning |-> NULL]

ASSUME StatesAssumption == NULL \notin States

\* A call of a method: an intent, an action or an effect.
Call(kind, p, arg) == [kind |-> kind, p |-> p, arg |-> arg]

-----------------------------------------------------------------------------

Seated(st) == Range(st.players)

\* order: the seat of p, undefined for somebody who has none.
Seat(st, p) ==
  IF p \in Seated(st) THEN Min({i \in DOMAIN st.players : st.players[i] = p}) - 1 ELSE NULL

current(st) == IF st.cur # NULL /\ st.cur < Len(st.players) THEN st.players[st.cur + 1] ELSE NULL

\* next_player_idx; ++null is 1.
Next_idx(st, i) ==
  LET next == IF i = NULL THEN 1 ELSE i + 1
  IN  IF next < Len(st.players) THEN next ELSE 0

trick_over(plays, st) == Cardinality({u \in Users : plays[u] # NULL}) = Len(st.players)

\* commit_play: the play, the winner so far, and the turn.
CommitPlay(st, p, play) ==
  [st EXCEPT !.plays[p] = play,
             !.winning = IF st.winning = NULL THEN p
                         ELSE IF st.plays[st.winning] >= play THEN st.winning ELSE p,
             !.cur = Next_idx(st, st.cur)]

\* The winner among those who played before p: the first of the best, with the
\* leader to begin with.
WinnerBefore(st, p) ==
  LET n == Len(st.players)
      from(q) == (Seat(st, q) - Seat(st, st.leader) + n) % n
      before == {q \in Seated(st) : from(q) < from(p) /\ st.plays[q] # NULL}
      best == {q \in before : \A r \in before \ {q} :
                 \/ st.plays[q] > st.plays[r]
                 \/ st.plays[q] = st.plays[r] /\ from(q) < from(r)}
  IN  IF best = {} THEN st.leader ELSE CHOOSE q \in best : TRUE

\* What the methods commit, each with the player p who is at it.
AddPlayer(st, p) ==
  [st EXCEPT !.owner = IF st.players = <<>> THEN p ELSE st.owner,
             !.players = Append(st.players, p)]

RmPlayer(st, p) ==
  LET left == RemoveAt(st.players, Seat(st, p) + 1)
  IN  [st EXCEPT !.players = left,
                 !.owner = IF p # st.owner THEN st.owner
                           ELSE IF left = <<>> THEN NULL ELSE left[1]]

InitGame(st, players) ==
  LET seated == [st EXCEPT !.players = players]
  IN  [seated EXCEPT !.phase = "DRAW", !.left = DeckSize,
                     !.cur = IF st.owner \in Seated(seated)
                             THEN Seat(seated, st.owner) ELSE NULL]

AddToHand(st) ==
  [st EXCEPT !.left = st.left - 1,
             !.phase = IF st.left = 1 THEN "PREPARE" ELSE st.phase,
             !.cur = Next_idx(st, st.cur)]

ObserveLead(st, p, play) == [CommitPlay(st, p, play) EXCEPT !.phase = "FOLLOW"]

ObserveFollow(st, p, play) ==
  LET played == CommitPlay(st, p, play)
  IN  IF trick_over(played.plays, st) THEN [played EXCEPT !.cur = NULL] ELSE played

ObserveUndo(st, p) ==
  [st EXCEPT !.plays[p] = NULL, !.cur = Seat(st, p),
             !.winning = IF p = st.winning THEN WinnerBefore(st, p) ELSE st.winning]

CollectTrick(st, p) ==
  IF st.tricks = 1 THEN [st EXCEPT !.phase = "FINISH"]
  ELSE [st EXCEPT !.phase = "LEAD", !.leader = p, !.cur = Seat(st, p),
                  !.tricks = st.tricks - 1, !.winning = NULL, !.plays = NoPlays]

\* What is committed, by the name of the effect.
Commit(st, e) ==
  CASE e.kind = "add_player"    -> AddPlayer(st, e.p)
    [] e.kind = "rm_player"     -> RmPlayer(st, e.p)
    [] e.kind = "init_game"     -> InitGame(st, e.arg)
    [] e.kind = "add_to_hand"   -> AddToHand(st)
    [] e.kind = "observe_undo"  -> ObserveUndo(st, e.p)
    [] e.kind = "collect_trick" -> CollectTrick(st, e.p)
    [] e.kind \in {"lead_play", "observe_lead"}     -> ObserveLead(st, e.p, e.arg)
    [] e.kind \in {"follow_lead", "observe_follow"} -> ObserveFollow(st, e.p, e.arg)

\* Slip: whoever is at the table may play.
my_turn_ever(st, p) == p \in Seated(st)
my_turn(st, p) == p = current(st)

\* When a method of an Action does not return a ZPY.Error.
CheckUndo(st, p) ==
  /\ st.phase = "FOLLOW" /\ st.plays[p] # NULL /\ p # st.leader
  /\ Next_idx(st, Seat(st, p)) = st.cur

Allowed(st, m) ==
  CASE m.kind = "add_player" ->
         st.phase = "INIT" /\ m.p \notin Seated(st) /\ Len(st.players) < MaxPlayers
    [] m.kind = "rm_player"   -> st.phase = "INIT" /\ m.p \in Seated(st)
    [] m.kind = "start_game"  ->
         st.phase = "INIT" /\ m.p = st.owner /\ Len(st.players) >= MinPlayers
    [] m.kind = "draw_card"   -> st.phase = "DRAW" /\ my_turn(st, m.p)
    [] m.kind = "lead_play"   -> st.phase = "LEAD" /\ my_turn(st, m.p)
    [] m.kind = "follow_lead" -> st.phase = "FOLLOW" /\ my_turn(st, m.p)
    [] m.kind = "undo_play"   -> CheckUndo(st, m.p)
    [] m.kind = "collect_trick" ->
         st.phase = "FOLLOW" /\ trick_over(st.plays, st) /\ m.p = st.winning

-----------------------------------------------------------------------------
(* The engine's interface *)

\* The effects an intent may have; array_shuffle seats the players anew.
EffectsOf(st, m) ==
  CASE m.kind = "start_game" ->
         {Call("init_game", m.p, ps) :
            ps \in {f \in [DOMAIN st.players -> Seated(st)] : Range(f) = Seated(st)}}
    [] m.kind = "draw_card" -> {Call("add_to_hand", m.p, NULL)}
    [] m.kind = "undo_play" -> {Call("observe_undo", m.p, NULL)}
    [] OTHER -> {m}

\* larp: the effects of m on the server's copy, none if it is an error.
Larp(st, m) == IF Allowed(st, m) THEN EffectsOf(st, m) ELSE {}

\* you_and_them: what u is sent of e.  Others are shown a play, and are not to
\* check it against a hand they do not see.
EffectFor(e, u) ==
  IF u = e.p THEN e
  ELSE CASE e.kind = "lead_play"   -> [e EXCEPT !.kind = "observe_lead"]
         [] e.kind = "follow_lead" -> [e EXCEPT !.kind = "observe_follow"]
         [] OTHER -> e

\* predict's switch, as far as this table goes: the rest is null.
Predictable == {"add_player", "rm_player", "lead_play", "follow_lead", "collect_trick"}

\* apply_client on the copy of u: NULL for an error.  Effects that are also
\* intents check as the intents do; collect_trick counts the cards in u's own
\* hand, and fails in the copy of somebody who has none.
Apply(st, e, u) ==
  IF e.kind \in Predictable /\ ~Allowed(st, e) THEN NULL
  ELSE IF e.kind = "collect_trick" /\ u \notin Seated(st) THEN NULL
  ELSE Commit(st, e)

\* translate: somebody who parts leaves the table while it is in the lobby.
Translate(st, p) == IF st.phase = "INIT" THEN Call("rm_player", p, NULL) ELSE NULL
=============================================================================
